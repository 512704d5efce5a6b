----------------------------- MODULE ClientProofs -----------------------------
(***************************************************************************)
(* Proofs about the client, for any number of its runs and accounts, any    *)
(* command lines, and a chain that moves between any two of their requests. *)
(***************************************************************************)
EXTENDS Client, LedgerProofs, SequenceTheorems

----------------------------------------------------------------------------
(* Sums and lists of up to two elements, which commands make.                *)

\* The gates of no record, of one, and of two: what execute_fee compares.
LEMMA ShortSums ==
    ASSUME NEW f, IsFiniteSet(DOMAIN f)
    PROVE  /\ DOMAIN f = {} => SumFunction(f) = 0
           /\ DOMAIN f = 1..1 /\ f[1] \in Int => SumFunction(f) = f[1]
           /\ DOMAIN f = 1..2 /\ f[1] \in Int /\ f[2] \in Int =>
                    SumFunction(f) = f[1] + f[2]
<1>1. PICK sum : /\ SumFunction(f) = sum[DOMAIN f]
                 /\ sum[{}] = 0
                 /\ \A s \in SUBSET DOMAIN f : s # {} =>
                        \E x \in s : sum[s] = f[x] + sum[s \ {x}]
    BY SumSteps
<1>2. ASSUME NEW x \in DOMAIN f, f[x] \in Int PROVE sum[{x}] = f[x]
    <2>1. {x} \in SUBSET DOMAIN f /\ {x} # {} /\ {x} \ {x} = {}
        OBVIOUS
    <2>2. sum[{x}] = f[x] + sum[{}]
        BY <1>1, <2>1
    <2>3. QED
        BY <1>1, <1>2, <2>2
<1>3. ASSUME DOMAIN f = 1..2, f[1] \in Int, f[2] \in Int
      PROVE  SumFunction(f) = f[1] + f[2]
    <2>1. 1..2 = {1, 2} /\ {1, 2} \ {1} = {2} /\ {1, 2} \ {2} = {1} /\ {1, 2} # {}
        OBVIOUS
    <2>2. {1, 2} \in SUBSET DOMAIN f
        BY <1>3, <2>1
    <2>3. PICK x \in {1, 2} : sum[{1, 2}] = f[x] + sum[{1, 2} \ {x}]
        BY <1>1, <2>1, <2>2
    <2>4. sum[{1}] = f[1] /\ sum[{2}] = f[2]
        BY <1>2, <1>3
    <2>5. SumFunction(f) = sum[{1, 2}]
        BY <1>1, <1>3, <2>1
    <2>6. CASE x = 1
        <3>1. sum[{1, 2}] = f[1] + f[2]
            BY <2>1, <2>3, <2>4, <2>6
        <3>2. QED
            BY <2>5, <3>1
    <2>7. CASE x = 2
        <3>1. sum[{1, 2}] = f[2] + f[1]
            BY <2>1, <2>3, <2>4, <2>7
        <3>2. QED
            BY <1>3, <2>5, <3>1
    <2>8. QED
        BY <2>6, <2>7
<1>4. ASSUME DOMAIN f = 1..1, f[1] \in Int PROVE SumFunction(f) = f[1]
    <2>1. 1..1 = {1}
        OBVIOUS
    <2>2. QED
        BY <1>1, <1>2, <1>4, <2>1
<1>5. QED
    BY <1>1, <1>3, <1>4

LEMMA GatesOfTwo ==
    ASSUME NEW r, NEW s, r.gates \in Int, s.gates \in Int
    PROVE  /\ GatesOf(<<>>) = 0
           /\ GatesOf(<<r>>) = r.gates
           /\ GatesOf(<<r, s>>) = r.gates + s.gates
<1>1. IsFiniteSet(1..1) /\ IsFiniteSet(1..2)
    BY FS_Interval, 1 \in Int, 2 \in Int
<1>2. GatesOf(<<>>) = 0
    <2> DEFINE f == [i \in DOMAIN <<>> |-> <<>>[i].gates]
    <2>1. DOMAIN f = {}
        OBVIOUS
    <2>2. IsFiniteSet(DOMAIN f)
        BY <2>1, FS_EmptySet
    <2> HIDE DEF f
    <2>3. SumFunction(f) = 0
        BY <2>1, <2>2, ShortSums
    <2>4. QED
        BY <2>3 DEF f, GatesOf
<1>3. GatesOf(<<r>>) = r.gates
    <2> DEFINE f == [i \in DOMAIN <<r>> |-> <<r>>[i].gates]
    <2>1. DOMAIN f = 1..1 /\ f[1] = r.gates
        OBVIOUS
    <2> HIDE DEF f
    <2>2. IsFiniteSet(DOMAIN f)
        BY <2>1, <1>1
    <2>3. SumFunction(f) = r.gates
        BY <2>1, <2>2, ShortSums
    <2>4. QED
        BY <2>3 DEF f, GatesOf
<1>4. GatesOf(<<r, s>>) = r.gates + s.gates
    <2> DEFINE f == [i \in DOMAIN <<r, s>> |-> <<r, s>>[i].gates]
    <2>1. DOMAIN f = 1..2 /\ f[1] = r.gates /\ f[2] = s.gates
        OBVIOUS
    <2> HIDE DEF f
    <2>2. IsFiniteSet(DOMAIN f)
        BY <2>1, <1>1
    <2>3. SumFunction(f) = r.gates + s.gates
        BY <2>1, <2>2, ShortSums
    <2>4. QED
        BY <2>3 DEF f, GatesOf
<1>5. QED
    BY <1>2, <1>3, <1>4

\* What record_serial_numbers and its like collect from one transition or two.
LEMMA FlattenTwo ==
    ASSUME NEW s, NEW t, IsList(s), IsList(t)
    PROVE  /\ FlattenSeq(<<>>) = <<>>
           /\ FlattenSeq(<<s>>) = s
           /\ FlattenSeq(<<s, t>>) = s \o t
<1> DEFINE S == ToSet(s) \cup ToSet(t)
<1>1. s \in Seq(S) /\ t \in Seq(S)
    <2> DEFINE A == ToSet(s)
               B == ToSet(t)
    <2>1. s \in Seq(A) /\ t \in Seq(B)
        BY DEF IsList
    <2> HIDE DEF A, B
    <2>2. s \in Seq(A \cup B) /\ t \in Seq(A \cup B)
        BY <2>1
    <2>3. QED
        BY <2>2 DEF A, B
<1> HIDE DEF S
<1>2. FlattenSeq(<<>>) = <<>>
    BY DEF FlattenSeq
<1>3. FlattenSeq(<<s>>) = s
    <2> DEFINE seqs == <<s>>
    <2>1. seqs \in Seq(Seq(S)) /\ seqs # <<>> /\ Len(seqs) = 1 /\ seqs[1] = s
        BY <1>1
    <2> HIDE DEF seqs
    <2>2. PICK flat : FlattenSeq(seqs) = flat[Len(seqs)] /\ flat[1] = seqs[1]
        BY <2>1, FlattenSteps
    <2>3. QED
        BY <2>1, <2>2 DEF seqs
<1>4. FlattenSeq(<<s, t>>) = s \o t
    <2> DEFINE seqs == <<s, t>>
    <2>1. /\ seqs \in Seq(Seq(S)) /\ seqs # <<>> /\ Len(seqs) = 2
          /\ seqs[1] = s /\ seqs[2] = t
        BY <1>1
    <2> HIDE DEF seqs
    <2>2. PICK flat : /\ FlattenSeq(seqs) = flat[Len(seqs)]
                      /\ flat[1] = seqs[1]
                      /\ \A i \in 1..Len(seqs) : i # 1 => flat[i] = flat[i - 1] \o seqs[i]
        BY <2>1, FlattenSteps
    <2>3. flat[2] = flat[1] \o seqs[2]
        <3>1. 2 \in 1..Len(seqs) /\ 2 # 1 /\ 2 - 1 = 1
            BY <2>1
        <3>2. flat[2] = flat[2 - 1] \o seqs[2]
            BY <2>2, <3>1
        <3>3. QED
            BY <3>1, <3>2
    <2>4. QED
        BY <2>1, <2>2, <2>3 DEF seqs
<1>5. QED
    BY <1>2, <1>3, <1>4

----------------------------------------------------------------------------
(* What functions consume and create.                                        *)

\* The records of a call have the types that its function takes.
Takes(call) == [i \in DOMAIN call.records |-> call.records[i].name] = InputNames(call)

\* A call of numbers, as execution gets it.
IsCall(call) ==
    /\ IsList(call.records) /\ Takes(call)
    /\ call.amount \in Nat
    /\ \A r \in ToSet(call.records) : r.gates \in Int

\* The functions of credits.aleo and of the sample program take two records at most, and a
\* function that computes with its records has them.
LEMMA CallRecords ==
    ASSUME NEW call, IsCall(call)
    PROVE  LET in == call.records IN
           /\ in \in {<<>>, <<in[1]>>, <<in[1], in[2]>>}
           /\ call.function \in Subtracting \cup {"combine"} => in[1].gates \in Int
           /\ call.function = "combine" => in[2].gates \in Int
<1> DEFINE in == call.records
           names == InputNames(call)
<1>1. /\ names \in {<<>>, <<"credits">>, <<"credits", "credits">>, <<"staked_credits">>,
                    <<"token">>}
      /\ call.function \in Subtracting => Len(names) = 1
      /\ call.function = "combine" => Len(names) = 2
    BY DEF InputNames, Subtracting
<1>2. Len(names) \in {0, 1, 2} /\ DOMAIN names = 1..Len(names)
    BY <1>1
<1>3. DOMAIN in = 1..Len(names)
    <2>1. DOMAIN [i \in DOMAIN in |-> in[i].name] = DOMAIN in
        OBVIOUS
    <2>2. QED
        BY <1>2, <2>1 DEF IsCall, Takes
<1>4. Len(in) = Len(names) /\ in = [i \in 1..Len(in) |-> in[i]]
    <2>1. Len(in) \in Nat /\ DOMAIN in = 1..Len(in) /\ in = [i \in 1..Len(in) |-> in[i]]
        BY ListDomain DEF IsCall
    <2> HIDE DEF in, names
    <2>2. QED
        BY <1>2, <1>3, <2>1
<1>5. \A i \in 1..Len(in) : in[i].gates \in Int
    BY <1>3, <1>4 DEF IsCall, ToSet
<1> HIDE DEF in, names
<1>6. in \in {<<>>, <<in[1]>>, <<in[1], in[2]>>}
    <2>1. CASE Len(in) = 0
        BY <1>4, <2>1
    <2>2. CASE Len(in) = 1
        BY <1>4, <2>2
    <2>3. CASE Len(in) = 2
        BY <1>4, <2>3
    <2>4. QED
        BY <1>2, <1>4, <2>1, <2>2, <2>3
<1>7. QED
    BY <1>1, <1>4, <1>5, <1>6 DEF in

\* Outputs are two at most, their nonces count from the seed, and what they hold does not
\* depend on it.
LEMMA FunctionOutputs ==
    ASSUME NEW call, IsCall(call)
    PROVE  \E k \in 0..2 : \E gates \in [1..k -> Int] : \A seed \in Nat :
               LET outs == Outputs(call, seed) IN
               /\ outs = [n \in 1..k |-> outs[n]]
               /\ \A n \in 1..k : outs[n].gates = gates[n] /\ outs[n].seed = seed + (n - 1)
<1> DEFINE in == call.records
           Change(n) == MintRecord(in[1].owner, in[1].gates - call.amount, n)
           Shape(k, gates) ==
               \A seed \in Nat :
                   LET outs == Outputs(call, seed) IN
                   /\ outs = [n \in 1..k |-> outs[n]]
                   /\ \A n \in 1..k :
                        outs[n].gates = gates[n] /\ outs[n].seed = seed + (n - 1)
           Two(g, h) ==
               \A seed \in Nat : \E r, s :
                    /\ Outputs(call, seed) = <<r, s>>
                    /\ r.gates = g /\ s.gates = h /\ r.seed = seed /\ s.seed = seed + 1
<1> SUFFICES \E k \in 0..2 : \E gates \in [1..k -> Int] : Shape(k, gates)
    OBVIOUS
<1>1. ASSUME NEW g \in Int, NEW h \in Int, Two(g, h)
      PROVE  \E k \in 0..2 : \E gates \in [1..k -> Int] : Shape(k, gates)
    <2>1. Shape(2, <<g, h>>)
        <3> SUFFICES ASSUME NEW seed \in Nat
                     PROVE  LET outs == Outputs(call, seed) IN
                            /\ outs = [n \in 1..2 |-> outs[n]]
                            /\ \A n \in 1..2 : /\ outs[n].gates = <<g, h>>[n]
                                               /\ outs[n].seed = seed + (n - 1)
            OBVIOUS
        <3>1. PICK r, s : /\ Outputs(call, seed) = <<r, s>>
                          /\ r.gates = g /\ s.gates = h
                          /\ r.seed = seed /\ s.seed = seed + 1
            BY <1>1
        <3>2. QED
            BY <3>1
    <2>2. 2 \in 0..2 /\ <<g, h>> \in [1..2 -> Int]
        BY <1>1
    <2> HIDE DEF Shape
    <2>3. QED
        BY <2>1, <2>2
<1>2. ASSUME NEW g \in Int,
             \A seed \in Nat : \E r :
                Outputs(call, seed) = <<r>> /\ r.gates = g /\ r.seed = seed
      PROVE  \E k \in 0..2 : \E gates \in [1..k -> Int] : Shape(k, gates)
    <2>1. Shape(1, <<g>>)
        <3> SUFFICES ASSUME NEW seed \in Nat
                     PROVE  LET outs == Outputs(call, seed) IN
                            /\ outs = [n \in 1..1 |-> outs[n]]
                            /\ \A n \in 1..1 : /\ outs[n].gates = <<g>>[n]
                                               /\ outs[n].seed = seed + (n - 1)
            OBVIOUS
        <3>1. PICK r : Outputs(call, seed) = <<r>> /\ r.gates = g /\ r.seed = seed
            BY <1>2
        <3>2. QED
            BY <3>1
    <2>2. 1 \in 0..2 /\ <<g>> \in [1..1 -> Int]
        BY <1>2
    <2> HIDE DEF Shape
    <2>3. QED
        BY <2>1, <2>2
<1>3. ASSUME \A seed \in Nat : Outputs(call, seed) = <<>>
      PROVE  \E k \in 0..2 : \E gates \in [1..k -> Int] : Shape(k, gates)
    <2>1. Shape(0, <<>>)
        BY <1>3
    <2>2. 0 \in 0..2 /\ <<>> \in [1..0 -> Int]
        OBVIOUS
    <2> HIDE DEF Shape
    <2>3. QED
        BY <2>1, <2>2
<1> HIDE DEF Shape, Two
<1>4. CASE call.function = "transfer"
    <2>1. \A n : Outputs(call, n) =
                    <<MintRecord(call.to, call.amount, n), Change(n + 1)>>
        BY <1>4 DEF Outputs
    <2> DEFINE given == call.amount
               left == in[1].gates - call.amount
    <2>2. given \in Int /\ left \in Int
        BY <1>4, CallRecords DEF IsCall, Subtracting
    <2>3. Two(given, left)
        BY <2>1 DEF Two, MintRecord
    <2> HIDE DEF given, left
    <2>4. QED
        BY <1>1, <2>2, <2>3
<1>5. CASE call.function = "combine"
    <2>1. \A n : Outputs(call, n) =
                    <<MintRecord(in[1].owner, in[1].gates + in[2].gates, n)>>
        BY <1>5 DEF Outputs
    <2>2. in[1].gates + in[2].gates \in Int
        BY <1>5, CallRecords DEF IsCall
    <2>3. QED
        BY <1>2, <2>1, <2>2 DEF MintRecord
<1>6. CASE call.function = "split"
    <2>1. \A n : Outputs(call, n) =
                    <<MintRecord(in[1].owner, call.amount, n), Change(n + 1)>>
        BY <1>6 DEF Outputs
    <2> DEFINE given == call.amount
               left == in[1].gates - call.amount
    <2>2. given \in Int /\ left \in Int
        BY <1>6, CallRecords DEF IsCall, Subtracting
    <2>3. Two(given, left)
        BY <2>1 DEF Two, MintRecord
    <2> HIDE DEF given, left
    <2>4. QED
        BY <1>1, <2>2, <2>3
<1>7. CASE call.function = "fee"
    <2>1. \A n : Outputs(call, n) = <<Change(n)>>
        BY <1>7 DEF Outputs
    <2>2. in[1].gates - call.amount \in Int
        BY <1>7, CallRecords DEF IsCall, Subtracting
    <2>3. QED
        BY <1>2, <2>1, <2>2 DEF MintRecord
<1>8. CASE call.function = "stake"
    <2>1. \A n : Outputs(call, n) =
                    <<Change(n), StakedRecord(in[1].owner, call.amount, n + 1, call.to)>>
        BY <1>8 DEF Outputs
    <2> DEFINE given == call.amount
               left == in[1].gates - call.amount
    <2>2. given \in Int /\ left \in Int
        BY <1>8, CallRecords DEF IsCall, Subtracting
    <2>3. Two(left, given)
        BY <2>1 DEF Two, MintRecord, StakedRecord
    <2> HIDE DEF given, left
    <2>4. QED
        BY <1>1, <2>2, <2>3
<1>9. CASE call.function = "unstake"
    <2>1. \A n : Outputs(call, n) =
                    <<MintRecord(in[1].owner, call.amount, n),
                      StakedRecord(in[1].owner, in[1].gates - call.amount, n + 1,
                                   in[1].validator)>>
        BY <1>9 DEF Outputs
    <2> DEFINE given == call.amount
               left == in[1].gates - call.amount
    <2>2. given \in Int /\ left \in Int
        BY <1>9, CallRecords DEF IsCall, Subtracting
    <2>3. Two(given, left)
        BY <2>1 DEF Two, MintRecord, StakedRecord
    <2> HIDE DEF given, left
    <2>4. QED
        BY <1>1, <2>2, <2>3
<1>10. CASE call.function = "mint"
    <2>1. \A n : Outputs(call, n) = <<TokenRecord(call.to, 0, n)>>
        BY <1>10 DEF Outputs
    <2>2. QED
        BY <1>2, <2>1 DEF TokenRecord
<1>11. CASE call.function = "mint_credits"
    <2>1. \A n : Outputs(call, n) = <<TokenRecord(call.to, call.amount, n)>>
        BY <1>11 DEF Outputs
    <2>2. call.amount \in Int
        BY DEF IsCall
    <2>3. QED
        BY <1>2, <2>1, <2>2 DEF TokenRecord
<1>12. CASE call.function \notin Subtracting \cup {"combine", "mint", "mint_credits"}
    <2>1. \A n : Outputs(call, n) = <<>>
        BY <1>12 DEF Outputs, Subtracting
    <2>2. QED
        BY <1>3, <2>1
<1>13. QED
    BY <1>4, <1>5, <1>6, <1>7, <1>8, <1>9, <1>10, <1>11, <1>12 DEF Subtracting

\* What a call consumes and creates, and what it burns: a transition of lists, with the
\* same implicit fee whatever its nonces.
LEMMA TransitionFields ==
    ASSUME NEW call, IsCall(call), NEW seed \in Nat
    PROVE  LET t == Executed(call, seed) IN
           /\ t.ins = call.records /\ IsList(t.ins)
           /\ t.outs = Outputs(call, seed) /\ IsList(t.outs)
           /\ Len(t.outs) \in 0..2
           /\ \A n \in 1..Len(t.outs) :
                t.outs[n].gates \in Int /\ t.outs[n].seed = seed + (n - 1)
           /\ t.fee \in Int /\ t.fee = Executed(call, 0).fee
           /\ t.stake = Staking(call) /\ (t.stake = None \/ t.stake.delta \in Int)
<1> DEFINE outs(n) == Outputs(call, n)
           in == call.records
           Shape(k, gates) ==
               \A n \in Nat :
                    /\ outs(n) = [j \in 1..k |-> outs(n)[j]]
                    /\ \A j \in 1..k :
                        outs(n)[j].gates = gates[j] /\ outs(n)[j].seed = n + (j - 1)
<1>A. PICK k \in 0..2 : \E gates \in [1..k -> Int] : Shape(k, gates)
    BY FunctionOutputs
<1>B. PICK gates \in [1..k -> Int] : Shape(k, gates)
    BY <1>A
<1>1. \A n \in Nat :
          /\ outs(n) = [j \in 1..k |-> outs(n)[j]]
          /\ \A j \in 1..k : outs(n)[j].gates = gates[j] /\ outs(n)[j].seed = n + (j - 1)
    BY <1>B
<1> HIDE DEF outs
<1>2. \A n \in Nat : DOMAIN outs(n) = 1..k /\ Len(outs(n)) = k
    BY <1>1
<1>3. ASSUME NEW n \in Nat PROVE IsList(outs(n))
    <2> DEFINE s == outs(n)
    <2>1. s = [j \in 1..k |-> s[j]] /\ k \in Nat
        BY <1>1
    <2> HIDE DEF s
    <2>2. DOMAIN s = 1..k
        BY <2>1
    <2>3. \A j \in 1..k : s[j] \in ToSet(s)
        BY <2>2 DEF ToSet
    <2> DEFINE T == ToSet(s)
    <2> HIDE DEF T
    <2>4. s \in Seq(T)
        BY <2>1, <2>3 DEF T
    <2>5. QED
        BY <2>4 DEF s, T, IsList
<1>4. \A n \in Nat : GatesOf(outs(n)) = SumFunction(gates)
    <2> SUFFICES ASSUME NEW n \in Nat PROVE GatesOf(outs(n)) = SumFunction(gates)
        OBVIOUS
    <2>1. [j \in DOMAIN outs(n) |-> outs(n)[j].gates] = gates
        BY <1>1, <1>2
    <2>2. QED
        BY <2>1 DEF GatesOf
<1>5. SumFunction(gates) \in Int
    <2>1. IsFiniteSet(DOMAIN gates) /\ DOMAIN gates = 1..k
        BY FS_Interval, 1 \in Int, k \in Int
    <2>2. CASE k = 0
        BY <2>1, <2>2, ShortSums
    <2>3. CASE k = 1
        BY <2>1, <2>3, ShortSums
    <2>4. CASE k = 2
        BY <2>1, <2>4, ShortSums
    <2>5. QED
        BY <2>2, <2>3, <2>4
<1>6. GatesOf(in) \in Int
    <2>1. in \in {<<>>, <<in[1]>>, <<in[1], in[2]>>}
        BY CallRecords
    <2>2. \A r \in ToSet(in) : r.gates \in Int
        BY DEF IsCall
    <2> HIDE DEF in
    <2>3. CASE in = <<>>
        <3> DEFINE zero == [gates |-> 0]
        <3>1. zero.gates \in Int
            OBVIOUS
        <3>2. GatesOf(<<>>) = 0
            BY <3>1, GatesOfTwo
        <3>3. QED
            BY <2>3, <3>2
    <2>4. CASE in = <<in[1]>>
        <3>1. in[1].gates \in Int
            BY <2>2, <2>4 DEF ToSet
        <3>2. GatesOf(<<in[1]>>) = in[1].gates
            BY <3>1, GatesOfTwo
        <3>3. QED
            BY <2>4, <3>1, <3>2
    <2>5. CASE in = <<in[1], in[2]>>
        <3>1. in[1].gates \in Int /\ in[2].gates \in Int
            BY <2>2, <2>5 DEF ToSet
        <3>2. GatesOf(<<in[1], in[2]>>) = in[1].gates + in[2].gates
            BY <3>1, GatesOfTwo
        <3>3. QED
            BY <2>5, <3>1, <3>2
    <2>6. QED
        BY <2>1, <2>3, <2>4, <2>5
<1>7. \A n \in Nat : Executed(call, n).fee = GatesOf(in) - SumFunction(gates)
    BY <1>4 DEF Executed, outs
<1>8. Staking(call) = None \/ Staking(call).delta \in Int
    BY DEF Staking, IsCall
<1>9. /\ Executed(call, seed).ins = in /\ Executed(call, seed).outs = outs(seed)
      /\ Executed(call, seed).stake = Staking(call)
    BY DEF Executed, outs
<1>10. /\ Len(outs(seed)) \in 0..2
       /\ \A n \in 1..Len(outs(seed)) :
            outs(seed)[n].gates \in Int /\ outs(seed)[n].seed = seed + (n - 1)
    BY <1>1, <1>2
<1>11. /\ Executed(call, seed).fee \in Int
       /\ Executed(call, seed).fee = Executed(call, 0).fee
    BY <1>5, <1>6, <1>7
<1>12. IsList(in)
    BY DEF IsCall
<1>13. QED
    BY <1>3, <1>8, <1>9, <1>10, <1>11, <1>12 DEF outs

\* The fee function burns its amount, from a record of credits, and gives the change.
LEMMA FeeTransition ==
    ASSUME NEW record, record.gates \in Int, NEW amount \in Int, NEW seed
    PROVE  LET t == Executed(FeeCall(record, amount), seed) IN
           /\ t.ins = <<record>>
           /\ t.outs = <<MintRecord(record.owner, record.gates - amount, seed)>>
           /\ t.fee = amount
           /\ t.stake = None
<1> DEFINE call == FeeCall(record, amount)
           change == MintRecord(record.owner, record.gates - amount, seed)
<1>1. call.function = "fee" /\ call.records = <<record>> /\ call.amount = amount
    BY DEF FeeCall
<1> HIDE DEF call
<1>2. Outputs(call, seed) = <<change>>
    <2>1. Outputs(call, seed) =
            <<MintRecord(call.records[1].owner, call.records[1].gates - call.amount, seed)>>
        BY <1>1 DEF Outputs
    <2>2. QED
        BY <1>1, <2>1
<1>3. Staking(call) = None
    BY <1>1 DEF Staking
<1>4. GatesOf(<<record>>) = record.gates /\ GatesOf(<<change>>) = record.gates - amount
    <2>1. change.gates = record.gates - amount /\ change.gates \in Int
        BY DEF MintRecord
    <2> HIDE DEF change
    <2>2. QED
        BY <2>1, GatesOfTwo
<1>5. QED
    BY <1>1, <1>2, <1>3, <1>4 DEF Executed, call

\* What is read from a transaction of no transition, of one, and of one with a fee.
LEMMA TransactionParts ==
    ASSUME NEW e, NEW t, NEW u,
           IsList(t.ins), IsList(t.outs), t.fee \in Int,
           IsList(u.ins), IsList(u.outs), u.fee \in Int, u.stake = None
    PROVE  /\ e.transitions = <<>> =>
                /\ RecordSerialNumbers(e) = <<>> /\ OutputRecords(e) = <<>>
                /\ Fees(e) = 0
           /\ e.transitions = <<t>> =>
                /\ RecordSerialNumbers(e) = t.ins /\ OutputRecords(e) = t.outs
                /\ Fees(e) = t.fee
                /\ e.kind # "Deployment" => StakeUpdates(e) = StakeUpdate(t)
           /\ e.transitions = <<t, u>> =>
                /\ RecordSerialNumbers(e) = t.ins \o u.ins
                /\ OutputRecords(e) = t.outs \o u.outs
                /\ Fees(e) = t.fee + u.fee
                /\ e.kind # "Deployment" => StakeUpdates(e) = StakeUpdate(t)
<1>1. IsList(StakeUpdate(t)) /\ StakeUpdate(u) = <<>> /\ IsList(StakeUpdate(u))
    <2>1. ASSUME NEW x PROVE IsList(<<x>>)
        <3>1. <<x>> \in Seq({x}) /\ ToSet(<<x>>) = {x}
            BY DEF ToSet
        <3>2. QED
            BY <3>1 DEF IsList
    <2>2. IsList(<<>>)
        BY DEF IsList, ToSet
    <2>3. QED
        BY <2>1, <2>2 DEF StakeUpdate
<1>2. StakeUpdate(t) \o <<>> = StakeUpdate(t)
    BY DEF StakeUpdate
<1>3. ASSUME e.transitions = <<>>
      PROVE  RecordSerialNumbers(e) = <<>> /\ OutputRecords(e) = <<>> /\ Fees(e) = 0
    <2>1. /\ [i \in DOMAIN e.transitions |-> e.transitions[i].ins] = <<>>
          /\ [i \in DOMAIN e.transitions |-> e.transitions[i].outs] = <<>>
        BY <1>3
    <2>2. FlattenSeq(<<>>) = <<>>
        BY FlattenTwo
    <2> DEFINE fees == [i \in DOMAIN e.transitions |-> e.transitions[i].fee]
    <2>3. DOMAIN fees = {}
        BY <1>3
    <2> HIDE DEF fees
    <2>4. SumFunction(fees) = 0
        BY <2>3, FS_EmptySet, ShortSums
    <2>5. QED
        BY <2>1, <2>2, <2>4 DEF RecordSerialNumbers, OutputRecords, Fees, fees
<1>4. ASSUME e.transitions = <<t>>
      PROVE  /\ RecordSerialNumbers(e) = t.ins /\ OutputRecords(e) = t.outs
             /\ Fees(e) = t.fee
             /\ e.kind # "Deployment" => StakeUpdates(e) = StakeUpdate(t)
    <2>1. /\ [i \in DOMAIN e.transitions |-> e.transitions[i].ins] = <<t.ins>>
          /\ [i \in DOMAIN e.transitions |-> e.transitions[i].outs] = <<t.outs>>
          /\ [i \in DOMAIN e.transitions |-> StakeUpdate(e.transitions[i])]
                = <<StakeUpdate(t)>>
        BY <1>4
    <2>2. /\ FlattenSeq(<<t.ins>>) = t.ins
          /\ FlattenSeq(<<t.outs>>) = t.outs
          /\ FlattenSeq(<<StakeUpdate(t)>>) = StakeUpdate(t)
        BY <1>1, FlattenTwo
    <2> DEFINE fees == [i \in DOMAIN e.transitions |-> e.transitions[i].fee]
    <2>3. DOMAIN fees = 1..1 /\ fees[1] = t.fee
        BY <1>4
    <2> HIDE DEF fees
    <2>4. SumFunction(fees) = t.fee
        BY <2>3, FS_Interval, 1 \in Int, ShortSums
    <2>5. QED
        BY <2>1, <2>2, <2>4
        DEF RecordSerialNumbers, OutputRecords, Fees, StakeUpdates, fees
<1>5. ASSUME e.transitions = <<t, u>>
      PROVE  /\ RecordSerialNumbers(e) = t.ins \o u.ins
             /\ OutputRecords(e) = t.outs \o u.outs
             /\ Fees(e) = t.fee + u.fee
             /\ e.kind # "Deployment" => StakeUpdates(e) = StakeUpdate(t)
    <2>1. /\ [i \in DOMAIN e.transitions |-> e.transitions[i].ins] = <<t.ins, u.ins>>
          /\ [i \in DOMAIN e.transitions |-> e.transitions[i].outs] = <<t.outs, u.outs>>
          /\ [i \in DOMAIN e.transitions |-> StakeUpdate(e.transitions[i])]
                = <<StakeUpdate(t), StakeUpdate(u)>>
        BY <1>5
    <2>2. /\ FlattenSeq(<<t.ins, u.ins>>) = t.ins \o u.ins
          /\ FlattenSeq(<<t.outs, u.outs>>) = t.outs \o u.outs
          /\ FlattenSeq(<<StakeUpdate(t), StakeUpdate(u)>>) = StakeUpdate(t)
        BY <1>1, <1>2, FlattenTwo
    <2> DEFINE fees == [i \in DOMAIN e.transitions |-> e.transitions[i].fee]
    <2>3. DOMAIN fees = 1..2 /\ fees[1] = t.fee /\ fees[2] = u.fee
        BY <1>5
    <2> HIDE DEF fees
    <2>4. SumFunction(fees) = t.fee + u.fee
        BY <2>3, FS_Interval, 1 \in Int, 2 \in Int, ShortSums
    <2>5. QED
        BY <2>1, <2>2, <2>4
        DEF RecordSerialNumbers, OutputRecords, Fees, StakeUpdates, fees
<1>6. QED
    BY <1>3, <1>4, <1>5

----------------------------------------------------------------------------
(* The transaction that a command makes.                                     *)

\* What the transitions of a command cost without a fee transition.
Implicit(i) ==
    IF cmd[i].kind = "deploy" THEN 0 ELSE Executed(cmd[i].call, Seed[i]).fee

FeePaid(i) == FeeIsDue(cmd[i].fee, Implicit(i))

\* The transition of execute_fee, when it makes one.
FeeExecuted(i) ==
    Executed(FeeCall(cmd[i].fee.record, cmd[i].fee.gates - Implicit(i)), Seed[i] + 2)

\* A command that Transaction::execution or Transaction::deployment can be called with.
ReadyCommand(i) ==
    /\ IsCall(cmd[i].call)
    /\ cmd[i].fee # None => cmd[i].fee.gates \in Nat /\ cmd[i].fee.record.gates \in Int

\* The list that Transaction::execution makes, with the fee transition and without.
LEMMA PairOfTransitions ==
    ASSUME NEW x, NEW y
    PROVE  <<x>> \o <<y>> = <<x, y>> /\ <<x>> \o <<>> = <<x>>
<1> DEFINE S == {x, y}
           p == <<x>>
           q == <<y>>
           both == p \o q
<1>1. /\ p \in Seq(S) /\ Len(p) = 1 /\ p[1] = x
      /\ q \in Seq(S) /\ Len(q) = 1 /\ q[1] = y
    OBVIOUS
<1> HIDE DEF p, q, S
<1>2. both \in Seq(S) /\ Len(both) = 2 /\ both[1] = x /\ both[2] = y
    <2>1. /\ both \in Seq(S)
          /\ Len(both) = Len(p) + Len(q)
          /\ \A i \in 1..Len(p) + Len(q) :
                both[i] = IF i <= Len(p) THEN p[i] ELSE q[i - Len(p)]
        BY <1>1, ConcatProperties
    <2>2. QED
        BY <1>1, <2>1
<1> HIDE DEF both
<1>3. both = <<x, y>>
    BY <1>2
<1>4. p \o <<>> = p
    BY <1>1
<1>5. QED
    BY <1>3, <1>4 DEF both, p, q

\* Transaction::execution has the transition of the command first, and execute_fee adds one
\* when the implicit fee does not exceed the one that was asked for.
LEMMA BuiltTransitions ==
    ASSUME NEW i \in Runs, ~BuildFails(i), ReadyCommand(i)
    PROVE  /\ Implicit(i) \in Int
           /\ cmd[i].fee # None => Implicit(i) >= 0
           /\ cmd[i].kind = "deploy" =>
                /\ Built(i).kind = "Deployment"
                /\ Built(i).transitions = IF FeePaid(i) THEN <<FeeExecuted(i)>> ELSE <<>>
           /\ cmd[i].kind # "deploy" =>
                /\ Built(i).kind = "Execution"
                /\ Built(i).transitions =
                    IF FeePaid(i) THEN <<Executed(cmd[i].call, Seed[i]), FeeExecuted(i)>>
                    ELSE <<Executed(cmd[i].call, Seed[i])>>
                /\ Executable(Account[i], cmd[i].call)
<1> DEFINE fee == cmd[i].fee
           t == Executed(cmd[i].call, Seed[i])
<1>1. t.fee \in Int
    <2>1. Seed[i] \in Nat /\ IsCall(cmd[i].call)
        BY SeedAssumption DEF ReadyCommand
    <2>2. QED
        BY <2>1, TransitionFields
<1> HIDE DEF t
<1>2. CASE cmd[i].kind = "deploy"
    <2>1. Implicit(i) = 0
        BY <1>2 DEF Implicit
    <2>2. ~ExecuteFeeFails(Account[i], fee, 0)
        BY <1>2 DEF BuildFails
    <2>3. /\ Built(i).kind = "Deployment"
          /\ Built(i).transitions = ExecuteFee(fee, 0, Seed[i] + 2)
        BY <1>2, <2>2 DEF Built, BuildDeployment, SetHashedId
    <2>4. ExecuteFee(fee, 0, Seed[i] + 2) = IF FeePaid(i) THEN <<FeeExecuted(i)>> ELSE <<>>
        BY <2>1 DEF ExecuteFee, FeePaid, FeeExecuted
    <2>5. QED
        BY <1>2, <2>1, <2>3, <2>4
<1>3. CASE cmd[i].kind # "deploy"
    <2>1. Implicit(i) = t.fee
        BY <1>3 DEF Implicit, t
    <2>2. ~ExecutionFails(Account[i], cmd[i].call, fee, Seed[i])
        BY <1>3 DEF BuildFails
    <2>3. Executable(Account[i], cmd[i].call) /\ ~ExecuteFeeFails(Account[i], fee, t.fee)
        BY <2>2 DEF ExecutionFails, t
    <2>4. fee # None => t.fee >= 0
        BY <1>1, <2>3 DEF ExecuteFeeFails
    <2>5. /\ Built(i).kind = "Execution"
          /\ Built(i).transitions = <<t>> \o ExecuteFee(fee, t.fee, Seed[i] + 2)
        BY <1>3, <2>2 DEF Built, BuildExecution, SetHashedId, t
    <2>6. ExecuteFee(fee, t.fee, Seed[i] + 2) =
            IF FeePaid(i) THEN <<FeeExecuted(i)>> ELSE <<>>
        BY <2>1 DEF ExecuteFee, FeePaid, FeeExecuted
    <2> DEFINE u == FeeExecuted(i)
    <2> HIDE DEF u
    <2>7. Built(i).transitions = IF FeePaid(i) THEN <<t, u>> ELSE <<t>>
        <3>1. <<t>> \o <<u>> = <<t, u>> /\ <<t>> \o <<>> = <<t>>
            BY PairOfTransitions
        <3>2. QED
            BY <2>5, <2>6, <3>1 DEF u
    <2>8. QED
        BY <1>1, <1>3, <2>1, <2>3, <2>4, <2>5, <2>7 DEF t, u
<1>4. QED
    BY <1>2, <1>3

\* The records that a transaction uses are the inputs of the command and the fee record, and
\* the ones it makes are those of the function and the change of the fee.
LEMMA BuiltParts ==
    ASSUME NEW i \in Runs, ~BuildFails(i), ReadyCommand(i)
    PROVE  LET e == Built(i)
               t == Executed(cmd[i].call, Seed[i])
               u == FeeExecuted(i) IN
           /\ FeePaid(i) =>
                /\ cmd[i].fee # None /\ u.ins = <<cmd[i].fee.record>>
                /\ \E change : /\ u.outs = <<change>>
                               /\ change.seed = Seed[i] + 2 /\ change.gates \in Int
           /\ cmd[i].kind = "deploy" /\ ~FeePaid(i) =>
                /\ RecordSerialNumbers(e) = <<>> /\ OutputRecords(e) = <<>>
                /\ Fees(e) = 0
           /\ cmd[i].kind = "deploy" /\ FeePaid(i) =>
                /\ RecordSerialNumbers(e) = u.ins /\ OutputRecords(e) = u.outs
                /\ Fees(e) = cmd[i].fee.gates
           /\ cmd[i].kind = "deploy" => StakeUpdates(e) = <<>>
           /\ cmd[i].kind # "deploy" /\ ~FeePaid(i) =>
                /\ RecordSerialNumbers(e) = t.ins /\ OutputRecords(e) = t.outs
                /\ Fees(e) = t.fee
           /\ cmd[i].kind # "deploy" /\ FeePaid(i) =>
                /\ RecordSerialNumbers(e) = t.ins \o u.ins
                /\ OutputRecords(e) = t.outs \o u.outs
                /\ Fees(e) = cmd[i].fee.gates
           /\ cmd[i].kind # "deploy" =>
                /\ StakeUpdates(e) = StakeUpdate(t)
                /\ t.fee \in Int /\ e.transitions[1] = t
<1> DEFINE e == Built(i)
           t == Executed(cmd[i].call, Seed[i])
           u == FeeExecuted(i)
           fee == cmd[i].fee
<1>1. /\ IsList(t.ins) /\ IsList(t.outs) /\ t.fee \in Int
    <2>1. Seed[i] \in Nat /\ IsCall(cmd[i].call)
        BY SeedAssumption DEF ReadyCommand
    <2>2. QED
        BY <2>1, TransitionFields
<1>2. ASSUME FeePaid(i)
      PROVE  /\ fee # None /\ u.ins = <<fee.record>> /\ u.fee = fee.gates - Implicit(i)
             /\ u.stake = None
             /\ \E change : /\ u.outs = <<change>>
                            /\ change.seed = Seed[i] + 2 /\ change.gates \in Int
    <2> DEFINE amount == fee.gates - Implicit(i)
               change ==
                    MintRecord(fee.record.owner, fee.record.gates - amount, Seed[i] + 2)
    <2>1. fee # None
        BY <1>2 DEF FeePaid, FeeIsDue
    <2>2. fee.record.gates \in Int /\ amount \in Int
        <3>1. fee.gates \in Nat /\ fee.record.gates \in Int
            BY <2>1 DEF ReadyCommand
        <3>2. Implicit(i) \in Int
            BY BuiltTransitions
        <3> HIDE DEF fee
        <3>3. QED
            BY <3>1, <3>2
    <2>3. change.seed = Seed[i] + 2 /\ change.gates \in Int
        BY <2>2 DEF MintRecord
    <2>4. u = Executed(FeeCall(fee.record, amount), Seed[i] + 2)
        BY DEF FeeExecuted
    <2> HIDE DEF u
    <2>5. /\ u.ins = <<fee.record>> /\ u.outs = <<change>>
          /\ u.fee = amount /\ u.stake = None
        BY <2>2, <2>4, FeeTransition
    <2>6. QED
        BY <2>1, <2>3, <2>5
<1>3. ASSUME FeePaid(i)
      PROVE  /\ IsList(u.ins) /\ IsList(u.outs) /\ u.fee \in Int
             /\ fee.gates \in Int
    <2>1. ASSUME NEW x PROVE IsList(<<x>>)
        <3>1. <<x>> \in Seq({x}) /\ ToSet(<<x>>) = {x}
            BY DEF ToSet
        <3>2. QED
            BY <3>1 DEF IsList
    <2>2. fee.gates \in Int
        BY <1>2, <1>3 DEF ReadyCommand
    <2>3. Implicit(i) \in Int
        BY BuiltTransitions
    <2>4. u.ins = <<fee.record>> /\ u.fee = fee.gates - Implicit(i)
        BY <1>2, <1>3
    <2>5. PICK change : u.outs = <<change>>
        BY <1>2, <1>3
    <2> HIDE DEF u, fee
    <2>6. u.fee \in Int
        BY <2>2, <2>3, <2>4
    <2>7. IsList(u.ins) /\ IsList(u.outs)
        BY <2>1, <2>4, <2>5
    <2>8. QED
        BY <2>2, <2>6, <2>7
<1>4. /\ Implicit(i) \in Int
      /\ cmd[i].kind = "deploy" => Implicit(i) = 0
      /\ cmd[i].kind # "deploy" => Implicit(i) = t.fee
    BY BuiltTransitions DEF Implicit
<1>5. /\ cmd[i].kind = "deploy" =>
            e.kind = "Deployment" /\ e.transitions = IF FeePaid(i) THEN <<u>> ELSE <<>>
      /\ cmd[i].kind # "deploy" =>
            /\ e.kind = "Execution"
            /\ e.transitions = IF FeePaid(i) THEN <<t, u>> ELSE <<t>>
    BY BuiltTransitions
<1> HIDE DEF e, t, u, fee
<1>6. CASE FeePaid(i)
    <2>1. /\ e.transitions = <<u>> => /\ RecordSerialNumbers(e) = u.ins
                                      /\ OutputRecords(e) = u.outs /\ Fees(e) = u.fee
          /\ e.transitions = <<t, u>> =>
                /\ RecordSerialNumbers(e) = t.ins \o u.ins
                /\ OutputRecords(e) = t.outs \o u.outs
                /\ Fees(e) = t.fee + u.fee
                /\ e.kind # "Deployment" => StakeUpdates(e) = StakeUpdate(t)
        BY <1>1, <1>2, <1>3, <1>6, TransactionParts
    <2>2. u.fee = fee.gates - Implicit(i) /\ fee.gates \in Int
        BY <1>2, <1>3, <1>6
    <2>3. CASE cmd[i].kind = "deploy"
        <3>1. e.transitions = <<u>> /\ e.kind = "Deployment" /\ u.fee = fee.gates
            BY <1>4, <1>5, <1>6, <2>2, <2>3
        <3>2. StakeUpdates(e) = <<>>
            BY <3>1 DEF StakeUpdates
        <3>3. QED
            BY <1>2, <1>6, <2>1, <2>3, <3>1, <3>2 DEF e, t, u, fee
    <2>4. CASE cmd[i].kind # "deploy"
        <3>1. e.transitions = <<t, u>> /\ e.kind = "Execution" /\ e.transitions[1] = t
            BY <1>5, <1>6, <2>4
        <3>2. t.fee + u.fee = fee.gates
            BY <1>1, <1>4, <2>2, <2>4
        <3>3. QED
            BY <1>1, <1>2, <1>6, <2>1, <2>4, <3>1, <3>2 DEF e, t, u, fee
    <2>5. QED
        BY <2>3, <2>4
<1>7. CASE ~FeePaid(i)
    <2> DEFINE none == [ins |-> <<>>, outs |-> <<>>, fee |-> 0, stake |-> None]
    <2>1. /\ IsList(none.ins) /\ IsList(none.outs) /\ none.fee \in Int
          /\ none.stake = None
        BY DEF IsList, ToSet
    <2> HIDE DEF none
    <2>2. /\ e.transitions = <<>> =>
                /\ RecordSerialNumbers(e) = <<>> /\ OutputRecords(e) = <<>>
                /\ Fees(e) = 0
          /\ e.transitions = <<t>> =>
                /\ RecordSerialNumbers(e) = t.ins /\ OutputRecords(e) = t.outs
                /\ Fees(e) = t.fee
                /\ e.kind # "Deployment" => StakeUpdates(e) = StakeUpdate(t)
        BY <1>1, <2>1, TransactionParts
    <2>3. CASE cmd[i].kind = "deploy"
        <3>1. e.transitions = <<>> /\ e.kind = "Deployment"
            BY <1>5, <1>7, <2>3
        <3>2. StakeUpdates(e) = <<>>
            BY <3>1 DEF StakeUpdates
        <3>3. QED
            BY <1>7, <2>2, <2>3, <3>1, <3>2 DEF e, t, u, fee
    <2>4. CASE cmd[i].kind # "deploy"
        <3>1. e.transitions = <<t>> /\ e.kind = "Execution" /\ e.transitions[1] = t
            BY <1>5, <1>7, <2>4
        <3>2. QED
            BY <1>1, <1>7, <2>2, <2>4, <3>1 DEF e, t, u, fee
    <2>5. QED
        BY <2>3, <2>4
<1>8. QED
    BY <1>6, <1>7

\* Lists one after the other, as the records of the two transitions are.
LEMMA ListsConcat ==
    ASSUME NEW s, NEW t, IsList(s), IsList(t)
    PROVE  /\ IsList(s \o t) /\ ToSet(s \o t) = ToSet(s) \cup ToSet(t)
           /\ DOMAIN (s \o t) = 1..(Len(s) + Len(t))
           /\ \A n \in 1..(Len(s) + Len(t)) :
                (s \o t)[n] = IF n <= Len(s) THEN s[n] ELSE t[n - Len(s)]
<1> DEFINE A == ToSet(s)
           B == ToSet(t)
           S == A \cup B
           both == s \o t
<1>1. s \in Seq(A) /\ t \in Seq(B)
    BY DEF IsList
<1> HIDE DEF A, B
<1>2. s \in Seq(S) /\ t \in Seq(S)
    BY <1>1
<1> HIDE DEF S
<1>3. /\ both \in Seq(S)
      /\ Len(both) = Len(s) + Len(t)
      /\ \A n \in 1..Len(s) + Len(t) :
            both[n] = IF n <= Len(s) THEN s[n] ELSE t[n - Len(s)]
    BY <1>2, ConcatProperties
<1>4. ToSet(both) = S
    BY <1>2, ConcatElements DEF A, B, S
<1> HIDE DEF both
<1>5. IsList(both) /\ DOMAIN both = 1..(Len(s) + Len(t))
    BY <1>3, <1>4, ListDomain DEF IsList
<1>6. QED
    BY <1>3, <1>4, <1>5 DEF A, B, S, both

\* A list of one element, and of none.
LEMMA ListOfOne ==
    ASSUME NEW x
    PROVE  /\ IsList(<<x>>) /\ ToSet(<<x>>) = {x} /\ IsInjective(<<x>>)
           /\ IsList(<<>>) /\ ToSet(<<>>) = {} /\ IsInjective(<<>>)
<1>1. <<x>> \in Seq({x}) /\ ToSet(<<x>>) = {x}
    BY DEF ToSet
<1>2. IsInjective(<<x>>)
    BY DEF IsInjective
<1>3. ToSet(<<>>) = {} /\ IsInjective(<<>>) /\ <<>> \in Seq({})
    BY DEF ToSet, IsInjective
<1>4. QED
    BY <1>1, <1>2, <1>3 DEF IsList

\* Outputs of the command count their nonces from the seed, two at most, and the change of
\* the fee has the next one: no two outputs of a transaction are the same.
LEMMA BuiltOutputs ==
    ASSUME NEW i \in Runs, ~BuildFails(i), ReadyCommand(i)
    PROVE  LET outs == OutputRecords(Built(i)) IN
           /\ IsList(outs) /\ IsInjective(outs)
           /\ \A r \in ToSet(outs) : r.seed \in Nonces(i) /\ r.gates \in Int
           /\ outs = <<>> \/ ToSet(outs) # {}
           /\ outs = <<>> /\ cmd[i].kind # "deploy" => Outputs(cmd[i].call, Seed[i]) = <<>>
<1> DEFINE e == Built(i)
           t == Executed(cmd[i].call, Seed[i])
           u == FeeExecuted(i)
           outs == OutputRecords(e)
<1>1. Seed[i] \in Nat
    BY SeedAssumption
<1>2. /\ t.outs = Outputs(cmd[i].call, Seed[i])
      /\ IsList(t.outs) /\ Len(t.outs) \in 0..2
      /\ \A n \in 1..Len(t.outs) :
            t.outs[n].gates \in Int /\ t.outs[n].seed = Seed[i] + (n - 1)
    <2>1. IsCall(cmd[i].call)
        BY DEF ReadyCommand
    <2>2. QED
        BY <1>1, <2>1, TransitionFields
<1>3. /\ cmd[i].kind = "deploy" /\ ~FeePaid(i) => outs = <<>>
      /\ cmd[i].kind = "deploy" /\ FeePaid(i) => outs = u.outs
      /\ cmd[i].kind # "deploy" /\ ~FeePaid(i) => outs = t.outs
      /\ cmd[i].kind # "deploy" /\ FeePaid(i) => outs = t.outs \o u.outs
      /\ FeePaid(i) => \E change : /\ u.outs = <<change>>
                                   /\ change.seed = Seed[i] + 2 /\ change.gates \in Int
    BY BuiltParts
<1>4. DOMAIN t.outs = 1..Len(t.outs)
    BY <1>2, ListDomain
<1> DEFINE Good(s) ==
        /\ IsList(s) /\ DOMAIN s = 1..Len(s) /\ Len(s) \in Nat
        /\ \E f \in [1..Len(s) -> 0..2] :
            /\ \A m, n \in 1..Len(s) : f[m] = f[n] => m = n
            /\ \A n \in 1..Len(s) : s[n].gates \in Int /\ s[n].seed = Seed[i] + f[n]
<1>5. ASSUME NEW s, Good(s)
      PROVE  /\ IsList(s) /\ IsInjective(s)
             /\ \A r \in ToSet(s) : r.seed \in Nonces(i) /\ r.gates \in Int
             /\ s = <<>> \/ ToSet(s) # {}
    <2>1. PICK f \in [1..Len(s) -> 0..2] :
                /\ \A m, n \in 1..Len(s) : f[m] = f[n] => m = n
                /\ \A n \in 1..Len(s) : s[n].gates \in Int /\ s[n].seed = Seed[i] + f[n]
        BY <1>5
    <2>2. DOMAIN s = 1..Len(s) /\ Len(s) \in Nat /\ IsList(s)
        BY <1>5
    <2>3. \A n \in 1..Len(s) : f[n] \in 0..2
        BY <2>1
    <2>4. ASSUME NEW m \in DOMAIN s, NEW n \in DOMAIN s, s[m] = s[n] PROVE m = n
        <3>1. /\ s[m].seed = Seed[i] + f[m] /\ s[n].seed = Seed[i] + f[n]
              /\ f[m] \in 0..2 /\ f[n] \in 0..2
            BY <2>1, <2>2, <2>3
        <3>2. f[m] = f[n]
            BY <1>1, <2>4, <3>1
        <3>3. QED
            BY <2>1, <2>2, <3>2
    <2>5. ASSUME NEW r \in ToSet(s) PROVE r.seed \in Nonces(i) /\ r.gates \in Int
        <3>1. PICK n \in DOMAIN s : r = s[n]
            BY DEF ToSet
        <3>2. r.gates \in Int /\ r.seed = Seed[i] + f[n] /\ f[n] \in 0..2
            BY <2>1, <2>2, <2>3, <3>1
        <3>3. QED
            BY <1>1, <3>2 DEF Nonces
    <2>6. s = <<>> \/ ToSet(s) # {}
        <3>1. CASE Len(s) = 0
            BY <2>2, <3>1, ListDomain
        <3>2. CASE Len(s) # 0
            <4>1. 1 \in DOMAIN s
                BY <2>2, <3>2
            <4>2. QED
                BY <4>1 DEF ToSet
        <3>3. QED
            BY <3>1, <3>2
    <2>7. QED
        BY <2>2, <2>4, <2>5, <2>6 DEF IsInjective
<1> HIDE DEF e, t, u, outs
<1>6. Good(t.outs)
    <2> DEFINE f == [n \in 1..Len(t.outs) |-> n - 1]
    <2>1. /\ f \in [1..Len(t.outs) -> 0..2]
          /\ \A m, n \in 1..Len(t.outs) : f[m] = f[n] => m = n
          /\ \A n \in 1..Len(t.outs) : f[n] = n - 1
        BY <1>2
    <2> HIDE DEF f
    <2>2. \A n \in 1..Len(t.outs) :
            t.outs[n].gates \in Int /\ t.outs[n].seed = Seed[i] + f[n]
        BY <1>2, <2>1
    <2>3. IsList(t.outs) /\ DOMAIN t.outs = 1..Len(t.outs) /\ Len(t.outs) \in Nat
        BY <1>2, <1>4
    <2>4. QED
        BY <2>1, <2>2, <2>3
<1>7. Good(<<>>)
    <2> DEFINE s == <<>>
               f == [n \in 1..0 |-> 0]
    <2>1. DOMAIN s = 1..Len(s) /\ Len(s) = 0 /\ IsList(s)
        <3>1. IsList(s)
            BY ListOfOne
        <3>2. Len(s) = 0
            OBVIOUS
        <3> HIDE DEF s
        <3>3. QED
            BY <3>1, <3>2, ListDomain
    <2> HIDE DEF s
    <2>2. f \in [1..Len(s) -> 0..2] /\ 1..Len(s) = {}
        BY <2>1
    <2>3. QED
        BY <2>1, <2>2 DEF s
<1>8. ASSUME FeePaid(i)
      PROVE  Good(u.outs) /\ Good(t.outs \o u.outs)
    <2>1. PICK change : /\ u.outs = <<change>>
                        /\ change.seed = Seed[i] + 2 /\ change.gates \in Int
        BY <1>3, <1>8
    <2> DEFINE s == <<change>>
               both == t.outs \o s
               k == Len(t.outs)
    <2>2. /\ IsList(s) /\ DOMAIN s = 1..1 /\ Len(s) = 1 /\ s[1] = change
        BY ListOfOne
    <2>3. k \in 0..2 /\ IsList(t.outs)
        BY <1>2
    <2> HIDE DEF s
    <2>4. /\ IsList(both) /\ DOMAIN both = 1..(k + 1)
          /\ \A n \in 1..(k + 1) : both[n] = IF n <= k THEN t.outs[n] ELSE s[n - k]
        BY <2>2, <2>3, ListsConcat
    <2> HIDE DEF both, k
    <2>5. Len(both) = k + 1
        <3>1. Len(both) \in Nat /\ DOMAIN both = 1..Len(both)
            BY <2>4, ListDomain
        <3>2. QED
            BY <2>3, <2>4, <3>1
    <2> DEFINE f == [n \in 1..(k + 1) |-> IF n <= k THEN n - 1 ELSE 2]
    <2>6. /\ f \in [1..(k + 1) -> 0..2]
          /\ \A m, n \in 1..(k + 1) : f[m] = f[n] => m = n
          /\ \A n \in 1..(k + 1) : f[n] = IF n <= k THEN n - 1 ELSE 2
        BY <2>3
    <2> HIDE DEF f
    <2>7. ASSUME NEW n \in 1..(k + 1)
          PROVE  both[n].gates \in Int /\ both[n].seed = Seed[i] + f[n]
        <3>1. CASE n <= k
            <4>1. both[n] = t.outs[n] /\ n \in 1..Len(t.outs) /\ f[n] = n - 1
                BY <2>3, <2>4, <2>6, <3>1 DEF k
            <4>2. QED
                BY <1>2, <4>1
        <3>2. CASE ~(n <= k)
            <4>1. n = k + 1 /\ n - k = 1 /\ f[n] = 2
                BY <2>3, <2>6, <3>2
            <4>2. both[n] = s[1]
                BY <2>4, <3>2, <4>1
            <4>3. QED
                BY <2>1, <2>2, <4>1, <4>2
        <3>3. QED
            BY <3>1, <3>2
    <2>8. Good(both)
        <3>1. DOMAIN both = 1..Len(both) /\ Len(both) \in Nat
            BY <2>3, <2>4, <2>5
        <3>2. QED
            BY <2>4, <2>5, <2>6, <2>7, <3>1
    <2>9. Good(s)
        <3> DEFINE g == [n \in 1..1 |-> 2]
        <3>1. g \in [1..Len(s) -> 0..2] /\ \A n \in 1..Len(s) : g[n] = 2 /\ n = 1
            BY <2>2
        <3> HIDE DEF g
        <3>2. QED
            BY <2>1, <2>2, <3>1
    <2> HIDE DEF Good
    <2>10. u.outs = s /\ t.outs \o u.outs = both
        BY <2>1 DEF s, both
    <2>11. QED
        BY <2>8, <2>9, <2>10
<1>9. Good(outs)
    <2> HIDE DEF Good
    <2>1. \/ outs \in {<<>>, t.outs}
          \/ FeePaid(i) /\ outs \in {u.outs, t.outs \o u.outs}
        BY <1>3
    <2>2. QED
        BY <1>6, <1>7, <1>8, <2>1
<1>10. outs = <<>> /\ cmd[i].kind # "deploy" => Outputs(cmd[i].call, Seed[i]) = <<>>
    <2>1. CASE FeePaid(i)
        <3>1. PICK change : u.outs = <<change>>
            BY <1>3, <2>1
        <3> DEFINE both == t.outs \o u.outs
        <3>2. ToSet(both) = ToSet(t.outs) \cup ToSet(u.outs) /\ ToSet(u.outs) = {change}
            BY <1>2, <3>1, ListOfOne, ListsConcat
        <3>3. both # <<>>
            BY <3>2, ListOfOne
        <3>4. QED
            BY <1>3, <2>1, <3>3
    <2>2. CASE ~FeePaid(i)
        BY <1>2, <1>3, <2>2
    <2>3. QED
        BY <2>1, <2>2
<1> HIDE DEF Good
<1>11. QED
    BY <1>5, <1>9, <1>10 DEF outs, e

\* What a transaction spends: the records of the command and the fee record, each of them
\* once unless the command has a record twice or the fee record is one of its own.
LEMMA BuiltInputs ==
    ASSUME NEW i \in Runs, ~BuildFails(i), ReadyCommand(i)
    PROVE  LET ins == RecordSerialNumbers(Built(i))
               used == cmd[i].call.records
               fee == cmd[i].fee IN
           /\ IsList(ins)
           /\ ToSet(ins) \subseteq
                ToSet(used) \cup (IF fee = None THEN {} ELSE {fee.record})
           /\ cmd[i].kind # "deploy" => ToSet(used) \subseteq ToSet(ins)
           /\ (fee # None => fee.record \notin ToSet(used)) /\ IsInjective(used)
                => IsInjective(ins)
<1> DEFINE e == Built(i)
           ins == RecordSerialNumbers(e)
           used == cmd[i].call.records
           fee == cmd[i].fee
           last == <<fee.record>>
<1>1. IsList(used) /\ Executed(cmd[i].call, Seed[i]).ins = used
    BY DEF ReadyCommand, IsCall, Executed
<1>2. /\ cmd[i].kind = "deploy" /\ ~FeePaid(i) => ins = <<>>
      /\ cmd[i].kind = "deploy" /\ FeePaid(i) => ins = last
      /\ cmd[i].kind # "deploy" /\ ~FeePaid(i) => ins = used
      /\ cmd[i].kind # "deploy" /\ FeePaid(i) => ins = used \o last
      /\ FeePaid(i) => fee # None
    BY <1>1, BuiltParts
<1> HIDE DEF e, ins, used, fee
<1>3. /\ IsList(last) /\ ToSet(last) = {fee.record} /\ IsInjective(last)
      /\ IsList(<<>>) /\ ToSet(<<>>) = {} /\ IsInjective(<<>>)
    BY ListOfOne
<1>4. CASE ins = used \o last /\ FeePaid(i)
    <2> DEFINE both == used \o last
               k == Len(used)
    <2>1. k \in Nat /\ DOMAIN used = 1..k
        BY <1>1, ListDomain
    <2>2. Len(last) = 1 /\ last[1] = fee.record
        OBVIOUS
    <2> HIDE DEF last
    <2>3. /\ IsList(both) /\ ToSet(both) = ToSet(used) \cup ToSet(last)
          /\ DOMAIN both = 1..(k + 1)
          /\ \A n \in 1..(k + 1) : both[n] = IF n <= k THEN used[n] ELSE last[n - k]
        BY <1>1, <1>3, <2>2, ListsConcat
    <2> HIDE DEF both, k
    <2>4. ASSUME fee.record \notin ToSet(used), IsInjective(used)
          PROVE  IsInjective(both)
        <3>1. ASSUME NEW m \in DOMAIN both, NEW n \in DOMAIN both, both[m] = both[n]
              PROVE  m = n
            <4>1. /\ m \in 1..(k + 1) /\ n \in 1..(k + 1)
                  /\ m <= k => m \in DOMAIN used /\ both[m] = used[m]
                  /\ n <= k => n \in DOMAIN used /\ both[n] = used[n]
                BY <2>1, <2>3
            <4>2. /\ ~(m <= k) => m = k + 1 /\ both[m] = fee.record
                  /\ ~(n <= k) => n = k + 1 /\ both[n] = fee.record
                <5>1. /\ ~(m <= k) => m = k + 1 /\ m - k = 1
                      /\ ~(n <= k) => n = k + 1 /\ n - k = 1
                    BY <2>1, <4>1
                <5>2. QED
                    BY <2>2, <2>3, <4>1, <5>1
            <4>3. /\ m <= k => both[m] \in ToSet(used)
                  /\ n <= k => both[n] \in ToSet(used)
                BY <4>1 DEF ToSet
            <4>4. QED
                BY <2>4, <3>1, <4>1, <4>2, <4>3 DEF IsInjective
        <3>2. QED
            BY <3>1 DEF IsInjective
    <2>5. fee # None /\ ins = both
        BY <1>2, <1>4 DEF both
    <2>6. QED
        BY <1>3, <2>3, <2>4, <2>5 DEF ins, e, used, fee
<1>5. CASE ~(ins = used \o last /\ FeePaid(i))
    <2>1. /\ \/ ins = used
             \/ cmd[i].kind = "deploy" /\ ins = <<>>
             \/ cmd[i].kind = "deploy" /\ ins = last /\ fee # None
        BY <1>2, <1>5
    <2>2. QED
        BY <1>1, <1>3, <2>1 DEF ins, e, used, fee
<1>6. QED
    BY <1>4, <1>5

\* Only stake and unstake have a staking update, and they have one.
LEMMA BuiltStakes ==
    ASSUME NEW i \in Runs, ~BuildFails(i), ReadyCommand(i)
    PROVE  LET updates == StakeUpdates(Built(i)) IN
           /\ IsList(updates) /\ EachValidatorOnce(updates)
           /\ \A update \in ToSet(updates) : update.delta \in Int
           /\ updates # <<>> =>
                cmd[i].kind # "deploy" /\ cmd[i].call.function \in {"stake", "unstake"}
<1> DEFINE e == Built(i)
           t == Executed(cmd[i].call, Seed[i])
           updates == StakeUpdates(e)
<1>1. /\ cmd[i].kind = "deploy" => updates = <<>>
      /\ cmd[i].kind # "deploy" => updates = StakeUpdate(t)
    BY BuiltParts
<1>2. t.stake = Staking(cmd[i].call) /\ (t.stake = None \/ t.stake.delta \in Int)
    <2>1. Seed[i] \in Nat /\ IsCall(cmd[i].call)
        BY SeedAssumption DEF ReadyCommand
    <2>2. QED
        BY <2>1, TransitionFields
<1>3. t.stake # None => cmd[i].call.function \in {"stake", "unstake"}
    BY <1>2 DEF Staking
<1> HIDE DEF e, t, updates
<1>4. \/ updates = <<>>
      \/ cmd[i].kind # "deploy" /\ updates = <<t.stake>> /\ t.stake # None
    BY <1>1 DEF StakeUpdate
<1>5. CASE updates = <<>>
    <2>1. IsList(updates) /\ ToSet(updates) = {}
        BY <1>5, ListOfOne
    <2>2. DOMAIN updates = {}
        BY <1>5
    <2>3. QED
        BY <1>5, <2>1, <2>2 DEF updates, e, EachValidatorOnce
<1>6. CASE cmd[i].kind # "deploy" /\ updates = <<t.stake>> /\ t.stake # None
    <2>1. IsList(updates) /\ ToSet(updates) = {t.stake} /\ EachValidatorOnce(updates)
        BY <1>6, ListOfOne DEF EachValidatorOnce
    <2>2. t.stake.delta \in Int /\ cmd[i].call.function \in {"stake", "unstake"}
        BY <1>2, <1>3, <1>6
    <2>3. QED
        BY <1>6, <2>1, <2>2 DEF updates, e
<1>7. QED
    BY <1>4, <1>5, <1>6

\* An execution that makes no record spends one, and stakes nothing: so a transaction that
\* is repeated is one that deliver_tx refuses.
LEMMA BuiltMeansSomething ==
    ASSUME NEW i \in Runs, ~BuildFails(i), ReadyCommand(i),
           cmd[i].kind # "deploy", ToSet(cmd[i].call.program.functions) \subseteq Functions,
           OutputRecords(Built(i)) = <<>>
    PROVE  /\ ToSet(RecordSerialNumbers(Built(i))) # {}
           /\ StakeUpdates(Built(i)) = <<>>
<1> DEFINE call == cmd[i].call
           used == call.records
<1>1. Outputs(call, Seed[i]) = <<>>
    BY BuiltOutputs
<1>2. call.function \in Functions
    BY BuiltTransitions DEF Executable
<1>3. call.function = "consume"
    BY <1>1, <1>2 DEF Outputs, Functions
<1>4. InputNames(call) = <<"token">>
    BY <1>3 DEF InputNames, Subtracting
<1>5. DOMAIN used = DOMAIN InputNames(call)
    BY DEF ReadyCommand, IsCall, Takes
<1>6. 1 \in DOMAIN used
    BY <1>4, <1>5
<1>7. ToSet(used) # {}
    BY <1>6 DEF ToSet
<1>8. StakeUpdates(Built(i)) = <<>>
    BY <1>3, BuiltStakes
<1>9. QED
    BY <1>7, <1>8, BuiltInputs

----------------------------------------------------------------------------
(* What check_tx and deliver_tx make of it.                                  *)

\* What the program store answers concerns deployments only.
LEMMA DoubtIsOfDeployments ==
    ASSUME NEW l, NEW t, t.kind = "Execution", NEW doubt, NEW other, CheckTx(l, t, doubt)
    PROVE  CheckTx(l, t, other)
<1>1. "Execution" # "Deployment"
    OBVIOUS
<1>2. QED
    BY <1>1 DEF CheckTx, Passes, ValidateTransaction

\* What check_tx accepts goes on being valid, whatever is delivered, until a rival is: a
\* transaction that spends the same record or stakes with the same validator.
LEMMA ValidUntilRival ==
    ASSUME NEW l, NEW s, NEW given, NEW t, NEW doubt, IsLedger(l), IsList(StakeUpdates(s)),
           t.kind = "Execution", CheckTx(l, t, doubt), ~Rivals(s, t)
    PROVE  CheckTx(LedgerTx(l, s, given), t, doubt)
<1> DEFINE after == LedgerTx(l, s, given)
<1>1. CASE ~Accepts(l, s, given)
    <2>1. /\ IsLedger(after)
          /\ after.known = l.known
          /\ after.spent = l.spent
          /\ after.programs = l.programs
          /\ after.validators = l.validators
          /\ after.fees = l.fees
          /\ after.codes = Append(l.codes, FALSE)
        BY <1>1, LedgerTxRejects
    <2>2. QED
        BY <2>1 DEF CheckTx
<1>2. CASE Accepts(l, s, given)
    <2> DEFINE updates == StakeUpdates(s)
    <2>1. /\ IsLedger(after)
          /\ after.known = l.known \cup Outputted(s)
          /\ after.spent = l.spent \cup Inputs(s)
          /\ after.programs = IF s.kind = "Deployment"
                              THEN l.programs \cup {s.program} ELSE l.programs
          /\ after.validators = AfterUpdates(l.validators, updates)[Len(updates)]
          /\ after.fees = l.fees + Fees(s)
          /\ after.codes = Append(l.codes, TRUE)
        BY <1>2, LedgerTxAccepts
    <2> HIDE DEF after
    <2>2. /\ CheckNoDuplicateRecords(t)
          /\ CheckInputsAreUnspent(t, l.spent)
          /\ ValidateTransaction(t, l.programs, l.validators, doubt)
        BY DEF CheckTx, Passes
    <2>3. CheckInputsAreUnspent(t, after.spent)
        BY <2>1, <2>2 DEF CheckInputsAreUnspent, Rivals, Inputs
    <2>4. t.kind # "Deployment"
        OBVIOUS
    <2>5. \A n \in DOMAIN t.transitions : VerifyTransition(t.transitions[n], after.programs)
        <3>1. l.programs \subseteq after.programs
            BY <2>1
        <3>2. \A n \in DOMAIN t.transitions : VerifyTransition(t.transitions[n], l.programs)
            BY <2>2 DEF ValidateTransaction
        <3>3. QED
            BY <3>1, <3>2 DEF VerifyTransition
    <2>6. ASSUME NEW update, ValidUpdate(l.validators, update),
                 update.validator \notin UpdatedBy(updates)
          PROVE  ValidUpdate(after.validators, update)
        <3>1. /\ DOMAIN after.validators = DOMAIN l.validators \cup UpdatedBy(updates)
              /\ \A v \in DOMAIN l.validators \ UpdatedBy(updates) :
                    after.validators[v] = l.validators[v]
            BY <2>1, UpdatedDomain
        <3>2. QED
            BY <2>6, <3>1 DEF ValidUpdate
    <2>7. StakeUpdatesAreValid(t, l.validators) => StakeUpdatesAreValid(t, after.validators)
        <3>1. \A n \in DOMAIN StakeUpdates(t) :
                StakeUpdates(t)[n].validator \notin UpdatedBy(updates)
            BY DEF Rivals, UpdatedBy
        <3>2. QED
            BY <2>6, <3>1 DEF StakeUpdatesAreValid
    <2>8. ValidateTransaction(t, after.programs, after.validators, doubt)
        BY <2>2, <2>4, <2>5, <2>7 DEF ValidateTransaction
    <2>9. QED
        BY <2>2, <2>3, <2>8 DEF CheckTx, Passes, after
<1>3. QED
    BY <1>1, <1>2

\* What is valid when it is delivered is applied, unless it has an output that is known.
LEMMA ValidIsAccepted ==
    ASSUME NEW l, NEW t, NEW doubt, CheckTx(l, t, doubt), Inputs(t) \subseteq l.known,
           IsList(StakeUpdates(t)), EachValidatorOnce(StakeUpdates(t)),
           IsInjective(OutputRecords(t)), Outputted(t) \cap l.known = {},
           t.kind = "Deployment" => StakeUpdates(t) = <<>>
    PROVE  Accepts(l, t, doubt)
<1>1. /\ IsInjective(RecordSerialNumbers(t)) /\ Inputs(t) \cap l.spent = {}
      /\ ValidateTransaction(t, l.programs, l.validators, doubt)
    BY DEF CheckTx, Passes, CheckNoDuplicateRecords, CheckInputsAreUnspent, Inputs
<1>2. \A n \in DOMAIN StakeUpdates(t) : ValidUpdate(l.validators, StakeUpdates(t)[n])
    <2>1. CASE t.kind = "Deployment"
        <3>1. DOMAIN StakeUpdates(t) = {}
            BY <2>1
        <3>2. QED
            BY <3>1
    <2>2. CASE t.kind # "Deployment"
        BY <1>1, <2>2 DEF ValidateTransaction, StakeUpdatesAreValid
    <2>3. QED
        BY <2>1, <2>2
<1>3. ~UpdatesPanic(l.validators, StakeUpdates(t))
    BY <1>2, ValidInTurn
<1>4. AllStored(RecordSerialNumbers(t), l.spent) /\ AllStored(OutputRecords(t), l.known)
    BY <1>1 DEF AllStored, Inputs, Outputted
<1>5. Valid(l, t, doubt)
    BY <1>3, <1>4 DEF Valid, CheckTx
<1>6. StrayInputs(l, t) = {}
    BY DEF StrayInputs, Inputs
<1>7. QED
    BY <1>5, <1>6 DEF Accepts

----------------------------------------------------------------------------
(* The inductive invariant.                                                  *)

Settled == {"program", "send", "sent", "refused"}

\* The command of a run: its records are known, and once its fee record is settled that is
\* known as well, not one of its inputs unless it was named, and enough for the fee.
CommandOK(i) ==
    LET c == cmd[i] IN
    /\ c = [kind |-> c.kind, dry |-> c.dry, named |-> c.named, file |-> c.file,
            fee |-> c.fee, call |-> c.call]
    /\ IsCall(c.call) /\ ToSet(c.call.records) \subseteq committed.known
    /\ c.kind = "execute" => ToSet(c.call.program.functions) \subseteq Functions
    /\ pc[i] \in {"first", "second", "listed"} =>
        \/ c.kind = "balance"
        \/ /\ c.kind \in {"execute", "deploy"}
           /\ c.fee = [gates |-> c.fee.gates, record |-> c.fee.record]
           /\ c.fee.gates \in Nat
    /\ pc[i] \in Settled =>
        /\ c.kind \in {"execute", "deploy"}
        /\ c.fee # None =>
            /\ c.fee.gates \in Nat /\ c.fee.record.gates \in Int
            /\ c.fee.record \in Owned(i, committed)
            /\ ~c.named => /\ c.fee.record \notin ToSet(c.call.records)
                           /\ c.fee.record.gates >= c.fee.gates

\* The answers to get_records, between its two queries and after them.
ListingOK(i) ==
    /\ got[i] = [records |-> got[i].records, spent |-> got[i].spent]
    /\ pc[i] \in {"second", "listed"} => got[i].records \subseteq Owned(i, committed)
    /\ pc[i] = "second" => seen[i] \subseteq got[i].records

\* What a run sent is what its command makes, and what it found is in the index.
TransactionOK(i) ==
    /\ pc[i] \in {"sent", "refused"} => tx[i] = Built(i) /\ ~BuildFails(i)
    /\ pc[i] = "found" => tx[i] \in index

RunOK(i) ==
    /\ pc[i] # "new" => CommandOK(i)
    /\ ListingOK(i) /\ TransactionOK(i)

RunsOK ==
    /\ pc \in [Runs -> PCs]
    /\ cmd = [i \in Runs |-> cmd[i]] /\ got = [i \in Runs |-> got[i]]
    /\ seen = [i \in Runs |-> seen[i]] /\ tx = [i \in Runs |-> tx[i]]
    /\ \A i \in Runs : RunOK(i)

Applied(t, l) ==
    /\ Outputted(t) \subseteq l.known /\ Inputs(t) \subseteq l.spent
    /\ t.kind = "Deployment" => \E p \in l.programs : p.id = t.program.id

LedgerOK(l) ==
    /\ IsLedger(l) /\ l.spent \subseteq l.known /\ l.strays = {}
    /\ \A v \in DOMAIN l.validators : l.validators[v].power \in Nat

\* The ledgers have what was applied to them, and no nonce of a run that has not sent.
LedgersOK ==
    /\ LedgerOK(committed) /\ LedgerOK(staged)
    /\ committed.known \subseteq staged.known /\ committed.spent \subseteq staged.spent
    /\ \A t \in delivered \cup index : Applied(t, staged)
    /\ \A t \in index : Applied(t, committed)
    /\ \A r \in staged.known : r.gates \in Int
    /\ \A r \in staged.known : \A i \in Runs : pc[i] # "sent" => r.seed \notin Nonces(i)

Sent(t) == \E i \in Runs : pc[i] = "sent" /\ t = tx[i]

StillValid(t) == CheckTx(staged, t, FALSE) \/ \E s \in delivered \cup index : Rivals(s, t)

\* What the mempool holds was sent and has outputs that are new; an execution is valid
\* unless a rival was delivered.
MempoolOK ==
    /\ \A t \in mempool \cup delivered \cup index \cup dropped : Sent(t)
    /\ mempool \cap (delivered \cup index) = {}
    /\ \A t \in mempool \cap dropped : t.kind = "Deployment"
    /\ \A t \in mempool :
        /\ Outputted(t) \cap staged.known = {}
        /\ t.kind = "Execution" => StillValid(t)
    /\ DroppedForARival

ClientInv == RunsOK /\ LedgersOK /\ MempoolOK

----------------------------------------------------------------------------
(* Steps of a run.                                                           *)

\* A run whose command is settled can build its transaction.
LEMMA SettledIsReady ==
    ASSUME NEW i \in Runs, RunOK(i), pc[i] \in Settled
    PROVE  ReadyCommand(i)
<1>1. CommandOK(i)
    BY DEF RunOK, Settled
<1>2. QED
    BY <1>1 DEF CommandOK, ReadyCommand

\* What other runs and the chain do leaves a run as it was: the store only grows.
LEMMA RunStays ==
    ASSUME NEW i \in Runs, RunOK(i), pc'[i] = pc[i], cmd'[i] = cmd[i], got'[i] = got[i],
           seen'[i] = seen[i], tx'[i] = tx[i],
           committed.known \subseteq committed'.known, index \subseteq index'
    PROVE  RunOK(i)'
<1>1. Owned(i, committed) \subseteq Owned(i, committed')
    BY DEF Owned
<1>2. (pc[i] # "new" => CommandOK(i))'
    <2>1. ASSUME CommandOK(i) PROVE CommandOK(i)'
        BY <1>1, <2>1 DEF CommandOK
    <2>2. QED
        BY <2>1 DEF RunOK
<1>3. ListingOK(i)'
    BY <1>1 DEF RunOK, ListingOK
<1>4. TransactionOK(i)'
    <2>1. Built(i)' = Built(i) /\ BuildFails(i)' = BuildFails(i)
        BY DEF Built, BuildFails
    <2>2. QED
        BY <2>1 DEF RunOK, TransactionOK
<1>5. QED
    BY <1>2, <1>3, <1>4 DEF RunOK

\* What a step of a run leaves alone: the other runs.
OthersStay(i) ==
    /\ pc' \in [Runs -> PCs]
    /\ cmd' = [j \in Runs |-> cmd'[j]] /\ got' = [j \in Runs |-> got'[j]]
    /\ seen' = [j \in Runs |-> seen'[j]] /\ tx' = [j \in Runs |-> tx'[j]]
    /\ \A j \in Runs \ {i} :
        /\ pc'[j] = pc[j] /\ cmd'[j] = cmd[j] /\ got'[j] = got[j]
        /\ seen'[j] = seen[j] /\ tx'[j] = tx[j]

\* Every command advances on its own.
LEMMA StepIsOfOneRun ==
    ASSUME RunsOK, NEW i \in Runs, Step(i)
    PROVE  OthersStay(i)
<1>1. /\ pc \in [Runs -> PCs] /\ DOMAIN cmd = Runs /\ DOMAIN got = Runs
      /\ DOMAIN seen = Runs /\ DOMAIN tx = Runs
      /\ cmd = [j \in Runs |-> cmd[j]] /\ got = [j \in Runs |-> got[j]]
      /\ seen = [j \in Runs |-> seen[j]] /\ tx = [j \in Runs |-> tx[j]]
    BY DEF RunsOK
<1> DEFINE Moves(f, g) == \/ g = f
                          \/ \E x : g = [f EXCEPT ![i] = x]
<1>2. ASSUME NEW f, NEW g, f = [j \in Runs |-> f[j]], Moves(f, g)
      PROVE  g = [j \in Runs |-> g[j]] /\ \A j \in Runs \ {i} : g[j] = f[j]
    BY <1>2
<1>3. \E to \in PCs : pc' = [pc EXCEPT ![i] = to]
    <2>1. AfterFee(cmd[i]) \in PCs
        BY DEF AfterFee, PCs
    <2>2. CASE Start(i)
        <3>1. PICK request : pc' = [pc EXCEPT ![i] = FirstRequest(request)]
            BY <2>2, Zenon DEF Start
        <3>2. FirstRequest(request) \in PCs
            BY DEF FirstRequest, AfterFee, PCs
        <3>3. QED
            BY <3>1, <3>2
    <2>3. CASE ChooseFeeRecord(i)
        BY <2>1, <2>3 DEF ChooseFeeRecord, PCs
    <2>4. CASE AskFirst(i) \/ AskSecond(i) \/ ShowRecords(i) \/ GetProgram(i)
        BY <2>4 DEF AskFirst, AskSecond, ShowRecords, GetProgram, PCs
    <2>5. CASE Send(i) \/ GetTransaction(i)
        BY <2>5 DEF Send, GetTransaction, PCs
    <2>6. QED
        BY <2>2, <2>3, <2>4, <2>5 DEF Step
<1>4. pc' \in [Runs -> PCs] /\ \A j \in Runs \ {i} : pc'[j] = pc[j]
    BY <1>1, <1>3
<1>5. Moves(cmd, cmd')
    <2>1. CASE Start(i)
        BY <2>1, Zenon DEF Start
    <2>2. CASE ChooseFeeRecord(i)
        <3>1. \/ cmd' = cmd
              \/ \E r : cmd' = [cmd EXCEPT ![i].fee.record = r]
            BY <2>2, Zenon DEF ChooseFeeRecord
        <3>2. QED
            BY <3>1
    <2>3. CASE ~Start(i) /\ ~ChooseFeeRecord(i)
        <3>1. cmd' = cmd
            BY <2>3 DEF Step, AskFirst, AskSecond, ShowRecords, GetProgram, Send,
                        GetTransaction
        <3>2. QED
            BY <3>1
    <2>4. QED
        BY <2>1, <2>2, <2>3
<1>6. Moves(got, got')
    <2>1. CASE AskFirst(i) \/ AskSecond(i)
        <3>1. PICK q, answer : got' = [got EXCEPT ![i][q] = answer]
            BY <2>1, Zenon DEF AskFirst, AskSecond
        <3>2. QED
            BY <3>1
    <2>2. CASE ShowRecords(i) \/ ChooseFeeRecord(i)
        BY <2>2, Zenon DEF ShowRecords, ChooseFeeRecord
    <2>3. CASE Start(i) \/ GetProgram(i) \/ Send(i) \/ GetTransaction(i)
        <3>1. got' = got
            BY <2>3 DEF Start, GetProgram, Send, GetTransaction
        <3>2. QED
            BY <3>1
    <2>4. QED
        BY <2>1, <2>2, <2>3 DEF Step
<1>7. Moves(seen, seen')
    <2>1. CASE AskFirst(i) \/ ShowRecords(i) \/ ChooseFeeRecord(i)
        BY <2>1, Zenon DEF AskFirst, ShowRecords, ChooseFeeRecord
    <2>2. CASE Start(i) \/ AskSecond(i) \/ GetProgram(i) \/ Send(i) \/ GetTransaction(i)
        <3>1. seen' = seen
            BY <2>2 DEF Start, AskSecond, GetProgram, Send, GetTransaction
        <3>2. QED
            BY <3>1
    <2>3. QED
        BY <2>1, <2>2 DEF Step
<1>8. Moves(tx, tx')
    <2>1. CASE Send(i) \/ GetTransaction(i)
        BY <2>1, Zenon DEF Send, GetTransaction
    <2>2. CASE ~Send(i) /\ ~GetTransaction(i)
        <3>1. tx' = tx
            BY <2>2 DEF Step, Start, AskFirst, AskSecond, ShowRecords, ChooseFeeRecord,
                        GetProgram
        <3>2. QED
            BY <3>1
    <2>3. QED
        BY <2>1, <2>2
<1> HIDE DEF Moves
<1>9. QED
    BY <1>1, <1>2, <1>4, <1>5, <1>6, <1>7, <1>8 DEF OthersStay

\* Command::run: the records on the command line are the account's, of the names that the
\* function takes, and a fee record that is named is the account's too.
LEMMA StartKeepsRun ==
    ASSUME ClientInv, NEW i \in Runs, Start(i)
    PROVE  RunOK(i)'
<1>1. PICK request \in Requests[i] :
        \E records \in [DOMAIN InputNames(request) -> Owned(i, committed)] :
        \E feeRecord \in IF request.named THEN Owned(i, committed) ELSE {None} :
            /\ [n \in DOMAIN records |-> records[n].name] = InputNames(request)
            /\ cmd' = [cmd EXCEPT ![i] =
                    [kind |-> request.kind, dry |-> request.dry, named |-> request.named,
                     file |-> request.file, fee |-> IF request.fee = None THEN None
                        ELSE [gates |-> request.fee, record |-> feeRecord],
                     call |-> [program |-> request.program, function |-> request.function,
                               records |-> records, amount |-> request.amount,
                               to |-> request.to]]]
            /\ pc' = [pc EXCEPT ![i] = FirstRequest(request)]
    BY Zenon DEF Start
<1>2. PICK records \in [DOMAIN InputNames(request) -> Owned(i, committed)] :
        \E feeRecord \in IF request.named THEN Owned(i, committed) ELSE {None} :
            /\ [n \in DOMAIN records |-> records[n].name] = InputNames(request)
            /\ cmd' = [cmd EXCEPT ![i] =
                    [kind |-> request.kind, dry |-> request.dry, named |-> request.named,
                     file |-> request.file, fee |-> IF request.fee = None THEN None
                        ELSE [gates |-> request.fee, record |-> feeRecord],
                     call |-> [program |-> request.program, function |-> request.function,
                               records |-> records, amount |-> request.amount,
                               to |-> request.to]]]
            /\ pc' = [pc EXCEPT ![i] = FirstRequest(request)]
    BY <1>1
<1>3. PICK feeRecord \in IF request.named THEN Owned(i, committed) ELSE {None} :
            /\ [n \in DOMAIN records |-> records[n].name] = InputNames(request)
            /\ cmd' = [cmd EXCEPT ![i] =
                    [kind |-> request.kind, dry |-> request.dry, named |-> request.named,
                     file |-> request.file, fee |-> IF request.fee = None THEN None
                        ELSE [gates |-> request.fee, record |-> feeRecord],
                     call |-> [program |-> request.program, function |-> request.function,
                               records |-> records, amount |-> request.amount,
                               to |-> request.to]]]
            /\ pc' = [pc EXCEPT ![i] = FirstRequest(request)]
    BY <1>2
<1> DEFINE call == [program |-> request.program, function |-> request.function,
                    records |-> records, amount |-> request.amount, to |-> request.to]
           fee == IF request.fee = None THEN None
                  ELSE [gates |-> request.fee, record |-> feeRecord]
           c == [kind |-> request.kind, dry |-> request.dry, named |-> request.named,
                 file |-> request.file, fee |-> fee, call |-> call]
<1>4. cmd'[i] = c /\ pc'[i] = FirstRequest(request)
    <2>1. DOMAIN cmd = Runs /\ DOMAIN pc = Runs
        BY DEF ClientInv, RunsOK
    <2>2. QED
        BY <1>3, <2>1
<1>5. /\ UNCHANGED <<committed, index, got, seen, tx>> /\ pc[i] = "new"
    BY DEF Start, chainVars
<1>6. /\ request.kind \in {"execute", "deploy", "balance", "get"}
      /\ request.amount \in Nat
      /\ request.fee \in Nat \cup {None}
      /\ request.kind \in {"balance", "get"} => request.fee = None
      /\ request.kind = "execute" => ToSet(request.program.functions) \subseteq Functions
    BY RequestAssumption
<1>7. \A r \in Owned(i, committed) : r.gates \in Int /\ r \in committed.known
    BY DEF ClientInv, LedgersOK, Owned
<1>8. IsCall(call) /\ ToSet(call.records) \subseteq committed.known
    <2>1. call.records = records /\ call.function = request.function
          /\ call.amount = request.amount
        OBVIOUS
    <2> HIDE DEF call
    <2>2. InputNames(call) = InputNames(request)
        BY <2>1 DEF InputNames
    <2>3. \E k \in Nat : DOMAIN InputNames(request) = 1..k
        <3>1. InputNames(request) \in {<<"credits">>, <<"credits", "credits">>,
                    <<"staked_credits">>, <<"token">>, <<>>}
            BY DEF InputNames
        <3>2. /\ DOMAIN <<"credits">> = 1..1 /\ DOMAIN <<"credits", "credits">> = 1..2
              /\ DOMAIN <<"staked_credits">> = 1..1 /\ DOMAIN <<"token">> = 1..1
              /\ DOMAIN <<>> = 1..0
            OBVIOUS
        <3>3. QED
            BY <3>1, <3>2
    <2>4. PICK k \in Nat : DOMAIN InputNames(request) = 1..k
        BY <2>3
    <2>5. ToSet(records) \subseteq Owned(i, committed)
        BY DEF ToSet
    <2>6. IsList(records)
        <3> DEFINE T == ToSet(records)
        <3>1. records \in [1..k -> T]
            BY <2>4 DEF ToSet
        <3> HIDE DEF T
        <3>2. records \in Seq(T)
            BY <3>1
        <3>3. QED
            BY <3>2 DEF T, IsList
    <2>7. Takes(call)
        BY <1>3, <2>1, <2>2 DEF Takes
    <2>8. QED
        BY <1>6, <1>7, <2>1, <2>5, <2>6, <2>7 DEF IsCall
<1>9. /\ c.kind = request.kind /\ c.call = call /\ c.fee = fee
      /\ c.named = request.named /\ c.call.program = request.program
      /\ c = [kind |-> c.kind, dry |-> c.dry, named |-> c.named, file |-> c.file,
              fee |-> c.fee, call |-> c.call]
    OBVIOUS
<1>10. CASE pc'[i] = "first"
    <2>1. request.kind = "balance" \/ request.fee # None
        BY <1>4, <1>10 DEF FirstRequest, AfterFee
    <2>2. \/ request.kind = "balance"
          \/ /\ request.kind \in {"execute", "deploy"}
             /\ fee = [gates |-> fee.gates, record |-> fee.record] /\ fee.gates \in Nat
        BY <1>6, <2>1
    <2> HIDE DEF call, fee, c
    <2>3. CommandOK(i)'
        BY <1>4, <1>5, <1>6, <1>8, <1>9, <1>10, <2>2 DEF CommandOK, Settled
    <2>4. QED
        BY <1>5, <1>10, <2>3 DEF RunOK, ListingOK, TransactionOK, ClientInv, RunsOK
<1>11. CASE pc'[i] \in {"program", "send"}
    <2>1. /\ request.kind \notin {"balance", "get"}
          /\ request.fee # None => request.named
        BY <1>4, <1>6, <1>11 DEF FirstRequest, AfterFee
    <2>2. fee # None =>
            fee.gates \in Nat /\ fee.record \in Owned(i, committed) /\ request.named
        BY <1>6, <2>1
    <2>3. fee # None => fee.record.gates \in Int
        BY <1>7, <2>2
    <2> HIDE DEF call, fee, c
    <2>4. CommandOK(i)'
        BY <1>4, <1>5, <1>6, <1>8, <1>9, <1>11, <2>1, <2>2, <2>3
        DEF CommandOK, Settled, Owned
    <2>5. QED
        BY <1>5, <1>11, <2>4 DEF RunOK, ListingOK, TransactionOK, ClientInv, RunsOK
<1>12. CASE pc'[i] = "get"
    <2> HIDE DEF call, fee, c
    <2>1. CommandOK(i)'
        BY <1>4, <1>5, <1>8, <1>9, <1>6, <1>12 DEF CommandOK, Settled
    <2>2. QED
        BY <1>5, <1>12, <2>1 DEF RunOK, ListingOK, TransactionOK, ClientInv, RunsOK
<1>13. FirstRequest(request) \in {"first", "program", "send", "get"}
    BY <1>6 DEF FirstRequest, AfterFee
<1>14. QED
    BY <1>4, <1>10, <1>11, <1>12, <1>13

\* get_records asks for the records first, which then are the account's, and what is
\* unspent of them at that moment is among them.
LEMMA AskKeepsRun ==
    ASSUME ClientInv, NEW i \in Runs, AskFirst(i) \/ AskSecond(i)
    PROVE  RunOK(i)'
<1>1. /\ DOMAIN pc = Runs /\ DOMAIN got = Runs /\ DOMAIN seen = Runs
      /\ RunOK(i) /\ UNCHANGED <<committed, index, cmd, tx>>
    BY DEF ClientInv, RunsOK, AskFirst, AskSecond, chainVars
<1>2. /\ CommandOK(i) /\ pc[i] \in {"first", "second"}
      /\ got[i] = [records |-> got[i].records, spent |-> got[i].spent]
    BY <1>1 DEF RunOK, ListingOK, AskFirst, AskSecond
<1>3. CASE AskFirst(i)
    <2>1. /\ pc[i] = "first" /\ pc'[i] = "second"
          /\ got' = [got EXCEPT ![i]["records"] = Owned(i, committed)]
          /\ seen'[i] = Owned(i, committed) \ committed.spent
        BY <1>1, <1>3 DEF AskFirst, Queries, Answer, Unspent
    <2>2. got'[i] = [got[i] EXCEPT !["records"] = Owned(i, committed)]
        BY <1>1, <2>1
    <2>3. got'[i] = [records |-> Owned(i, committed), spent |-> got[i].spent]
        BY <1>2, <2>2
    <2>4. CommandOK(i)'
        BY <1>1, <1>2, <2>1 DEF CommandOK, Owned, Settled
    <2>5. ListingOK(i)'
        BY <1>1, <2>1, <2>3 DEF ListingOK, Owned
    <2>6. QED
        BY <2>1, <2>4, <2>5 DEF RunOK, TransactionOK
<1>4. CASE AskSecond(i)
    <2>1. /\ pc[i] = "second" /\ pc'[i] = "listed"
          /\ got' = [got EXCEPT ![i]["spent"] = committed.spent]
        BY <1>1, <1>4 DEF AskSecond, Queries, Answer
    <2>2. got'[i] = [got[i] EXCEPT !["spent"] = committed.spent]
        BY <1>1, <2>1
    <2>3. got'[i] = [records |-> got[i].records, spent |-> committed.spent]
        BY <1>2, <2>2
    <2>4. CommandOK(i)'
        BY <1>1, <1>2, <2>1 DEF CommandOK, Owned, Settled
    <2>5. got[i].records \subseteq Owned(i, committed)
        BY <1>1, <2>1 DEF RunOK, ListingOK
    <2>6. ListingOK(i)'
        BY <1>1, <2>1, <2>3, <2>5 DEF ListingOK, Owned
    <2>7. QED
        BY <2>1, <2>4, <2>6 DEF RunOK, TransactionOK
<1>5. QED
    BY <1>3, <1>4

\* Showing the records ends a command, and get_program moves it on or ends it.
LEMMA AnswerKeepsRun ==
    ASSUME ClientInv, NEW i \in Runs, ShowRecords(i) \/ GetProgram(i) \/ GetTransaction(i)
    PROVE  RunOK(i)'
<1>1. /\ DOMAIN pc = Runs /\ DOMAIN got = Runs /\ DOMAIN tx = Runs
      /\ RunOK(i) /\ UNCHANGED <<committed, index, cmd>>
    BY DEF ClientInv, RunsOK, ShowRecords, GetProgram, GetTransaction, chainVars
<1>2. CommandOK(i) /\ ListingOK(i)
    BY <1>1 DEF RunOK, ShowRecords, GetProgram, GetTransaction
<1>3. CASE ShowRecords(i)
    <2>1. pc'[i] = "done" /\ got'[i] = Nothing
        BY <1>1, <1>3 DEF ShowRecords
    <2>2. CommandOK(i)'
        BY <1>1, <1>2, <2>1 DEF CommandOK, Settled
    <2>3. QED
        BY <2>1, <2>2 DEF RunOK, ListingOK, TransactionOK, Nothing
<1>4. CASE GetProgram(i)
    <2>1. pc[i] = "program" /\ pc'[i] \in {"send", "failed"} /\ UNCHANGED <<got, seen, tx>>
        BY <1>1, <1>4 DEF GetProgram
    <2>2. CommandOK(i)'
        BY <1>1, <1>2, <2>1 DEF CommandOK, Settled, Owned
    <2>3. QED
        BY <1>2, <2>1, <2>2 DEF RunOK, ListingOK, TransactionOK
<1>5. CASE GetTransaction(i)
    <2>1. PICK j \in Runs \ {i} :
            IF tx[j] \in index
            THEN tx' = [tx EXCEPT ![i] = tx[j]] /\ pc' = [pc EXCEPT ![i] = "found"]
            ELSE pc' = [pc EXCEPT ![i] = "missing"] /\ UNCHANGED tx
        BY <1>5 DEF GetTransaction
    <2>2. /\ pc[i] = "get" /\ pc'[i] \in {"found", "missing"} /\ UNCHANGED <<got, seen>>
          /\ pc'[i] = "found" => tx'[i] \in index
        BY <1>1, <1>5, <2>1 DEF GetTransaction
    <2>3. CommandOK(i)'
        BY <1>1, <1>2, <2>2 DEF CommandOK, Settled
    <2>4. QED
        BY <1>1, <1>2, <2>2, <2>3 DEF RunOK, ListingOK, TransactionOK
<1>6. QED
    BY <1>3, <1>4, <1>5

\* select_default_fee_record takes a record of the account that is not an input of the
\* command and covers the fee.
LEMMA ChoiceKeepsRun ==
    ASSUME ClientInv, NEW i \in Runs, ChooseFeeRecord(i)
    PROVE  RunOK(i)'
<1>1. /\ DOMAIN pc = Runs /\ DOMAIN got = Runs /\ DOMAIN cmd = Runs
      /\ RunOK(i) /\ UNCHANGED <<committed, index, tx>>
    BY DEF ClientInv, RunsOK, ChooseFeeRecord, chainVars
<1>2. CommandOK(i) /\ ListingOK(i) /\ pc[i] = "listed" /\ cmd[i].kind # "balance"
    BY <1>1 DEF RunOK, ChooseFeeRecord
<1>3. got'[i] = Nothing
    BY <1>1 DEF ChooseFeeRecord
<1>4. CASE FeeRecords(i) = {}
    <2>1. pc'[i] = "failed" /\ cmd' = cmd
        BY <1>1, <1>4 DEF ChooseFeeRecord
    <2>2. CommandOK(i)'
        BY <1>1, <1>2, <2>1 DEF CommandOK, Settled
    <2>3. QED
        BY <1>3, <2>1, <2>2 DEF RunOK, ListingOK, TransactionOK, Nothing
<1>5. CASE FeeRecords(i) # {}
    <2>1. /\ \E r \in FeeRecords(i) : cmd' = [cmd EXCEPT ![i].fee.record = r]
          /\ pc'[i] = AfterFee(cmd[i])
        BY <1>1, <1>5 DEF ChooseFeeRecord
    <2>2. PICK r \in FeeRecords(i) : cmd' = [cmd EXCEPT ![i].fee.record = r]
        BY <2>1
    <2>3. /\ r \in Owned(i, committed) /\ r \notin ToSet(cmd[i].call.records)
          /\ r.gates >= cmd[i].fee.gates
        BY <1>2 DEF FeeRecords, Listing, ListingOK
    <2>4. r.gates \in Int
        BY <2>3 DEF ClientInv, LedgersOK, Owned
    <2> DEFINE c == cmd[i]
    <2>5. /\ c = [kind |-> c.kind, dry |-> c.dry, named |-> c.named, file |-> c.file,
                  fee |-> c.fee, call |-> c.call]
          /\ c.kind \in {"execute", "deploy"} /\ c.fee.gates \in Nat
          /\ c.fee = [gates |-> c.fee.gates, record |-> c.fee.record]
        BY <1>2 DEF CommandOK
    <2>6. cmd'[i] = [c EXCEPT !.fee = [c.fee EXCEPT !.record = r]]
        BY <1>1, <2>2
    <2> HIDE DEF c
    <2>7. [c.fee EXCEPT !.record = r] = [gates |-> c.fee.gates, record |-> r]
        BY <2>5
    <2>8. cmd'[i] = [kind |-> c.kind, dry |-> c.dry, named |-> c.named, file |-> c.file,
                     fee |-> [gates |-> c.fee.gates, record |-> r], call |-> c.call]
        BY <2>5, <2>6, <2>7
    <2>9. /\ cmd'[i].kind = c.kind /\ cmd'[i].named = c.named /\ cmd'[i].call = c.call
          /\ cmd'[i].fee.gates = c.fee.gates /\ cmd'[i].fee.record = r
          /\ cmd'[i] = [kind |-> cmd'[i].kind, dry |-> cmd'[i].dry,
                        named |-> cmd'[i].named, file |-> cmd'[i].file,
                        fee |-> cmd'[i].fee, call |-> cmd'[i].call]
        BY <2>8
    <2>10. pc'[i] \in {"program", "send"}
        BY <2>1 DEF AfterFee
    <2>11. /\ IsCall(c.call) /\ ToSet(c.call.records) \subseteq committed.known
           /\ c.kind = "execute" => ToSet(c.call.program.functions) \subseteq Functions
        BY <1>2 DEF CommandOK, c
    <2>12. r \notin ToSet(c.call.records) /\ r.gates >= c.fee.gates
        BY <2>3 DEF c
    <2>13. CommandOK(i)'
        BY <1>1, <2>3, <2>4, <2>5, <2>9, <2>10, <2>11, <2>12 DEF CommandOK, Settled, Owned
    <2>14. QED
        BY <1>3, <2>10, <2>13 DEF RunOK, ListingOK, TransactionOK, Nothing
<1>6. QED
    BY <1>4, <1>5

\* Until a run broadcasts, the chain has nothing of it.
LEMMA ChainStays ==
    ASSUME LedgersOK, MempoolOK, NEW i \in Runs, OthersStay(i), UNCHANGED chainVars,
           pc[i] # "sent", pc'[i] # "sent"
    PROVE  LedgersOK' /\ MempoolOK'
<1>1. UNCHANGED <<committed, staged, delivered, mempool, index, dropped>>
    BY DEF chainVars
<1>2. \A j \in Runs : pc'[j] = "sent" <=> pc[j] = "sent"
    BY DEF OthersStay
<1>3. \A j \in Runs : pc[j] = "sent" => tx'[j] = tx[j]
    BY DEF OthersStay
<1>4. LedgersOK'
    BY <1>1, <1>2 DEF LedgersOK, LedgerOK, Applied
<1>5. \A t : Sent(t) => Sent(t)'
    BY <1>2, <1>3 DEF Sent
<1>6. MempoolOK'
    BY <1>1, <1>5 DEF MempoolOK, StillValid, DroppedForARival
<1>7. QED
    BY <1>4, <1>6

\* What a run sent: the transaction of its command, with outputs of its own nonces.
LEMMA SentIsBuilt ==
    ASSUME RunsOK, NEW t, Sent(t)
    PROVE  \E j \in Runs : /\ pc[j] = "sent" /\ t = tx[j] /\ t = Built(j)
                           /\ ~BuildFails(j) /\ ReadyCommand(j) /\ CommandOK(j)
<1>1. PICK j \in Runs : pc[j] = "sent" /\ t = tx[j]
    BY DEF Sent
<1>2. RunOK(j)
    BY DEF RunsOK
<1>3. TransactionOK(j) /\ CommandOK(j)
    BY <1>1, <1>2 DEF RunOK
<1>4. ReadyCommand(j)
    BY <1>1, <1>2, SettledIsReady DEF Settled
<1>5. QED
    BY <1>1, <1>3, <1>4 DEF TransactionOK

\* What a transaction of a command spends is known.
LEMMA InputsAreKnown ==
    ASSUME NEW i \in Runs, CommandOK(i), pc[i] \in Settled, ReadyCommand(i), ~BuildFails(i)
    PROVE  Inputs(Built(i)) \subseteq committed.known
<1>1. /\ ToSet(cmd[i].call.records) \subseteq committed.known
      /\ cmd[i].fee # None => cmd[i].fee.record \in committed.known
    BY DEF CommandOK, Owned
<1>2. Inputs(Built(i)) \subseteq ToSet(cmd[i].call.records)
            \cup (IF cmd[i].fee = None THEN {} ELSE {cmd[i].fee.record})
    BY BuiltInputs DEF Inputs
<1>3. QED
    BY <1>1, <1>2

\* A transaction is either a deployment, or it has an output, or it spends a record and
\* stakes nothing.
LEMMA BuiltIsOfUse ==
    ASSUME NEW i \in Runs, CommandOK(i), pc[i] \in Settled, ReadyCommand(i), ~BuildFails(i)
    PROVE  /\ Built(i).kind = "Deployment" => StakeUpdates(Built(i)) = <<>>
           /\ Outputted(Built(i)) = {} /\ Built(i).kind # "Deployment" =>
                Inputs(Built(i)) # {} /\ StakeUpdates(Built(i)) = <<>>
<1>1. /\ cmd[i].kind = "deploy" => StakeUpdates(Built(i)) = <<>>
      /\ cmd[i].kind # "deploy" => Built(i).kind = "Execution"
      /\ cmd[i].kind = "deploy" => Built(i).kind = "Deployment"
    BY BuiltParts, BuiltTransitions
<1>2. ASSUME Outputted(Built(i)) = {}, Built(i).kind # "Deployment"
      PROVE  Inputs(Built(i)) # {} /\ StakeUpdates(Built(i)) = <<>>
    <2>1. cmd[i].kind # "deploy"
        BY <1>1, <1>2
    <2>2. ToSet(cmd[i].call.program.functions) \subseteq Functions
        BY <2>1 DEF CommandOK
    <2>3. OutputRecords(Built(i)) = <<>>
        BY <1>2, BuiltOutputs DEF Outputted
    <2>4. QED
        BY <2>1, <2>2, <2>3, BuiltMeansSomething DEF Inputs
<1>3. QED
    BY <1>1, <1>2

\* What check_tx accepts was not delivered and, but for a deployment, not dropped before:
\* its nonces are new, or it has no output and what makes it of use was used up.
LEMMA AcceptedIsNew ==
    ASSUME ClientInv, NEW i \in Runs, pc[i] = "send", ~BuildFails(i),
           NEW doubt, CheckTx(staged, Built(i), doubt)
    PROVE  /\ Built(i) \notin delivered \cup index
           /\ Built(i) \in dropped => Built(i).kind = "Deployment"
<1> DEFINE t == Built(i)
<1>1. CommandOK(i) /\ pc[i] \in Settled /\ ReadyCommand(i)
    BY SettledIsReady DEF ClientInv, RunsOK, RunOK, Settled
<1>2. /\ Inputs(t) \cap staged.spent = {}
      /\ t.kind = "Deployment" => \A p \in staged.programs : p.id # t.program.id
    BY DEF CheckTx, Passes, CheckInputsAreUnspent, Inputs, ValidateTransaction, MayExist
<1>3. SUFFICES ASSUME \/ t \in delivered \cup index
                      \/ t \in dropped /\ t.kind # "Deployment"
               PROVE  FALSE
    OBVIOUS
<1>4. Sent(t)
    BY <1>3 DEF ClientInv, MempoolOK
<1>5. PICK j \in Runs : pc[j] = "sent" /\ t = Built(j) /\ ~BuildFails(j) /\ ReadyCommand(j)
    BY <1>4, SentIsBuilt DEF ClientInv
<1>6. Outputted(t) = {}
    <2>1. \A r \in Outputted(t) : r.seed \in Nonces(i) /\ r.seed \in Nonces(j)
        BY <1>1, <1>5, BuiltOutputs DEF Outputted
    <2>2. Nonces(i) \cap Nonces(j) = {}
        BY <1>5, SeedAssumption
    <2>3. QED
        BY <2>1, <2>2
<1>7. /\ t.kind = "Deployment" => StakeUpdates(t) = <<>>
      /\ t.kind # "Deployment" => Inputs(t) # {} /\ StakeUpdates(t) = <<>>
    BY <1>1, <1>6, BuiltIsOfUse
<1> HIDE DEF t
<1>8. CASE t \in delivered \cup index
    <2>1. Applied(t, staged)
        BY <1>8 DEF ClientInv, LedgersOK
    <2>2. QED
        BY <1>2, <1>7, <2>1 DEF Applied
<1>9. CASE t \in dropped /\ t.kind # "Deployment"
    <2>0. t.kind = "Execution"
        BY <1>9 DEF t, Built, BuildFails, BuildDeployment, BuildExecution, SetHashedId
    <2>1. PICK s \in delivered \cup index : Rivals(s, t)
        BY <1>9, <2>0 DEF ClientInv, MempoolOK, DroppedForARival
    <2>2. Applied(s, staged)
        BY <2>1 DEF ClientInv, LedgersOK
    <2>3. UpdatedBy(StakeUpdates(t)) = {}
        <3>1. DOMAIN StakeUpdates(t) = {}
            BY <1>7
        <3>2. QED
            BY <3>1 DEF UpdatedBy
    <2>4. Inputs(s) \cap Inputs(t) # {}
        BY <2>1, <2>3 DEF Rivals, Inputs
    <2>5. QED
        BY <1>2, <2>2, <2>4 DEF Applied
<1>10. QED
    BY <1>3, <1>8, <1>9

\* broadcast_tx_sync puts into the mempool what check_tx accepts.
LEMMA SendKeeps ==
    ASSUME ClientInv, NEW i \in Runs, Send(i), OthersStay(i)
    PROVE  RunOK(i)' /\ LedgersOK' /\ MempoolOK'
<1>1. /\ DOMAIN pc = Runs /\ DOMAIN tx = Runs /\ RunOK(i) /\ pc[i] = "send"
      /\ UNCHANGED <<committed, staged, delivered, index, dropped, cmd, got, seen>>
    BY DEF ClientInv, RunsOK, Send
<1>2. CommandOK(i) /\ ListingOK(i) /\ ReadyCommand(i)
    BY <1>1, SettledIsReady DEF RunOK, Settled
<1>3. Built(i)' = Built(i) /\ BuildFails(i)' = BuildFails(i)
    BY <1>1 DEF Built, BuildFails
<1>4. pc'[i] \in {"failed", "done", "sent", "refused"}
    BY <1>1 DEF Send
<1>5. pc'[i] \in {"sent", "refused"} => tx'[i] = Built(i) /\ ~BuildFails(i)
    BY <1>1 DEF Send
<1>6. CommandOK(i)'
    BY <1>1, <1>2, <1>4 DEF CommandOK, Owned, Settled
<1>7. RunOK(i)'
    BY <1>1, <1>2, <1>3, <1>4, <1>5, <1>6 DEF RunOK, ListingOK, TransactionOK
<1>8. CASE pc'[i] # "sent"
    <2>1. mempool' = mempool
        BY <1>1, <1>8 DEF Send
    <2>2. UNCHANGED chainVars
        BY <1>1, <2>1 DEF chainVars
    <2>3. QED
        BY <1>1, <1>7, <1>8, <2>2, ChainStays DEF ClientInv
<1>9. CASE pc'[i] = "sent"
    <2> DEFINE t == Built(i)
    <2>1. ~BuildFails(i) /\ mempool' = mempool \cup {t} /\ tx'[i] = t
        BY <1>1, <1>9 DEF Send
    <2>0. PICK doubt \in BOOLEAN : CheckTx(staged, t, doubt)
        BY <1>1, <1>9 DEF Send
    <2>2. \A j \in Runs : pc[j] = "sent" => pc'[j] = "sent" /\ tx'[j] = tx[j]
        BY <1>1 DEF OthersStay
    <2>3. \A s : Sent(s) => Sent(s)'
        BY <2>2 DEF Sent
    <2>4. ASSUME NEW s, s = t PROVE Sent(s)'
        <3>1. pc'[i] = "sent" /\ s = tx'[i]
            BY <1>9, <2>1, <2>4
        <3>2. QED
            BY <3>1 DEF Sent
    <2>5. LedgersOK'
        <3>1. \A j \in Runs : pc'[j] # "sent" => pc[j] # "sent"
            BY <2>2
        <3>2. LedgersOK
            BY DEF ClientInv
        <3>3. QED
            BY <1>1, <3>1, <3>2 DEF LedgersOK, LedgerOK, Applied
    <2>6. Outputted(t) \cap staged.known = {}
        <3>1. \A r \in Outputted(t) : r.seed \in Nonces(i)
            BY <1>2, <2>1, BuiltOutputs DEF Outputted
        <3>2. \A r \in staged.known : r.seed \notin Nonces(i)
            BY <1>1 DEF ClientInv, LedgersOK
        <3>3. QED
            BY <3>1, <3>2
    <2>7. t \notin delivered \cup index /\ (t \in dropped => t.kind = "Deployment")
        BY <1>1, <2>0, <2>1, AcceptedIsNew
    <2>10. t.kind = "Execution" => CheckTx(staged, t, FALSE)
        BY <2>0, DoubtIsOfDeployments
    <2> HIDE DEF t
    <2>8. MempoolOK'
        <3>1. MempoolOK
            BY DEF ClientInv
        <3>2. \A s \in mempool' \cup delivered' \cup index' \cup dropped' : Sent(s)'
            BY <1>1, <2>1, <2>3, <2>4, <3>1 DEF MempoolOK
        <3>3. /\ mempool' \cap (delivered' \cup index') = {}
              /\ \A s \in mempool' \cap dropped' : s.kind = "Deployment"
            BY <1>1, <2>1, <2>7, <3>1 DEF MempoolOK
        <3>4. \A s \in mempool' :
                /\ Outputted(s) \cap staged'.known = {}
                /\ s.kind = "Execution" => StillValid(s)'
            BY <1>1, <2>1, <2>6, <2>10, <3>1 DEF MempoolOK, StillValid
        <3>5. DroppedForARival'
            BY <1>1, <3>1 DEF MempoolOK, DroppedForARival
        <3>6. QED
            BY <3>2, <3>3, <3>4, <3>5 DEF MempoolOK
    <2>9. QED
        BY <1>7, <2>5, <2>8
<1>10. QED
    BY <1>8, <1>9

----------------------------------------------------------------------------
(* Steps of the chain.                                                       *)

\* A step of the chain only lets the committed store and the index grow.
LEMMA ChainKeepsRuns ==
    ASSUME RunsOK, UNCHANGED <<pc, cmd, got, seen, tx>>,
           committed.known \subseteq committed'.known, index \subseteq index'
    PROVE  RunsOK'
<1>1. \A i \in Runs : RunOK(i)'
    BY RunStays DEF RunsOK
<1>2. QED
    BY <1>1 DEF RunsOK

\* deliver_tx: a valid transaction is applied, and others in the mempool keep outputs that
\* are new, since nonces are of one run; one that is refused has a rival.
LEMMA DeliverKeeps ==
    ASSUME ClientInv, Deliver
    PROVE  ClientInv'
<1>1. PICK t \in mempool, doubt \in BOOLEAN :
        /\ mempool' = mempool \ {t}
        /\ staged' = LedgerTx(staged, t, doubt)
        /\ delivered' = delivered \cup IndexEvent(t, doubt)
        /\ dropped' = IF Accepts(staged, t, doubt) THEN dropped ELSE dropped \cup {t}
    BY DEF Deliver
<1>2. UNCHANGED <<committed, index, pc, cmd, got, seen, tx>>
    BY DEF Deliver
<1>3. RunsOK /\ LedgersOK /\ MempoolOK
    BY DEF ClientInv
<1>4. Sent(t)
    BY <1>3 DEF MempoolOK
<1>5. PICK j \in Runs : /\ pc[j] = "sent" /\ t = tx[j] /\ t = Built(j)
                        /\ ~BuildFails(j) /\ ReadyCommand(j) /\ CommandOK(j)
    BY <1>3, <1>4, SentIsBuilt
<1>6. /\ \A r \in Outputted(t) : r.seed \in Nonces(j) /\ r.gates \in Int
      /\ IsInjective(OutputRecords(t))
    BY <1>5, BuiltOutputs DEF Outputted
<1>7. /\ IsList(StakeUpdates(t)) /\ EachValidatorOnce(StakeUpdates(t))
      /\ \A update \in ToSet(StakeUpdates(t)) : update.delta \in Int
      /\ t.kind = "Deployment" => StakeUpdates(t) = <<>>
    BY <1>5, BuiltStakes, BuiltIsOfUse DEF Settled
<1>8. Inputs(t) \subseteq staged.known
    <2>1. Inputs(t) \subseteq committed.known
        BY <1>5, InputsAreKnown DEF Settled
    <2>2. QED
        BY <1>3, <2>1 DEF LedgersOK
<1>9. LedgerOK(staged) /\ IsLedger(staged)
    BY <1>3 DEF LedgersOK, LedgerOK
<1>10. /\ IsLedger(staged')
       /\ Accepts(staged, t, doubt) =>
            /\ staged'.known = staged.known \cup Outputted(t)
            /\ staged'.spent = staged.spent \cup Inputs(t)
            /\ staged'.programs = IF t.kind = "Deployment"
                                  THEN staged.programs \cup {t.program} ELSE staged.programs
            /\ staged'.validators =
                AfterUpdates(staged.validators, StakeUpdates(t))[Len(StakeUpdates(t))]
       /\ ~Accepts(staged, t, doubt) =>
            /\ staged'.known = staged.known /\ staged'.spent = staged.spent
            /\ staged'.programs = staged.programs
            /\ staged'.validators = staged.validators
    <2> DEFINE moved == LedgerTx(staged, t, doubt)
    <2>1. CASE Accepts(staged, t, doubt)
        <3>1. /\ IsLedger(moved)
              /\ moved.known = staged.known \cup Outputted(t)
              /\ moved.spent = staged.spent \cup Inputs(t)
              /\ moved.programs = IF t.kind = "Deployment"
                                  THEN staged.programs \cup {t.program} ELSE staged.programs
              /\ moved.validators =
                    AfterUpdates(staged.validators, StakeUpdates(t))[Len(StakeUpdates(t))]
              /\ moved.fees = staged.fees + Fees(t)
              /\ moved.codes = Append(staged.codes, TRUE)
            BY <1>9, <2>1, LedgerTxAccepts
        <3>2. staged' = moved
            BY <1>1
        <3> HIDE DEF moved
        <3>3. QED
            BY <2>1, <3>1, <3>2
    <2>2. CASE ~Accepts(staged, t, doubt)
        <3>1. /\ IsLedger(moved)
              /\ moved.known = staged.known
              /\ moved.spent = staged.spent
              /\ moved.programs = staged.programs
              /\ moved.validators = staged.validators
              /\ moved.fees = staged.fees
              /\ moved.codes = Append(staged.codes, FALSE)
            BY <1>9, <2>2, LedgerTxRejects
        <3>2. staged' = moved
            BY <1>1
        <3> HIDE DEF moved
        <3>3. QED
            BY <2>2, <3>1, <3>2
    <2>3. QED
        BY <2>1, <2>2
<1>11. /\ staged.known \subseteq staged'.known /\ staged.spent \subseteq staged'.spent
       /\ staged.programs \subseteq staged'.programs
       /\ staged'.known \subseteq staged.known \cup Outputted(t)
    BY <1>10
<1>12. \A s : Applied(s, staged) => Applied(s, staged')
    BY <1>11 DEF Applied
<1>13. LedgerOK(staged')
    <2>1. staged'.spent \subseteq staged'.known
        BY <1>8, <1>9, <1>10 DEF LedgerOK
    <2>2. \A v \in DOMAIN staged'.validators : staged'.validators[v].power \in Nat
        <3>1. CASE Accepts(staged, t, doubt)
            <4>1. ~UpdatesPanic(staged.validators, StakeUpdates(t))
                BY <3>1 DEF Accepts, Valid
            <4>2. QED
                BY <1>7, <1>9, <1>10, <3>1, <4>1, UpdatedPowers DEF LedgerOK
        <3>2. CASE ~Accepts(staged, t, doubt)
            BY <1>9, <1>10, <3>2 DEF LedgerOK
        <3>3. QED
            BY <3>1, <3>2
    <2>3. staged'.strays = {}
        <3> DEFINE moved == LedgerTx(staged, t, doubt)
        <3>1. StrayInputs(staged, t) = {}
            BY <1>8 DEF StrayInputs, Inputs
        <3>2. Valid(staged, t, doubt) => Accepts(staged, t, doubt)
            BY <3>1 DEF Accepts
        <3>3. /\ Accepts(staged, t, doubt) => moved.strays = staged.strays
              /\ ~Valid(staged, t, doubt) => moved.strays = staged.strays
            BY <1>9, LedgerTxStrays
        <3>4. moved.strays = staged.strays
            BY <3>2, <3>3
        <3> HIDE DEF moved
        <3>5. QED
            BY <1>1, <1>9, <3>4 DEF LedgerOK, moved
    <2>4. QED
        BY <1>10, <2>1, <2>2, <2>3 DEF LedgerOK
<1>14. ASSUME Accepts(staged, t, doubt) PROVE Applied(t, staged')
    <2>1. /\ Outputted(t) \subseteq staged'.known /\ Inputs(t) \subseteq staged'.spent
          /\ t.kind = "Deployment" => t.program \in staged'.programs
        BY <1>10, <1>14
    <2>2. QED
        BY <2>1 DEF Applied
<1>15. LedgersOK'
    <2>1. \A s \in delivered' \cup index' : Applied(s, staged')
        <3>1. ASSUME NEW s \in delivered' \cup index' PROVE Applied(s, staged')
            <4>1. s \in delivered \cup index \/ (s = t /\ Accepts(staged, t, doubt))
                BY <1>1, <1>2 DEF IndexEvent
            <4>2. QED
                BY <1>3, <1>12, <1>14, <4>1 DEF LedgersOK
        <3>2. QED
            BY <3>1
    <2>2. \A r \in staged'.known : r.gates \in Int
        BY <1>3, <1>6, <1>11 DEF LedgersOK
    <2>3. \A r \in staged'.known : \A i \in Runs :
            pc'[i] # "sent" => r.seed \notin Nonces(i)
        <3>1. ASSUME NEW r \in staged'.known, NEW i \in Runs, pc'[i] # "sent"
              PROVE  r.seed \notin Nonces(i)
            <4>1. CASE r \in staged.known
                BY <1>2, <1>3, <3>1, <4>1 DEF LedgersOK
            <4>2. CASE r \in Outputted(t)
                <5>1. i # j /\ r.seed \in Nonces(j)
                    BY <1>2, <1>5, <1>6, <3>1, <4>2
                <5>2. QED
                    BY <5>1, SeedAssumption
            <4>3. QED
                BY <1>11, <4>1, <4>2
        <3>2. QED
            BY <3>1
    <2>4. /\ LedgerOK(committed)
          /\ committed.known \subseteq staged'.known
          /\ committed.spent \subseteq staged'.spent
          /\ \A s \in index : Applied(s, committed)
        BY <1>3, <1>11 DEF LedgersOK
    <2>5. QED
        BY <1>2, <1>13, <2>1, <2>2, <2>3, <2>4 DEF LedgersOK
<1>16. MempoolOK'
    <2>1. \A s : Sent(s) => Sent(s)'
        BY <1>2 DEF Sent
    <2>2. \A s \in mempool' \cup delivered' \cup index' \cup dropped' : Sent(s)
        BY <1>1, <1>2, <1>3 DEF MempoolOK, IndexEvent
    <2>3. /\ mempool' \cap (delivered' \cup index') = {}
          /\ \A s \in mempool' \cap dropped' : s.kind = "Deployment"
        BY <1>1, <1>2, <1>3 DEF MempoolOK, IndexEvent
    <2>4. ASSUME NEW s \in mempool' PROVE Outputted(s) \cap staged'.known = {}
        <3>1. s # t /\ s \in mempool /\ Outputted(s) \cap staged.known = {} /\ Sent(s)
            BY <1>1, <1>3 DEF MempoolOK
        <3>2. PICK k \in Runs : /\ s = tx[k] /\ s = Built(k)
                                /\ ~BuildFails(k) /\ ReadyCommand(k)
            BY <1>3, <3>1, SentIsBuilt
        <3>3. \A r \in Outputted(s) : r.seed \in Nonces(k)
            BY <3>2, BuiltOutputs DEF Outputted
        <3>4. j # k
            BY <1>5, <3>1, <3>2
        <3>5. Nonces(j) \cap Nonces(k) = {}
            BY <3>4, SeedAssumption
        <3>6. QED
            BY <1>6, <1>11, <3>1, <3>3, <3>5
    <2>5. ASSUME NEW s \in mempool', s.kind = "Execution" PROVE StillValid(s)'
        <3>1. s \in mempool /\ StillValid(s)
            BY <1>1, <1>3, <2>5 DEF MempoolOK
        <3>2. CASE \E q \in delivered \cup index : Rivals(q, s)
            BY <1>1, <1>2, <3>2 DEF StillValid
        <3>3. CASE CheckTx(staged, s, FALSE)
            <4>1. CASE Accepts(staged, t, doubt)
                <5>1. t \in delivered'
                    BY <1>1, <4>1 DEF IndexEvent
                <5>2. CheckTx(staged', s, FALSE) \/ Rivals(t, s)
                    BY <1>1, <1>7, <1>9, <2>5, <3>3, ValidUntilRival
                <5>3. QED
                    BY <5>1, <5>2 DEF StillValid
            <4>2. CASE ~Accepts(staged, t, doubt)
                <5>1. CheckTx(staged', s, FALSE)
                    BY <1>10, <3>3, <4>2 DEF CheckTx
                <5>2. QED
                    BY <5>1 DEF StillValid
            <4>3. QED
                BY <4>1, <4>2
        <3>4. QED
            BY <3>1, <3>2, <3>3 DEF StillValid
    <2>6. ASSUME ~Accepts(staged, t, doubt), t.kind = "Execution"
          PROVE  \E s \in delivered \cup index : Rivals(s, t)
        <3>1. Outputted(t) \cap staged.known = {} /\ StillValid(t)
            BY <1>3, <2>6 DEF MempoolOK
        <3>2. ~CheckTx(staged, t, doubt)
            BY <1>6, <1>7, <1>8, <2>6, <3>1, ValidIsAccepted
        <3>3. ~CheckTx(staged, t, FALSE)
            BY <2>6, <3>2, DoubtIsOfDeployments
        <3>4. QED
            BY <3>1, <3>3 DEF StillValid
    <2>7. DroppedForARival'
        <3>1. \A s \in dropped : s.kind = "Execution" =>
                \E q \in delivered \cup index : Rivals(q, s)
            BY <1>3 DEF MempoolOK, DroppedForARival
        <3>2. \A s \in dropped' : s.kind = "Execution" =>
                \E q \in delivered \cup index : Rivals(q, s)
            BY <1>1, <2>6, <3>1
        <3>3. delivered \cup index \subseteq delivered' \cup index'
            BY <1>1, <1>2
        <3>4. QED
            BY <3>2, <3>3 DEF DroppedForARival
    <2>8. QED
        BY <2>1, <2>2, <2>3, <2>4, <2>5, <2>7 DEF MempoolOK
<1>17. RunsOK'
    BY <1>2, <1>3, ChainKeepsRuns
<1>18. QED
    BY <1>15, <1>16, <1>17 DEF ClientInv

\* commit: what was delivered is committed and can be found; recheck drops from the mempool
\* what a rival made invalid.
LEMMA CommitBlockKeeps ==
    ASSUME ClientInv, CommitBlock
    PROVE  ClientInv'
<1>0. PICK doubted : mempool' = {t \in mempool : CheckTx(staged, t, t \in doubted)}
    BY Zenon DEF CommitBlock
<1> DEFINE valid == {t \in mempool : CheckTx(staged, t, t \in doubted)}
<1>1. /\ committed' = [staged EXCEPT !.codes = <<>>, !.updated = {}, !.fees = 0]
      /\ staged' = committed'
      /\ index' = index \cup delivered /\ delivered' = {}
      /\ mempool' = valid /\ dropped' = dropped \cup (mempool \ valid)
      /\ UNCHANGED <<pc, cmd, got, seen, tx>>
    BY <1>0, Zenon DEF CommitBlock
<1>2. RunsOK /\ LedgersOK /\ MempoolOK
    BY DEF ClientInv
<1>3. IsLedger(staged)
    BY <1>2 DEF LedgersOK, LedgerOK
<1>4. /\ committed'.known = staged.known /\ committed'.spent = staged.spent
      /\ committed'.programs = staged.programs
      /\ committed'.validators = staged.validators /\ committed'.strays = staged.strays
      /\ IsLedger(committed')
    BY <1>1, <1>3 DEF IsLedger
<1>5. \A s : Applied(s, staged) => Applied(s, committed')
    BY <1>4 DEF Applied
<1>6. LedgersOK'
    <2>1. LedgerOK(committed')
        BY <1>2, <1>4 DEF LedgersOK, LedgerOK
    <2>2. \A s \in index' : Applied(s, committed')
        BY <1>1, <1>2, <1>5 DEF LedgersOK
    <2>3. \A r \in committed'.known :
            /\ r.gates \in Int
            /\ \A i \in Runs : pc[i] # "sent" => r.seed \notin Nonces(i)
        BY <1>2, <1>4 DEF LedgersOK
    <2>4. QED
        BY <1>1, <2>1, <2>2, <2>3 DEF LedgersOK
<1>7. \A s, doubt : CheckTx(staged, s, doubt) => CheckTx(staged', s, doubt)
    BY <1>1, <1>4 DEF CheckTx
<1>8. MempoolOK'
    <2>1. \A s : Sent(s) => Sent(s)'
        BY <1>1 DEF Sent
    <2>2. \A s \in mempool' \cup delivered' \cup index' \cup dropped' : Sent(s)
        BY <1>1, <1>2 DEF MempoolOK
    <2>3. /\ mempool' \cap (delivered' \cup index') = {}
          /\ \A s \in mempool' \cap dropped' : s.kind = "Deployment"
        BY <1>1, <1>2 DEF MempoolOK
    <2>4. ASSUME NEW s \in mempool'
          PROVE  /\ Outputted(s) \cap staged'.known = {}
                 /\ s.kind = "Execution" => StillValid(s)'
        <3>1. Outputted(s) \cap staged'.known = {}
            BY <1>1, <1>2, <1>4 DEF MempoolOK
        <3>2. CheckTx(staged, s, s \in doubted)
            BY <1>1
        <3>3. s.kind = "Execution" => CheckTx(staged, s, FALSE)
            BY <3>2, DoubtIsOfDeployments
        <3>4. QED
            BY <1>7, <3>1, <3>3 DEF StillValid
    <2>5. DroppedForARival'
        <3>0. ASSUME NEW s \in mempool \ valid, s.kind = "Execution"
              PROVE  \E q \in delivered \cup index : Rivals(q, s)
            <4>1. ~CheckTx(staged, s, s \in doubted)
                BY <3>0
            <4>2. ~CheckTx(staged, s, FALSE)
                BY <3>0, <4>1, DoubtIsOfDeployments
            <4>3. QED
                BY <1>2, <3>0, <4>2 DEF MempoolOK, StillValid
        <3>1. \A s \in dropped \cup (mempool \ valid) : s.kind = "Execution" =>
                \E q \in delivered \cup index : Rivals(q, s)
            BY <1>2, <3>0 DEF MempoolOK, DroppedForARival
        <3>2. QED
            BY <1>1, <3>1 DEF DroppedForARival
    <2>6. QED
        BY <2>1, <2>2, <2>3, <2>4, <2>5 DEF MempoolOK
<1>9. RunsOK'
    <2>1. committed.known \subseteq committed'.known /\ index \subseteq index'
        BY <1>1, <1>2, <1>4 DEF LedgersOK
    <2>2. QED
        BY <1>1, <1>2, <2>1, ChainKeepsRuns
<1>10. QED
    BY <1>6, <1>8, <1>9 DEF ClientInv

----------------------------------------------------------------------------
(* The theorems.                                                             *)

\* At the start the chain has the genesis state, and no run began.
LEMMA InitClientInv ==
    ASSUME Init
    PROVE  ClientInv
<1>1. GenesisLedger.known = GenesisRecords /\ GenesisLedger.spent = {}
      /\ GenesisLedger.strays = {}
      /\ GenesisLedger.validators = GenesisValidators /\ IsLedger(GenesisLedger)
    BY DEF GenesisLedger, IsLedger
<1>2. LedgerOK(GenesisLedger)
    BY <1>1, GenesisAssumption DEF LedgerOK
<1>3. LedgersOK
    <2>1. \A r \in GenesisRecords : r.gates \in Int
        BY GenesisRecordsAssumption
    <2>2. \A r \in GenesisRecords : \A i \in Runs : r.seed \notin Nonces(i)
        BY SeedAssumption
    <2>3. QED
        BY <1>1, <1>2, <2>1, <2>2 DEF Init, LedgersOK
<1>4. MempoolOK
    BY DEF Init, MempoolOK, DroppedForARival
<1>5. RunsOK
    BY DEF Init, RunsOK, RunOK, ListingOK, TransactionOK, Nothing, PCs
<1>6. QED
    BY <1>3, <1>4, <1>5 DEF ClientInv

\* Every step of a run or of the chain.
LEMMA NextClientInv ==
    ASSUME ClientInv, [Next]_vars
    PROVE  ClientInv'
<1>1. ASSUME NEW i \in Runs, Step(i) PROVE ClientInv'
    <2>1. RunsOK /\ LedgersOK /\ MempoolOK
        BY DEF ClientInv
    <2>2. OthersStay(i)
        BY <1>1, <2>1, StepIsOfOneRun
    <2>3. ASSUME RunOK(i)', UNCHANGED committed, UNCHANGED index PROVE RunsOK'
        <3>1. ASSUME NEW k \in Runs \ {i} PROVE RunOK(k)'
            BY <2>1, <2>2, <2>3, RunStays DEF RunsOK, OthersStay
        <3>2. QED
            BY <2>2, <2>3, <3>1 DEF RunsOK, OthersStay
    <2>4. CASE Send(i)
        <3>1. RunOK(i)' /\ LedgersOK' /\ MempoolOK'
            BY <2>2, <2>4, SendKeeps
        <3>2. UNCHANGED <<committed, index>>
            BY <2>4 DEF Send
        <3>3. QED
            BY <2>3, <3>1, <3>2 DEF ClientInv
    <2>5. CASE ~Send(i)
        <3>1. UNCHANGED chainVars
            BY <1>1, <2>5 DEF Step, Start, AskFirst, AskSecond, ShowRecords,
                              ChooseFeeRecord, GetProgram, GetTransaction
        <3>2. RunOK(i)'
            BY <1>1, <2>5, StartKeepsRun, AskKeepsRun, AnswerKeepsRun, ChoiceKeepsRun
            DEF Step
        <3>3. pc[i] # "sent"
            BY <1>1, <2>5 DEF Step, Start, AskFirst, AskSecond, ShowRecords,
                              ChooseFeeRecord, GetProgram, GetTransaction
        <3>4. pc'[i] # "sent"
            <4>1. DOMAIN pc = Runs
                BY <2>1 DEF RunsOK
            <4>2. AfterFee(cmd[i]) # "sent"
                BY DEF AfterFee
            <4>3. \A request : FirstRequest(request) # "sent"
                BY DEF FirstRequest, AfterFee
            <4>4. CASE Start(i)
                <5>1. PICK request : pc' = [pc EXCEPT ![i] = FirstRequest(request)]
                    BY <4>4, Zenon DEF Start
                <5>2. QED
                    BY <4>1, <4>3, <5>1
            <4>5. CASE ~Start(i)
                BY <1>1, <2>5, <4>1, <4>2, <4>5 DEF Step, AskFirst, AskSecond, ShowRecords,
                        ChooseFeeRecord, GetProgram, GetTransaction
            <4>6. QED
                BY <4>4, <4>5
        <3>5. LedgersOK' /\ MempoolOK'
            BY <2>1, <2>2, <3>1, <3>3, <3>4, ChainStays
        <3>6. QED
            BY <2>3, <3>1, <3>2, <3>5 DEF ClientInv, chainVars
    <2>6. QED
        BY <2>4, <2>5
<1>2. CASE Chain
    BY <1>2, DeliverKeeps, CommitBlockKeeps DEF Chain
<1>3. CASE UNCHANGED vars
    <2>1. UNCHANGED <<committed, staged, delivered, mempool, index, dropped>>
          /\ UNCHANGED <<pc, cmd, got, seen, tx>>
        BY <1>3 DEF vars, chainVars
    <2>2. RunsOK'
        BY <2>1, ChainKeepsRuns DEF ClientInv
    <2>3. LedgersOK'
        BY <2>1 DEF ClientInv, LedgersOK, LedgerOK, Applied
    <2>4. MempoolOK'
        BY <2>1 DEF ClientInv, MempoolOK, StillValid, DroppedForARival, Sent
    <2>5. QED
        BY <2>2, <2>3, <2>4 DEF ClientInv
<1>4. QED
    BY <1>1, <1>2, <1>3 DEF Next, Stopped

\* The invariant that the theorems below rest on.
THEOREM ClientInvariant == Spec => []ClientInv
<1>1. Init => ClientInv
    BY InitClientInv
<1>2. ClientInv /\ [Next]_vars => ClientInv'
    BY NextClientInv
<1>3. QED
    BY <1>1, <1>2, PTL DEF Spec

\* The application's records are known before they are spent, so no
\* client spends one that nobody made.  Powers are never negative, the committed state is a
\* part of the one that deliver_tx works on, and the mempool has no transaction that was
\* delivered and no execution that was dropped, even if it is sent a second time.
THEOREM Typed == Spec => []TypeOK
<1>1. ClientInv => TypeOK
    BY DEF ClientInv, RunsOK, LedgersOK, LedgerOK, MempoolOK, TypeOK
<1>2. QED
    BY <1>1, ClientInvariant, PTL

\* get_records: what the two queries give together is unspent when the second is answered,
\* and lacks nothing that was unspent all along, whatever blocks come in between.
THEOREM ListingsAreCurrent == Spec => ListingIsCurrent
<1> DEFINE A(i) == pc[i] = "second" /\ pc'[i] = "listed" =>
                    /\ Listing(got'[i]) \subseteq Unspent(i, committed)
                    /\ seen[i] \cap Unspent(i, committed) \subseteq Listing(got'[i])
           Current == \A i \in Runs : A(i)
<1>1. ASSUME ClientInv, Next, NEW i \in Runs PROVE A(i)
    <2> SUFFICES ASSUME pc[i] = "second", pc'[i] = "listed"
                 PROVE  /\ Listing(got'[i]) \subseteq Unspent(i, committed)
                        /\ seen[i] \cap Unspent(i, committed) \subseteq Listing(got'[i])
        OBVIOUS
    <2>1. RunsOK /\ RunOK(i)
        BY <1>1 DEF ClientInv, RunsOK
    <2>2. PICK k \in Runs : Step(k)
        BY <1>1 DEF Next, Chain, Deliver, CommitBlock, Stopped, vars
    <2>3. k = i
        BY <2>1, <2>2, StepIsOfOneRun DEF OthersStay
    <2>4. AskSecond(i)
        BY <2>2, <2>3 DEF Step, Start, AskFirst, ShowRecords, ChooseFeeRecord, GetProgram,
                          Send, GetTransaction
    <2>5. /\ got[i] = [records |-> got[i].records, spent |-> got[i].spent]
          /\ got[i].records \subseteq Owned(i, committed)
          /\ seen[i] \subseteq got[i].records
        BY <2>1 DEF RunOK, ListingOK
    <2>6. got'[i] = [records |-> got[i].records, spent |-> committed.spent]
        <3>1. DOMAIN got = Runs
            BY <2>1 DEF RunsOK
        <3>2. got' = [got EXCEPT ![i]["spent"] = committed.spent]
            BY <2>4 DEF AskSecond, Queries, Answer
        <3>3. got'[i] = [got[i] EXCEPT !["spent"] = committed.spent]
            BY <3>1, <3>2
        <3>4. QED
            BY <2>5, <3>3
    <2>7. Listing(got'[i]) = got[i].records \ committed.spent
        BY <2>6 DEF Listing
    <2>8. QED
        BY <2>5, <2>7 DEF Unspent
<1>2. ClientInv /\ [Next]_vars => [Current]_vars
    BY <1>1
<1> HIDE DEF Current
<1>3. Spec => [][Current]_vars
    BY <1>2, ClientInvariant, PTL DEF Spec
<1>4. QED
    BY <1>3 DEF ListingIsCurrent, Current

\* choose_fee_record takes no input of the command, so the transaction that is sent has a
\* record twice only if the command line has.
THEOREM FeeRecordsAreSeparate == Spec => []FeeRecordIsSeparate
<1>1. ASSUME ClientInv, NEW i \in Runs, pc[i] \in {"sent", "refused"}, ~cmd[i].named,
             IsInjective(cmd[i].call.records)
      PROVE  IsInjective(RecordSerialNumbers(tx[i]))
    <2>1. RunOK(i) /\ pc[i] \in Settled /\ pc[i] # "new"
        BY <1>1 DEF ClientInv, RunsOK, Settled
    <2>2. CommandOK(i) /\ ReadyCommand(i) /\ tx[i] = Built(i) /\ ~BuildFails(i)
        BY <1>1, <2>1, SettledIsReady DEF RunOK, TransactionOK
    <2>3. cmd[i].fee # None => cmd[i].fee.record \notin ToSet(cmd[i].call.records)
        BY <1>1, <2>1, <2>2 DEF CommandOK
    <2>4. QED
        BY <1>1, <2>2, <2>3, BuiltInputs
<1>2. ClientInv => FeeRecordIsSeparate
    BY <1>1 DEF FeeRecordIsSeparate
<1>3. QED
    BY <1>2, ClientInvariant, PTL

\* A credits record that select_default_fee_record took pays the fee: execute_fee asks for
\* no more than the fee that it covers.
THEOREM FeesArePayable == Spec => []FeeIsPayable
<1>1. ASSUME ClientInv, NEW i \in Runs, pc[i] = "send", BuildFails(i),
             cmd[i].fee # None, ~cmd[i].named, cmd[i].fee.record.name = "credits"
      PROVE  /\ cmd[i].kind # "deploy"
             /\ Executable(Account[i], cmd[i].call) => Executed(cmd[i].call, 0).fee < 0
    <2> DEFINE fee == cmd[i].fee
               record == fee.record
    <2>1. RunOK(i) /\ pc[i] \in Settled /\ pc[i] # "new"
        BY <1>1 DEF ClientInv, RunsOK, Settled
    <2>2. CommandOK(i) /\ ReadyCommand(i)
        BY <2>1, SettledIsReady DEF RunOK
    <2>3. /\ fee.gates \in Nat /\ record.gates \in Int /\ record.owner = Account[i]
          /\ record.gates >= fee.gates
        BY <1>1, <2>1, <2>2 DEF CommandOK, Owned
    <2> HIDE DEF fee
    <2>4. ASSUME NEW implicit \in Int, implicit >= 0
          PROVE  ~ExecuteFeeFails(Account[i], fee, implicit)
        <3> DEFINE call == FeeCall(record, fee.gates - implicit)
        <3>1. /\ call.function = "fee" /\ call.records = <<record>>
              /\ call.amount = fee.gates - implicit /\ call.program = CreditsProgram
            BY DEF FeeCall
        <3> HIDE DEF call
        <3>2. call.function \in ToSet(call.program.functions)
            <4>1. /\ CreditsProgram.functions[4] = "fee"
                  /\ 4 \in DOMAIN CreditsProgram.functions
                BY DEF CreditsProgram
            <4>2. QED
                BY <3>1, <4>1 DEF ToSet
        <3>3. [n \in DOMAIN call.records |-> call.records[n].name] = InputNames(call)
            <4>1. InputNames(call) = <<"credits">>
                BY <3>1 DEF InputNames, Subtracting
            <4>2. record.name = "credits"
                BY <1>1 DEF fee
            <4>3. QED
                BY <3>1, <4>1, <4>2
        <3>4. \A n \in DOMAIN call.records : call.records[n].owner = Account[i]
            BY <2>3, <3>1
        <3>5. call.amount <= call.records[1].gates
            BY <2>3, <2>4, <3>1
        <3>6. Executable(Account[i], call)
            BY <3>2, <3>3, <3>4, <3>5 DEF Executable
        <3>7. QED
            BY <2>4, <3>6 DEF ExecuteFeeFails, call
    <2>5. cmd[i].kind # "deploy"
        BY <1>1, <2>4 DEF BuildFails, fee
    <2>6. Seed[i] \in Nat /\ IsCall(cmd[i].call)
        BY <2>2, SeedAssumption DEF ReadyCommand
    <2>7. /\ Executed(cmd[i].call, Seed[i]).fee \in Int
          /\ Executed(cmd[i].call, Seed[i]).fee = Executed(cmd[i].call, 0).fee
        BY <2>6, TransitionFields
    <2>8. ASSUME Executable(Account[i], cmd[i].call)
          PROVE  Executed(cmd[i].call, 0).fee < 0
        <3>1. ExecuteFeeFails(Account[i], fee, Executed(cmd[i].call, Seed[i]).fee)
            BY <1>1, <2>5, <2>8 DEF BuildFails, ExecutionFails, fee
        <3> DEFINE implicit == Executed(cmd[i].call, Seed[i]).fee
        <3>2. implicit \in Int /\ implicit = Executed(cmd[i].call, 0).fee
            BY <2>7
        <3> HIDE DEF implicit
        <3>3. ~(implicit >= 0)
            BY <2>4, <3>1, <3>2 DEF implicit
        <3>4. QED
            BY <3>2, <3>3
    <2>9. QED
        BY <2>5, <2>8
<1>2. ClientInv => FeeIsPayable
    BY <1>1 DEF FeeIsPayable
<1>3. QED
    BY <1>2, ClientInvariant, PTL

\* execute_fee takes the implicit fee off the requested one, so a transaction burns just the
\* larger of the two.
THEOREM FeesAreExact == Spec => []FeeIsExact
<1>1. ASSUME ClientInv, NEW i \in Runs, pc[i] \in {"sent", "refused"}, cmd[i].fee # None
      PROVE  LET implicit == IF cmd[i].kind = "deploy" THEN 0
                             ELSE tx[i].transitions[1].fee
             IN  Fees(tx[i]) = IF implicit > cmd[i].fee.gates THEN implicit
                               ELSE cmd[i].fee.gates
    <2> DEFINE t == Executed(cmd[i].call, Seed[i])
    <2>1. RunOK(i) /\ pc[i] \in Settled /\ pc[i] # "new"
        BY <1>1 DEF ClientInv, RunsOK, Settled
    <2>2. ReadyCommand(i) /\ tx[i] = Built(i) /\ ~BuildFails(i)
        BY <1>1, <2>1, SettledIsReady DEF RunOK, TransactionOK
    <2>3. cmd[i].fee.gates \in Nat
        BY <1>1, <2>2 DEF ReadyCommand
    <2>4. FeePaid(i) <=> Implicit(i) <= cmd[i].fee.gates
        BY <1>1 DEF FeePaid, FeeIsDue
    <2>5. CASE cmd[i].kind = "deploy"
        <3>1. Implicit(i) = 0
            BY <2>5 DEF Implicit
        <3>2. FeePaid(i)
            BY <2>3, <2>4, <3>1
        <3>3. Fees(tx[i]) = cmd[i].fee.gates
            BY <2>2, <2>5, <3>2, BuiltParts
        <3>4. QED
            BY <2>3, <2>5, <3>3
    <2>6. CASE cmd[i].kind # "deploy"
        <3>1. Implicit(i) = t.fee
            BY <2>6 DEF Implicit
        <3>2. /\ t.fee \in Int /\ tx[i].transitions[1] = t
              /\ Fees(tx[i]) = IF FeePaid(i) THEN cmd[i].fee.gates ELSE t.fee
            BY <2>2, <2>6, BuiltParts
        <3> HIDE DEF t
        <3>3. QED
            BY <2>3, <2>4, <2>6, <3>1, <3>2
    <2>7. QED
        BY <2>5, <2>6
<1>2. ClientInv => FeeIsExact
    BY <1>1, Zenon DEF FeeIsExact
<1>3. QED
    BY <1>2, ClientInvariant, PTL

\* An execution that check_tx accepted leaves the mempool without effect only for a rival
\* that deliver_tx accepted before it.
THEOREM DroppedForRivals == Spec => []DroppedForARival
<1>1. ClientInv => DroppedForARival
    BY DEF ClientInv, MempoolOK
<1>2. QED
    BY <1>1, ClientInvariant, PTL

\* A transaction that get_transaction finds is one that deliver_tx applied and commit saved.
THEOREM FoundAreApplied == Spec => []FoundIsApplied
<1>1. ClientInv => FoundIsApplied
    <2>1. ASSUME ClientInv, NEW i \in Runs, pc[i] = "found"
          PROVE  /\ Outputted(tx[i]) \subseteq committed.known
                 /\ Inputs(tx[i]) \subseteq committed.spent
        <3>1. tx[i] \in index
            BY <2>1 DEF ClientInv, RunsOK, RunOK, TransactionOK
        <3>2. QED
            BY <2>1, <3>1 DEF ClientInv, LedgersOK, Applied
    <2>2. QED
        BY <2>1 DEF FoundIsApplied, Outputted, Inputs
<1>2. QED
    BY <1>1, ClientInvariant, PTL
=============================================================================
