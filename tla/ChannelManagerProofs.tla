------------------------ MODULE ChannelManagerProofs ------------------------
(***************************************************************************)
(* Proofs about the consumers of a channel, for every number of workers    *)
(* and sessions, every capacity, and with the channel stopped, started and *)
(* replaced at any time: its types, what becomes of every message, and,    *)
(* while it is neither replaced nor started again, that it is a mailbox.   *)
(* What is said of sequences follows by induction on their length, which   *)
(* is stated with sets (SequencesByAppend).                                *)
(***************************************************************************)
EXTENDS ChannelManager, FiniteSetTheorems, SequenceTheorems, TLAPS

-----------------------------------------------------------------------------
(* Every set of naturals that is not empty has a least element; what       *)
(* follows by induction is proved by looking at the least exception.       *)
LEMMA LeastNatural ==
    ASSUME NEW S, S \subseteq Nat, S # {}
    PROVE  \E m \in S : \A n \in S : m <= n
  <1> DEFINE R == StrictSubsetOrdering(Nat)
             F == FiniteSubsetsOf(Nat)
             T == {1 .. n : n \in S}
  <1>1. IsWellFoundedOn(R, F)
    BY FS_StrictSubsetOrderingWellFounded
  <1>2. T \subseteq F
    <2> SUFFICES ASSUME NEW n \in S PROVE 1 .. n \in F
      OBVIOUS
    <2>1. IsFiniteSet(1 .. n)
      BY FS_Interval
    <2> QED
      BY <2>1 DEF FiniteSubsetsOf
  <1>3. T # {}
    OBVIOUS
  <1>4. PICK t \in T : \A u \in T : ~ (<<u, t>> \in R)
    <2> HIDE DEF R, F, T
    <2> QED
      BY <1>1, <1>2, <1>3, WFMin
  <1>5. PICK m \in S : t = 1 .. m
    OBVIOUS
  <1>6. ASSUME NEW n \in S, n < m PROVE FALSE
    <2>1. 1 .. n \subseteq 1 .. m
      BY <1>6
    <2>2. m \in 1 .. m /\ m \notin 1 .. n
      BY <1>6
    <2>3. <<1 .. n, 1 .. m>> \in R
      BY <2>1, <2>2 DEF StrictSubsetOrdering
    <2> QED
      BY <2>3, <1>4, <1>5
  <1> QED
    BY <1>6

LEMMA NaturalsByStep ==
    ASSUME NEW S, 0 \in S, \A n \in Nat : n \in S => n + 1 \in S
    PROVE  Nat \subseteq S
  <1> SUFFICES ASSUME Nat \ S # {} PROVE FALSE
    OBVIOUS
  <1>1. PICK m \in Nat \ S : \A n \in Nat \ S : m <= n
    BY LeastNatural
  <1>2. m # 0 /\ m - 1 \in Nat /\ m - 1 \notin S
    BY <1>1
  <1> QED
    BY <1>1, <1>2

(* Induction over sequences, from the front: whatever set has the empty    *)
(* sequence and is closed under appending has them all.                    *)
LEMMA SequencesByAppend ==
    ASSUME NEW E, NEW S, <<>> \in S,
           \A q \in Seq(E) : q \in S => \A e \in E : Append(q, e) \in S
    PROVE  Seq(E) \subseteq S
  <1> DEFINE T == {n \in Nat : \A q \in Seq(E) : Len(q) = n => q \in S}
  <1>1. 0 \in T
    BY EmptySeq
  <1>2. ASSUME NEW n \in Nat, n \in T PROVE n + 1 \in T
    <2> SUFFICES ASSUME NEW q \in Seq(E), Len(q) = n + 1 PROVE q \in S
      OBVIOUS
    <2>1. q # <<>>
      BY EmptySeq
    <2>2. PICK r \in Seq(E), e \in E : q = Append(r, e)
      BY <2>1, SequenceEmptyOrAppend
    <2>3. Len(r) = n
      BY <2>2, AppendProperties, LenProperties
    <2> QED
      BY <1>2, <2>2, <2>3
  <1>3. Nat \subseteq T
    <2> HIDE DEF T
    <2> QED
      BY <1>1, <1>2, NaturalsByStep
  <1> QED
    BY <1>3, LenProperties

(* Appending and concatenating associate.                                  *)
LEMMA AppendConcat ==
    ASSUME NEW E, NEW q \in Seq(E), NEW r \in Seq(E), NEW e \in E
    PROVE  q \o Append(r, e) = Append(q \o r, e)
  <1>1. <<e>> \in Seq(E) /\ q \o r \in Seq(E)
    BY ConcatProperties
  <1>2. Append(r, e) = r \o <<e>> /\ Append(q \o r, e) = (q \o r) \o <<e>>
    BY <1>1, AppendIsConcat
  <1> QED
    BY <1>1, <1>2, ConcatAssociative

LEMMA ConcatOfNaturals ==
    \A a, b, c \in Seq(Nat) : (a \o b) \o c = a \o (b \o c)
  <1> SUFFICES ASSUME NEW a \in Seq(Nat), NEW b \in Seq(Nat), NEW c \in Seq(Nat)
               PROVE  (a \o b) \o c = a \o (b \o c)
    OBVIOUS
  <1> QED
    BY ConcatAssociative

(* Kept is what its recursion says.                                        *)
LEMMA KeptRecursion ==
    ASSUME NEW E, NEW q \in Seq(E), NEW T
    PROVE  \E f : /\ f[0] = <<>>
                  /\ \A i \in 1 .. Len(q) :
                         f[i] = IF q[i] \in T THEN Append(f[i - 1], q[i])
                                              ELSE f[i - 1]
                  /\ Kept(q, T) = f[Len(q)]
  <1> DEFINE Step(f, i) == IF i = 0 THEN <<>>
                           ELSE IF q[i] \in T THEN Append(f[i - 1], q[i])
                                              ELSE f[i - 1]
             S == {n \in Nat : \E f : f = [i \in 0 .. n |-> Step(f, i)]}
  <1>0. Len(q) \in Nat
    BY LenProperties
  <1>1. 0 \in S
    <2>1. [i \in 0 .. 0 |-> <<>>] = [i \in 0 .. 0 |-> Step([j \in 0 .. 0 |-> <<>>], i)]
      OBVIOUS
    <2> QED
      BY <2>1
  <1>2. ASSUME NEW n \in Nat, n \in S PROVE n + 1 \in S
    <2>1. PICK f : f = [i \in 0 .. n |-> Step(f, i)]
      BY <1>2
    <2> DEFINE g == [i \in 0 .. n + 1 |-> IF i = n + 1 THEN Step(f, i) ELSE f[i]]
    <2>2. ASSUME NEW i \in 0 .. n + 1 PROVE g[i] = Step(g, i)
      <3>1. i # 0 => i - 1 \in 0 .. n /\ g[i - 1] = f[i - 1]
        OBVIOUS
      <3>2. Step(g, i) = Step(f, i)
        BY <3>1
      <3>3. i # n + 1 => f[i] = Step(f, i)
        <4> SUFFICES ASSUME i # n + 1 PROVE f[i] = Step(f, i)
          OBVIOUS
        <4>1. i \in 0 .. n
          OBVIOUS
        <4> HIDE DEF Step
        <4> QED
          BY <4>1, <2>1
      <3> QED
        BY <3>2, <3>3
    <2>3. g = [i \in 0 .. n + 1 |-> Step(g, i)]
      <3> HIDE DEF Step
      <3> QED
        BY <2>2
    <2> HIDE DEF g, Step
    <2> QED
      BY <2>3
  <1>3. Len(q) \in S
    <2> HIDE DEF S
    <2> QED
      BY <1>0, <1>1, <1>2, NaturalsByStep
  <1> DEFINE f == CHOOSE f : f = [i \in 0 .. Len(q) |-> Step(f, i)]
  <1>4. f = [i \in 0 .. Len(q) |-> Step(f, i)]
    <2> HIDE DEF Step
    <2> QED
      BY <1>3
  <1>5. Kept(q, T) = f[Len(q)]
    BY DEF Kept
  <1> HIDE DEF f
  <1>6. \A i \in 0 .. Len(q) : f[i] = Step(f, i)
    <2> HIDE DEF Step
    <2> QED
      BY <1>4
  <1> QED
    BY <1>0, <1>5, <1>6

LEMMA KeptEmpty == ASSUME NEW T PROVE Kept(<<>>, T) = <<>>
  <1> DEFINE none == <<>>
  <1>1. none \in Seq(Nat) /\ Len(none) = 0
    BY EmptySeq
  <1> HIDE DEF none
  <1>2. PICK f : /\ f[0] = <<>>
                 /\ \A i \in 1 .. Len(none) :
                        f[i] = IF none[i] \in T THEN Append(f[i - 1], none[i])
                                                ELSE f[i - 1]
                 /\ Kept(none, T) = f[Len(none)]
    BY <1>1, KeptRecursion
  <1> QED
    BY <1>1, <1>2 DEF none

(* What is kept of a longer sequence: the equations by which everything    *)
(* about Kept is proved.                                                   *)
LEMMA KeptAppend ==
    ASSUME NEW E, NEW q \in Seq(E), NEW e \in E, NEW T
    PROVE  Kept(Append(q, e), T) =
               IF e \in T THEN Append(Kept(q, T), e) ELSE Kept(q, T)
  <1> DEFINE r == Append(q, e)
  <1>1. /\ r \in Seq(E) /\ Len(r) = Len(q) + 1 /\ r[Len(q) + 1] = e
        /\ \A i \in 1 .. Len(q) : r[i] = q[i]
        /\ Len(q) \in Nat
    BY AppendProperties, LenProperties
  <1>2. PICK f : /\ f[0] = <<>>
                 /\ \A i \in 1 .. Len(q) :
                        f[i] = IF q[i] \in T THEN Append(f[i - 1], q[i])
                                             ELSE f[i - 1]
                 /\ Kept(q, T) = f[Len(q)]
    BY KeptRecursion
  <1> HIDE DEF r
  <1>3. PICK g : /\ g[0] = <<>>
                 /\ \A i \in 1 .. Len(r) :
                        g[i] = IF r[i] \in T THEN Append(g[i - 1], r[i])
                                             ELSE g[i - 1]
                 /\ Kept(r, T) = g[Len(r)]
    BY <1>1, KeptRecursion
  <1>4. f[Len(q)] = g[Len(q)]
    <2> DEFINE S == {n \in Nat : n <= Len(q) => f[n] = g[n]}
    <2>1. 0 \in S
      BY <1>2, <1>3
    <2>2. ASSUME NEW n \in Nat, n \in S PROVE n + 1 \in S
      <3> SUFFICES ASSUME n + 1 <= Len(q) PROVE f[n + 1] = g[n + 1]
        OBVIOUS
      <3>1. /\ n + 1 \in 1 .. Len(q) /\ n + 1 \in 1 .. Len(r) /\ (n + 1) - 1 = n
        BY <1>1
      <3>2. f[n] = g[n] /\ r[n + 1] = q[n + 1]
        BY <1>1, <2>2, <3>1
      <3>3. f[n + 1] = IF q[n + 1] \in T THEN Append(f[n], q[n + 1]) ELSE f[n]
        BY <1>2, <3>1
      <3>4. g[n + 1] = IF r[n + 1] \in T THEN Append(g[n], r[n + 1]) ELSE g[n]
        BY <1>3, <3>1
      <3> QED
        BY <3>2, <3>3, <3>4
    <2>3. Nat \subseteq S
      <3> HIDE DEF S
      <3> QED
        BY <2>1, <2>2, NaturalsByStep
    <2> QED
      BY <2>3, <1>1
  <1>5. Len(r) \in 1 .. Len(r) /\ Len(r) - 1 = Len(q)
    BY <1>1
  <1>6. g[Len(r)] = IF e \in T THEN Append(g[Len(q)], e) ELSE g[Len(q)]
    BY <1>1, <1>3, <1>5
  <1>7. Kept(r, T) = IF e \in T THEN Append(Kept(q, T), e) ELSE Kept(q, T)
    BY <1>2, <1>3, <1>4, <1>6
  <1> QED
    BY <1>7 DEF r

(* What is kept is of the sequence and of the set, and no longer.          *)
LEMMA KeptType ==
    ASSUME NEW E, NEW q \in Seq(E), NEW T
    PROVE  /\ Kept(q, T) \in Seq(E \cap T)
           /\ Kept(q, T) \in Seq(E)
           /\ Len(Kept(q, T)) <= Len(q)
  <1> DEFINE S == {r \in Seq(E) : /\ Kept(r, T) \in Seq(E \cap T)
                                  /\ Len(Kept(r, T)) <= Len(r)}
  <1>1. <<>> \in S
    <2>1. /\ Kept(<<>>, T) = <<>> /\ <<>> \in Seq(E) /\ <<>> \in Seq(E \cap T)
          /\ Len(<<>>) = 0
      BY KeptEmpty, EmptySeq
    <2>2. Len(Kept(<<>>, T)) <= Len(<<>>)
      BY <2>1
    <2> QED
      BY <2>1, <2>2, Zenon
  <1>2. ASSUME NEW r \in Seq(E), r \in S, NEW e \in E PROVE Append(r, e) \in S
    <2>1. /\ Kept(r, T) \in Seq(E \cap T) /\ Len(Kept(r, T)) <= Len(r)
      BY <1>2
    <2>2. Append(r, e) \in Seq(E) /\ Len(Append(r, e)) = Len(r) + 1
      BY AppendProperties
    <2>3. Len(r) \in Nat /\ Len(Kept(r, T)) \in Nat
      BY <2>1, LenProperties
    <2>4. CASE e \in T
      <3>1. /\ Append(Kept(r, T), e) \in Seq(E \cap T)
            /\ Len(Append(Kept(r, T), e)) = Len(Kept(r, T)) + 1
        BY <2>1, <2>4, AppendProperties
      <3>2. Kept(Append(r, e), T) = Append(Kept(r, T), e)
        BY <2>4, KeptAppend
      <3> QED
        BY <2>1, <2>2, <2>3, <3>1, <3>2
    <2>5. CASE e \notin T
      <3>1. Kept(Append(r, e), T) = Kept(r, T)
        BY <2>5, KeptAppend
      <3> QED
        BY <2>1, <2>2, <2>3, <3>1
    <2> QED
      BY <2>4, <2>5
  <1> HIDE DEF S
  <1>3. q \in S
    BY <1>1, <1>2, SequencesByAppend
  <1>4. Kept(q, T) \in Seq(E \cap T) /\ Len(Kept(q, T)) <= Len(q)
    BY <1>3 DEF S
  <1> QED
    BY <1>4, SeqMonotonic

LEMMA KeptConcat ==
    ASSUME NEW E, NEW q \in Seq(E), NEW r \in Seq(E), NEW T
    PROVE  Kept(q \o r, T) = Kept(q, T) \o Kept(r, T)
  <1> DEFINE S == {t \in Seq(E) : Kept(q \o t, T) = Kept(q, T) \o Kept(t, T)}
  <1>0. Kept(q, T) \in Seq(E)
    BY KeptType
  <1>1. <<>> \in S
    <2>1. Kept(<<>>, T) = <<>> /\ <<>> \in Seq(E)
      BY KeptEmpty, EmptySeq
    <2>2. q \o <<>> = q /\ Kept(q, T) \o <<>> = Kept(q, T)
      BY <1>0, ConcatEmptySeq
    <2> QED
      BY <2>1, <2>2
  <1>2. ASSUME NEW t \in Seq(E), t \in S, NEW e \in E PROVE Append(t, e) \in S
    <2>1. q \o t \in Seq(E) /\ Append(t, e) \in Seq(E) /\ Kept(t, T) \in Seq(E)
      BY AppendProperties, ConcatProperties, KeptType
    <2>2. q \o Append(t, e) = Append(q \o t, e)
      BY AppendConcat
    <2>3. Kept(q \o t, T) = Kept(q, T) \o Kept(t, T)
      BY <1>2
    <2>4. CASE e \in T
      <3>1. Kept(q, T) \o Append(Kept(t, T), e) = Append(Kept(q, T) \o Kept(t, T), e)
        BY <1>0, <2>1, AppendConcat
      <3>2. Kept(Append(t, e), T) = Append(Kept(t, T), e)
        BY <2>4, KeptAppend
      <3>3. Kept(Append(q \o t, e), T) = Append(Kept(q \o t, T), e)
        <4> DEFINE u == q \o t
        <4>1. u \in Seq(E)
          BY <2>1
        <4> HIDE DEF u
        <4>2. Kept(Append(u, e), T) = Append(Kept(u, T), e)
          BY <4>1, <2>4, KeptAppend
        <4> QED
          BY <4>2 DEF u
      <3> QED
        BY <2>1, <2>2, <2>3, <3>1, <3>2, <3>3
    <2>5. CASE e \notin T
      <3>1. Kept(Append(t, e), T) = Kept(t, T)
        BY <2>5, KeptAppend
      <3>2. Kept(Append(q \o t, e), T) = Kept(q \o t, T)
        BY <2>1, <2>5, KeptAppend
      <3> QED
        BY <2>1, <2>2, <2>3, <3>1, <3>2
    <2> QED
      BY <2>4, <2>5
  <1> HIDE DEF S
  <1>3. r \in S
    BY <1>1, <1>2, SequencesByAppend
  <1> QED
    BY <1>3 DEF S

(* FlattenSeq is what its recursion says.                                  *)
LEMMA FlattenRecursion ==
    ASSUME NEW E, NEW ss \in Seq(Seq(E)), Len(ss) # 0
    PROVE  \E f : /\ f[1] = ss[1]
                  /\ \A i \in 2 .. Len(ss) : f[i] = f[i - 1] \o ss[i]
                  /\ FlattenSeq(ss) = f[Len(ss)]
  <1> DEFINE Step(f, i) == IF i = 1 THEN ss[i] ELSE f[i - 1] \o ss[i]
             S == {n \in Nat : \E f : f = [i \in 1 .. n |-> Step(f, i)]}
  <1>0. Len(ss) \in Nat
    BY LenProperties
  <1>1. 0 \in S
    <2> DEFINE g == [i \in 1 .. 0 |-> <<>>]
    <2>1. 1 .. 0 = {}
      OBVIOUS
    <2>2. g = [i \in 1 .. 0 |-> Step(g, i)]
      <3> HIDE DEF Step
      <3> QED
        BY <2>1
    <2> HIDE DEF g, Step
    <2> QED
      BY <2>2
  <1>2. ASSUME NEW n \in Nat, n \in S PROVE n + 1 \in S
    <2>1. PICK f : f = [i \in 1 .. n |-> Step(f, i)]
      BY <1>2
    <2> DEFINE g == [i \in 1 .. n + 1 |-> IF i = n + 1 THEN Step(f, i) ELSE f[i]]
    <2>2. ASSUME NEW i \in 1 .. n + 1 PROVE g[i] = Step(g, i)
      <3>1. i # 1 => i - 1 \in 1 .. n /\ g[i - 1] = f[i - 1]
        OBVIOUS
      <3>2. Step(g, i) = Step(f, i)
        BY <3>1
      <3>3. i # n + 1 => f[i] = Step(f, i)
        <4> SUFFICES ASSUME i # n + 1 PROVE f[i] = Step(f, i)
          OBVIOUS
        <4>1. i \in 1 .. n
          OBVIOUS
        <4> HIDE DEF Step
        <4> QED
          BY <4>1, <2>1
      <3> QED
        BY <3>2, <3>3
    <2>3. g = [i \in 1 .. n + 1 |-> Step(g, i)]
      <3> HIDE DEF Step
      <3> QED
        BY <2>2
    <2> HIDE DEF g, Step
    <2> QED
      BY <2>3
  <1>3. Len(ss) \in S
    <2> HIDE DEF S
    <2> QED
      BY <1>0, <1>1, <1>2, NaturalsByStep
  <1> DEFINE f == CHOOSE f : f = [i \in 1 .. Len(ss) |-> Step(f, i)]
  <1>4. f = [i \in 1 .. Len(ss) |-> Step(f, i)]
    <2> HIDE DEF Step
    <2> QED
      BY <1>3
  <1>5. FlattenSeq(ss) = f[Len(ss)]
    BY DEF FlattenSeq
  <1> HIDE DEF f
  <1>6. \A i \in 1 .. Len(ss) : f[i] = Step(f, i)
    <2> HIDE DEF Step
    <2> QED
      BY <1>4
  <1>7. f[1] = ss[1]
    BY <1>0, <1>6
  <1>8. ASSUME NEW i \in 2 .. Len(ss) PROVE f[i] = f[i - 1] \o ss[i]
    <2>1. i \in 1 .. Len(ss) /\ i # 1
      BY <1>0
    <2> QED
      BY <1>6, <2>1
  <1> QED
    BY <1>5, <1>7, <1>8, Zenon

LEMMA FlattenAppend ==
    ASSUME NEW E, NEW ss \in Seq(Seq(E)), NEW s \in Seq(E),
           FlattenSeq(ss) \in Seq(E)
    PROVE  FlattenSeq(Append(ss, s)) = FlattenSeq(ss) \o s
  <1> DEFINE tt == Append(ss, s)
  <1>1. /\ tt \in Seq(Seq(E)) /\ Len(tt) = Len(ss) + 1 /\ tt[Len(ss) + 1] = s
        /\ \A i \in 1 .. Len(ss) : tt[i] = ss[i]
        /\ Len(ss) \in Nat /\ Len(tt) # 0
    BY AppendProperties, LenProperties
  <1> HIDE DEF tt
  <1>2. PICK g : /\ g[1] = tt[1]
                 /\ \A i \in 2 .. Len(tt) : g[i] = g[i - 1] \o tt[i]
                 /\ FlattenSeq(tt) = g[Len(tt)]
    BY <1>1, FlattenRecursion, Zenon
  <1>3. CASE Len(ss) = 0
    <2>1. ss = <<>>
      BY <1>3, EmptySeq
    <2>2. FlattenSeq(ss) = <<>>
      BY <1>3, <2>1 DEF FlattenSeq
    <2>3. g[Len(tt)] = s
      BY <1>1, <1>2, <1>3
    <2>4. <<>> \o s = s
      BY ConcatEmptySeq
    <2> QED
      BY <1>2, <2>2, <2>3, <2>4 DEF tt
  <1>4. CASE Len(ss) # 0
    <2>1. PICK f : /\ f[1] = ss[1]
                   /\ \A i \in 2 .. Len(ss) : f[i] = f[i - 1] \o ss[i]
                   /\ FlattenSeq(ss) = f[Len(ss)]
      BY <1>4, FlattenRecursion
    <2> DEFINE S == {n \in Nat : n + 1 <= Len(ss) => f[n + 1] = g[n + 1]}
    <2>2. 0 \in S
      BY <1>1, <1>2, <1>4, <2>1
    <2>3. ASSUME NEW n \in Nat, n \in S PROVE n + 1 \in S
      <3> SUFFICES ASSUME n + 2 <= Len(ss) PROVE f[n + 2] = g[n + 2]
        OBVIOUS
      <3>1. /\ n + 2 \in 2 .. Len(ss) /\ n + 2 \in 2 .. Len(tt)
            /\ (n + 2) - 1 = n + 1 /\ n + 2 \in 1 .. Len(ss)
        BY <1>1
      <3>2. f[n + 1] = g[n + 1] /\ tt[n + 2] = ss[n + 2]
        BY <1>1, <2>3, <3>1
      <3>3. f[n + 2] = f[n + 1] \o ss[n + 2]
        BY <2>1, <3>1
      <3>4. g[n + 2] = g[n + 1] \o tt[n + 2]
        BY <1>2, <3>1
      <3> QED
        BY <3>2, <3>3, <3>4
    <2>4. Nat \subseteq S
      <3> HIDE DEF S
      <3> QED
        BY <2>2, <2>3, NaturalsByStep
    <2>5. f[Len(ss)] = g[Len(ss)]
      <3>1. Len(ss) - 1 \in Nat /\ (Len(ss) - 1) + 1 = Len(ss)
        BY <1>1, <1>4
      <3>2. Len(ss) - 1 \in S
        BY <2>4, <3>1
      <3> QED
        BY <3>1, <3>2
    <2>6. Len(tt) \in 2 .. Len(tt) /\ Len(tt) - 1 = Len(ss)
      BY <1>1, <1>4
    <2>7. g[Len(tt)] = g[Len(ss)] \o s
      BY <1>1, <1>2, <2>6
    <2> QED
      BY <1>2, <2>1, <2>5, <2>7 DEF tt
  <1> QED
    BY <1>3, <1>4
-----------------------------------------------------------------------------
(* The messages of a sequence of payloads.                                 *)
LEMMA MessagesEmpty == Messages(<<>>) = <<>>
  <1> DEFINE ss == [i \in DOMAIN <<>> |-> (<<>>)[i].items]
  <1>1. ss = <<>>
    OBVIOUS
  <1>2. FlattenSeq(<<>>) = <<>>
    BY DEF FlattenSeq
  <1> QED
    BY <1>1, <1>2 DEF Messages

(* The messages of a queue with one payload more.                          *)
LEMMA MessagesAppend ==
    ASSUME NEW ps \in Seq(Payload), NEW p \in Payload
    PROVE  /\ Messages(ps) \in Seq(Nat)
           /\ Messages(Append(ps, p)) = Messages(ps) \o p.items
  <1> DEFINE Items(r) == [i \in DOMAIN r |-> r[i].items]
  <1>1. ASSUME NEW r \in Seq(Payload)
        PROVE  Items(r) \in Seq(Seq(Nat)) /\ Len(Items(r)) = Len(r)
    <2>1. DOMAIN r = 1 .. Len(r) /\ Len(r) \in Nat
      BY LenProperties
    <2>2. \A i \in 1 .. Len(r) : r[i].items \in Seq(Nat)
      <3>1. \A i \in 1 .. Len(r) : r[i] \in Payload
        BY ElementOfSeq
      <3> QED
        BY <3>1 DEF Payload
    <2>3. Items(r) \in [1 .. Len(r) -> Seq(Nat)]
      BY <2>1, <2>2
    <2>4. Items(r) \in Seq(Seq(Nat))
      BY <2>1, <2>3, SeqDef
    <2> HIDE DEF Items
    <2> QED
      BY <2>1, <2>3, <2>4, LenProperties
  <1>2. ASSUME NEW r \in Seq(Payload), NEW e \in Payload
        PROVE  Items(Append(r, e)) = Append(Items(r), e.items)
    <2>1. e.items \in Seq(Nat)
      BY DEF Payload
    <2> DEFINE t == Append(r, e)
    <2>2. /\ t \in Seq(Payload) /\ Len(t) = Len(r) + 1 /\ t[Len(r) + 1] = e
          /\ \A i \in 1 .. Len(r) : t[i] = r[i]
          /\ Len(r) \in Nat
      BY AppendProperties, LenProperties
    <2> HIDE DEF t
    <2>3. /\ DOMAIN t = 1 .. Len(r) + 1 /\ DOMAIN r = 1 .. Len(r)
          /\ Items(t) \in Seq(Seq(Nat)) /\ Len(Items(t)) = Len(r) + 1
          /\ Items(r) \in Seq(Seq(Nat)) /\ Len(Items(r)) = Len(r)
      BY <1>1, <2>2, LenProperties
    <2> DEFINE a == Append(Items(r), e.items)
    <2>4. /\ a \in Seq(Seq(Nat)) /\ Len(a) = Len(r) + 1 /\ a[Len(r) + 1] = e.items
          /\ \A i \in 1 .. Len(r) : a[i] = Items(r)[i]
      <3> HIDE DEF Items
      <3> QED
        BY <2>1, <2>3, AppendProperties
    <2>5. ASSUME NEW i \in 1 .. Len(r) + 1 PROVE Items(t)[i] = a[i]
      <3> HIDE DEF a
      <3>1. Items(t)[i] = t[i].items
        BY <2>3
      <3>2. CASE i = Len(r) + 1
        BY <2>2, <2>4, <3>1, <3>2
      <3>3. CASE i \in 1 .. Len(r)
        BY <2>2, <2>3, <2>4, <3>1, <3>3
      <3> QED
        BY <2>2, <3>2, <3>3
    <2>6. Items(t) = a
      <3> HIDE DEF a, Items
      <3> QED
        BY <2>3, <2>4, <2>5, SeqEqual
    <2> QED
      BY <2>6 DEF t
  <1>3. \A r \in Seq(Payload) : Messages(r) = FlattenSeq(Items(r))
    BY DEF Messages
  <1> HIDE DEF Items
  <1> DEFINE S == {r \in Seq(Payload) : Messages(r) \in Seq(Nat)}
  <1>4. ASSUME NEW r \in Seq(Payload), Messages(r) \in Seq(Nat), NEW e \in Payload
        PROVE  Messages(Append(r, e)) = Messages(r) \o e.items
    <2>1. Append(r, e) \in Seq(Payload) /\ e.items \in Seq(Nat)
      BY AppendProperties DEF Payload
    <2>2. FlattenSeq(Append(Items(r), e.items)) = FlattenSeq(Items(r)) \o e.items
      BY <1>1, <1>3, <1>4, <2>1, FlattenAppend
    <2> QED
      BY <1>2, <1>3, <2>1, <2>2
  <1>5. <<>> \in S
    BY MessagesEmpty, EmptySeq
  <1>6. ASSUME NEW r \in Seq(Payload), r \in S, NEW e \in Payload
        PROVE  Append(r, e) \in S
    <2>1. Append(r, e) \in Seq(Payload) /\ e.items \in Seq(Nat)
      BY AppendProperties DEF Payload
    <2>2. Messages(Append(r, e)) = Messages(r) \o e.items
      BY <1>4, <1>6
    <2>3. Messages(r) \o e.items \in Seq(Nat)
      BY <1>6, <2>1, ConcatProperties
    <2> QED
      BY <2>1, <2>2, <2>3
  <1> HIDE DEF S
  <1>7. ps \in S
    BY <1>5, <1>6, SequencesByAppend
  <1> QED
    BY <1>4, <1>7 DEF S

(* The backlog of a session in a queue: its type, and what appending and   *)
(* concatenating make of it.                                               *)
LEMMA BacklogType ==
    ASSUME NEW s, NEW q \in Seq(Payload)
    PROVE  /\ OfSession(s, q) \in Seq(Payload)
           /\ Backlog(s, q) \in Seq(Nat)
           /\ Others(s, q) \in Seq(Payload)
           /\ Len(Others(s, q)) <= Len(q)
  <1>1. OfSession(s, q) \in Seq(Payload)
    BY KeptType DEF OfSession
  <1>2. Backlog(s, q) \in Seq(Nat)
    <2> DEFINE ps == OfSession(s, q)
    <2>1. ps \in Seq(Payload)
      BY <1>1
    <2> HIDE DEF ps
    <2> SUFFICES Messages(ps) \in Seq(Nat)
      BY DEF ps, Backlog
    <2>2. CASE Payload = {}
      <3>1. ps = <<>>
        BY <2>1, <2>2, SequenceEmptyOrAppend
      <3>2. <<>> \in Seq(Nat)
        BY EmptySeq
      <3> QED
        BY <3>1, <3>2, MessagesEmpty
    <2>3. CASE Payload # {}
      BY <2>1, <2>3, MessagesAppend
    <2> QED
      BY <2>2, <2>3
  <1>3. Others(s, q) \in Seq(Payload) /\ Len(Others(s, q)) <= Len(q)
    BY KeptType DEF Others
  <1> QED
    BY <1>1, <1>2, <1>3

LEMMA BacklogEmpty == \A s : Backlog(s, <<>>) = <<>>
  BY KeptEmpty, MessagesEmpty DEF Backlog, OfSession

LEMMA BacklogAppend ==
    ASSUME NEW s, NEW q \in Seq(Payload), NEW p \in Payload
    PROVE  Backlog(s, Append(q, p)) =
               IF p.key = s THEN Backlog(s, q) \o p.items ELSE Backlog(s, q)
  <1>1. OfSession(s, q) \in Seq(Payload)
    BY BacklogType
  <1>2. OfSession(s, Append(q, p)) =
           IF p.key = s THEN Append(OfSession(s, q), p) ELSE OfSession(s, q)
    BY KeptAppend DEF OfSession
  <1> QED
    BY <1>1, <1>2, MessagesAppend DEF Backlog

LEMMA BacklogConcat ==
    ASSUME NEW s, NEW q \in Seq(Payload), NEW r \in Seq(Payload)
    PROVE  Backlog(s, q \o r) = Backlog(s, q) \o Backlog(s, r)
  <1> DEFINE S == {t \in Seq(Payload) :
                      Backlog(s, q \o t) = Backlog(s, q) \o Backlog(s, t)}
  <1>0. Backlog(s, q) \in Seq(Nat)
    BY BacklogType
  <1>1. <<>> \in S
    <2>1. Backlog(s, <<>>) = <<>> /\ <<>> \in Seq(Payload)
      BY BacklogEmpty, EmptySeq
    <2>2. q \o <<>> = q /\ Backlog(s, q) \o <<>> = Backlog(s, q)
      BY <1>0, ConcatEmptySeq
    <2> QED
      BY <2>1, <2>2
  <1>2. ASSUME NEW t \in Seq(Payload), t \in S, NEW p \in Payload
        PROVE  Append(t, p) \in S
    <2> DEFINE u == q \o t
    <2>1. /\ u \in Seq(Payload) /\ Append(t, p) \in Seq(Payload)
          /\ Backlog(s, t) \in Seq(Nat) /\ p.items \in Seq(Nat)
      BY AppendProperties, ConcatProperties, BacklogType DEF Payload
    <2>2. q \o Append(t, p) = Append(u, p)
      BY AppendConcat
    <2>3. Backlog(s, u) = Backlog(s, q) \o Backlog(s, t)
      BY <1>2
    <2> HIDE DEF u
    <2>4. Backlog(s, Append(u, p)) =
             IF p.key = s THEN Backlog(s, u) \o p.items ELSE Backlog(s, u)
      BY <2>1, BacklogAppend
    <2>5. Backlog(s, Append(t, p)) =
             IF p.key = s THEN Backlog(s, t) \o p.items ELSE Backlog(s, t)
      BY BacklogAppend
    <2>6. (Backlog(s, q) \o Backlog(s, t)) \o p.items =
             Backlog(s, q) \o (Backlog(s, t) \o p.items)
      BY <1>0, <2>1, ConcatOfNaturals, Zenon
    <2>7. Backlog(s, q \o Append(t, p)) = Backlog(s, q) \o Backlog(s, Append(t, p))
      BY <2>2, <2>3, <2>4, <2>5, <2>6
    <2> QED
      BY <2>1, <2>7
  <1> HIDE DEF S
  <1>3. r \in S
    BY <1>1, <1>2, SequencesByAppend
  <1> QED
    BY <1>3 DEF S

(* What a worker pops and what it leaves in the queue.                     *)
LEMMA BacklogHead ==
    ASSUME NEW q \in Seq(Payload), q # <<>>
    PROVE  /\ Head(q) \in Payload /\ Tail(q) \in Seq(Payload)
           /\ Len(Tail(q)) = Len(q) - 1
           /\ \A s : Backlog(s, q) = IF Head(q).key = s
                                     THEN Head(q).items \o Backlog(s, Tail(q))
                                     ELSE Backlog(s, Tail(q))
  <1> DEFINE p == Head(q)
             t == Tail(q)
  <1>1. p \in Payload /\ t \in Seq(Payload) /\ Len(t) = Len(q) - 1
    BY HeadTailProperties
  <1>2. q = <<p>> \o t
    BY HeadTailProperties
  <1> HIDE DEF p, t
  <1>3. ASSUME NEW s PROVE Backlog(s, q) = IF p.key = s THEN p.items \o Backlog(s, t)
                                                        ELSE Backlog(s, t)
    <2> DEFINE none == <<>>
    <2>1. none \in Seq(Payload) /\ Backlog(s, none) = none /\ <<p>> = Append(none, p)
      BY BacklogEmpty, EmptySeq
    <2>2. p.items \in Seq(Nat) /\ Backlog(s, t) \in Seq(Nat)
      BY <1>1, BacklogType DEF Payload
    <2>3. none \o p.items = p.items /\ none \o Backlog(s, t) = Backlog(s, t)
      BY <2>2, ConcatEmptySeq
    <2>4. <<p>> \in Seq(Payload)
      BY <1>1
    <2> HIDE DEF none
    <2>5. Backlog(s, <<p>>) = IF p.key = s THEN p.items ELSE none
      <3>1. Backlog(s, Append(none, p)) =
               IF p.key = s THEN Backlog(s, none) \o p.items ELSE Backlog(s, none)
        BY <1>1, <2>1, BacklogAppend
      <3> QED
        BY <2>1, <2>3, <3>1, Zenon
    <2>6. Backlog(s, q) = Backlog(s, <<p>>) \o Backlog(s, t)
      BY <1>1, <1>2, <2>4, BacklogConcat
    <2> QED
      BY <2>3, <2>5, <2>6
  <1> QED
    BY <1>1, <1>3 DEF p, t

(* Draining a session takes its backlog and leaves that of the others.     *)
LEMMA BacklogOthers ==
    ASSUME NEW s, NEW t, NEW q \in Seq(Payload)
    PROVE  Backlog(s, Others(t, q)) = IF s = t THEN <<>> ELSE Backlog(s, q)
  <1> DEFINE S == {r \in Seq(Payload) :
                      Backlog(s, Others(t, r)) = IF s = t THEN <<>>
                                                 ELSE Backlog(s, r)}
  <1>1. <<>> \in S
    <2>1. Backlog(s, <<>>) = <<>> /\ <<>> \in Seq(Payload) /\ Others(t, <<>>) = <<>>
      BY BacklogEmpty, EmptySeq, KeptEmpty DEF Others
    <2> QED
      BY <2>1
  <1>2. ASSUME NEW r \in Seq(Payload), r \in S, NEW p \in Payload
        PROVE  Append(r, p) \in S
    <2>1. Append(r, p) \in Seq(Payload) /\ Others(t, r) \in Seq(Payload)
      BY AppendProperties, BacklogType
    <2>2. Others(t, Append(r, p)) =
             IF p.key # t THEN Append(Others(t, r), p) ELSE Others(t, r)
      BY KeptAppend DEF Others
    <2>3. Backlog(s, Append(r, p)) =
             IF p.key = s THEN Backlog(s, r) \o p.items ELSE Backlog(s, r)
      BY BacklogAppend
    <2>4. Backlog(s, Append(Others(t, r), p)) =
             IF p.key = s THEN Backlog(s, Others(t, r)) \o p.items
                          ELSE Backlog(s, Others(t, r))
      BY <2>1, BacklogAppend
    <2>5. Backlog(s, Others(t, r)) = IF s = t THEN <<>> ELSE Backlog(s, r)
      BY <1>2
    <2>6. Backlog(s, Others(t, Append(r, p))) =
             IF s = t THEN <<>> ELSE Backlog(s, Append(r, p))
      <3>1. CASE p.key = t
        BY <2>2, <2>3, <2>5, <3>1
      <3>2. CASE p.key # t
        BY <2>2, <2>3, <2>4, <2>5, <3>2
      <3> QED
        BY <3>1, <3>2
    <2> QED
      BY <2>1, <2>6
  <1> HIDE DEF S
  <1>3. q \in S
    BY <1>1, <1>2, SequencesByAppend
  <1> QED
    BY <1>3 DEF S

-----------------------------------------------------------------------------
(* A mark always has a worker behind it, and a pending list a mark.  The   *)
(* workers of a start are none of those that run before it.                *)
MarksInv ==
    /\ gen \in Nat
    /\ \A w \in Worker : Home[w] > gen => stage[w] = "gone"
    /\ DOMAIN pending = Session
    /\ stage = [w \in Worker |-> stage[w]]
    /\ job = [w \in Worker |-> job[w]]
    /\ \A s \in inProgress : Busy(s) # {}
    /\ \A s \in Session : pending[s] # <<>> => s \in inProgress

(* Claiming keeps the marks right, whatever is in the queue.               *)
LEMMA ClaimMarks ==
    ASSUME MarksInv, NEW w \in Worker, NEW p, NEW q, Claim(w, p, q),
           stage[w] \in {"getting", "lookup"}, UNCHANGED <<opened, pending>>
    PROVE  MarksInv'
  <1>1. /\ stage' = [stage EXCEPT ![w] = "busy"]
        /\ job' = [job EXCEPT ![w] = [key |-> p.key, items |-> Batch(p, q)]]
        /\ inProgress' = inProgress \cup {p.key}
    BY DEF Claim
  <1>2. /\ stage' = [v \in Worker |-> stage'[v]]
        /\ job' = [v \in Worker |-> job'[v]]
    BY <1>1 DEF MarksInv
  <1>3. job'[w].key = p.key /\ stage'[w] = "busy"
    BY <1>1 DEF MarksInv
  <1>4. ASSUME NEW s \in inProgress' PROVE Busy(s)' # {}
    <2>1. CASE s = p.key
      BY <1>3, <2>1 DEF Busy
    <2>2. CASE s \in inProgress
      <3>1. PICK v \in Worker : stage[v] = "busy" /\ job[v].key = s
        BY <2>2 DEF MarksInv, Busy
      <3>2. v # w /\ stage'[v] = stage[v] /\ job'[v] = job[v]
        BY <3>1, <1>1 DEF MarksInv
      <3> QED
        BY <3>1, <3>2 DEF Busy
    <2> QED
      BY <1>1, <2>1, <2>2
  <1>5. \A v \in Worker : Home[v] > gen' => stage'[v] = "gone"
    BY <1>1 DEF MarksInv, opened
  <1> QED
    BY <1>1, <1>2, <1>4, <1>5 DEF MarksInv, opened

(* New workers take the place of none that has a turn.                     *)
LEMMA OpenMarks ==
    ASSUME MarksInv, Open, UNCHANGED <<inProgress, pending, job>>
    PROVE  MarksInv'
  <1>1. /\ gen \in Nat /\ gen' = gen + 1
        /\ stage' = [w \in Worker |-> IF w \in Crew(gen + 1) THEN "getting"
                                                            ELSE stage[w]]
    BY DEF Open, MarksInv
  <1>2. \A w \in Worker : Home[w] \in Nat
    BY ChannelAssumption
  <1>3. \A w \in Worker : stage[w] = "busy" => stage'[w] = "busy"
    BY <1>1, <1>2 DEF MarksInv, Crew
  <1>4. \A w \in Worker : Home[w] > gen' => stage'[w] = "gone"
    BY <1>1, <1>2 DEF MarksInv, Crew
  <1>5. \A s \in inProgress : Busy(s) \subseteq Busy(s)'
    BY <1>3 DEF Busy
  <1> QED
    BY <1>1, <1>4, <1>5 DEF MarksInv

LEMMA MarksPreserved == MarksInv /\ [Next]_vars => MarksInv'
  <1> SUFFICES ASSUME MarksInv, [Next]_vars PROVE MarksInv'
    OBVIOUS
  <1>1. ASSUME NEW s \in Session, Arrive(s) PROVE MarksInv'
    BY <1>1 DEF Arrive, MarksInv, Busy, opened
  <1>2. ASSUME NEW w \in Worker, TakeAndClaim(w) PROVE MarksInv'
    BY <1>2, ClaimMarks DEF TakeAndClaim
  <1>3. ASSUME NEW w \in Worker, TakeAndWait(w) PROVE MarksInv'
    <2>1. \A v \in Worker : stage[v] = "busy" =>
             stage'[v] = "busy" /\ job'[v] = job[v]
      BY <1>3 DEF TakeAndWait, MarksInv
    <2>2. \A s \in inProgress : Busy(s)' # {}
      BY <1>3, <2>1 DEF TakeAndWait, MarksInv, Busy
    <2> QED
      BY <1>3, <2>2 DEF TakeAndWait, MarksInv, opened
  <1>4. ASSUME NEW w \in Worker, ClaimHeld(w) PROVE MarksInv'
    BY <1>4, ClaimMarks DEF ClaimHeld
  <1>5. ASSUME NEW w \in Worker, Finish(w) PROVE MarksInv'
    <2>1. \A v \in Worker \ {w} : stage'[v] = stage[v] /\ job'[v] = job[v]
      BY <1>5 DEF Finish, MarksInv
    <2>2. ASSUME NEW s \in inProgress' PROVE Busy(s)' # {}
      <3>1. s \in inProgress /\ s # job[w].key
        BY <1>5, <2>2 DEF Finish
      <3>2. PICK v \in Worker : stage[v] = "busy" /\ job[v].key = s
        BY <3>1 DEF MarksInv, Busy
      <3> QED
        BY <2>1, <3>1, <3>2 DEF Busy
    <2>3. ASSUME NEW s \in Session, pending'[s] # <<>> PROVE s \in inProgress'
      BY <1>5, <2>3 DEF Finish, MarksInv
    <2> QED
      BY <1>5, <2>2, <2>3 DEF Finish, MarksInv, opened
  <1>6. CASE BeginSwap \/ EndSwap
    BY <1>6 DEF BeginSwap, EndSwap, MarksInv, Busy, opened
  <1>7. CASE UNCHANGED vars
    BY <1>7 DEF vars, MarksInv, Busy
  <1>8. CASE StartAll
    BY <1>8, OpenMarks DEF StartAll
  <1>9. CASE RequestSwap
    <2>1. CASE mode = "shut"
      BY <1>9, <2>1, OpenMarks DEF RequestSwap
    <2>2. CASE mode # "shut"
      BY <1>9, <2>2 DEF RequestSwap, MarksInv, Busy
    <2> QED
      BY <2>1, <2>2
  <1>10. CASE StopBegin
    <2>1. PICK gone \in SUBSET tasks :
              /\ stage' = [w \in Worker |-> IF w \in gone THEN "gone" ELSE stage[w]]
              /\ job' = [w \in Worker |-> IF w \in gone THEN Idle ELSE job[w]]
      BY <1>10 DEF StopBegin
    <2>2. /\ inProgress' = {} /\ pending' = [s \in Session |-> <<>>]
          /\ gen' = gen
      BY <1>10 DEF StopBegin
    <2> QED
      BY <2>1, <2>2 DEF MarksInv
  <1>11. CASE StopEnd
    BY <1>11 DEF StopEnd, MarksInv, Busy
  <1> QED
    BY <1>1, <1>2, <1>3, <1>4, <1>5, <1>6, <1>7, <1>8, <1>9, <1>10, <1>11
    DEF Next

(* Messages kept for the end of a turn always have a worker whose turn     *)
(* will end: _pending is written only under a mark, and every mark is      *)
(* removed by the step that flushes, even when replace_channel made        *)
(* workers overlap on a session, or workers outlived a stop.               *)
THEOREM PendingHasATurn == Spec => []NoStrandedPending
  <1>1. Init => MarksInv
    BY ChannelAssumption DEF Init, MarksInv, Busy, Crew
  <1>2. MarksInv => NoStrandedPending
    BY DEF MarksInv, NoStrandedPending
  <1> QED
    BY <1>1, <1>2, MarksPreserved, PTL DEF Spec

-----------------------------------------------------------------------------
(* The type invariant: putting, claiming and opening keep it.              *)
LEMMA PutType ==
    ASSUME NEW q \in Seq(Payload), Len(q) <= Capacity, NEW p \in Payload
    PROVE  Put(q, p) \in Seq(Payload) /\ Len(Put(q, p)) <= Capacity
  <1>1. /\ Append(q, p) \in Seq(Payload) /\ Len(Append(q, p)) = Len(q) + 1
        /\ Len(q) \in Nat /\ Capacity \in Nat
    BY AppendProperties, LenProperties, ChannelAssumption
  <1> QED
    BY <1>1 DEF Put

LEMMA FlushedType ==
    ASSUME NEW q \in Seq(Payload), Len(q) <= Capacity, NEW s \in Session,
           pending[s] \in Seq(Nat)
    PROVE  Flushed(s, q) \in Seq(Payload) /\ Len(Flushed(s, q)) <= Capacity
  <1>1. [key |-> s, items |-> pending[s]] \in Payload
    BY DEF Payload
  <1> QED
    BY <1>1, PutType DEF Flushed

LEMMA ClaimType ==
    ASSUME TypeOK, MarksInv, NEW w \in Worker, NEW p \in Payload,
           NEW q \in Seq(Payload), Len(q) <= Capacity, Claim(w, p, q),
           UNCHANGED <<arrived, opened, pending, swapping>>,
           line' \in Seq(Worker \cup {Swapper})
    PROVE  TypeOK'
  <1>1. /\ p.key \in Session /\ p.items \in Seq(Nat)
        /\ Backlog(p.key, q) \in Seq(Nat)
        /\ Others(p.key, q) \in Seq(Payload)
        /\ Len(Others(p.key, q)) <= Len(q)
    BY BacklogType DEF Payload
  <1>2. Batch(p, q) \in Seq(Nat)
    BY <1>1, ConcatProperties DEF Batch
  <1>3. Home[w] \in Generation
    BY ChannelAssumption DEF Generation
  <1>4. Len(Others(p.key, q)) <= Capacity
    BY <1>1, LenProperties, ChannelAssumption
  <1>5. /\ queue' \in [Generation -> Seq(Payload)]
        /\ \A g \in Generation : Len(queue'[g]) <= Capacity
    BY <1>1, <1>3, <1>4 DEF TypeOK, Claim
  <1>6. handed' \in [Session -> Seq(Nat)]
    <2>1. handed[p.key] \o Batch(p, q) \in Seq(Nat)
      BY <1>1, <1>2, ConcatProperties DEF TypeOK
    <2> QED
      BY <1>1, <2>1 DEF TypeOK, Claim
  <1>7. stage' \in [Worker -> {"getting", "lookup", "busy", "gone"}]
    BY DEF TypeOK, Claim
  <1>8. [key |-> p.key, items |-> Batch(p, q)] \in Payload
    BY <1>1, <1>2 DEF Payload
  <1>9. ASSUME NEW v \in Worker
        PROVE  IF stage'[v] \in {"lookup", "busy"} THEN job'[v] \in Payload
                                                   ELSE job'[v] = Idle
    BY <1>8 DEF TypeOK, MarksInv, Claim
  <1> QED
    BY <1>1, <1>5, <1>6, <1>7, <1>9 DEF TypeOK, Claim, opened

(* New workers start with nothing in their hands.                          *)
LEMMA OpenType ==
    ASSUME TypeOK, MarksInv, Open, UNCHANGED job
    PROVE  /\ gen' \in Generation /\ mode' = "open" /\ tasks' \subseteq Worker
           /\ stage' \in [Worker -> {"getting", "lookup", "busy", "gone"}]
           /\ \A w \in Worker : IF stage'[w] \in {"lookup", "busy"}
                                THEN job'[w] \in Payload ELSE job'[w] = Idle
  <1>1. gen \in 0 .. MaxStarts /\ MaxStarts \in Nat /\ gen < MaxStarts
    BY ChannelAssumption DEF TypeOK, Generation, Open
  <1>2. gen' = gen + 1 /\ gen' \in Generation
    BY <1>1 DEF Open, Generation
  <1>3. \A w \in Crew(gen + 1) : stage[w] = "gone"
    <2>1. \A w \in Crew(gen + 1) : w \in Worker /\ Home[w] > gen
      BY <1>1 DEF Crew
    <2> QED
      BY <2>1 DEF MarksInv
  <1>4. ASSUME NEW w \in Worker
        PROVE  IF stage'[w] \in {"lookup", "busy"} THEN job'[w] \in Payload
                                                  ELSE job'[w] = Idle
    BY <1>3 DEF TypeOK, Open
  <1> QED
    BY <1>2, <1>4 DEF TypeOK, Open, Crew

LEMMA InitType == Init => TypeOK
  <1> SUFFICES ASSUME Init PROVE TypeOK
    OBVIOUS
  <1>1. /\ <<>> \in Seq(Payload) /\ Len(<<>>) = 0 /\ <<>> \in Seq(Nat)
        /\ <<>> \in Seq(Worker \cup {Swapper})
    BY EmptySeq
  <1>2. 0 \in Generation /\ 0 <= Capacity
    BY ChannelAssumption DEF Generation
  <1>3. /\ queue \in [Generation -> Seq(Payload)]
        /\ \A g \in Generation : Len(queue[g]) <= Capacity
    BY <1>1, <1>2 DEF Init
  <1>4. pending \in [Session -> Seq(Nat)] /\ handed \in [Session -> Seq(Nat)]
    BY <1>1 DEF Init
  <1> QED
    BY <1>1, <1>2, <1>3, <1>4 DEF Init, TypeOK, Crew

LEMMA TypePreserved == TypeOK /\ MarksInv /\ [Next]_vars => TypeOK'
  <1> SUFFICES ASSUME TypeOK, MarksInv, [Next]_vars PROVE TypeOK'
    OBVIOUS
  <1>0. \A w \in Worker : Home[w] \in Generation
    BY ChannelAssumption DEF Generation
  <1>1. ASSUME NEW s \in Session, Arrive(s) PROVE TypeOK'
    <2>1. arrived[s] \in Nat /\ arrived' \in [Session -> Nat]
      BY <1>1 DEF Arrive, TypeOK
    <2>2. pending' \in [Session -> Seq(Nat)]
      <3>1. Append(pending[s], arrived[s] + 1) \in Seq(Nat)
        BY <2>1, AppendProperties DEF TypeOK
      <3> QED
        BY <1>1, <3>1 DEF Arrive, TypeOK
    <2>3. /\ queue' \in [Generation -> Seq(Payload)]
          /\ \A g \in Generation : Len(queue'[g]) <= Capacity
      <3> DEFINE p == [key |-> s, items |-> <<arrived[s] + 1>>]
      <3>1. p \in Payload
        BY <2>1 DEF Payload
      <3> HIDE DEF p
      <3>2. Put(queue[gen], p) \in Seq(Payload) /\ Len(Put(queue[gen], p)) <= Capacity
        BY <3>1, PutType DEF TypeOK
      <3>3. queue' = queue \/ queue' = [queue EXCEPT ![gen] = Put(@, p)]
        BY <1>1 DEF Arrive, p
      <3> QED
        BY <3>2, <3>3 DEF TypeOK
    <2> QED
      BY <1>1, <2>1, <2>2, <2>3 DEF Arrive, TypeOK, opened
  <1>2. ASSUME NEW w \in Worker, TakeAndClaim(w) PROVE TypeOK'
    <2>1. queue[Home[w]] \in Seq(Payload) /\ Len(queue[Home[w]]) <= Capacity
      BY <1>0 DEF TypeOK
    <2>2. /\ Head(queue[Home[w]]) \in Payload /\ Tail(queue[Home[w]]) \in Seq(Payload)
          /\ Len(Tail(queue[Home[w]])) = Len(queue[Home[w]]) - 1
      BY <1>2, <2>1, HeadTailProperties DEF TakeAndClaim
    <2>3. Len(Tail(queue[Home[w]])) <= Capacity
      BY <2>1, <2>2, LenProperties, ChannelAssumption
    <2> QED
      BY <1>2, <2>2, <2>3, ClaimType DEF TakeAndClaim, TypeOK
  <1>3. ASSUME NEW w \in Worker, TakeAndWait(w) PROVE TypeOK'
    <2>1. queue[Home[w]] \in Seq(Payload) /\ Len(queue[Home[w]]) <= Capacity
      BY <1>0 DEF TypeOK
    <2>2. /\ Head(queue[Home[w]]) \in Payload /\ Tail(queue[Home[w]]) \in Seq(Payload)
          /\ Len(Tail(queue[Home[w]])) = Len(queue[Home[w]]) - 1
      BY <1>3, <2>1, HeadTailProperties DEF TakeAndWait
    <2>3. Len(Tail(queue[Home[w]])) <= Capacity
      BY <2>1, <2>2, LenProperties, ChannelAssumption
    <2>4. /\ queue' \in [Generation -> Seq(Payload)]
          /\ \A g \in Generation : Len(queue'[g]) <= Capacity
      BY <1>0, <1>3, <2>2, <2>3 DEF TakeAndWait, TypeOK
    <2>5. line' \in Seq(Worker \cup {Swapper})
      BY <1>3, AppendProperties DEF TakeAndWait, TypeOK
    <2>6. stage' \in [Worker -> {"getting", "lookup", "busy", "gone"}]
      BY <1>3 DEF TakeAndWait, TypeOK
    <2>7. ASSUME NEW v \in Worker
          PROVE  IF stage'[v] \in {"lookup", "busy"} THEN job'[v] \in Payload
                                                    ELSE job'[v] = Idle
      BY <1>3, <2>2 DEF TakeAndWait, TypeOK, MarksInv
    <2> QED
      BY <1>3, <2>4, <2>5, <2>6, <2>7 DEF TakeAndWait, TypeOK, opened
  <1>4. ASSUME NEW w \in Worker, ClaimHeld(w) PROVE TypeOK'
    <2>1. queue[Home[w]] \in Seq(Payload) /\ Len(queue[Home[w]]) <= Capacity
      BY <1>0 DEF TypeOK
    <2>2. job[w] \in Payload
      BY <1>4 DEF ClaimHeld, TypeOK
    <2>3. line' \in Seq(Worker \cup {Swapper})
      BY <1>4, HeadTailProperties DEF ClaimHeld, TypeOK
    <2> QED
      BY <1>4, <2>1, <2>2, <2>3, ClaimType DEF ClaimHeld
  <1>5. ASSUME NEW w \in Worker, Finish(w) PROVE TypeOK'
    <2> DEFINE s == job[w].key
    <2>1. s \in Session
      BY <1>5 DEF Finish, TypeOK, Payload
    <2> HIDE DEF s
    <2>2. /\ queue' = [queue EXCEPT ![Home[w]] = Flushed(s, @)]
          /\ pending' = [pending EXCEPT ![s] = <<>>]
          /\ inProgress' = inProgress \ {s}
      BY <1>5 DEF Finish, s
    <2>3. /\ Flushed(s, queue[Home[w]]) \in Seq(Payload)
          /\ Len(Flushed(s, queue[Home[w]])) <= Capacity
      BY <1>0, <2>1, FlushedType DEF TypeOK
    <2>4. /\ queue' \in [Generation -> Seq(Payload)]
          /\ \A g \in Generation : Len(queue'[g]) <= Capacity
      BY <1>0, <2>2, <2>3 DEF TypeOK
    <2>5. pending' \in [Session -> Seq(Nat)]
      BY <2>1, <2>2 DEF TypeOK
    <2>6. stage' \in [Worker -> {"getting", "lookup", "busy", "gone"}]
      BY <1>5 DEF Finish, TypeOK
    <2>7. ASSUME NEW v \in Worker
          PROVE  IF stage'[v] \in {"lookup", "busy"} THEN job'[v] \in Payload
                                                    ELSE job'[v] = Idle
      BY <1>5 DEF Finish, TypeOK, MarksInv
    <2> QED
      BY <1>5, <2>2, <2>4, <2>5, <2>6, <2>7 DEF Finish, TypeOK, opened
  <1>6. CASE BeginSwap \/ EndSwap
    <2>1. line' \in Seq(Worker \cup {Swapper})
      <3>1. line \in Seq(Worker \cup {Swapper})
        BY DEF TypeOK
      <3>2. line' = line \/ (line # <<>> /\ line' = Tail(line))
        BY <1>6 DEF BeginSwap, EndSwap
      <3> QED
        BY <3>1, <3>2, HeadTailProperties
    <2> QED
      BY <1>6, <2>1 DEF BeginSwap, EndSwap, TypeOK, opened
  <1>7. CASE UNCHANGED vars
    BY <1>7 DEF vars, TypeOK
  <1>8. CASE StartAll
    BY <1>8, OpenType DEF StartAll, TypeOK
  <1>9. CASE RequestSwap
    <2>1. line' \in Seq(Worker \cup {Swapper})
      BY <1>9, AppendProperties DEF RequestSwap, TypeOK
    <2>2. CASE mode = "shut"
      <3>1. Open /\ UNCHANGED <<job, discarded>>
        BY <1>9, <2>2 DEF RequestSwap
      <3> QED
        BY <1>9, <2>1, <3>1, OpenType DEF RequestSwap, TypeOK
    <2>3. CASE mode # "shut"
      BY <1>9, <2>1, <2>3 DEF RequestSwap, TypeOK
    <2> QED
      BY <2>2, <2>3
  <1>10. CASE StopBegin
    <2>1. PICK gone \in SUBSET tasks :
              /\ stage' = [w \in Worker |-> IF w \in gone THEN "gone" ELSE stage[w]]
              /\ job' = [w \in Worker |-> IF w \in gone THEN Idle ELSE job[w]]
              /\ line' = Kept(line, (Worker \cup {Swapper}) \ gone)
      BY <1>10 DEF StopBegin
    <2>2. line' \in Seq(Worker \cup {Swapper})
      BY <2>1, KeptType DEF TypeOK
    <2>3. pending' \in [Session -> Seq(Nat)]
      BY <1>10, EmptySeq DEF StopBegin
    <2>4. stage' \in [Worker -> {"getting", "lookup", "busy", "gone"}]
      BY <2>1 DEF TypeOK
    <2>5. ASSUME NEW v \in Worker
          PROVE  IF stage'[v] \in {"lookup", "busy"} THEN job'[v] \in Payload
                                                    ELSE job'[v] = Idle
      BY <2>1 DEF TypeOK
    <2> QED
      BY <1>10, <2>2, <2>3, <2>4, <2>5 DEF StopBegin, TypeOK
  <1>11. CASE StopEnd
    BY <1>11 DEF StopEnd, TypeOK
  <1> QED
    BY <1>1, <1>2, <1>3, <1>4, <1>5, <1>6, <1>7, <1>8, <1>9, <1>10, <1>11
    DEF Next

LEMMA ChannelInvariant == Spec => [](TypeOK /\ MarksInv)
  <1>1. Init => MarksInv
    BY ChannelAssumption DEF Init, MarksInv, Busy, Crew
  <1> QED
    BY <1>1, InitType, TypePreserved, MarksPreserved, PTL DEF Spec

(* A queue never outgrows its maxsize, a queued payload is of a session,   *)
(* and a worker has a payload in its hands exactly from q.get() to the end *)
(* of its turn, also when a stop cancels it or workers of several starts   *)
(* run at once.                                                            *)
THEOREM ChannelTypeOK == Spec => []TypeOK
  BY ChannelInvariant, PTL

-----------------------------------------------------------------------------
(* While the channel is neither replaced nor started again, the lock is    *)
(* never taken, a session is marked exactly while one worker processes it, *)
(* and what is queued is of no marked session and has messages.            *)
Unclaimed == {p \in Payload : p.key \notin inProgress /\ p.items # <<>>}

SoleInv ==
    /\ gen = 0 /\ mode = "open"
    /\ ~swapping /\ line = <<>>
    /\ \A w \in Worker : stage[w] # "lookup"
    /\ \A w \in Worker : stage[w] = "busy" => job[w].key \in inProgress
    /\ OneWorkerPerSession
    /\ queue[gen] \in Seq(Unclaimed)

LEMMA PutSeq ==
    ASSUME NEW E, NEW q \in Seq(E), NEW p \in E
    PROVE  Put(q, p) \in Seq(E)
  BY AppendProperties DEF Put

LEMMA InitSole == Init => SoleInv
  BY EmptySeq, ChannelAssumption DEF Init, SoleInv, OneWorkerPerSession, Busy, Generation

LEMMA SolePreserved ==
    ASSUME ~Swaps, MaxStarts = 0
    PROVE  TypeOK /\ MarksInv /\ SoleInv /\ [Next]_vars => SoleInv'
  <1> SUFFICES ASSUME TypeOK, MarksInv, SoleInv, [Next]_vars PROVE SoleInv'
    OBVIOUS
  <1>0. \A w \in Worker : Home[w] = 0 /\ gen = 0 /\ 0 \in Generation
    BY ChannelAssumption DEF SoleInv, Generation
  <1>1. ASSUME NEW s \in Session, Arrive(s) PROVE SoleInv'
    <2> DEFINE p == [key |-> s, items |-> <<arrived[s] + 1>>]
    <2>1. queue'[gen] \in Seq(Unclaimed)
      <3>1. CASE s \in inProgress
        BY <1>1, <3>1 DEF Arrive, SoleInv
      <3>2. CASE s \notin inProgress
        <4>1. arrived[s] + 1 \in Nat
          BY DEF TypeOK
        <4>2. p \in Unclaimed
          BY <3>2, <4>1 DEF Payload, Unclaimed
        <4> HIDE DEF p
        <4>3. Put(queue[gen], p) \in Seq(Unclaimed)
          BY <4>2, PutSeq DEF SoleInv
        <4>4. queue' = [queue EXCEPT ![gen] = Put(@, p)]
          BY <1>1, <3>2 DEF Arrive, p
        <4> QED
          BY <1>0, <4>3, <4>4 DEF TypeOK
      <3> QED
        BY <3>1, <3>2
    <2>2. UNCHANGED <<gen, mode, inProgress, stage, job, line, swapping>>
      BY <1>1 DEF Arrive, opened
    <2> QED
      BY <2>1, <2>2 DEF SoleInv, OneWorkerPerSession, Busy, Unclaimed
  <1>2. ASSUME NEW w \in Worker, TakeAndClaim(w) PROVE SoleInv'
    <2> DEFINE p == Head(queue[gen])
               t == Tail(queue[gen])
    <2>1. p \in Unclaimed /\ t \in Seq(Unclaimed) /\ stage[w] = "getting"
      BY <1>0, <1>2, HeadTailProperties DEF TakeAndClaim, SoleInv
    <2>2. Claim(w, p, t) /\ UNCHANGED <<gen, mode, line, swapping>>
      BY <1>0, <1>2 DEF TakeAndClaim, opened
    <2> HIDE DEF p, t
    <2>3. /\ stage' = [stage EXCEPT ![w] = "busy"]
          /\ job' = [job EXCEPT ![w] = [key |-> p.key, items |-> Batch(p, t)]]
          /\ queue' = [queue EXCEPT ![gen] = Others(p.key, t)]
          /\ inProgress' = inProgress \cup {p.key}
      BY <1>0, <2>2 DEF Claim
    <2>4. queue'[gen] \in Seq(Unclaimed')
      <3>1. Others(p.key, t) \in Seq(Unclaimed \cap {r \in Payload : r.key # p.key})
        BY <2>1, KeptType DEF Others
      <3>2. Unclaimed \cap {r \in Payload : r.key # p.key} \subseteq Unclaimed'
        BY <2>3 DEF Unclaimed
      <3>3. Others(p.key, t) \in Seq(Unclaimed')
        BY <3>1, <3>2, SeqMonotonic
      <3> QED
        BY <1>0, <2>3, <3>3 DEF TypeOK
    <2>5. stage'[w] = "busy" /\ job'[w].key = p.key
      BY <2>3 DEF MarksInv
    <2>6. \A v \in Worker \ {w} : stage'[v] = stage[v] /\ job'[v] = job[v]
      BY <2>3 DEF MarksInv
    <2>7. ASSUME NEW v \in Worker, stage'[v] = "busy"
          PROVE  job'[v].key \in inProgress' /\ (job'[v].key = p.key => v = w)
      BY <2>1, <2>3, <2>5, <2>6, <2>7 DEF SoleInv, Unclaimed
    <2>8. ASSUME NEW s \in Session, NEW u \in Busy(s)', NEW v \in Busy(s)'
          PROVE  u = v
      <3>1. /\ u \in Worker /\ stage'[u] = "busy" /\ job'[u].key = s
            /\ v \in Worker /\ stage'[v] = "busy" /\ job'[v].key = s
        BY <2>8 DEF Busy
      <3>2. CASE s = p.key
        BY <2>7, <3>1, <3>2
      <3>3. CASE s # p.key
        BY <2>5, <2>6, <3>1, <3>3 DEF SoleInv, OneWorkerPerSession, Busy
      <3> QED
        BY <3>2, <3>3
    <2> QED
      BY <2>2, <2>4, <2>5, <2>6, <2>7, <2>8 DEF SoleInv, OneWorkerPerSession
  <1>3. ASSUME NEW w \in Worker, TakeAndWait(w) PROVE FALSE
    BY <1>3 DEF TakeAndWait, SoleInv
  <1>4. ASSUME NEW w \in Worker, ClaimHeld(w) PROVE FALSE
    BY <1>4 DEF ClaimHeld, SoleInv
  <1>5. ASSUME NEW w \in Worker, Finish(w) PROVE SoleInv'
    <2> DEFINE s == job[w].key
    <2>1. s \in Session /\ pending[s] \in Seq(Nat)
      BY <1>5 DEF Finish, TypeOK, Payload
    <2>2. /\ stage[w] = "busy"
          /\ queue' = [queue EXCEPT ![gen] = Flushed(s, @)]
          /\ inProgress' = inProgress \ {s}
          /\ stage' = [stage EXCEPT ![w] = "getting"]
          /\ job' = [job EXCEPT ![w] = Idle]
          /\ UNCHANGED <<gen, mode, line, swapping>>
      BY <1>0, <1>5 DEF Finish, opened
    <2>3. queue'[gen] \in Seq(Unclaimed')
      <3>1. queue[gen] \in Seq(Unclaimed')
        <4>1. Unclaimed \subseteq Unclaimed'
          BY <2>2 DEF Unclaimed
        <4> QED
          BY <4>1, SeqMonotonic DEF SoleInv
      <3>2. Flushed(s, queue[gen]) \in Seq(Unclaimed')
        <4>1. CASE pending[s] = <<>>
          BY <3>1, <4>1 DEF Flushed
        <4>2. CASE pending[s] # <<>>
          <5>1. [key |-> s, items |-> pending[s]] \in Unclaimed'
            BY <2>1, <2>2, <4>2 DEF Unclaimed, Payload
          <5> QED
            BY <3>1, <4>2, <5>1, PutSeq DEF Flushed
        <4> QED
          BY <4>1, <4>2
      <3> QED
        BY <1>0, <2>2, <3>2 DEF TypeOK
    <2> HIDE DEF s
    <2>4. \A v \in Worker \ {w} : stage'[v] = stage[v] /\ job'[v] = job[v]
      BY <2>2 DEF MarksInv
    <2>5. stage'[w] = "getting"
      BY <2>2 DEF MarksInv
    <2>6. ASSUME NEW v \in Worker, stage'[v] = "busy"
          PROVE  job'[v].key \in inProgress'
      <3>1. v # w /\ stage[v] = "busy" /\ job'[v] = job[v]
        BY <2>4, <2>5, <2>6
      <3>2. job[v].key # s
        BY <2>1, <2>2, <3>1 DEF SoleInv, OneWorkerPerSession, Busy, s
      <3> QED
        BY <2>2, <3>1, <3>2 DEF SoleInv
    <2>7. \A r \in Session : Busy(r)' \subseteq Busy(r)
      BY <2>4, <2>5 DEF Busy
    <2> QED
      BY <2>2, <2>3, <2>4, <2>5, <2>6, <2>7 DEF SoleInv, OneWorkerPerSession
  <1>6. ~StartAll /\ ~StopBegin /\ ~StopEnd /\ ~RequestSwap /\ ~BeginSwap /\ ~EndSwap
    BY DEF SoleInv, StartAll, Open, StopBegin, StopEnd, RequestSwap, BeginSwap, EndSwap
  <1>7. CASE UNCHANGED vars
    BY <1>7 DEF vars, SoleInv, OneWorkerPerSession, Busy, Unclaimed
  <1> QED
    BY <1>1, <1>2, <1>3, <1>4, <1>5, <1>6, <1>7 DEF Next

(* While no channel is replaced and the channel is not stopped and started *)
(* again, one worker at a time processes a session, whatever the number of *)
(* workers: a message that comes during a turn is kept off the queue, and  *)
(* a worker that takes a message leaves none of its session there.         *)
THEOREM SoleWorker ==
    ASSUME ~Swaps, MaxStarts = 0
    PROVE  Spec => []OneWorkerPerSession
  <1>1. SoleInv => OneWorkerPerSession
    BY DEF SoleInv
  <1> QED
    BY <1>1, InitSole, SolePreserved, ChannelInvariant, PTL DEF Spec

-----------------------------------------------------------------------------
(* The mailbox of a session: what the queue and the pending list hold.     *)
Inbox(s) == Backlog(s, queue[gen]) \o pending[s]
InTurn == {s \in Session : Busy(s) # {}}

LEMMA BacklogOfClaimed ==
    ASSUME NEW q \in Seq(Unclaimed), NEW s \in inProgress
    PROVE  q \in Seq(Payload) /\ Backlog(s, q) = <<>>
  <1>1. q \in Seq(Payload)
    BY SeqMonotonic DEF Unclaimed
  <1>2. OfSession(s, q) \in Seq(Unclaimed \cap {p \in Payload : p.key = s})
    BY KeptType DEF OfSession
  <1>3. Unclaimed \cap {p \in Payload : p.key = s} = {}
    BY DEF Unclaimed
  <1>4. OfSession(s, q) = <<>>
    BY <1>2, <1>3, SequenceEmptyOrAppend
  <1> QED
    BY <1>1, <1>4, MessagesEmpty DEF Backlog

LEMMA InboxType ==
    ASSUME TypeOK, NEW s \in Session
    PROVE  /\ queue[gen] \in Seq(Payload)
           /\ Backlog(s, queue[gen]) \in Seq(Nat)
           /\ pending[s] \in Seq(Nat)
           /\ Inbox(s) \in Seq(Nat)
  <1>1. queue[gen] \in Seq(Payload) /\ pending[s] \in Seq(Nat)
    BY DEF TypeOK
  <1>2. Backlog(s, queue[gen]) \in Seq(Nat)
    BY <1>1, BacklogType
  <1> QED
    BY <1>1, <1>2, ConcatProperties DEF Inbox

(* A message that comes joins the mailbox, or is lost where the queue is   *)
(* full.                                                                   *)
LEMMA ArriveRefines ==
    ASSUME TypeOK, MarksInv, SoleInv, NEW s \in Session, Arrive(s)
    PROVE  Mailbox!Arrive(s)
  <1>0. gen \in Generation /\ arrived[s] + 1 \in Nat /\ gen' = gen
    BY DEF TypeOK, Arrive, opened
  <1>1. InTurn' = InTurn
    BY DEF Arrive, InTurn, Busy
  <1>2. \/ Inbox(s)' = Append(Inbox(s), arrived[s] + 1)
        \/ Inbox(s)' = Inbox(s)
    <2>1. CASE s \in inProgress
      <3>1. pending'[s] = Append(pending[s], arrived[s] + 1) /\ queue' = queue
        BY <2>1 DEF Arrive, TypeOK
      <3>2. Backlog(s, queue[gen]) \o Append(pending[s], arrived[s] + 1) =
               Append(Inbox(s), arrived[s] + 1)
        <4>1. \A q, r \in Seq(Nat), e \in Nat : q \o Append(r, e) = Append(q \o r, e)
          BY AppendConcat
        <4> QED
          BY <1>0, <4>1, InboxType, Zenon DEF Inbox
      <3> QED
        BY <1>0, <3>1, <3>2 DEF Inbox
    <2>2. CASE s \notin inProgress
      <3>1. PICK p \in Payload : /\ p = [key |-> s, items |-> <<arrived[s] + 1>>]
                                 /\ p.key = s /\ p.items = <<arrived[s] + 1>>
        <4>1. [key |-> s, items |-> <<arrived[s] + 1>>] \in Payload
          BY <1>0 DEF Payload
        <4> QED
          BY <4>1
      <3>2. /\ pending' = pending /\ pending[s] = <<>>
            /\ queue'[gen] = Put(queue[gen], p)
        BY <1>0, <2>2, <3>1 DEF Arrive, TypeOK, MarksInv
      <3>3. CASE Len(queue[gen]) < Capacity
        <4>1. Backlog(s, queue'[gen]) = Backlog(s, queue[gen]) \o <<arrived[s] + 1>>
          <5>1. queue'[gen] = Append(queue[gen], p)
            BY <3>2, <3>3 DEF Put
          <5>2. Backlog(s, Append(queue[gen], p)) = Backlog(s, queue[gen]) \o p.items
            BY <3>1, InboxType, BacklogAppend
          <5> QED
            BY <3>1, <5>1, <5>2, Zenon
        <4>2. Backlog(s, queue'[gen]) = Append(Backlog(s, queue[gen]), arrived[s] + 1)
          BY <1>0, <4>1, InboxType, AppendIsConcat
        <4>3. Append(Backlog(s, queue[gen]), arrived[s] + 1) \in Seq(Nat)
          BY <1>0, InboxType, AppendProperties
        <4> QED
          BY <1>0, <3>2, <4>2, <4>3, InboxType, ConcatEmptySeq DEF Inbox
      <3>4. CASE ~ (Len(queue[gen]) < Capacity)
        BY <1>0, <3>2, <3>4 DEF Put, Inbox
      <3> QED
        BY <3>3, <3>4
    <2> QED
      BY <2>1, <2>2
  <1>3. ASSUME NEW t \in Session, t # s PROVE Inbox(t)' = Inbox(t)
    <2> DEFINE p == [key |-> s, items |-> <<arrived[s] + 1>>]
    <2>1. pending'[t] = pending[t]
      BY <1>3 DEF Arrive, TypeOK
    <2>2. queue'[gen] = queue[gen] \/ queue'[gen] = Append(queue[gen], p)
      BY <1>0 DEF Arrive, TypeOK, Put
    <2>3. p \in Payload /\ p.key = s
      BY <1>0 DEF Payload
    <2> HIDE DEF p
    <2>4. Backlog(t, queue'[gen]) = Backlog(t, queue[gen])
      BY <1>3, <2>2, <2>3, InboxType, BacklogAppend, ZenonT(30)
    <2> QED
      BY <1>0, <2>1, <2>4 DEF Inbox
  <1> DEFINE inbox == [t \in Session |-> Inbox(t)]
  <1>4. \/ inbox' = [inbox EXCEPT ![s] = Append(@, arrived[s] + 1)]
        \/ inbox' = inbox
    BY <1>2, <1>3
  <1> QED
    BY <1>1, <1>4 DEF Mailbox!Arrive, Arrive, Inbox, InTurn

(* A worker takes the whole mailbox of a session nobody works on.          *)
LEMMA TakeRefines ==
    ASSUME TypeOK, MarksInv, SoleInv, MaxStarts = 0, NEW w \in Worker,
           TakeAndClaim(w)
    PROVE  \E s \in Session : Mailbox!TakeTurn(s)
  <1>0. gen = 0 /\ Home[w] = gen /\ gen \in Generation
    BY ChannelAssumption DEF SoleInv, Generation
  <1>q. PICK q \in Seq(Unclaimed) : q = queue[gen] /\ q # <<>>
    BY <1>0 DEF TakeAndClaim, SoleInv
  <1>p. PICK p \in Unclaimed : p = Head(q)
    BY <1>q, HeadTailProperties
  <1>t. PICK t \in Seq(Unclaimed) : t = Tail(q)
    BY <1>q, HeadTailProperties
  <1>s. PICK s \in Session : s = p.key
    BY DEF Unclaimed, Payload
  <1>1. p \in Payload /\ q \in Seq(Payload) /\ t \in Seq(Payload)
    BY SeqMonotonic DEF Unclaimed
  <1>2. s \notin inProgress /\ p.items \in Seq(Nat) /\ p.items # <<>>
    BY <1>s DEF Unclaimed, Payload
  <1>3. \A r : Backlog(r, q) = IF s = r THEN p.items \o Backlog(r, t)
                                        ELSE Backlog(r, t)
    BY <1>1, <1>q, <1>p, <1>t, <1>s, BacklogHead
  <1>4. stage[w] = "getting" /\ Claim(w, p, t) /\ UNCHANGED <<arrived, gen, pending>>
    BY <1>0, <1>q, <1>p, <1>t DEF TakeAndClaim, opened
  <1>5. /\ stage' = [stage EXCEPT ![w] = "busy"]
        /\ job' = [job EXCEPT ![w] = [key |-> s, items |-> Batch(p, t)]]
        /\ queue'[gen] = Others(s, t)
        /\ handed' = [handed EXCEPT ![s] = @ \o Batch(p, t)]
    BY <1>0, <1>4, <1>s DEF Claim, TypeOK
  <1>6. s \notin InTurn /\ InTurn' = InTurn \cup {s}
    <2>1. s \notin InTurn
      BY <1>2 DEF InTurn, Busy, SoleInv
    <2>2. stage'[w] = "busy" /\ job'[w].key = s
      BY <1>5 DEF MarksInv
    <2>3. \A v \in Worker \ {w} : stage'[v] = stage[v] /\ job'[v] = job[v]
      BY <1>5 DEF MarksInv
    <2>4. \A r \in Session \ {s} : Busy(r)' = Busy(r)
      BY <1>4, <2>2, <2>3 DEF Busy
    <2>5. w \in Busy(s)'
      BY <2>2 DEF Busy
    <2> QED
      BY <1>2, <2>1, <2>4, <2>5 DEF InTurn
  <1>7. pending[s] = <<>> /\ Backlog(s, t) \in Seq(Nat)
    BY <1>1, <1>2, BacklogType DEF MarksInv
  <1>8. Inbox(s) = Batch(p, t) /\ Inbox(s) # <<>>
    <2>1. Backlog(s, q) = p.items \o Backlog(s, t)
      BY <1>3
    <2>2. p.items \o Backlog(s, t) \in Seq(Nat)
      BY <1>2, <1>7, ConcatProperties
    <2>3. Inbox(s) = p.items \o Backlog(s, t)
      BY <1>7, <1>q, <2>1, <2>2, ConcatEmptySeq DEF Inbox
    <2>4. p.items \o Backlog(s, t) # <<>>
      BY <1>2, <1>7, ConcatEqualIffEmpty
    <2> QED
      BY <2>3, <2>4, <1>s DEF Batch
  <1>9. Inbox(s)' = <<>>
    <2>1. Backlog(s, queue'[gen]) = <<>>
      BY <1>1, <1>5, BacklogOthers
    <2>2. <<>> \o <<>> = <<>>
      BY EmptySeq, ConcatEmptySeq
    <2> QED
      BY <1>4, <1>7, <2>1, <2>2 DEF Inbox
  <1>10. ASSUME NEW r \in Session, r # s PROVE Inbox(r)' = Inbox(r)
    <2>1. Backlog(r, queue'[gen]) = Backlog(r, t)
      BY <1>1, <1>5, <1>10, BacklogOthers
    <2>2. Backlog(r, q) = Backlog(r, t)
      BY <1>3, <1>10
    <2> QED
      BY <1>4, <1>q, <2>1, <2>2 DEF Inbox
  <1> DEFINE inbox == [r \in Session |-> Inbox(r)]
  <1>11. inbox' = [inbox EXCEPT ![s] = <<>>]
    BY <1>2, <1>9, <1>10
  <1>12. handed' = [handed EXCEPT ![s] = @ \o inbox[s]] /\ inbox[s] # <<>>
    BY <1>2, <1>5, <1>8
  <1>13. Mailbox!TakeTurn(s)
    BY <1>4, <1>6, <1>11, <1>12 DEF Mailbox!TakeTurn, Inbox, InTurn
  <1> QED
    BY <1>2, <1>13

(* The end of a turn puts what came meanwhile back into the queue, where   *)
(* nothing of the session waits, or loses it when the queue is full.       *)
LEMMA FinishRefines ==
    ASSUME TypeOK, MarksInv, SoleInv, MaxStarts = 0, NEW w \in Worker, Finish(w)
    PROVE  \E s \in Session : Mailbox!EndTurn(s)
  <1>0. gen = 0 /\ Home[w] = gen /\ gen \in Generation
    BY ChannelAssumption DEF SoleInv, Generation
  <1>s. PICK s \in Session : s = job[w].key
    BY DEF Finish, TypeOK, Payload
  <1>1. s \in inProgress /\ stage[w] = "busy"
    BY <1>s DEF Finish, SoleInv
  <1>q. PICK q \in Seq(Unclaimed) : q = queue[gen]
    BY DEF SoleInv
  <1>2. PICK p \in Payload : /\ p = [key |-> s, items |-> pending[s]]
                             /\ p.key = s /\ p.items = pending[s]
    <2>1. [key |-> s, items |-> pending[s]] \in Payload
      BY DEF TypeOK, Payload
    <2> QED
      BY <2>1
  <1>3. q \in Seq(Payload) /\ Backlog(s, q) = <<>> /\ pending[s] \in Seq(Nat)
    BY <1>1, InboxType, BacklogOfClaimed
  <1>4. /\ queue'[gen] = Flushed(s, q)
        /\ pending' = [pending EXCEPT ![s] = <<>>]
        /\ stage' = [stage EXCEPT ![w] = "getting"]
        /\ job' = [job EXCEPT ![w] = Idle]
        /\ UNCHANGED <<arrived, gen, handed>>
    BY <1>0, <1>s, <1>q DEF Finish, opened, TypeOK
  <1>5. queue'[gen] = q \/ (pending[s] # <<>> /\ queue'[gen] = Append(q, p))
    BY <1>2, <1>4 DEF Flushed, Put
  <1>6. pending[s] = <<>> => queue'[gen] = q
    BY <1>4 DEF Flushed
  <1>7. s \in InTurn /\ InTurn' = InTurn \ {s}
    <2>1. w \in Busy(s)
      BY <1>1, <1>s DEF Busy
    <2>2. stage'[w] = "getting"
      BY <1>4 DEF MarksInv
    <2>3. \A v \in Worker \ {w} : stage'[v] = stage[v] /\ job'[v] = job[v]
      BY <1>4 DEF MarksInv
    <2>4. Busy(s)' = {}
      BY <2>1, <2>2, <2>3 DEF Busy, SoleInv, OneWorkerPerSession
    <2>5. \A r \in Session \ {s} : Busy(r)' = Busy(r)
      BY <2>2, <2>3, <1>s DEF Busy
    <2> QED
      BY <1>1, <2>1, <2>4, <2>5 DEF InTurn
  <1>8. Inbox(s)' = <<>> \/ Inbox(s)' = Inbox(s)
    <2>1. pending'[s] = <<>>
      BY <1>1, <1>4 DEF TypeOK
    <2>2. <<>> \o pending[s] = pending[s] /\ pending[s] \o <<>> = pending[s]
      BY <1>3, ConcatEmptySeq
    <2>3. <<>> \o <<>> = <<>>
      BY EmptySeq, ConcatEmptySeq
    <2>4. CASE queue'[gen] = q
      <3>1. Inbox(s)' = <<>>
        BY <1>3, <1>4, <2>1, <2>3, <2>4 DEF Inbox
      <3> QED
        BY <3>1
    <2>5. CASE queue'[gen] = Append(q, p)
      <3>1. Backlog(s, Append(q, p)) = pending[s]
        <4>1. p.key = s /\ p.items = pending[s]
          BY <1>2
        <4>2. Backlog(s, Append(q, p)) = Backlog(s, q) \o p.items
          BY <1>2, <1>3, <4>1, BacklogAppend
        <4> QED
          BY <1>3, <2>2, <4>1, <4>2
      <3>2. Inbox(s)' = pending[s] \o <<>>
        BY <1>4, <2>1, <2>5, <3>1 DEF Inbox
      <3>3. Inbox(s) = <<>> \o pending[s]
        BY <1>3, <1>q DEF Inbox
      <3> QED
        BY <2>2, <3>2, <3>3
    <2> QED
      BY <1>5, <2>4, <2>5
  <1>9. ASSUME NEW r \in Session, r # s PROVE Inbox(r)' = Inbox(r)
    <2>1. pending'[r] = pending[r]
      BY <1>4, <1>9 DEF TypeOK
    <2>2. Backlog(r, Append(q, p)) = Backlog(r, q)
      BY <1>2, <1>3, <1>9, BacklogAppend
    <2>3. Backlog(r, queue'[gen]) = Backlog(r, q)
      BY <1>5, <2>2
    <2> QED
      BY <1>4, <1>q, <2>1, <2>3 DEF Inbox
  <1> DEFINE inbox == [r \in Session |-> Inbox(r)]
  <1>10. inbox' = [inbox EXCEPT ![s] = <<>>] \/ inbox' = inbox
    BY <1>1, <1>8, <1>9
  <1>11. Mailbox!EndTurn(s)
    BY <1>4, <1>7, <1>10 DEF Mailbox!EndTurn, Inbox, InTurn
  <1> QED
    BY <1>1, <1>11

LEMMA MailboxStep ==
    ASSUME ~Swaps, MaxStarts = 0
    PROVE  TypeOK /\ MarksInv /\ SoleInv /\ [Next]_vars =>
               [Mailbox!Next]_(Mailbox!vars)
  <1> SUFFICES ASSUME TypeOK, MarksInv, SoleInv, [Next]_vars
               PROVE  Mailbox!Next \/ UNCHANGED Mailbox!vars
    OBVIOUS
  <1>1. ASSUME NEW s \in Session, Arrive(s) PROVE Mailbox!Next
    BY <1>1, ArriveRefines DEF Mailbox!Next
  <1>2. ASSUME NEW w \in Worker, TakeAndClaim(w) PROVE Mailbox!Next
    BY <1>2, TakeRefines DEF Mailbox!Next
  <1>3. ASSUME NEW w \in Worker, Finish(w) PROVE Mailbox!Next
    BY <1>3, FinishRefines DEF Mailbox!Next
  <1>4. ASSUME NEW w \in Worker, TakeAndWait(w) \/ ClaimHeld(w) PROVE FALSE
    BY <1>4 DEF TakeAndWait, ClaimHeld, SoleInv
  <1>5. ~StartAll /\ ~StopBegin /\ ~StopEnd /\ ~RequestSwap /\ ~BeginSwap /\ ~EndSwap
    BY DEF SoleInv, StartAll, Open, StopBegin, StopEnd, RequestSwap, BeginSwap, EndSwap
  <1>6. CASE UNCHANGED vars
    BY <1>6 DEF vars, Mailbox!vars, Busy
  <1> QED
    BY <1>1, <1>2, <1>3, <1>4, <1>5, <1>6 DEF Next

LEMMA MailboxInit == Init => Mailbox!Init
  <1> SUFFICES ASSUME Init PROVE Mailbox!Init
    OBVIOUS
  <1>1. \A s \in Session : Backlog(s, queue[gen]) \o pending[s] = <<>>
    <2>1. <<>> \o <<>> = <<>>
      BY EmptySeq, ConcatEmptySeq
    <2>2. queue[gen] = <<>>
      BY ChannelAssumption DEF Init, Generation
    <2> QED
      BY <2>1, <2>2, BacklogEmpty DEF Init
  <1>2. {s \in Session : Busy(s) # {}} = {}
    BY DEF Init, Busy
  <1> QED
    BY <1>1, <1>2 DEF Init, Mailbox!Init

(* While no channel is replaced and the channel is not started again, its  *)
(* queue, marks and pending lists are a mailbox per session: through       *)
(* merging, draining and flushing a turn takes everything that has come,   *)
(* in the order it came, for any number of workers and any size of queue.  *)
THEOREM ChannelIsAMailbox ==
    ASSUME ~Swaps, MaxStarts = 0
    PROVE  Spec => ImplementsMailbox
  BY InitSole, SolePreserved, ChannelInvariant, MailboxInit, MailboxStep, PTL
  DEF Spec, ImplementsMailbox, Mailbox!Spec

-----------------------------------------------------------------------------
(* The elements of sequences, and sequences without duplicates.            *)
LEMMA ElementsOfEmpty == ToSet(<<>>) = {} /\ IsInjective(<<>>)
  BY DEF ToSet, IsInjective

LEMMA ElementsOfOne ==
    ASSUME NEW n \in Nat
    PROVE  /\ <<n>> \in Seq(Nat) /\ ToSet(<<n>>) = {n} /\ IsInjective(<<n>>)
  BY DEF ToSet, IsInjective

(* Two sequences without duplicates make one when they share no element.   *)
LEMMA ElementsOfConcat ==
    ASSUME NEW a \in Seq(Nat), NEW b \in Seq(Nat)
    PROVE  /\ a \o b \in Seq(Nat)
           /\ ToSet(a \o b) = ToSet(a) \cup ToSet(b)
           /\ IsInjective(a \o b) <=> /\ IsInjective(a) /\ IsInjective(b)
                                      /\ ToSet(a) \cap ToSet(b) = {}
  <1> DEFINE c == a \o b
  <1>1. /\ c \in Seq(Nat) /\ Len(c) = Len(a) + Len(b)
        /\ \A i \in 1 .. Len(a) + Len(b) :
               c[i] = IF i <= Len(a) THEN a[i] ELSE b[i - Len(a)]
    BY ConcatProperties
  <1> HIDE DEF c
  <1>2. /\ Len(a) \in Nat /\ Len(b) \in Nat
        /\ DOMAIN a = 1 .. Len(a) /\ DOMAIN b = 1 .. Len(b)
        /\ DOMAIN c = 1 .. Len(a) + Len(b)
    BY <1>1, LenProperties
  <1>3. \A i \in DOMAIN a : i \in DOMAIN c /\ c[i] = a[i]
    BY <1>1, <1>2
  <1>4. ASSUME NEW i \in DOMAIN b
        PROVE  i + Len(a) \in DOMAIN c /\ c[i + Len(a)] = b[i]
    <2>1. /\ i + Len(a) \in 1 .. Len(a) + Len(b) /\ ~ (i + Len(a) <= Len(a))
          /\ (i + Len(a)) - Len(a) = i
      BY <1>2
    <2>2. c[i + Len(a)] = b[(i + Len(a)) - Len(a)]
      BY <1>1, <2>1
    <2> QED
      BY <1>2, <2>1, <2>2
  <1>5. \A i \in DOMAIN c : \/ i \in DOMAIN a /\ c[i] = a[i]
                            \/ i - Len(a) \in DOMAIN b /\ c[i] = b[i - Len(a)]
    BY <1>1, <1>2
  <1>6. ToSet(c) = ToSet(a) \cup ToSet(b)
    BY <1>3, <1>4, <1>5 DEF ToSet
  <1>7. ASSUME IsInjective(c)
        PROVE  IsInjective(a) /\ IsInjective(b) /\ ToSet(a) \cap ToSet(b) = {}
    <2>1. IsInjective(a)
      BY <1>3, <1>7 DEF IsInjective
    <2>2. IsInjective(b)
      <3> SUFFICES ASSUME NEW i \in DOMAIN b, NEW j \in DOMAIN b, b[i] = b[j]
                   PROVE  i = j
        BY DEF IsInjective
      <3>1. i + Len(a) = j + Len(a)
        BY <1>4, <1>7 DEF IsInjective
      <3> QED
        BY <1>2, <3>1
    <2>3. ASSUME NEW i \in DOMAIN a, NEW j \in DOMAIN b, a[i] = b[j] PROVE FALSE
      <3>1. i = j + Len(a)
        BY <1>3, <1>4, <1>7, <2>3 DEF IsInjective
      <3> QED
        BY <1>2, <3>1
    <2> QED
      BY <2>1, <2>2, <2>3 DEF ToSet
  <1>8. ASSUME IsInjective(a), IsInjective(b), ToSet(a) \cap ToSet(b) = {}
        PROVE  IsInjective(c)
    <2> SUFFICES ASSUME NEW i \in DOMAIN c, NEW j \in DOMAIN c, c[i] = c[j]
                 PROVE  i = j
      BY DEF IsInjective
    <2>1. \A k \in DOMAIN a, l \in DOMAIN b : a[k] # b[l]
      BY <1>8 DEF ToSet
    <2>2. CASE i \in DOMAIN a /\ c[i] = a[i] /\ j \in DOMAIN a /\ c[j] = a[j]
      BY <1>8, <2>2 DEF IsInjective
    <2>3. CASE /\ i - Len(a) \in DOMAIN b /\ c[i] = b[i - Len(a)]
               /\ j - Len(a) \in DOMAIN b /\ c[j] = b[j - Len(a)]
      <3>1. i - Len(a) = j - Len(a)
        BY <1>8, <2>3 DEF IsInjective
      <3> QED
        BY <1>2, <3>1
    <2> QED
      BY <1>5, <2>1, <2>2, <2>3
  <1> QED
    BY <1>1, <1>6, <1>7, <1>8 DEF c

(* Sequences in places that share no element, and what may be done to      *)
(* them: one is moved to the end of another, one is split, some are        *)
(* dropped, a new element is added to one.                                 *)
Apart(C) ==
    \A x \in DOMAIN C :
        /\ IsInjective(C[x])
        /\ \A y \in DOMAIN C \ {x} : ToSet(C[x]) \cap ToSet(C[y]) = {}

Everything(C) == UNION {ToSet(C[x]) : x \in DOMAIN C}

Moved(P, C, D, x, y) ==
    /\ C \in [P -> Seq(Nat)] /\ D \in [P -> Seq(Nat)] /\ x \in P /\ y \in P \ {x}
    /\ D[x] = <<>> /\ D[y] = C[y] \o C[x]
    /\ \A z \in P \ {x, y} : D[z] = C[z]

Split(P, C, D, x, y) ==
    /\ C \in [P -> Seq(Nat)] /\ D \in [P -> Seq(Nat)] /\ x \in P /\ y \in P \ {x}
    /\ C[y] = <<>> /\ C[x] = D[y] \o D[x]
    /\ \A z \in P \ {x, y} : D[z] = C[z]

Dropped(P, C, D) ==
    /\ C \in [P -> Seq(Nat)] /\ D \in [P -> Seq(Nat)]
    /\ \A z \in P : D[z] = C[z] \/ D[z] = <<>>

Added(P, C, D, x, n) ==
    /\ C \in [P -> Seq(Nat)] /\ D \in [P -> Seq(Nat)] /\ x \in P
    /\ n \in Nat \ Everything(C) /\ D[x] = C[x] \o <<n>>
    /\ \A z \in P \ {x} : D[z] = C[z]

LEMMA ApartMoved ==
    ASSUME NEW P, NEW C, NEW D, NEW x, NEW y, Moved(P, C, D, x, y), Apart(C)
    PROVE  Apart(D) /\ Everything(D) = Everything(C)
  <1>0. /\ C \in [P -> Seq(Nat)] /\ D \in [P -> Seq(Nat)] /\ x \in P /\ y \in P \ {x}
        /\ D[x] = <<>> /\ D[y] = C[y] \o C[x]
        /\ \A z \in P \ {x, y} : D[z] = C[z]
    BY DEF Moved
  <1>1. ToSet(D[x]) = {} /\ IsInjective(D[x])
    BY <1>0, ElementsOfEmpty
  <1>2. ToSet(C[y]) \cap ToSet(C[x]) = {} /\ IsInjective(C[x]) /\ IsInjective(C[y])
    BY <1>0 DEF Apart
  <1>3. ToSet(D[y]) = ToSet(C[y]) \cup ToSet(C[x]) /\ IsInjective(D[y])
    BY <1>0, <1>2, ElementsOfConcat
  <1>4. ASSUME NEW z \in P PROVE IsInjective(D[z])
    BY <1>0, <1>1, <1>3 DEF Apart
  <1>5. ASSUME NEW z \in P, NEW u \in P \ {z}
        PROVE  ToSet(D[z]) \cap ToSet(D[u]) = {}
    <2>1. CASE z = x \/ u = x
      BY <1>0, <1>1, <2>1
    <2>2. CASE z # x /\ u # x
      <3>1. /\ ToSet(C[z]) \cap ToSet(C[u]) = {}
            /\ ToSet(C[z]) \cap ToSet(C[x]) = {}
            /\ ToSet(C[u]) \cap ToSet(C[x]) = {}
        BY <1>0, <2>2 DEF Apart
      <3>2. CASE z = y
        BY <1>0, <1>3, <3>1, <3>2, <2>2
      <3>3. CASE u = y
        BY <1>0, <1>3, <3>1, <3>3, <2>2
      <3>4. CASE z # y /\ u # y
        BY <1>0, <3>1, <3>4, <2>2
      <3> QED
        BY <1>0, <3>2, <3>3, <3>4
    <2> QED
      BY <1>0, <2>1, <2>2
  <1>6. Everything(D) = Everything(C)
    <2>1. ASSUME NEW n, NEW z \in P, n \in ToSet(D[z])
          PROVE  \E u \in P : n \in ToSet(C[u])
      BY <1>0, <1>1, <1>3, <2>1
    <2>2. ASSUME NEW n, NEW z \in P, n \in ToSet(C[z])
          PROVE  \E u \in P : n \in ToSet(D[u])
      <3>1. CASE z \in {x, y}
        BY <1>0, <1>3, <2>2, <3>1
      <3>2. CASE z \notin {x, y}
        BY <1>0, <2>2, <3>2
      <3> QED
        BY <1>0, <3>1, <3>2
    <2> QED
      BY <1>0, <2>1, <2>2 DEF Everything
  <1> QED
    BY <1>0, <1>4, <1>5, <1>6 DEF Apart

LEMMA ApartSplit ==
    ASSUME NEW P, NEW C, NEW D, NEW x, NEW y, Split(P, C, D, x, y), Apart(C)
    PROVE  Apart(D) /\ Everything(D) = Everything(C)
  <1>0. /\ C \in [P -> Seq(Nat)] /\ D \in [P -> Seq(Nat)] /\ x \in P /\ y \in P \ {x}
        /\ C[y] = <<>> /\ C[x] = D[y] \o D[x]
        /\ \A z \in P \ {x, y} : D[z] = C[z]
    BY DEF Split
  <1>1. ToSet(C[y]) = {}
    BY <1>0, ElementsOfEmpty
  <1>2. /\ ToSet(C[x]) = ToSet(D[y]) \cup ToSet(D[x])
        /\ ToSet(D[y]) \cap ToSet(D[x]) = {}
        /\ IsInjective(D[x]) /\ IsInjective(D[y])
    <2>1. D[x] \in Seq(Nat) /\ D[y] \in Seq(Nat) /\ IsInjective(D[y] \o D[x])
      BY <1>0 DEF Apart
    <2> DEFINE a == D[y]
               b == D[x]
    <2>2. C[x] = a \o b /\ a \in Seq(Nat) /\ b \in Seq(Nat) /\ IsInjective(a \o b)
      BY <1>0, <2>1
    <2> HIDE DEF a, b
    <2>3. /\ ToSet(C[x]) = ToSet(a) \cup ToSet(b) /\ ToSet(a) \cap ToSet(b) = {}
          /\ IsInjective(a) /\ IsInjective(b)
      BY <1>0, <2>2, ElementsOfConcat, Zenon
    <2> QED
      BY <1>0, <2>3 DEF a, b
  <1>3. ASSUME NEW z \in P PROVE IsInjective(D[z])
    BY <1>0, <1>2 DEF Apart
  <1>4. ASSUME NEW z \in P, NEW u \in P \ {z}
        PROVE  ToSet(D[z]) \cap ToSet(D[u]) = {}
    <2>1. CASE z \in {x, y} /\ u \in {x, y}
      BY <1>0, <1>2, <2>1
    <2>2. CASE z \in {x, y} /\ u \notin {x, y}
      <3>1. ToSet(C[x]) \cap ToSet(C[u]) = {}
        BY <1>0, <2>2 DEF Apart
      <3> QED
        BY <1>0, <1>2, <2>2, <3>1
    <2>3. CASE z \notin {x, y} /\ u \in {x, y}
      <3>1. ToSet(C[z]) \cap ToSet(C[x]) = {}
        BY <1>0, <2>3 DEF Apart
      <3> QED
        BY <1>0, <1>2, <2>3, <3>1
    <2>4. CASE z \notin {x, y} /\ u \notin {x, y}
      BY <1>0, <2>4 DEF Apart
    <2> QED
      BY <1>0, <2>1, <2>2, <2>3, <2>4
  <1>5. Everything(D) = Everything(C)
    <2>1. ASSUME NEW n, NEW z \in P, n \in ToSet(D[z])
          PROVE  \E u \in P : n \in ToSet(C[u])
      <3>1. CASE z \in {x, y}
        BY <1>0, <1>2, <2>1, <3>1
      <3>2. CASE z \notin {x, y}
        BY <1>0, <2>1, <3>2
      <3> QED
        BY <1>0, <3>1, <3>2
    <2>2. ASSUME NEW n, NEW z \in P, n \in ToSet(C[z])
          PROVE  \E u \in P : n \in ToSet(D[u])
      BY <1>0, <1>1, <1>2, <2>2
    <2> QED
      BY <1>0, <2>1, <2>2 DEF Everything
  <1> QED
    BY <1>0, <1>3, <1>4, <1>5 DEF Apart

LEMMA ApartDropped ==
    ASSUME NEW P, NEW C, NEW D, Dropped(P, C, D), Apart(C)
    PROVE  Apart(D) /\ Everything(D) \subseteq Everything(C)
  <1>0. /\ C \in [P -> Seq(Nat)] /\ D \in [P -> Seq(Nat)]
        /\ \A z \in P : D[z] = C[z] \/ D[z] = <<>>
    BY DEF Dropped
  <1>1. \A z \in P : ToSet(D[z]) = ToSet(C[z]) \/ ToSet(D[z]) = {}
    BY <1>0, ElementsOfEmpty
  <1>2. \A z \in P : IsInjective(D[z])
    BY <1>0, ElementsOfEmpty DEF Apart
  <1>3. ASSUME NEW z \in P, NEW u \in P \ {z}
        PROVE  ToSet(D[z]) \cap ToSet(D[u]) = {}
    BY <1>0, <1>1 DEF Apart
  <1>4. Everything(D) \subseteq Everything(C)
    BY <1>0, <1>1 DEF Everything
  <1> QED
    BY <1>0, <1>2, <1>3, <1>4 DEF Apart

LEMMA ApartAdded ==
    ASSUME NEW P, NEW C, NEW D, NEW x, NEW n, Added(P, C, D, x, n), Apart(C)
    PROVE  Apart(D) /\ Everything(D) = Everything(C) \cup {n}
  <1>0. /\ C \in [P -> Seq(Nat)] /\ D \in [P -> Seq(Nat)] /\ x \in P
        /\ n \in Nat \ Everything(C) /\ D[x] = C[x] \o <<n>>
        /\ \A z \in P \ {x} : D[z] = C[z]
    BY DEF Added
  <1>1. \A z \in P : n \notin ToSet(C[z])
    BY <1>0 DEF Everything
  <1>2. ToSet(D[x]) = ToSet(C[x]) \cup {n} /\ IsInjective(D[x])
    <2> DEFINE a == C[x]
               b == <<n>>
    <2>1. /\ D[x] = a \o b /\ a \in Seq(Nat) /\ IsInjective(a)
          /\ n \notin ToSet(a)
      BY <1>0, <1>1 DEF Apart
    <2>2. b \in Seq(Nat) /\ ToSet(b) = {n} /\ IsInjective(b)
      BY <1>0, ElementsOfOne
    <2> HIDE DEF a, b
    <2>3. ToSet(a) \cap ToSet(b) = {}
      BY <1>0, <2>1, <2>2
    <2>4. ToSet(a \o b) = ToSet(a) \cup ToSet(b) /\ IsInjective(a \o b)
      BY <1>0, <2>1, <2>2, <2>3, ElementsOfConcat
    <2> QED
      BY <1>0, <2>1, <2>2, <2>4 DEF a
  <1>3. \A z \in P : IsInjective(D[z])
    BY <1>0, <1>2 DEF Apart
  <1>4. ASSUME NEW z \in P, NEW u \in P \ {z}
        PROVE  ToSet(D[z]) \cap ToSet(D[u]) = {}
    <2>1. ToSet(C[z]) \cap ToSet(C[u]) = {}
      BY <1>0 DEF Apart
    <2>2. CASE z = x
      BY <1>0, <1>1, <1>2, <2>1, <2>2
    <2>3. CASE u = x
      BY <1>0, <1>1, <1>2, <2>1, <2>3
    <2>4. CASE z # x /\ u # x
      BY <1>0, <2>1, <2>4
    <2> QED
      BY <1>0, <2>2, <2>3, <2>4
  <1>5. Everything(D) = Everything(C) \cup {n}
    <2>1. ASSUME NEW m, NEW z \in P, m \in ToSet(D[z])
          PROVE  m = n \/ \E u \in P : m \in ToSet(C[u])
      BY <1>0, <1>2, <2>1
    <2>2. ASSUME NEW m, NEW z \in P, m \in ToSet(C[z])
          PROVE  \E u \in P : m \in ToSet(D[u])
      BY <1>0, <1>2, <2>2
    <2>3. n \in ToSet(D[x])
      BY <1>0, <1>2
    <2>4. ASSUME NEW m PROVE m \in Everything(D) <=> m = n \/ m \in Everything(C)
      <3>1. m \in Everything(D) <=> \E z \in P : m \in ToSet(D[z])
        BY <1>0 DEF Everything
      <3>2. m \in Everything(C) <=> \E z \in P : m \in ToSet(C[z])
        BY <1>0 DEF Everything
      <3> QED
        BY <1>0, <2>1, <2>2, <2>3, <3>1, <3>2
    <2> QED
      BY <1>0, <2>4
  <1> QED
    BY <1>0, <1>3, <1>4, <1>5 DEF Apart

-----------------------------------------------------------------------------
(* Where the messages of a session are: handed over, kept for the end of   *)
(* the turn, in the queue of a generation, or held by a worker that waits  *)
(* for the lock.                                                           *)
HandedAt == <<"handed", 0>>
PendingAt == <<"pending", 0>>
QueueAt(g) == <<"queue", g>>
WorkerAt(w) == <<"worker", w>>
Place == {HandedAt, PendingAt} \cup {QueueAt(g) : g \in Generation}
                               \cup {WorkerAt(w) : w \in Worker}

Held(s, w) == IF stage[w] = "lookup" /\ job[w].key = s THEN job[w].items ELSE <<>>

Layout(h, p, q, j) ==
    [x \in Place |-> IF x = HandedAt THEN h
                     ELSE IF x = PendingAt THEN p
                     ELSE IF x[1] = "queue" THEN q[x[2]] ELSE j[x[2]]]

Contents(s) == Layout(handed[s], pending[s],
                      [g \in Generation |-> Backlog(s, queue[g])],
                      [w \in Worker |-> Held(s, w)])

(* No message is at two places or twice at one; none is at a place that    *)
(* has not come; and what came since the last stop is at one.              *)
Accounted(s) == /\ Apart(Contents(s))
                /\ Everything(Contents(s)) \subseteq 1 .. arrived[s]

Covered(s) == (discarded[s] + 1) .. arrived[s] \subseteq Everything(Contents(s))

(* The places differ, and there are no others.                             *)
LEMMA Places ==
    /\ HandedAt \in Place /\ PendingAt \in Place /\ HandedAt # PendingAt
    /\ \A g \in Generation : QueueAt(g) \in Place \ {HandedAt, PendingAt}
    /\ \A w \in Worker : WorkerAt(w) \in Place \ {HandedAt, PendingAt}
    /\ \A g \in Generation, w \in Worker : QueueAt(g) # WorkerAt(w)
    /\ \A g, h \in Generation : QueueAt(g) = QueueAt(h) => g = h
    /\ \A v, w \in Worker : WorkerAt(v) = WorkerAt(w) => v = w
    /\ \A x \in Place : \/ x \in {HandedAt, PendingAt}
                        \/ \E g \in Generation : x = QueueAt(g)
                        \/ \E w \in Worker : x = WorkerAt(w)
  BY DEF Place, HandedAt, PendingAt, QueueAt, WorkerAt

LEMMA LayoutAt ==
    ASSUME NEW h \in Seq(Nat), NEW p \in Seq(Nat),
           NEW q \in [Generation -> Seq(Nat)], NEW j \in [Worker -> Seq(Nat)]
    PROVE  /\ Layout(h, p, q, j) \in [Place -> Seq(Nat)]
           /\ Layout(h, p, q, j)[HandedAt] = h
           /\ Layout(h, p, q, j)[PendingAt] = p
           /\ \A g \in Generation : Layout(h, p, q, j)[QueueAt(g)] = q[g]
           /\ \A w \in Worker : Layout(h, p, q, j)[WorkerAt(w)] = j[w]
  <1> DEFINE L(x) == IF x = HandedAt THEN h
                     ELSE IF x = PendingAt THEN p
                     ELSE IF x[1] = "queue" THEN q[x[2]] ELSE j[x[2]]
             C == [x \in Place |-> L(x)]
  <1>1. L(HandedAt) = h /\ L(PendingAt) = p
    BY Places
  <1>2. ASSUME NEW g \in Generation PROVE L(QueueAt(g)) = q[g]
    <2>1. QueueAt(g)[1] = "queue" /\ QueueAt(g)[2] = g
      BY DEF QueueAt
    <2>2. QueueAt(g) # HandedAt /\ QueueAt(g) # PendingAt
      BY Places
    <2> QED
      BY <2>1, <2>2
  <1>3. ASSUME NEW w \in Worker PROVE L(WorkerAt(w)) = j[w]
    <2>1. WorkerAt(w)[1] = "worker" /\ WorkerAt(w)[2] = w
      BY DEF WorkerAt
    <2>2. WorkerAt(w) # HandedAt /\ WorkerAt(w) # PendingAt
      BY Places
    <2> QED
      BY <2>1, <2>2
  <1> HIDE DEF L
  <1>4. ASSUME NEW x \in Place PROVE L(x) \in Seq(Nat)
    <2>1. CASE x \in {HandedAt, PendingAt}
      BY <1>1, <2>1
    <2>2. ASSUME NEW g \in Generation, x = QueueAt(g) PROVE L(x) \in Seq(Nat)
      BY <1>2, <2>2
    <2>3. ASSUME NEW w \in Worker, x = WorkerAt(w) PROVE L(x) \in Seq(Nat)
      BY <1>3, <2>3
    <2> QED
      BY <2>1, <2>2, <2>3, Places
  <1>5. C \in [Place -> Seq(Nat)] /\ \A x \in Place : C[x] = L(x)
    BY <1>4
  <1>6. C = Layout(h, p, q, j)
    BY DEF L, Layout
  <1> HIDE DEF C
  <1> QED
    BY <1>1, <1>2, <1>3, <1>5, <1>6, Places

(* What is at each place, before and after a step.                         *)
LEMMA ContentsAt ==
    ASSUME TypeOK, NEW s \in Session
    PROVE  /\ Contents(s) \in [Place -> Seq(Nat)]
           /\ Contents(s)[HandedAt] = handed[s]
           /\ Contents(s)[PendingAt] = pending[s]
           /\ \A g \in Generation : Contents(s)[QueueAt(g)] = Backlog(s, queue[g])
           /\ \A w \in Worker : Contents(s)[WorkerAt(w)] = Held(s, w)
  <1>1. handed[s] \in Seq(Nat) /\ pending[s] \in Seq(Nat)
    BY DEF TypeOK
  <1>2. \A g \in Generation : Backlog(s, queue[g]) \in Seq(Nat)
    BY BacklogType DEF TypeOK
  <1>3. \A w \in Worker : Held(s, w) \in Seq(Nat)
    BY EmptySeq DEF Held, TypeOK, Payload
  <1>4. PICK q, j : /\ q = [g \in Generation |-> Backlog(s, queue[g])]
                    /\ j = [w \in Worker |-> Held(s, w)]
    OBVIOUS
  <1>5. q \in [Generation -> Seq(Nat)] /\ j \in [Worker -> Seq(Nat)]
    BY <1>2, <1>3, <1>4
  <1>6. Contents(s) = Layout(handed[s], pending[s], q, j)
    BY <1>4 DEF Contents
  <1>7. /\ Contents(s) \in [Place -> Seq(Nat)]
        /\ Contents(s)[HandedAt] = handed[s] /\ Contents(s)[PendingAt] = pending[s]
        /\ \A g \in Generation : Contents(s)[QueueAt(g)] = q[g]
        /\ \A w \in Worker : Contents(s)[WorkerAt(w)] = j[w]
    BY <1>1, <1>5, <1>6, LayoutAt, SMTT(30)
  <1> QED
    BY <1>4, <1>7

LEMMA ContentsNext ==
    ASSUME TypeOK', NEW s \in Session
    PROVE  /\ Contents(s)' \in [Place -> Seq(Nat)]
           /\ Contents(s)'[HandedAt] = handed'[s]
           /\ Contents(s)'[PendingAt] = pending'[s]
           /\ \A g \in Generation : Contents(s)'[QueueAt(g)] = Backlog(s, queue'[g])
           /\ \A w \in Worker : Contents(s)'[WorkerAt(w)] = Held(s, w)'
  <1>1. handed'[s] \in Seq(Nat) /\ pending'[s] \in Seq(Nat)
    BY DEF TypeOK
  <1>2. \A g \in Generation : Backlog(s, queue'[g]) \in Seq(Nat)
    BY BacklogType DEF TypeOK
  <1>3. \A w \in Worker : Held(s, w)' \in Seq(Nat)
    BY EmptySeq DEF Held, TypeOK, Payload
  <1>4. PICK q, j : /\ q = [g \in Generation |-> Backlog(s, queue'[g])]
                    /\ j = [w \in Worker |-> Held(s, w)']
    OBVIOUS
  <1>5. q \in [Generation -> Seq(Nat)] /\ j \in [Worker -> Seq(Nat)]
    BY <1>2, <1>3, <1>4
  <1>6. Contents(s)' = Layout(handed'[s], pending'[s], q, j)
    BY <1>4 DEF Contents
  <1>7. /\ Contents(s)' \in [Place -> Seq(Nat)]
        /\ Contents(s)'[HandedAt] = handed'[s]
        /\ Contents(s)'[PendingAt] = pending'[s]
        /\ \A g \in Generation : Contents(s)'[QueueAt(g)] = q[g]
        /\ \A w \in Worker : Contents(s)'[WorkerAt(w)] = j[w]
    BY <1>1, <1>5, <1>6, LayoutAt, SMTT(30)
  <1> QED
    BY <1>4, <1>7

(* Claiming hands over what is held and what is queued of the session.     *)
LEMMA ClaimContents ==
    ASSUME TypeOK, MarksInv, NEW s \in Session, NEW w \in Worker,
           NEW p \in Payload, NEW q \in Seq(Payload), Claim(w, p, q)
    PROVE  /\ s = p.key => handed'[s] = handed[s] \o (p.items \o Backlog(s, q))
           /\ s # p.key => handed'[s] = handed[s]
           /\ queue'[Home[w]] = Others(p.key, q)
           /\ \A g \in Generation \ {Home[w]} : queue'[g] = queue[g]
           /\ \A v \in Worker \ {w} : Held(s, v)' = Held(s, v)
           /\ Held(s, w)' = <<>>
  <1>1. Home[w] \in Generation
    BY ChannelAssumption DEF Generation
  <1>2. handed'[s] = IF s = p.key THEN handed[s] \o Batch(p, q) ELSE handed[s]
    BY DEF Claim, TypeOK
  <1>3. s = p.key => Batch(p, q) = p.items \o Backlog(s, q)
    BY DEF Batch
  <1>4. queue'[Home[w]] = Others(p.key, q)
    BY <1>1 DEF Claim, TypeOK
  <1>6. \A g \in Generation \ {Home[w]} : queue'[g] = queue[g]
    BY DEF Claim, TypeOK
  <1>7. /\ stage'[w] = "busy"
        /\ \A v \in Worker \ {w} : stage'[v] = stage[v] /\ job'[v] = job[v]
    BY DEF Claim, MarksInv
  <1>8. Held(s, w)' = <<>> /\ \A v \in Worker \ {w} : Held(s, v)' = Held(s, v)
    BY <1>7 DEF Held
  <1> QED
    BY <1>2, <1>3, <1>4, <1>6, <1>8

(* Every step of a worker moves the messages of a session from one place   *)
(* to another, or splits what is queued.                                   *)
LEMMA TakeAndClaimMoves ==
    ASSUME TypeOK, TypeOK', MarksInv, NEW s \in Session, Apart(Contents(s)),
           NEW w \in Worker, TakeAndClaim(w)
    PROVE  /\ Apart(Contents(s)')
           /\ Everything(Contents(s)') = Everything(Contents(s))
  <1> PICK C, D, g, q : /\ C = Contents(s) /\ D = Contents(s)'
                        /\ g = Home[w] /\ q = queue[g]
    OBVIOUS
  <1>1. g \in Generation /\ q \in Seq(Payload) /\ q # <<>>
    BY ChannelAssumption DEF Generation, TypeOK, TakeAndClaim
  <1>2. PICK p \in Payload, t \in Seq(Payload) :
            /\ Claim(w, p, t)
            /\ Backlog(s, q) = IF p.key = s THEN p.items \o Backlog(s, t)
                                            ELSE Backlog(s, t)
    BY <1>1, BacklogHead DEF TakeAndClaim
  <1>3. pending' = pending /\ stage[w] = "getting"
    BY DEF TakeAndClaim
  <1>4. /\ C \in [Place -> Seq(Nat)] /\ D \in [Place -> Seq(Nat)]
        /\ C[HandedAt] = handed[s] /\ D[HandedAt] = handed'[s]
        /\ C[PendingAt] = pending[s] /\ D[PendingAt] = pending'[s]
        /\ \A h \in Generation : /\ C[QueueAt(h)] = Backlog(s, queue[h])
                                 /\ D[QueueAt(h)] = Backlog(s, queue'[h])
        /\ \A v \in Worker : /\ C[WorkerAt(v)] = Held(s, v)
                             /\ D[WorkerAt(v)] = Held(s, v)'
    BY ContentsAt, ContentsNext
  <1>5. /\ s = p.key => /\ handed'[s] = handed[s] \o (p.items \o Backlog(s, t))
                        /\ Backlog(s, queue'[g]) = <<>>
        /\ s # p.key => /\ handed'[s] = handed[s]
                        /\ Backlog(s, queue'[g]) = Backlog(s, t)
        /\ \A h \in Generation \ {g} : queue'[h] = queue[h]
        /\ \A v \in Worker \ {w} : Held(s, v)' = Held(s, v)
        /\ Held(s, w)' = <<>>
    <2>1. Held(s, w)' = <<>>
      BY <1>2, ClaimContents
    <2>2. \A v \in Worker \ {w} : Held(s, v)' = Held(s, v)
      BY <1>2, ClaimContents
    <2>3. \A h \in Generation \ {Home[w]} : queue'[h] = queue[h]
      BY <1>2, ClaimContents
    <2>4. s # p.key => handed'[s] = handed[s]
      BY <1>2, ClaimContents
    <2>5. queue'[Home[w]] = Others(p.key, t)
      BY <1>2, ClaimContents, ZenonT(30)
    <2>6. s = p.key => handed'[s] = handed[s] \o (p.items \o Backlog(s, t))
      BY <1>2, ClaimContents
    <2>7. Backlog(s, queue'[Home[w]]) = IF s = p.key THEN <<>> ELSE Backlog(s, t)
      BY <2>5, BacklogOthers
    <2> QED
      BY <2>1, <2>2, <2>3, <2>4, <2>5, <2>6, <2>7
  <1>6. Held(s, w) = <<>>
    BY <1>3 DEF Held
  <1>7. \A z \in Place \ {QueueAt(g), HandedAt} : D[z] = C[z]
    <2> SUFFICES ASSUME NEW z \in Place \ {QueueAt(g), HandedAt} PROVE D[z] = C[z]
      OBVIOUS
    <2>1. CASE z = PendingAt
      BY <2>1, <1>3, <1>4
    <2>2. ASSUME NEW h \in Generation, z = QueueAt(h) PROVE D[z] = C[z]
      BY <2>2, <1>4, <1>5
    <2>3. ASSUME NEW v \in Worker, z = WorkerAt(v) PROVE D[z] = C[z]
      BY <2>3, <1>4, <1>5, <1>6
    <2> QED
      BY <2>1, <2>2, <2>3, Places
  <1>8. CASE s = p.key
    <2>1. C[QueueAt(g)] = p.items \o Backlog(s, t)
      BY <1>1, <1>2, <1>4, <1>8
    <2>2. D[HandedAt] = C[HandedAt] \o C[QueueAt(g)]
      BY <2>1, <1>4, <1>5, <1>8
    <2>3. D[QueueAt(g)] = <<>>
      BY <1>1, <1>4, <1>5, <1>8
    <2>4. QueueAt(g) \in Place /\ HandedAt \in Place \ {QueueAt(g)}
      BY <1>1, Places
    <2>5. Moved(Place, C, D, QueueAt(g), HandedAt)
      BY <1>4, <1>7, <2>2, <2>3, <2>4 DEF Moved
    <2>6. Apart(D) /\ Everything(D) = Everything(C)
      BY <2>5, ApartMoved
    <2> QED
      BY <2>6
  <1>9. CASE s # p.key
    <2>1. D[QueueAt(g)] = C[QueueAt(g)]
      BY <1>1, <1>2, <1>4, <1>5, <1>9
    <2>2. D[HandedAt] = C[HandedAt]
      BY <1>4, <1>5, <1>9
    <2>3. \A z \in Place : D[z] = C[z]
      BY <1>7, <2>1, <2>2
    <2>4. D = C
      BY <1>4, <2>3
    <2> QED
      BY <2>4
  <1> QED
    BY <1>8, <1>9

LEMMA TakeAndWaitMoves ==
    ASSUME TypeOK, TypeOK', MarksInv, NEW s \in Session, Apart(Contents(s)),
           NEW w \in Worker, TakeAndWait(w)
    PROVE  /\ Apart(Contents(s)')
           /\ Everything(Contents(s)') = Everything(Contents(s))
  <1> PICK C, D, g, q : /\ C = Contents(s) /\ D = Contents(s)'
                        /\ g = Home[w] /\ q = queue[g]
    OBVIOUS
  <1> PICK p, t : p = Head(q) /\ t = Tail(q)
    OBVIOUS
  <1>1. g \in Generation /\ q \in Seq(Payload) /\ q # <<>>
    BY ChannelAssumption DEF Generation, TypeOK, TakeAndWait
  <1>2. /\ p \in Payload /\ t \in Seq(Payload)
        /\ Backlog(s, q) = IF p.key = s THEN p.items \o Backlog(s, t)
                                        ELSE Backlog(s, t)
    BY <1>1, BacklogHead
  <1>3. /\ pending' = pending /\ handed' = handed /\ stage[w] = "getting"
        /\ queue' = [queue EXCEPT ![g] = t]
        /\ stage' = [stage EXCEPT ![w] = "lookup"]
        /\ job' = [job EXCEPT ![w] = p]
    BY DEF TakeAndWait
  <1>4. /\ C \in [Place -> Seq(Nat)] /\ D \in [Place -> Seq(Nat)]
        /\ C[HandedAt] = handed[s] /\ D[HandedAt] = handed'[s]
        /\ C[PendingAt] = pending[s] /\ D[PendingAt] = pending'[s]
        /\ \A h \in Generation : /\ C[QueueAt(h)] = Backlog(s, queue[h])
                                 /\ D[QueueAt(h)] = Backlog(s, queue'[h])
        /\ \A v \in Worker : /\ C[WorkerAt(v)] = Held(s, v)
                             /\ D[WorkerAt(v)] = Held(s, v)'
    BY ContentsAt, ContentsNext
  <1>5. queue'[g] = t /\ \A h \in Generation \ {g} : queue'[h] = queue[h]
    BY <1>1, <1>3 DEF TypeOK
  <1>6. /\ stage'[w] = "lookup" /\ job'[w] = p
        /\ \A v \in Worker \ {w} : stage'[v] = stage[v] /\ job'[v] = job[v]
    BY <1>3 DEF MarksInv
  <1>7. /\ Held(s, w) = <<>>
        /\ Held(s, w)' = IF p.key = s THEN p.items ELSE <<>>
        /\ \A v \in Worker \ {w} : Held(s, v)' = Held(s, v)
    BY <1>3, <1>6 DEF Held
  <1>8. \A z \in Place \ {QueueAt(g), WorkerAt(w)} : D[z] = C[z]
    <2> SUFFICES ASSUME NEW z \in Place \ {QueueAt(g), WorkerAt(w)}
                 PROVE  D[z] = C[z]
      OBVIOUS
    <2>1. CASE z \in {HandedAt, PendingAt}
      BY <2>1, <1>3, <1>4
    <2>2. ASSUME NEW h \in Generation, z = QueueAt(h) PROVE D[z] = C[z]
      BY <2>2, <1>4, <1>5
    <2>3. ASSUME NEW v \in Worker, z = WorkerAt(v) PROVE D[z] = C[z]
      BY <2>3, <1>4, <1>7
    <2> QED
      BY <2>1, <2>2, <2>3, Places
  <1>9. CASE p.key = s
    <2>1. C[WorkerAt(w)] = <<>>
      BY <1>4, <1>7
    <2>2. D[WorkerAt(w)] = p.items /\ D[QueueAt(g)] = Backlog(s, t)
      BY <1>1, <1>4, <1>5, <1>7, <1>9
    <2>3. C[QueueAt(g)] = p.items \o Backlog(s, t)
      BY <1>1, <1>2, <1>4, <1>9
    <2>4. QueueAt(g) \in Place /\ WorkerAt(w) \in Place \ {QueueAt(g)}
      BY <1>1, Places
    <2>5. Split(Place, C, D, QueueAt(g), WorkerAt(w))
      BY <1>4, <1>8, <2>1, <2>2, <2>3, <2>4 DEF Split
    <2>6. Apart(D) /\ Everything(D) = Everything(C)
      BY <2>5, ApartSplit
    <2> QED
      BY <2>6
  <1>10. CASE p.key # s
    <2>1. D[QueueAt(g)] = C[QueueAt(g)]
      BY <1>1, <1>2, <1>4, <1>5, <1>10
    <2>2. D[WorkerAt(w)] = C[WorkerAt(w)]
      BY <1>4, <1>7, <1>10
    <2>3. \A z \in Place : D[z] = C[z]
      BY <1>8, <2>1, <2>2
    <2>4. D = C
      BY <1>4, <2>3
    <2> QED
      BY <2>4
  <1> QED
    BY <1>9, <1>10

LEMMA ClaimHeldMoves ==
    ASSUME TypeOK, TypeOK', MarksInv, NEW s \in Session, Apart(Contents(s)),
           NEW w \in Worker, ClaimHeld(w)
    PROVE  /\ Apart(Contents(s)')
           /\ Everything(Contents(s)') = Everything(Contents(s))
  <1>0. PICK C, D, g, p, q : /\ C = Contents(s) /\ D = Contents(s)' /\ g = Home[w]
                           /\ p = job[w] /\ q = queue[g]
    OBVIOUS
  <1>1. g \in Generation /\ q \in Seq(Payload) /\ p \in Payload
    BY <1>0, ChannelAssumption DEF Generation, TypeOK, ClaimHeld
  <1>2. Claim(w, p, q) /\ pending' = pending /\ stage[w] = "lookup"
    BY <1>0 DEF ClaimHeld
  <1>3. /\ C \in [Place -> Seq(Nat)] /\ D \in [Place -> Seq(Nat)]
        /\ C[HandedAt] = handed[s] /\ D[HandedAt] = handed'[s]
        /\ C[PendingAt] = pending[s] /\ D[PendingAt] = pending'[s]
        /\ \A h \in Generation : /\ C[QueueAt(h)] = Backlog(s, queue[h])
                                 /\ D[QueueAt(h)] = Backlog(s, queue'[h])
        /\ \A v \in Worker : /\ C[WorkerAt(v)] = Held(s, v)
                             /\ D[WorkerAt(v)] = Held(s, v)'
    BY <1>0, ContentsAt, ContentsNext
  <1>4. Held(s, w)' = <<>> /\ \A v \in Worker \ {w} : Held(s, v)' = Held(s, v)
    BY <1>0, <1>1, <1>2, ClaimContents
  <1>5. queue'[g] = Others(p.key, q) /\ \A h \in Generation \ {g} : queue'[h] = queue[h]
    BY <1>0, <1>1, <1>2, ClaimContents, ZenonT(30)
  <1>6. /\ s = p.key => handed'[s] = handed[s] \o (p.items \o Backlog(s, q))
        /\ s # p.key => handed'[s] = handed[s]
    BY <1>0, <1>1, <1>2, ClaimContents, ZenonT(30)
  <1>7. Backlog(s, queue'[g]) = IF s = p.key THEN <<>> ELSE Backlog(s, q)
    BY <1>0, <1>1, <1>5, BacklogOthers
  <1>8. Held(s, w) = IF s = p.key THEN p.items ELSE <<>>
    BY <1>0, <1>2 DEF Held
  <1>9. \A z \in Place \ {HandedAt, WorkerAt(w), QueueAt(g)} : D[z] = C[z]
    <2> SUFFICES ASSUME NEW z \in Place \ {HandedAt, WorkerAt(w), QueueAt(g)}
                 PROVE  D[z] = C[z]
      OBVIOUS
    <2>1. CASE z = PendingAt
      BY <1>0, <2>1, <1>2, <1>3
    <2>2. ASSUME NEW h \in Generation, z = QueueAt(h) PROVE D[z] = C[z]
      BY <1>0, <2>2, <1>3, <1>5
    <2>3. ASSUME NEW v \in Worker, z = WorkerAt(v) PROVE D[z] = C[z]
      BY <1>0, <2>3, <1>3, <1>4
    <2> QED
      BY <1>0, <2>1, <2>2, <2>3, Places
  <1>10. /\ HandedAt \in Place /\ WorkerAt(w) \in Place /\ QueueAt(g) \in Place
         /\ HandedAt # WorkerAt(w) /\ HandedAt # QueueAt(g)
         /\ WorkerAt(w) # QueueAt(g)
    BY <1>0, <1>1, Places
  <1>11. CASE s = p.key
    <2> DEFINE a == handed[s] \o p.items
    <2>1. /\ handed[s] \in Seq(Nat) /\ p.items \in Seq(Nat)
          /\ Backlog(s, q) \in Seq(Nat) /\ <<>> \in Seq(Nat)
      BY <1>0, <1>1, BacklogType, EmptySeq DEF TypeOK, Payload
    <2>2. a \in Seq(Nat)
      BY <1>0, <2>1, ConcatProperties
    <2>3. handed'[s] = a \o Backlog(s, q)
      <3>1. a \o Backlog(s, q) = handed[s] \o (p.items \o Backlog(s, q))
        BY <2>1, ConcatOfNaturals, ZenonT(40)
      <3> QED
        BY <1>0, <3>1, <1>6, <1>11
    <2>4. a = C[HandedAt] \o C[WorkerAt(w)]
      BY <1>0, <1>3, <1>8, <1>11
    <2> HIDE DEF a
    <2> DEFINE E == [z \in Place |-> IF z = HandedAt THEN a
                                     ELSE IF z = WorkerAt(w) THEN <<>> ELSE C[z]]
    <2>5. /\ E \in [Place -> Seq(Nat)] /\ E[HandedAt] = a /\ E[WorkerAt(w)] = <<>>
          /\ \A z \in Place \ {HandedAt, WorkerAt(w)} : E[z] = C[z]
      BY <1>0, <1>3, <1>10, <2>1, <2>2
    <2> HIDE DEF E
    <2>6. Moved(Place, C, E, WorkerAt(w), HandedAt)
      BY <1>0, <1>3, <1>10, <2>4, <2>5 DEF Moved
    <2>7. Apart(E) /\ Everything(E) = Everything(C)
      BY <1>0, <2>6, ApartMoved
    <2>8. D[HandedAt] = E[HandedAt] \o E[QueueAt(g)]
      BY <1>0, <1>1, <1>3, <1>10, <2>3, <2>5
    <2>9. D[QueueAt(g)] = <<>> /\ D[WorkerAt(w)] = <<>>
      BY <1>0, <1>1, <1>3, <1>4, <1>7, <1>11
    <2>10. \A z \in Place \ {HandedAt, QueueAt(g)} : D[z] = E[z]
      BY <1>0, <1>9, <2>5, <2>9
    <2>11. Moved(Place, E, D, QueueAt(g), HandedAt)
      BY <1>0, <1>3, <1>10, <2>5, <2>8, <2>9, <2>10 DEF Moved
    <2>12. Apart(D) /\ Everything(D) = Everything(E)
      BY <1>0, <2>7, <2>11, ApartMoved
    <2> QED
      BY <1>0, <2>7, <2>12
  <1>12. CASE s # p.key
    <2>1. D[QueueAt(g)] = C[QueueAt(g)]
      BY <1>0, <1>1, <1>3, <1>7, <1>12
    <2>2. D[HandedAt] = C[HandedAt]
      BY <1>0, <1>3, <1>6, <1>12
    <2>3. D[WorkerAt(w)] = C[WorkerAt(w)]
      BY <1>0, <1>3, <1>4, <1>8, <1>12
    <2>4. \A z \in Place : D[z] = C[z]
      BY <1>0, <1>9, <2>1, <2>2, <2>3
    <2>5. D = C
      BY <1>0, <1>3, <2>4
    <2> QED
      BY <1>0, <2>5
  <1> QED
    BY <1>0, <1>11, <1>12

(* What is put behind a queue with room is of its own session alone, and   *)
(* a full queue does not change.                                           *)
LEMMA PutBacklog ==
    ASSUME NEW q \in Seq(Payload), NEW p \in Payload, NEW s
    PROVE  /\ p.key # s => Backlog(s, Put(q, p)) = Backlog(s, q)
           /\ p.key = s /\ Len(q) < Capacity =>
                  Backlog(s, Put(q, p)) = Backlog(s, q) \o p.items
           /\ ~ (Len(q) < Capacity) => Put(q, p) = q
  BY BacklogAppend DEF Put

LEMMA FinishMoves ==
    ASSUME TypeOK, TypeOK', MarksInv, NEW s \in Session, Apart(Contents(s)),
           NEW w \in Worker, Finish(w)
    PROVE  /\ Apart(Contents(s)')
           /\ Everything(Contents(s)') \subseteq Everything(Contents(s))
           /\ Len(queue[Home[w]]) < Capacity =>
                  Everything(Contents(s)') = Everything(Contents(s))
  <1>0. PICK C, D, g, q, r : /\ C = Contents(s) /\ D = Contents(s)' /\ g = Home[w]
                           /\ q = queue[g] /\ r = job[w].key
    OBVIOUS
  <1>1. g \in Generation /\ q \in Seq(Payload) /\ r \in Session
    BY <1>0, ChannelAssumption DEF Generation, TypeOK, Payload, Finish
  <1>2. /\ handed' = handed /\ stage[w] = "busy"
        /\ queue' = [queue EXCEPT ![g] = Flushed(r, @)]
        /\ pending' = [pending EXCEPT ![r] = <<>>]
        /\ stage' = [stage EXCEPT ![w] = "getting"]
        /\ job' = [job EXCEPT ![w] = Idle]
    BY <1>0 DEF Finish
  <1>3. /\ C \in [Place -> Seq(Nat)] /\ D \in [Place -> Seq(Nat)]
        /\ C[HandedAt] = handed[s] /\ D[HandedAt] = handed'[s]
        /\ C[PendingAt] = pending[s] /\ D[PendingAt] = pending'[s]
        /\ \A h \in Generation : /\ C[QueueAt(h)] = Backlog(s, queue[h])
                                 /\ D[QueueAt(h)] = Backlog(s, queue'[h])
        /\ \A v \in Worker : /\ C[WorkerAt(v)] = Held(s, v)
                             /\ D[WorkerAt(v)] = Held(s, v)'
    BY <1>0, ContentsAt, ContentsNext
  <1>4. \A v \in Worker : Held(s, v)' = Held(s, v)
    <2>1. /\ stage'[w] = "getting"
          /\ \A v \in Worker \ {w} : stage'[v] = stage[v] /\ job'[v] = job[v]
      BY <1>0, <1>2 DEF MarksInv
    <2> QED
      BY <1>0, <1>2, <2>1 DEF Held
  <1>5. queue'[g] = Flushed(r, q) /\ \A h \in Generation \ {g} : queue'[h] = queue[h]
    BY <1>0, <1>1, <1>2 DEF TypeOK
  <1>6. pending'[s] = IF s = r THEN <<>> ELSE pending[s]
    BY <1>0, <1>1, <1>2 DEF TypeOK
  <1>7. \A z \in Place \ {PendingAt, QueueAt(g)} : D[z] = C[z]
    <2> SUFFICES ASSUME NEW z \in Place \ {PendingAt, QueueAt(g)}
                 PROVE  D[z] = C[z]
      OBVIOUS
    <2>1. CASE z = HandedAt
      BY <1>0, <2>1, <1>2, <1>3
    <2>2. ASSUME NEW h \in Generation, z = QueueAt(h) PROVE D[z] = C[z]
      BY <1>0, <2>2, <1>3, <1>5
    <2>3. ASSUME NEW v \in Worker, z = WorkerAt(v) PROVE D[z] = C[z]
      BY <1>0, <2>3, <1>3, <1>4
    <2> QED
      BY <1>0, <2>1, <2>2, <2>3, Places
  <1>8. /\ PendingAt \in Place /\ QueueAt(g) \in Place /\ PendingAt # QueueAt(g)
    BY <1>0, <1>1, Places
  <1>9. PICK p \in Payload : p = [key |-> r, items |-> pending[r]]
    BY <1>0, <1>1 DEF TypeOK, Payload
  <1>10. p.key = r /\ p.items = pending[r]
    BY <1>0, <1>9
  <1>11. Flushed(r, q) = IF pending[r] = <<>> THEN q ELSE Put(q, p)
    BY <1>0, <1>9 DEF Flushed
  <1>12. ASSUME D[PendingAt] = C[PendingAt], D[QueueAt(g)] = C[QueueAt(g)]
         PROVE  Apart(D) /\ Everything(D) = Everything(C)
    <2>1. \A z \in Place : D[z] = C[z]
      BY <1>0, <1>7, <1>12
    <2>2. D = C
      BY <1>0, <1>3, <2>1
    <2> QED
      BY <1>0, <2>2
  <1>13. CASE s # r
    <2>1. Backlog(s, Flushed(r, q)) = Backlog(s, q)
      BY <1>0, <1>1, <1>10, <1>11, <1>13, PutBacklog
    <2>2. D[PendingAt] = C[PendingAt] /\ D[QueueAt(g)] = C[QueueAt(g)]
      BY <1>0, <1>1, <1>3, <1>5, <1>6, <1>13, <2>1
    <2> QED
      BY <1>0, <1>12, <2>2
  <1>14. CASE s = r /\ pending[r] = <<>>
    <2>1. D[PendingAt] = C[PendingAt] /\ D[QueueAt(g)] = C[QueueAt(g)]
      BY <1>0, <1>1, <1>3, <1>5, <1>6, <1>11, <1>14
    <2> QED
      BY <1>0, <1>12, <2>1
  <1>15. CASE s = r /\ pending[r] # <<>> /\ Len(q) < Capacity
    <2>1. Backlog(s, Put(q, p)) = Backlog(s, q) \o p.items
      <3>1. p.key = s /\ Len(q) < Capacity
        BY <1>0, <1>10, <1>15
      <3> QED
        BY <1>1, <3>1, PutBacklog, Zenon
    <2>2. D[QueueAt(g)] = Backlog(s, Put(q, p))
      BY <1>0, <1>1, <1>3, <1>5, <1>11, <1>15
    <2>3. D[QueueAt(g)] = C[QueueAt(g)] \o C[PendingAt]
      BY <1>0, <1>1, <1>3, <1>10, <1>15, <2>1, <2>2
    <2>4. D[PendingAt] = <<>>
      BY <1>0, <1>3, <1>6, <1>15
    <2>5. Moved(Place, C, D, PendingAt, QueueAt(g))
      BY <1>0, <1>3, <1>7, <1>8, <2>3, <2>4 DEF Moved
    <2>6. Apart(D) /\ Everything(D) = Everything(C)
      BY <1>0, <2>5, ApartMoved
    <2> QED
      BY <1>0, <2>6
  <1>16. CASE s = r /\ pending[r] # <<>> /\ ~ (Len(q) < Capacity)
    <2>1. Put(q, p) = q
      BY <1>0, <1>1, <1>16, PutBacklog
    <2>2. D[QueueAt(g)] = C[QueueAt(g)] /\ D[PendingAt] = <<>>
      BY <1>0, <1>1, <1>3, <1>5, <1>6, <1>11, <1>16, <2>1
    <2>3. Dropped(Place, C, D)
      BY <1>0, <1>3, <1>7, <2>2 DEF Dropped
    <2>4. Apart(D) /\ Everything(D) \subseteq Everything(C)
      BY <1>0, <2>3, ApartDropped
    <2> QED
      BY <1>0, <1>16, <2>4
  <1> QED
    BY <1>0, <1>13, <1>14, <1>15, <1>16

LEMMA ArriveAdds ==
    ASSUME TypeOK, TypeOK', MarksInv, NEW s \in Session, Apart(Contents(s)),
           Everything(Contents(s)) \subseteq 1 .. arrived[s],
           NEW r \in Session, Arrive(r)
    PROVE  /\ Apart(Contents(s)')
           /\ Everything(Contents(s)') \subseteq
                  Everything(Contents(s)) \cup ((arrived[s] + 1) .. arrived'[s])
           /\ Len(queue[gen]) < Capacity =>
                  Everything(Contents(s)') =
                      Everything(Contents(s)) \cup ((arrived[s] + 1) .. arrived'[s])
  <1>0. PICK C, D, g, q : /\ C = Contents(s) /\ D = Contents(s)' /\ g = gen
                          /\ q = queue[g]
    OBVIOUS
  <1>1. g \in Generation /\ q \in Seq(Payload) /\ arrived[s] \in Nat /\ arrived[r] \in Nat
    BY <1>0 DEF TypeOK
  <1>2. /\ handed' = handed /\ stage' = stage /\ job' = job
        /\ arrived' = [arrived EXCEPT ![r] = @ + 1]
    BY DEF Arrive
  <1>3. /\ C \in [Place -> Seq(Nat)] /\ D \in [Place -> Seq(Nat)]
        /\ C[HandedAt] = handed[s] /\ D[HandedAt] = handed'[s]
        /\ C[PendingAt] = pending[s] /\ D[PendingAt] = pending'[s]
        /\ \A h \in Generation : /\ C[QueueAt(h)] = Backlog(s, queue[h])
                                 /\ D[QueueAt(h)] = Backlog(s, queue'[h])
        /\ \A v \in Worker : /\ C[WorkerAt(v)] = Held(s, v)
                             /\ D[WorkerAt(v)] = Held(s, v)'
    BY <1>0, ContentsAt, ContentsNext
  <1>4. \A v \in Worker : Held(s, v)' = Held(s, v)
    BY <1>2 DEF Held
  <1>5. PICK p \in Payload : p = [key |-> r, items |-> <<arrived[r] + 1>>]
    <2>1. [key |-> r, items |-> <<arrived[r] + 1>>] \in Payload
      BY <1>1 DEF Payload
    <2> QED
      BY <2>1
  <1>6. p.key = r /\ p.items = <<arrived[r] + 1>>
    BY <1>5
  <1>7. \/ /\ queue' = queue
           /\ pending' = [pending EXCEPT ![r] = Append(@, arrived[r] + 1)]
        \/ pending' = pending /\ queue' = [queue EXCEPT ![g] = Put(@, p)]
    BY <1>0, <1>5 DEF Arrive
  <1>8. \A h \in Generation \ {g} : queue'[h] = queue[h]
    BY <1>7 DEF TypeOK
  <1>9. \A z \in Place \ {PendingAt, QueueAt(g)} : D[z] = C[z]
    <2> SUFFICES ASSUME NEW z \in Place \ {PendingAt, QueueAt(g)}
                 PROVE  D[z] = C[z]
      OBVIOUS
    <2>1. CASE z = HandedAt
      BY <2>1, <1>2, <1>3
    <2>2. ASSUME NEW h \in Generation, z = QueueAt(h) PROVE D[z] = C[z]
      BY <2>2, <1>3, <1>8
    <2>3. ASSUME NEW v \in Worker, z = WorkerAt(v) PROVE D[z] = C[z]
      BY <2>3, <1>3, <1>4
    <2> QED
      BY <2>1, <2>2, <2>3, Places
  <1>10. /\ PendingAt \in Place /\ QueueAt(g) \in Place /\ PendingAt # QueueAt(g)
    BY <1>1, Places
  <1>11. ASSUME D[PendingAt] = C[PendingAt], D[QueueAt(g)] = C[QueueAt(g)]
         PROVE  Apart(D) /\ Everything(D) = Everything(C)
    <2>1. \A z \in Place : D[z] = C[z]
      BY <1>9, <1>11
    <2>2. D = C
      BY <1>3, <2>1
    <2> QED
      BY <1>0, <2>2
  <1>12. CASE s # r
    <2>1. D[PendingAt] = C[PendingAt]
      BY <1>3, <1>7, <1>12 DEF TypeOK
    <2>2. Backlog(s, Put(q, p)) = Backlog(s, q)
      BY <1>1, <1>6, <1>12, PutBacklog
    <2>3. queue'[g] = queue[g] \/ queue'[g] = Put(q, p)
      BY <1>0, <1>1, <1>7 DEF TypeOK
    <2>4. D[QueueAt(g)] = C[QueueAt(g)]
      BY <1>0, <1>1, <1>3, <2>2, <2>3
    <2>5. (arrived[s] + 1) .. arrived'[s] = {}
      BY <1>1, <1>2, <1>12 DEF TypeOK
    <2> QED
      BY <1>0, <1>11, <2>1, <2>4, <2>5
  <1>13. CASE s = r
    <2>0. PICK n \in Nat : n = arrived[s] + 1
      BY <1>1
    <2>1. arrived'[s] = n /\ (arrived[s] + 1) .. arrived'[s] = {n}
      <3>1. arrived'[s] = n
        BY <1>2, <1>13, <2>0 DEF TypeOK
      <3>2. n .. n = {n}
        BY <2>0
      <3> QED
        BY <2>0, <3>1, <3>2
    <2>2. n \notin Everything(C) /\ Apart(C)
      BY <1>0, <1>1, <2>0
    <2>3. p.items = <<n>>
      BY <1>6, <1>13, <2>0
    <2>4. CASE /\ queue' = queue
               /\ pending' = [pending EXCEPT ![r] = Append(@, arrived[r] + 1)]
      <3>1. pending'[s] = Append(pending[s], n) /\ pending[s] \in Seq(Nat)
        BY <1>13, <2>0, <2>4 DEF TypeOK
      <3>2. Append(pending[s], n) = pending[s] \o <<n>>
        BY <3>1, AppendIsConcat
      <3>3. D[PendingAt] = C[PendingAt] \o <<n>>
        BY <1>3, <3>1, <3>2
      <3>4. D[QueueAt(g)] = C[QueueAt(g)]
        BY <1>1, <1>3, <2>4
      <3>5. Added(Place, C, D, PendingAt, n)
        BY <1>3, <1>9, <1>10, <2>2, <3>3, <3>4 DEF Added
      <3>6. Apart(D) /\ Everything(D) = Everything(C) \cup {n}
        BY <2>2, <3>5, ApartAdded
      <3> QED
        BY <1>0, <2>1, <3>6
    <2>5. CASE pending' = pending /\ queue' = [queue EXCEPT ![g] = Put(@, p)]
      <3>1. D[PendingAt] = C[PendingAt]
        BY <1>3, <2>5
      <3>2. queue'[g] = Put(q, p) /\ D[QueueAt(g)] = Backlog(s, Put(q, p))
        BY <1>0, <1>1, <1>3, <2>5 DEF TypeOK
      <3>3. CASE Len(q) < Capacity
        <4>1. Backlog(s, Put(q, p)) = Backlog(s, q) \o p.items
          <5>1. p.key = s /\ Len(q) < Capacity
            BY <1>6, <1>13, <3>3
          <5> QED
            BY <1>1, <5>1, PutBacklog, Zenon
        <4>2. D[QueueAt(g)] = C[QueueAt(g)] \o <<n>>
          BY <1>0, <1>1, <1>3, <2>3, <3>2, <4>1
        <4>3. Added(Place, C, D, QueueAt(g), n)
          BY <1>3, <1>9, <1>10, <2>2, <3>1, <4>2 DEF Added
        <4>4. Apart(D) /\ Everything(D) = Everything(C) \cup {n}
          BY <2>2, <4>3, ApartAdded
        <4> QED
          BY <1>0, <2>1, <4>4
      <3>4. CASE ~ (Len(q) < Capacity)
        <4>1. Put(q, p) = q
          BY <1>1, <3>4, PutBacklog
        <4>2. D[QueueAt(g)] = C[QueueAt(g)]
          BY <1>0, <1>1, <1>3, <3>2, <4>1
        <4> QED
          BY <1>0, <1>11, <3>1, <3>4, <4>2
      <3> QED
        BY <3>3, <3>4
    <2> QED
      BY <1>7, <2>4, <2>5
  <1> QED
    BY <1>12, <1>13

(* A stop drops what is pending and what the workers it ends hold.         *)
LEMMA StopDrops ==
    ASSUME TypeOK, TypeOK', MarksInv, NEW s \in Session, Apart(Contents(s)), StopBegin
    PROVE  /\ Apart(Contents(s)')
           /\ Everything(Contents(s)') \subseteq Everything(Contents(s))
  <1>0. PICK C, D : C = Contents(s) /\ D = Contents(s)'
    OBVIOUS
  <1>1. /\ C \in [Place -> Seq(Nat)] /\ D \in [Place -> Seq(Nat)]
        /\ C[HandedAt] = handed[s] /\ D[HandedAt] = handed'[s]
        /\ C[PendingAt] = pending[s] /\ D[PendingAt] = pending'[s]
        /\ \A h \in Generation : /\ C[QueueAt(h)] = Backlog(s, queue[h])
                                 /\ D[QueueAt(h)] = Backlog(s, queue'[h])
        /\ \A v \in Worker : /\ C[WorkerAt(v)] = Held(s, v)
                             /\ D[WorkerAt(v)] = Held(s, v)'
    BY <1>0, ContentsAt, ContentsNext
  <1>2. handed' = handed /\ queue' = queue /\ pending'[s] = <<>>
    BY DEF StopBegin
  <1>3. ASSUME NEW v \in Worker PROVE Held(s, v)' = Held(s, v) \/ Held(s, v)' = <<>>
    <2>1. PICK gone \in SUBSET tasks :
              /\ stage' = [w \in Worker |-> IF w \in gone THEN "gone" ELSE stage[w]]
              /\ job' = [w \in Worker |-> IF w \in gone THEN Idle ELSE job[w]]
      BY DEF StopBegin
    <2> QED
      BY <2>1 DEF Held
  <1>4. ASSUME NEW z \in Place PROVE D[z] = C[z] \/ D[z] = <<>>
    <2>1. CASE z \in {HandedAt, PendingAt}
      BY <2>1, <1>1, <1>2
    <2>2. ASSUME NEW h \in Generation, z = QueueAt(h) PROVE D[z] = C[z]
      BY <2>2, <1>1, <1>2
    <2>3. ASSUME NEW v \in Worker, z = WorkerAt(v) PROVE D[z] = C[z] \/ D[z] = <<>>
      BY <2>3, <1>1, <1>3
    <2> QED
      BY <2>1, <2>2, <2>3, Places
  <1>5. Dropped(Place, C, D)
    BY <1>1, <1>4 DEF Dropped
  <1>6. Apart(D) /\ Everything(D) \subseteq Everything(C)
    BY <1>0, <1>5, ApartDropped
  <1> QED
    BY <1>0, <1>6

(* The other steps move no message: the workers that a start adds are none *)
(* of those that hold one.                                                 *)
LEMMA OthersKeep ==
    ASSUME TypeOK, TypeOK', MarksInv, NEW s \in Session, Apart(Contents(s)),
           \/ StartAll \/ StopEnd \/ RequestSwap \/ BeginSwap \/ EndSwap
           \/ UNCHANGED vars
    PROVE  /\ Apart(Contents(s)')
           /\ Everything(Contents(s)') = Everything(Contents(s))
  <1>1. handed' = handed /\ pending' = pending /\ queue' = queue /\ job' = job
    BY DEF StartAll, StopEnd, RequestSwap, BeginSwap, EndSwap, vars
  <1>2. ASSUME NEW v \in Worker
        PROVE  stage'[v] = "lookup" <=> stage[v] = "lookup"
    <2>1. CASE Open
      <3>1. v \in Crew(gen + 1) => stage[v] = "gone"
        BY DEF Crew, MarksInv
      <3> QED
        BY <2>1, <3>1 DEF Open
    <2>2. CASE ~Open
      <3>1. stage' = stage
        BY <2>2 DEF StartAll, StopEnd, RequestSwap, BeginSwap, EndSwap, vars
      <3> QED
        BY <3>1
    <2> QED
      BY <2>1, <2>2
  <1>3. \A v \in Worker : Held(s, v)' = Held(s, v)
    BY <1>1, <1>2 DEF Held
  <1>4. Contents(s)' = Contents(s)
    <2>1. PICK a, b : /\ a = [g \in Generation |-> Backlog(s, queue[g])]
                      /\ b = [w \in Worker |-> Held(s, w)]
      OBVIOUS
    <2>2. a = [g \in Generation |-> Backlog(s, queue'[g])]
      BY <1>1, <2>1
    <2>3. b = [w \in Worker |-> Held(s, w)']
      BY <1>3, <2>1
    <2> QED
      BY <1>1, <2>1, <2>2, <2>3 DEF Contents
  <1> QED
    BY <1>4

(* The queue read by a worker or filled by the channel has room.           *)
Room == \A g \in Generation : Len(queue[g]) < Capacity

(* No step puts a message at two places, and none loses one while there is *)
(* room.                                                                   *)
LEMMA AccountStep ==
    ASSUME TypeOK, TypeOK', MarksInv, [Next]_vars, NEW s \in Session, Accounted(s)
    PROVE  /\ Accounted(s)'
           /\ Room /\ Covered(s) => Covered(s)'
  <1> DEFINE A == Everything(Contents(s))
             B == Everything(Contents(s)')
  <1>1. /\ arrived[s] \in Nat /\ arrived'[s] \in Nat
        /\ discarded[s] \in Nat /\ discarded'[s] \in Nat
    BY DEF TypeOK
  <1>2. Apart(Contents(s)) /\ A \subseteq 1 .. arrived[s]
    BY DEF Accounted
  <1>3. ASSUME Apart(Contents(s)'), B \subseteq A, Room => B = A,
               arrived' = arrived, discarded' = discarded
        PROVE  Accounted(s)' /\ (Room /\ Covered(s) => Covered(s)')
    BY <1>2, <1>3 DEF Accounted, Covered
  <1>4. ASSUME Apart(Contents(s)'), B \subseteq A, arrived' = arrived,
               discarded' = arrived
        PROVE  Accounted(s)' /\ Covered(s)'
    BY <1>1, <1>2, <1>4 DEF Accounted, Covered
  <1>5. \A w \in Worker : Home[w] \in Generation
    BY ChannelAssumption DEF Generation
  <1> HIDE DEF A, B
  <1>6. ASSUME NEW r \in Session, Arrive(r)
        PROVE  Accounted(s)' /\ (Room /\ Covered(s) => Covered(s)')
    <2> DEFINE N == (arrived[s] + 1) .. arrived'[s]
    <2>1. gen \in Generation /\ discarded' = discarded
      BY <1>6 DEF TypeOK, Arrive, opened
    <2>2. /\ Apart(Contents(s)') /\ B \subseteq A \cup N
          /\ Room => B = A \cup N
      BY <1>2, <1>6, <2>1, ArriveAdds DEF A, B, Room
    <2>3. arrived'[s] = arrived[s] \/ arrived'[s] = arrived[s] + 1
      BY <1>1, <1>6 DEF Arrive, TypeOK
    <2>4. B \subseteq 1 .. arrived'[s]
      BY <1>1, <1>2, <2>2, <2>3
    <2>5. ASSUME Room, (discarded[s] + 1) .. arrived[s] \subseteq A
          PROVE  (discarded'[s] + 1) .. arrived'[s] \subseteq B
      BY <1>1, <2>1, <2>2, <2>3, <2>5
    <2> QED
      BY <2>2, <2>4, <2>5 DEF Accounted, Covered, A, B
  <1>7. ASSUME NEW w \in Worker, TakeAndClaim(w) \/ TakeAndWait(w) \/ ClaimHeld(w)
        PROVE  Accounted(s)' /\ (Room /\ Covered(s) => Covered(s)')
    <2>1. Apart(Contents(s)') /\ B = A
      BY <1>2, <1>7, TakeAndClaimMoves, TakeAndWaitMoves, ClaimHeldMoves DEF A, B
    <2>2. arrived' = arrived /\ discarded' = discarded
      BY <1>7 DEF TakeAndClaim, TakeAndWait, ClaimHeld, opened
    <2> QED
      BY <1>3, <2>1, <2>2
  <1>8. ASSUME NEW w \in Worker, Finish(w)
        PROVE  Accounted(s)' /\ (Room /\ Covered(s) => Covered(s)')
    <2>1. Apart(Contents(s)') /\ B \subseteq A /\ (Room => B = A)
      BY <1>2, <1>5, <1>8, FinishMoves DEF A, B, Room
    <2>2. arrived' = arrived /\ discarded' = discarded
      BY <1>8 DEF Finish, opened
    <2> QED
      BY <1>3, <2>1, <2>2
  <1>9. CASE StopBegin
    <2>1. Apart(Contents(s)') /\ B \subseteq A
      BY <1>2, <1>9, StopDrops DEF A, B
    <2>2. arrived' = arrived /\ discarded' = arrived
      BY <1>9 DEF StopBegin
    <2> QED
      BY <1>4, <2>1, <2>2
  <1>10. CASE StopEnd
    <2>1. Apart(Contents(s)') /\ B = A
      BY <1>2, <1>10, OthersKeep DEF A, B
    <2>2. arrived' = arrived /\ discarded' = arrived
      BY <1>10 DEF StopEnd
    <2> QED
      BY <1>4, <2>1, <2>2
  <1>11. CASE StartAll \/ RequestSwap \/ BeginSwap \/ EndSwap \/ UNCHANGED vars
    <2>1. Apart(Contents(s)') /\ B = A
      BY <1>2, <1>11, OthersKeep DEF A, B
    <2>2. arrived' = arrived /\ discarded' = discarded
      BY <1>11 DEF StartAll, RequestSwap, BeginSwap, EndSwap, opened, vars
    <2> QED
      BY <1>3, <2>1, <2>2
  <1> QED
    BY <1>6, <1>7, <1>8, <1>9, <1>10, <1>11 DEF Next

LEMMA AccountInit == Init => \A s \in Session : Accounted(s) /\ Covered(s)
  <1> SUFFICES ASSUME Init, NEW s \in Session PROVE Accounted(s) /\ Covered(s)
    OBVIOUS
  <1>0. PICK C : C = Contents(s)
    OBVIOUS
  <1>1. /\ C \in [Place -> Seq(Nat)]
        /\ C[HandedAt] = handed[s] /\ C[PendingAt] = pending[s]
        /\ \A h \in Generation : C[QueueAt(h)] = Backlog(s, queue[h])
        /\ \A v \in Worker : C[WorkerAt(v)] = Held(s, v)
    BY <1>0, InitType, ContentsAt
  <1>2. handed[s] = <<>> /\ pending[s] = <<>> /\ \A v \in Worker : Held(s, v) = <<>>
    BY DEF Init, Held
  <1>3. \A h \in Generation : Backlog(s, queue[h]) = <<>>
    BY BacklogEmpty DEF Init
  <1>4. ASSUME NEW z \in Place PROVE C[z] = <<>>
    BY <1>1, <1>2, <1>3, Places
  <1>5. \A z \in Place : ToSet(C[z]) = {} /\ IsInjective(C[z])
    BY <1>4, ElementsOfEmpty
  <1>6. Apart(C) /\ Everything(C) = {}
    BY <1>1, <1>5 DEF Apart, Everything
  <1>7. arrived[s] = 0 /\ discarded[s] = 0
    BY DEF Init
  <1> QED
    BY <1>0, <1>6, <1>7 DEF Accounted, Covered

(* No message is handed over twice, whatever is stopped, started and       *)
(* replaced, however many workers overlap, and also when a full queue      *)
(* drops what is put in it.                                                *)
NoneHandedTwice == \A s \in Session : IsInjective(handed[s])

THEOREM HandedOnce == Spec => []NoneHandedTwice
  <1> DEFINE I == \A s \in Session : Accounted(s)
  <1>1. Init => I
    BY AccountInit
  <1>2. TypeOK /\ TypeOK' /\ MarksInv /\ I /\ [Next]_vars => I'
    BY AccountStep
  <1>3. TypeOK /\ I => NoneHandedTwice
    <2> SUFFICES ASSUME TypeOK, NEW s \in Session, Accounted(s)
                 PROVE  IsInjective(handed[s])
      BY DEF NoneHandedTwice
    <2>1. /\ Contents(s) \in [Place -> Seq(Nat)] /\ HandedAt \in Place
          /\ Contents(s)[HandedAt] = handed[s]
      BY ContentsAt, Places
    <2> QED
      BY <2>1 DEF Accounted, Apart
  <1> HIDE DEF I
  <1> QED
    BY <1>1, <1>2, <1>3, ChannelInvariant, PTL DEF Spec

(* While the queue has room, no message that came since the last stop is   *)
(* lost, in any number of generations and under any swap: it is handed     *)
(* over, held, queued or pending.                                          *)
THEOREM NothingIsLost == Spec /\ []Room => []NothingLost
  <1> DEFINE I == \A s \in Session : Accounted(s) /\ Covered(s)
  <1>1. Init => I
    BY AccountInit
  <1>2. TypeOK /\ TypeOK' /\ MarksInv /\ Room /\ I /\ [Next]_vars => I'
    BY AccountStep
  <1>3. TypeOK /\ I => NothingLost
    <2> SUFFICES ASSUME TypeOK, NEW s \in Session, Accounted(s), Covered(s)
                 PROVE  /\ (discarded[s] + 1) .. arrived[s] \subseteq
                               ToSet(handed[s]) \cup ToSet(pending[s])
                               \cup (UNION {ToSet(Backlog(s, queue[g])) : g \in Generation})
                               \cup (UNION {ToSet(job[w].items) : w \in Holding(s)})
                        /\ IsInjective(handed[s])
      BY DEF NothingLost
    <2>0. PICK C : C = Contents(s)
      OBVIOUS
    <2>1. /\ C \in [Place -> Seq(Nat)] /\ HandedAt \in Place
          /\ C[HandedAt] = handed[s] /\ C[PendingAt] = pending[s]
          /\ \A h \in Generation : C[QueueAt(h)] = Backlog(s, queue[h])
          /\ \A v \in Worker : C[WorkerAt(v)] = Held(s, v)
      BY <2>0, ContentsAt, Places
    <2>2. IsInjective(handed[s])
      BY <2>0, <2>1 DEF Accounted, Apart
    <2>3. ASSUME NEW n \in (discarded[s] + 1) .. arrived[s]
          PROVE  \/ n \in ToSet(handed[s]) \/ n \in ToSet(pending[s])
                 \/ \E g \in Generation : n \in ToSet(Backlog(s, queue[g]))
                 \/ \E w \in Holding(s) : n \in ToSet(job[w].items)
      <3>1. PICK z \in Place : n \in ToSet(C[z])
        BY <2>0, <2>1 DEF Covered, Everything
      <3>2. CASE z \in {HandedAt, PendingAt}
        BY <2>1, <3>1, <3>2
      <3>3. ASSUME NEW g \in Generation, z = QueueAt(g)
            PROVE  n \in ToSet(Backlog(s, queue[g]))
        BY <2>1, <3>1, <3>3
      <3>4. ASSUME NEW w \in Worker, z = WorkerAt(w)
            PROVE  w \in Holding(s) /\ n \in ToSet(job[w].items)
        <4>1. n \in ToSet(Held(s, w))
          BY <2>1, <3>1, <3>4
        <4>2. Held(s, w) # <<>>
          BY <4>1, ElementsOfEmpty
        <4>3. w \in Holding(s) /\ Held(s, w) = job[w].items
          BY <4>2 DEF Held, Holding
        <4> QED
          BY <4>1, <4>3
      <3> QED
        BY <3>2, <3>3, <3>4, Places
    <2> DEFINE U == UNION {ToSet(Backlog(s, queue[g])) : g \in Generation}
               V == UNION {ToSet(job[w].items) : w \in Holding(s)}
    <2>4. \A n : n \in U <=> \E g \in Generation : n \in ToSet(Backlog(s, queue[g]))
      OBVIOUS
    <2>5. \A n : n \in V <=> \E w \in Holding(s) : n \in ToSet(job[w].items)
      OBVIOUS
    <2> HIDE DEF U, V
    <2>6. (discarded[s] + 1) .. arrived[s] \subseteq
              ToSet(handed[s]) \cup ToSet(pending[s]) \cup U \cup V
      BY <2>3, <2>4, <2>5
    <2> USE DEF U, V
    <2> QED
      BY <2>2, <2>6, Zenon
  <1> HIDE DEF I
  <1> QED
    BY <1>1, <1>2, <1>3, ChannelInvariant, PTL DEF Spec

-----------------------------------------------------------------------------
(* The order of the messages: what is handed over and what waits in the    *)
(* mailbox are together in the order of arrival.                           *)
Ascending(q) == \A i, j \in DOMAIN q : i < j => q[i] < q[j]

OrderInv ==
    \A s \in Session : /\ Ascending(handed[s] \o Inbox(s))
                       /\ \A n \in ToSet(handed[s] \o Inbox(s)) : n <= arrived[s]

(* A part of an ascending sequence ascends, and so does one that a larger  *)
(* number is put behind.                                                   *)
LEMMA AscendingFront ==
    ASSUME NEW a \in Seq(Nat), NEW b \in Seq(Nat), Ascending(a \o b)
    PROVE  Ascending(a)
  <1>1. /\ Len(a) \in Nat /\ Len(b) \in Nat /\ DOMAIN a = 1 .. Len(a)
        /\ a \o b \in Seq(Nat) /\ Len(a \o b) = Len(a) + Len(b)
        /\ \A i \in 1 .. Len(a) + Len(b) : i <= Len(a) => (a \o b)[i] = a[i]
    BY ConcatProperties, LenProperties
  <1>2. DOMAIN (a \o b) = 1 .. Len(a) + Len(b)
    BY <1>1, LenProperties
  <1> DEFINE c == a \o b
  <1>3. \A i \in DOMAIN a : i \in DOMAIN c /\ c[i] = a[i]
    BY <1>1, <1>2
  <1>4. Ascending(c)
    OBVIOUS
  <1> HIDE DEF c
  <1> QED
    BY <1>3, <1>4 DEF Ascending

LEMMA AscendingBehind ==
    ASSUME NEW a \in Seq(Nat), NEW n \in Nat, Ascending(a),
           \A m \in ToSet(a) : m <= n
    PROVE  /\ Ascending(Append(a, n + 1))
           /\ \A m \in ToSet(Append(a, n + 1)) : m <= n + 1
  <1> DEFINE c == Append(a, n + 1)
  <1>1. /\ Len(a) \in Nat /\ DOMAIN a = 1 .. Len(a) /\ c \in Seq(Nat)
        /\ Len(c) = Len(a) + 1 /\ c[Len(a) + 1] = n + 1
        /\ \A i \in 1 .. Len(a) : c[i] = a[i]
    BY AppendProperties, LenProperties
  <1>2. DOMAIN c = 1 .. Len(a) + 1
    BY <1>1, LenProperties
  <1>3. \A i \in 1 .. Len(a) : a[i] \in Nat /\ a[i] <= n
    BY <1>1, ElementOfSeq DEF ToSet
  <1> HIDE DEF c
  <1>4. \A i \in DOMAIN c : c[i] <= n + 1
    BY <1>1, <1>2, <1>3
  <1>5. ASSUME NEW i \in DOMAIN c, NEW j \in DOMAIN c, i < j PROVE c[i] < c[j]
    <2>1. i \in 1 .. Len(a) /\ (j \in 1 .. Len(a) \/ j = Len(a) + 1)
      BY <1>1, <1>2, <1>5
    <2>2. CASE j \in 1 .. Len(a)
      BY <1>1, <1>5, <2>1, <2>2 DEF Ascending
    <2>3. CASE j = Len(a) + 1
      BY <1>1, <1>3, <2>1, <2>3
    <2> QED
      BY <2>1, <2>2, <2>3
  <1> QED
    BY <1>4, <1>5 DEF c, Ascending, ToSet

(* A step of the mailbox keeps the order, so every step of the channel     *)
(* does.                                                                   *)
LEMMA OrderStep ==
    ASSUME TypeOK, TypeOK', [Mailbox!Next]_(Mailbox!vars), OrderInv
    PROVE  OrderInv'
  <1>0. PICK a, b : /\ a = [s \in Session |-> Backlog(s, queue[gen]) \o pending[s]]
                    /\ b = [s \in Session |-> Backlog(s, queue'[gen']) \o pending'[s]]
    OBVIOUS
  <1>1. \A s \in Session : a[s] = Inbox(s) /\ b[s] = Inbox(s)'
    BY <1>0 DEF Inbox
  <1>2. ASSUME NEW s \in Session
        PROVE  /\ handed[s] \in Seq(Nat) /\ a[s] \in Seq(Nat) /\ arrived[s] \in Nat
               /\ Ascending(handed[s] \o a[s])
               /\ \A n \in ToSet(handed[s] \o a[s]) : n <= arrived[s]
    BY <1>1, InboxType DEF OrderInv, TypeOK
  <1>3. \/ \E s \in Session :
               \/ /\ arrived' = [arrived EXCEPT ![s] = @ + 1] /\ handed' = handed
                  /\ b = [a EXCEPT ![s] = Append(@, arrived[s] + 1)] \/ b = a
               \/ /\ arrived' = arrived /\ b = [a EXCEPT ![s] = <<>>]
                  /\ handed' = [handed EXCEPT ![s] = @ \o a[s]]
               \/ /\ arrived' = arrived /\ handed' = handed
                  /\ b = [a EXCEPT ![s] = <<>>] \/ b = a
        \/ arrived' = arrived /\ handed' = handed /\ b = a
    BY <1>0 DEF Mailbox!Next, Mailbox!Arrive, Mailbox!TakeTurn, Mailbox!EndTurn,
                Mailbox!vars
  <1>4. ASSUME NEW r \in Session
        PROVE  \/ /\ handed'[r] = handed[r] /\ b[r] = a[r]
                  /\ arrived'[r] = arrived[r] \/ arrived'[r] = arrived[r] + 1
               \/ /\ handed'[r] = handed[r] /\ b[r] = Append(a[r], arrived[r] + 1)
                  /\ arrived'[r] = arrived[r] + 1
               \/ /\ handed'[r] = handed[r] \o a[r] /\ b[r] = <<>>
                  /\ arrived'[r] = arrived[r]
               \/ /\ handed'[r] = handed[r] /\ b[r] = <<>>
                  /\ arrived'[r] = arrived[r]
    <2>1. /\ arrived = [s \in Session |-> arrived[s]]
          /\ handed = [s \in Session |-> handed[s]] /\ a = [s \in Session |-> a[s]]
      BY <1>0 DEF TypeOK
    <2>2. CASE arrived' = arrived /\ handed' = handed /\ b = a
      BY <2>2
    <2>3. ASSUME NEW s \in Session,
                 /\ arrived' = [arrived EXCEPT ![s] = @ + 1] /\ handed' = handed
                 /\ b = [a EXCEPT ![s] = Append(@, arrived[s] + 1)] \/ b = a
          PROVE  \/ /\ handed'[r] = handed[r] /\ b[r] = a[r]
                    /\ arrived'[r] = arrived[r] \/ arrived'[r] = arrived[r] + 1
                 \/ /\ handed'[r] = handed[r] /\ b[r] = Append(a[r], arrived[r] + 1)
                    /\ arrived'[r] = arrived[r] + 1
      <3>1. CASE r = s
        BY <2>1, <2>3, <3>1
      <3>2. CASE r # s
        BY <2>1, <2>3, <3>2
      <3> QED
        BY <3>1, <3>2
    <2>4. ASSUME NEW s \in Session,
                 /\ arrived' = arrived /\ b = [a EXCEPT ![s] = <<>>]
                 /\ handed' = [handed EXCEPT ![s] = @ \o a[s]]
          PROVE  \/ /\ handed'[r] = handed[r] /\ b[r] = a[r]
                    /\ arrived'[r] = arrived[r]
                 \/ /\ handed'[r] = handed[r] \o a[r] /\ b[r] = <<>>
                    /\ arrived'[r] = arrived[r]
      <3>1. CASE r = s
        BY <2>1, <2>4, <3>1
      <3>2. CASE r # s
        BY <2>1, <2>4, <3>2
      <3> QED
        BY <3>1, <3>2
    <2>5. ASSUME NEW s \in Session,
                 /\ arrived' = arrived /\ handed' = handed
                 /\ b = [a EXCEPT ![s] = <<>>] \/ b = a
          PROVE  /\ handed'[r] = handed[r] /\ arrived'[r] = arrived[r]
                 /\ b[r] = a[r] \/ b[r] = <<>>
      BY <2>1, <2>5
    <2> QED
      BY <1>3, <2>2, <2>3, <2>4, <2>5
  <1>5. ASSUME NEW r \in Session
        PROVE  /\ Ascending(handed'[r] \o b[r])
               /\ \A n \in ToSet(handed'[r] \o b[r]) : n <= arrived'[r]
    <2>0. PICK h, c, n : h = handed[r] /\ c = a[r] /\ n = arrived[r]
      OBVIOUS
    <2>1. /\ h \in Seq(Nat) /\ c \in Seq(Nat) /\ n \in Nat /\ h \o c \in Seq(Nat)
          /\ Ascending(h \o c) /\ \A m \in ToSet(h \o c) : m <= n
      BY <1>2, <2>0, ConcatProperties
    <2>2. CASE /\ handed'[r] = h /\ b[r] = c
               /\ arrived'[r] = n \/ arrived'[r] = n + 1
      <3>1. \A m \in ToSet(h \o c) : m \in Nat
        BY <2>1, ElementOfSeq, LenProperties DEF ToSet
      <3>2. \A m \in ToSet(h \o c) : m <= arrived'[r]
        BY <2>1, <2>2, <3>1
      <3> QED
        BY <2>1, <2>2, <3>2
    <2>3. CASE handed'[r] = h /\ b[r] = Append(c, n + 1) /\ arrived'[r] = n + 1
      <3>1. h \o Append(c, n + 1) = Append(h \o c, n + 1)
        BY <2>1, AppendConcat
      <3>2. /\ Ascending(Append(h \o c, n + 1))
            /\ \A m \in ToSet(Append(h \o c, n + 1)) : m <= n + 1
        BY <2>1, AscendingBehind
      <3> QED
        BY <2>3, <3>1, <3>2
    <2>4. CASE handed'[r] = h \o c /\ b[r] = <<>> /\ arrived'[r] = n
      <3>1. (h \o c) \o <<>> = h \o c
        BY <2>1, ConcatEmptySeq
      <3> QED
        BY <2>1, <2>4, <3>1
    <2>5. CASE handed'[r] = h /\ b[r] = <<>> /\ arrived'[r] = n
      <3>1. h \o <<>> = h
        BY <2>1, ConcatEmptySeq
      <3>2. Ascending(h)
        BY <2>1, AscendingFront
      <3>3. ToSet(h) \subseteq ToSet(h \o c)
        BY <2>1, ElementsOfConcat
      <3> QED
        BY <2>1, <2>5, <3>1, <3>2, <3>3
    <2> QED
      BY <1>4, <2>0, <2>2, <2>3, <2>4, <2>5
  <1> QED
    BY <1>1, <1>5 DEF OrderInv

LEMMA OrderInit == Init => OrderInv
  <1> SUFFICES ASSUME Init, NEW s \in Session
               PROVE  /\ Ascending(handed[s] \o Inbox(s))
                      /\ \A n \in ToSet(handed[s] \o Inbox(s)) : n <= arrived[s]
    BY DEF OrderInv
  <1>1. handed[s] = <<>> /\ pending[s] = <<>> /\ queue[gen] = <<>>
    BY ChannelAssumption DEF Init, Generation
  <1>2. <<>> \o <<>> = <<>>
    BY EmptySeq, ConcatEmptySeq
  <1>3. handed[s] \o Inbox(s) = <<>>
    BY <1>1, <1>2, BacklogEmpty DEF Inbox
  <1>4. Ascending(<<>>) /\ ToSet(<<>>) = {}
    BY ElementsOfEmpty DEF Ascending
  <1> QED
    BY <1>3, <1>4

(* While no channel is replaced and the channel is not started again, the  *)
(* messages of a session are handed over in the order they came, none of   *)
(* them twice: what is kept during a turn never overtakes what is queued.  *)
HandedInOrder == \A s \in Session : Ascending(handed[s])

THEOREM OrderIsKept ==
    ASSUME ~Swaps, MaxStarts = 0
    PROVE  Spec => []HandedInOrder
  <1>1. TypeOK /\ OrderInv => HandedInOrder
    BY InboxType, AscendingFront DEF TypeOK, OrderInv, HandedInOrder
  <1> QED
    BY <1>1, InitSole, SolePreserved, ChannelInvariant, MailboxStep, OrderInit,
       OrderStep, PTL DEF Spec
=============================================================================
