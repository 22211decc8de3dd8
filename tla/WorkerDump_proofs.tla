-------------------------- MODULE WorkerDump_proofs --------------------------
(* Proofs about the dump of WorkerDump, for every game: what the loops of the
   worker compute over classes, words and patterns, however many there are.  *)
EXTENDS WorkerDump, WellFoundedInduction, FiniteSetTheorems, SequenceTheorems, TLAPS

-----------------------------------------------------------------------------
(* Induction in a form whose only parameter is a set, from the fact that the
   order of the naturals is well-founded.                                    *)
LEMMA NatOrder == IsWellFoundedOn({p \in Nat \X Nat : p[1] < p[2]}, Nat)
<1>1. IsWellFoundedOn(OpToRel(<, Nat), Nat)
    BY NatLessThanWellFounded
<1>2. OpToRel(<, Nat) = {p \in Nat \X Nat : p[1] < p[2]}
    BY DEF OpToRel
<1> QED BY <1>1, <1>2

LEMMA LeastNat ==
  ASSUME NEW T \in SUBSET Nat, T # {} PROVE \E x \in T : \A y \in T : x <= y
<1> DEFINE R == {p \in Nat \X Nat : p[1] < p[2]}
<1>1. IsWellFoundedOn(R, Nat)
    BY NatOrder
<1>2. PICK x \in T : \A y \in T : ~ (<<y, x>> \in R)
    <2> HIDE DEF R
    <2> QED BY <1>1, WFMin
<1>3. ASSUME NEW y \in T PROVE x <= y
    <2>1. x \in Nat /\ y \in Nat /\ ~ (<<y, x>> \in R)
        BY <1>2
    <2> QED BY <2>1
<1> QED BY <1>3

LEMMA SetInduction ==
  ASSUME NEW S, 0 \in S, \A n \in Nat : n \in S => n + 1 \in S PROVE Nat \subseteq S
<1> SUFFICES ASSUME Nat \ S # {} PROVE FALSE
    OBVIOUS
<1>1. PICK x \in Nat \ S : \A y \in Nat \ S : x <= y
    BY LeastNat
<1>2. x # 0 /\ x - 1 \in Nat /\ x - 1 \notin Nat \ S
    BY <1>1
<1> QED BY <1>1, <1>2

(* The same over the steps of a loop. *)
LEMMA StepInduction ==
  ASSUME NEW N \in Nat, NEW S, 0 \in S, \A n \in 0..(N - 1) : n \in S => n + 1 \in S
  PROVE  0..N \subseteq S
<1> DEFINE T == S \cup {n \in Nat : n > N}
<1>1. 0 \in T /\ \A n \in Nat : n \in T => n + 1 \in T
    OBVIOUS
<1>2. Nat \subseteq T
    BY <1>1, SetInduction
<1> QED BY <1>2

-----------------------------------------------------------------------------
(* Rows: what Kept leaves and what Joined puts together, by the sequences they
   go through.                                                               *)

\* c[0], c[1], ... are what is kept of the first n elements.
KeptOf(c, s, S, n) ==
  /\ c[0] = << >>
  /\ \A i \in 0..(n - 1) : c[i + 1] = IF s[i + 1] \in S THEN Append(c[i], s[i + 1]) ELSE c[i]

LEMMA KeptExists ==
  ASSUME NEW s, Len(s) \in Nat, NEW S
  PROVE  \E c : KeptOf(c, s, S, Len(s)) /\ Kept(s, S) = c[Len(s)]
<1> DEFINE N == Len(s)
           Step(x, i) == IF s[i] \in S THEN Append(x, s[i]) ELSE x
           Is(g, n) == g = [i \in 0..n |-> IF i = 0 THEN << >> ELSE Step(g[i - 1], i)]
           T == {n \in Nat : \E g : Is(g, n)}
           f == CHOOSE g : Is(g, N)
<1>1. N \in T
    <2> HIDE DEF Step, N
    <2>1. 0 \in T
        <3>1. Is([i \in 0..0 |-> << >>], 0)
            OBVIOUS
        <3> QED BY <3>1
    <2>2. ASSUME NEW n \in Nat, n \in T PROVE n + 1 \in T
        <3>1. PICK g : Is(g, n)
            BY <2>2
        <3> DEFINE h == [i \in 0..(n + 1) |-> IF i = n + 1 THEN Step(g[n], n + 1) ELSE g[i]]
        <3>2. Is(h, n + 1)
            BY <3>1
        <3> HIDE DEF h, Is
        <3> QED BY <3>2
    <2>3. Nat \subseteq T
        <3> HIDE DEF T
        <3> QED BY <2>1, <2>2, SetInduction
    <2> QED BY <2>3 DEF N
<1>2. Is(f, N)
    BY <1>1
<1>3. Kept(s, S) = f[N]
    BY DEF Kept
<1>4. KeptOf(f, s, S, N)
    <2>1. N \in Nat
        OBVIOUS
    <2>2. f[0] = << >> /\ \A i \in 0..(N - 1) : f[i + 1] = Step(f[i], i + 1)
        <3> HIDE DEF f, N, Step
        <3> QED BY <1>2, <2>1
    <2> HIDE DEF f, N
    <2> QED BY <2>2, Zenon DEF KeptOf
<1> QED BY <1>3, <1>4

\* Names in a row, each once and each of the set.
OnceEach(s, S) ==
  /\ s \in Seq(S)
  /\ \A i, j \in DOMAIN s : s[i] = s[j] => i = j

LEMMA KeptOnceEach ==
  ASSUME NEW s, IsRow(s), \A i, j \in DOMAIN s : s[i] = s[j] => i = j, NEW S
  PROVE  /\ OnceEach(Kept(s, S), S)
         /\ \A k \in DOMAIN Kept(s, S) : \E j \in DOMAIN s : Kept(s, S)[k] = s[j]
         /\ \A j \in DOMAIN s : s[j] \in S => \E k \in DOMAIN Kept(s, S) : Kept(s, S)[k] = s[j]
<1> DEFINE N == Len(s)
<1>1. PICK c : KeptOf(c, s, S, N) /\ Kept(s, S) = c[N]
    BY KeptExists DEF IsRow
<1> DEFINE T == {i \in 0..N : /\ OnceEach(c[i], S)
                              /\ \A k \in DOMAIN c[i] : \E j \in 1..i : c[i][k] = s[j]
                              /\ \A j \in 1..i : s[j] \in S => \E k \in DOMAIN c[i] : c[i][k] = s[j]}
<1>2. N \in Nat /\ DOMAIN s = 1..N
    BY DEF IsRow
<1>3. 0 \in T
    <2>1. << >> \in Seq(S) /\ DOMAIN << >> = {}
        OBVIOUS
    <2>2. c[0] = << >>
        BY <1>1, Zenon DEF KeptOf
    <2>3. OnceEach(<< >>, S)
        BY <2>1, Zenon DEF OnceEach
    <2>4. \A k \in DOMAIN c[0] : \E j \in 1..0 : c[0][k] = s[j]
        BY <2>1, <2>2
    <2> QED BY <1>2, <2>2, <2>3, <2>4
<1>4. ASSUME NEW i \in 0..(N - 1), i \in T PROVE i + 1 \in T
    <2> DEFINE x == s[i + 1]
    <2>1. i + 1 \in 0..N /\ i + 1 \in 1..N /\ \A j \in 1..i : j \in 1..N
        BY <1>2
    <2>2. CASE x \notin S /\ c[i + 1] = c[i]
        BY <1>2, <1>4, <2>1, <2>2
    <2>3. CASE x \in S /\ c[i + 1] = Append(c[i], x)
        <3>1. \A k \in DOMAIN c[i] : c[i][k] # x
            <4>1. \A j \in 1..i : s[j] # x
                BY <1>2, <2>1
            <4> QED BY <1>4, <4>1
        <3>2. c[i] \in Seq(S) /\ c[i + 1] \in Seq(S) /\ Len(c[i + 1]) = Len(c[i]) + 1
            BY <1>4, <2>3 DEF OnceEach
        <3>3. /\ DOMAIN c[i + 1] = 1..(Len(c[i]) + 1) /\ DOMAIN c[i] = 1..Len(c[i]) /\ Len(c[i]) \in Nat
              /\ \A k \in 1..Len(c[i]) : c[i + 1][k] = c[i][k]
              /\ c[i + 1][Len(c[i]) + 1] = x
            BY <3>2, <2>3
        <3>4. OnceEach(c[i + 1], S)
            <4>1. \A k, j \in DOMAIN c[i] : c[i][k] = c[i][j] => k = j
                BY <1>4 DEF OnceEach
            <4> DEFINE l == Len(c[i])
            <4>2. \A k \in 1..(l + 1) : k \in DOMAIN c[i] \/ k = l + 1
                BY <3>3
            <4>3. \A k \in DOMAIN c[i] : c[i + 1][k] = c[i][k]
                BY <3>3
            <4>4. ASSUME NEW k \in 1..(l + 1), NEW j \in 1..(l + 1), c[i + 1][k] = c[i + 1][j] PROVE k = j
                <5> HIDE DEF x, l
                <5> QED BY <3>1, <3>3, <4>1, <4>2, <4>3, <4>4 DEF l
            <4> QED BY <3>2, <3>3, <4>4 DEF OnceEach
        <3>5. \A k \in DOMAIN c[i + 1] : \E j \in 1..(i + 1) : c[i + 1][k] = s[j]
            <4>1. \A k \in DOMAIN c[i] : \E j \in 1..i : c[i][k] = s[j]
                BY <1>4
            <4> SUFFICES ASSUME NEW k \in DOMAIN c[i + 1] PROVE \E j \in 1..(i + 1) : c[i + 1][k] = s[j]
                OBVIOUS
            <4>2. CASE k = Len(c[i]) + 1
                <5>1. c[i + 1][k] = s[i + 1] /\ i + 1 \in 1..(i + 1)
                    BY <3>3, <4>2, <2>1
                <5> QED BY <5>1
            <4>3. CASE k \in DOMAIN c[i]
                <5>1. PICK j \in 1..i : c[i][k] = s[j]
                    BY <4>1, <4>3
                <5>2. j \in 1..(i + 1) /\ c[i + 1][k] = c[i][k]
                    BY <3>3, <4>3
                <5> QED BY <5>1, <5>2
            <4>4. k \in DOMAIN c[i] \/ k = Len(c[i]) + 1
                BY <3>3
            <4> QED BY <4>2, <4>3, <4>4
        <3>6. ASSUME NEW j \in 1..(i + 1), s[j] \in S PROVE \E k \in DOMAIN c[i + 1] : c[i + 1][k] = s[j]
            <4>1. CASE j = i + 1
                BY <3>3, <4>1
            <4>2. CASE j \in 1..i
                <5>1. PICK k \in DOMAIN c[i] : c[i][k] = s[j]
                    BY <1>4, <3>6, <4>2
                <5> HIDE DEF x
                <5> QED BY <3>3, <5>1
            <4> QED BY <2>1, <4>1, <4>2
        <3> QED BY <2>1, <3>4, <3>5, <3>6
    <2> QED BY <1>1, <2>2, <2>3 DEF KeptOf
<1>5. N \in T
    <2>1. 0..N \subseteq T
        <3> HIDE DEF T, N
        <3> QED BY <1>2, <1>3, <1>4, StepInduction
    <2> QED BY <1>2, <2>1
<1> QED BY <1>1, <1>2, <1>5

\* Where all are of the set nothing is left out.
LEMMA KeptAll ==
  ASSUME NEW S, NEW s \in Seq(S) PROVE Kept(s, S) = s
<1> DEFINE N == Len(s)
<1>1. PICK c : KeptOf(c, s, S, N) /\ Kept(s, S) = c[N]
    BY KeptExists
<1> DEFINE T == {i \in 0..N : c[i] \in Seq(S) /\ Len(c[i]) = i /\ \A k \in 1..i : c[i][k] = s[k]}
<1>2. N \in Nat /\ DOMAIN s = 1..N
    OBVIOUS
<1>3. 0 \in T
    <2>1. c[0] = << >>
        BY <1>1, Zenon DEF KeptOf
    <2>2. << >> \in Seq(S) /\ Len(<< >>) = 0
        OBVIOUS
    <2>3. c[0] \in Seq(S) /\ Len(c[0]) = 0
        BY <2>1, <2>2
    <2>4. 0 \in 0..N /\ \A k \in 1..0 : c[0][k] = s[k]
        BY <1>2
    <2> QED BY <2>3, <2>4
<1>4. ASSUME NEW i \in 0..(N - 1), i \in T PROVE i + 1 \in T
    <2>1. i + 1 \in 0..N /\ s[i + 1] \in S
        BY <1>2
    <2>2. c[i + 1] = Append(c[i], s[i + 1])
        BY <1>1, <2>1 DEF KeptOf
    <2>3. c[i] \in Seq(S) /\ Len(c[i]) = i /\ \A k \in 1..i : c[i][k] = s[k]
        BY <1>4
    <2> HIDE DEF N
    <2>4. c[i + 1] \in Seq(S) /\ Len(c[i + 1]) = i + 1
        BY <2>1, <2>2, <2>3
    <2>5. ASSUME NEW k \in 1..(i + 1) PROVE c[i + 1][k] = s[k]
        <3>1. CASE k = i + 1
            BY <2>1, <2>2, <2>3, <3>1
        <3>2. CASE k \in 1..i
            BY <2>1, <2>2, <2>3, <3>2
        <3> QED BY <3>1, <3>2, <2>1, <1>2
    <2> QED BY <2>1, <2>4, <2>5
<1>5. N \in T
    <2>1. 0..N \subseteq T
        <3> HIDE DEF T, N
        <3> QED BY <1>2, <1>3, <1>4, StepInduction
    <2> QED BY <1>2, <2>1
<1>6. Kept(s, S) \in Seq(S) /\ Len(Kept(s, S)) = Len(s) /\ \A k \in 1..Len(s) : Kept(s, S)[k] = s[k]
    BY <1>1, <1>5
<1> HIDE DEF N
<1> QED BY <1>6

\* What is kept stands at places of its own in the row, also of what is there twice.
TakenFrom(q, x, s, S, n) ==
  /\ x \in Seq(S) /\ q \in [1..Len(x) -> 1..n]
  /\ \A i, j \in 1..Len(x) : q[i] = q[j] => i = j
  /\ \A i \in 1..Len(x) : x[i] = s[q[i]]

LEMMA KeptPlaces ==
  ASSUME NEW s, Len(s) \in Nat, NEW S
  PROVE  \E q : TakenFrom(q, Kept(s, S), s, S, Len(s))
<1> DEFINE N == Len(s)
<1>1. PICK c : KeptOf(c, s, S, N) /\ Kept(s, S) = c[N]
    BY KeptExists
<1> DEFINE T == {i \in 0..N : \E q : TakenFrom(q, c[i], s, S, i)}
<1>2. N \in Nat
    OBVIOUS
<1>3. 0 \in T
    <2>1. c[0] = << >>
        BY <1>1, Zenon DEF KeptOf
    <2>2. TakenFrom([k \in 1..0 |-> k], << >>, s, S, 0)
        BY DEF TakenFrom
    <2> QED BY <1>2, <2>1, <2>2
<1>4. ASSUME NEW i \in 0..(N - 1), i \in T PROVE i + 1 \in T
    <2>1. i + 1 \in 0..N /\ i \in Nat
        BY <1>2
    <2>2. PICK q : TakenFrom(q, c[i], s, S, i)
        BY <1>4
    <2>3. CASE c[i + 1] = c[i]
        <3>1. TakenFrom(q, c[i], s, S, i + 1)
            BY <2>1, <2>2 DEF TakenFrom
        <3> QED BY <2>1, <2>3, <3>1
    <2>4. CASE s[i + 1] \in S /\ c[i + 1] = Append(c[i], s[i + 1])
        <3> DEFINE l == Len(c[i])
                   x == c[i + 1]
                   r == [k \in 1..(l + 1) |-> IF k = l + 1 THEN i + 1 ELSE q[k]]
        <3>1. /\ c[i] \in Seq(S) /\ l \in Nat
              /\ \A k \in 1..l : q[k] \in 1..i /\ c[i][k] = s[q[k]]
              /\ \A k, j \in 1..l : q[k] = q[j] => k = j
            BY <2>2 DEF TakenFrom
        <3>2. x \in Seq(S) /\ Len(x) = l + 1 /\ x[l + 1] = s[i + 1] /\ \A k \in 1..l : x[k] = c[i][k]
            BY <2>4, <3>1, AppendProperties
        <3> HIDE DEF l, x
        <3>3. r \in [1..(l + 1) -> 1..(i + 1)]
            BY <2>1, <3>1
        <3>4. \A k, j \in 1..(l + 1) : r[k] = r[j] => k = j
            BY <2>1, <3>1
        <3>5. \A k \in 1..(l + 1) : x[k] = s[r[k]]
            BY <2>1, <3>1, <3>2
        <3> HIDE DEF r
        <3>6. TakenFrom(r, x, s, S, i + 1)
            BY <3>2, <3>3, <3>4, <3>5, Zenon DEF TakenFrom
        <3> QED BY <2>1, <3>6 DEF x
    <2> QED BY <1>1, <2>3, <2>4 DEF KeptOf
<1>5. N \in T
    <2>1. 0..N \subseteq T
        <3> HIDE DEF T, N
        <3> QED BY <1>2, <1>3, <1>4, StepInduction
    <2> QED BY <1>2, <2>1
<1> QED BY <1>1, <1>5

\* Of two sets that each element is in exactly one of, the halves are as long as
\* the whole.
LEMMA KeptHalves ==
  ASSUME NEW s, IsRow(s), NEW S, NEW T, \A i \in DOMAIN s : s[i] \in S <=> ~ (s[i] \in T),
         Kept(s, S) \in Seq(S), Kept(s, T) \in Seq(T)
  PROVE  Len(Kept(s, S)) + Len(Kept(s, T)) = Len(s)
<1> DEFINE N == Len(s)
<1>1. PICK c : KeptOf(c, s, S, N) /\ Kept(s, S) = c[N]
    BY KeptExists DEF IsRow
<1>2. PICK d : KeptOf(d, s, T, N) /\ Kept(s, T) = d[N]
    BY KeptExists DEF IsRow
<1> DEFINE U == {i \in 0..N : c[i] \in Seq(S) /\ d[i] \in Seq(T) /\ Len(c[i]) + Len(d[i]) = i}
<1>3. N \in Nat /\ DOMAIN s = 1..N
    BY DEF IsRow
<1>4. 0 \in U
    <2>1. c[0] = << >> /\ d[0] = << >>
        BY <1>1, <1>2, Zenon DEF KeptOf
    <2>2. << >> \in Seq(S) /\ << >> \in Seq(T) /\ Len(<< >>) = 0 /\ 0 + 0 = 0
        OBVIOUS
    <2>3. 0 \in 0..N
        BY <1>3
    <2>4. c[0] \in Seq(S) /\ d[0] \in Seq(T) /\ Len(c[0]) + Len(d[0]) = 0
        BY <2>1, <2>2
    <2> QED BY <2>3, <2>4
<1>5. ASSUME NEW i \in 0..(N - 1), i \in U PROVE i + 1 \in U
    <2>1. i + 1 \in 0..N /\ i + 1 \in DOMAIN s
        BY <1>3
    <2>2. /\ c[i + 1] = IF s[i + 1] \in S THEN Append(c[i], s[i + 1]) ELSE c[i]
          /\ d[i + 1] = IF s[i + 1] \in T THEN Append(d[i], s[i + 1]) ELSE d[i]
        BY <1>1, <1>2 DEF KeptOf
    <2>3. c[i] \in Seq(S) /\ d[i] \in Seq(T) /\ Len(c[i]) + Len(d[i]) = i
        BY <1>5
    <2> HIDE DEF N
    <2>4. CASE s[i + 1] \in S /\ s[i + 1] \notin T
        <3>1. c[i + 1] \in Seq(S) /\ Len(c[i + 1]) = Len(c[i]) + 1 /\ d[i + 1] = d[i]
            BY <2>2, <2>3, <2>4
        <3>2. Len(c[i]) \in Nat /\ Len(d[i]) \in Nat /\ i \in Nat
            BY <1>3, <2>3
        <3>3. Len(c[i + 1]) + Len(d[i + 1]) = i + 1
            <4>1. \A a, b, k \in Nat : a + b = k => (a + 1) + b = k + 1 /\ a + (b + 1) = k + 1
                OBVIOUS
            <4>2. Len(c[i + 1]) + Len(d[i + 1]) = (Len(c[i]) + 1) + Len(d[i])
                BY <3>1, Zenon
            <4>3. (Len(c[i]) + 1) + Len(d[i]) = i + 1
                BY <2>3, <3>2, <4>1, Zenon
            <4> QED BY <4>2, <4>3, Zenon
        <3>4. c[i + 1] \in Seq(S) /\ d[i + 1] \in Seq(T)
            BY <2>3, <3>1
        <3> QED BY <2>1, <3>3, <3>4
    <2>5. CASE s[i + 1] \notin S /\ s[i + 1] \in T
        <3>1. d[i + 1] \in Seq(T) /\ Len(d[i + 1]) = Len(d[i]) + 1 /\ c[i + 1] = c[i]
            BY <2>2, <2>3, <2>5
        <3>2. Len(c[i]) \in Nat /\ Len(d[i]) \in Nat /\ i \in Nat
            BY <1>3, <2>3
        <3>3. Len(c[i + 1]) + Len(d[i + 1]) = i + 1
            <4>1. \A a, b, k \in Nat : a + b = k => (a + 1) + b = k + 1 /\ a + (b + 1) = k + 1
                OBVIOUS
            <4>2. Len(c[i + 1]) + Len(d[i + 1]) = Len(c[i]) + (Len(d[i]) + 1)
                BY <3>1, Zenon
            <4>3. Len(c[i]) + (Len(d[i]) + 1) = i + 1
                BY <2>3, <3>2, <4>1, Zenon
            <4> QED BY <4>2, <4>3, Zenon
        <3>4. c[i + 1] \in Seq(S) /\ d[i + 1] \in Seq(T)
            BY <2>3, <3>1
        <3> QED BY <2>1, <3>3, <3>4
    <2>6. s[i + 1] \in S <=> ~ (s[i + 1] \in T)
        BY <2>1
    <2> QED BY <2>4, <2>5, <2>6
<1>6. N \in U
    <2>1. 0..N \subseteq U
        <3> HIDE DEF U, N
        <3> QED BY <1>3, <1>4, <1>5, StepInduction
    <2>2. N \in 0..N
        BY <1>3
    <2> HIDE DEF U, N
    <2> QED BY <2>1, <2>2
<1> QED BY <1>1, <1>2, <1>6

\* Positions in the order of their keys stay in it when some are left out.
Ordered(p, key) == \A i, j \in DOMAIN p : i < j => key[p[i]] <= key[p[j]]

LEMMA KeptOrdered ==
  ASSUME NEW K \in SUBSET Nat, NEW s \in Seq(K), NEW key \in [K -> Nat], Ordered(s, key), NEW S \in SUBSET K
  PROVE  Ordered(Kept(s, S), key)
<1> DEFINE N == Len(s)
<1>1. PICK c : KeptOf(c, s, S, N) /\ Kept(s, S) = c[N]
    BY KeptExists
<1> DEFINE U == {i \in 0..N : c[i] \in Seq(K) /\ Ordered(c[i], key) /\ \A k \in DOMAIN c[i] : \E j \in 1..i : c[i][k] = s[j]}
<1>2. N \in Nat /\ DOMAIN s = 1..N
    OBVIOUS
<1>3. 0 \in U
    <2>1. c[0] = << >>
        BY <1>1, Zenon DEF KeptOf
    <2>2. << >> \in Seq(K) /\ DOMAIN << >> = {} /\ 0 \in 0..N
        BY <1>2
    <2>3. Ordered(<< >>, key)
        BY <2>2, Zenon DEF Ordered
    <2>4. \A k \in DOMAIN c[0] : \E j \in 1..0 : c[0][k] = s[j]
        BY <2>1, <2>2
    <2> QED BY <2>1, <2>2, <2>3, <2>4
<1>4. ASSUME NEW i \in 0..(N - 1), i \in U PROVE i + 1 \in U
    <2> DEFINE x == s[i + 1]
    <2>1. i + 1 \in 0..N /\ i + 1 \in 1..N /\ x \in K /\ \A j \in 1..i : j \in 1..N /\ j < i + 1 /\ j \in 1..(i + 1)
        BY <1>2
    <2>2. c[i + 1] = IF x \in S THEN Append(c[i], x) ELSE c[i]
        BY <1>1 DEF KeptOf
    <2>3. c[i] \in Seq(K) /\ Ordered(c[i], key) /\ \A k \in DOMAIN c[i] : \E j \in 1..i : c[i][k] = s[j]
        BY <1>4
    <2>4. CASE x \notin S
        <3>1. \A k \in DOMAIN c[i] : \E j \in 1..(i + 1) : c[i][k] = s[j]
            BY <2>1, <2>3
        <3> HIDE DEF x
        <3>2. c[i + 1] = c[i]
            BY <2>2, <2>4
        <3> QED BY <2>1, <2>3, <3>1, <3>2
    <2>5. CASE x \in S
        <3>1. \A k \in DOMAIN c[i] : key[c[i][k]] <= key[x]
            BY <1>2, <2>1, <2>3 DEF Ordered
        <3> DEFINE l == Len(c[i])
        <3> HIDE DEF x
        <3>2. /\ c[i + 1] \in Seq(K) /\ l \in Nat /\ DOMAIN c[i] = 1..l /\ DOMAIN c[i + 1] = 1..(l + 1)
              /\ c[i + 1][l + 1] = x /\ \A k \in 1..l : c[i + 1][k] = c[i][k]
            BY <2>1, <2>2, <2>3, <2>5
        <3> HIDE DEF l
        <3>3. Ordered(c[i + 1], key)
            <4> SUFFICES ASSUME NEW a \in 1..(l + 1), NEW b \in 1..(l + 1), a < b PROVE key[c[i + 1][a]] <= key[c[i + 1][b]]
                BY <3>2 DEF Ordered
            <4>1. a \in 1..l
                BY <3>2
            <4>2. CASE b = l + 1
                BY <3>1, <3>2, <4>1, <4>2
            <4>3. CASE b \in 1..l
                BY <2>3, <3>2, <4>1, <4>3 DEF Ordered
            <4> QED BY <3>2, <4>2, <4>3
        <3>4. ASSUME NEW k \in DOMAIN c[i + 1] PROVE \E j \in 1..(i + 1) : c[i + 1][k] = s[j]
            <4>1. CASE k = l + 1
                <5>1. i + 1 \in 1..(i + 1)
                    BY <2>1
                <5> QED BY <3>2, <4>1, <5>1 DEF x
            <4>2. CASE k \in 1..l
                <5>1. PICK j \in 1..i : c[i][k] = s[j]
                    BY <2>3, <3>2, <4>2
                <5>2. j \in 1..(i + 1) /\ c[i + 1][k] = c[i][k]
                    BY <2>1, <3>2, <4>2
                <5> QED BY <5>1, <5>2
            <4> QED BY <3>2, <4>1, <4>2
        <3> QED BY <2>1, <3>2, <3>3, <3>4
    <2> QED BY <2>4, <2>5
<1>5. N \in U
    <2>1. 0..N \subseteq U
        <3> HIDE DEF U, N
        <3> QED BY <1>2, <1>3, <1>4, StepInduction
    <2>2. N \in 0..N
        BY <1>2
    <2> HIDE DEF U, N
    <2> QED BY <2>1, <2>2
<1> QED BY <1>1, <1>5

LEMMA RowIn == ASSUME NEW S, NEW l \in Nat, NEW f \in [1..l -> S] PROVE f \in Seq(S)
<1> QED OBVIOUS

\* c[0], c[1], ... are the first n positions in the order of their keys.
PlacesOf(c, key, n) ==
  /\ c[0] = << >>
  /\ \A i \in 0..(n - 1) : c[i + 1] = Placed(c[i], i + 1, key)

LEMMA PlacesExist ==
  ASSUME NEW s, Len(s) \in Nat, NEW key
  PROVE  \E c : PlacesOf(c, key, Len(s)) /\ SortedBy(s, key) = [i \in 1..Len(s) |-> s[c[Len(s)][i]]]
<1> DEFINE N == Len(s)
           Step(x, i) == Placed(x, i, key)
           Is(g, n) == g = [i \in 0..n |-> IF i = 0 THEN << >> ELSE Step(g[i - 1], i)]
           T == {n \in Nat : \E g : Is(g, n)}
           f == CHOOSE g : Is(g, N)
<1>1. N \in T
    <2> HIDE DEF Step, N
    <2>1. 0 \in T
        <3>1. Is([i \in 0..0 |-> << >>], 0)
            OBVIOUS
        <3> QED BY <3>1
    <2>2. ASSUME NEW n \in Nat, n \in T PROVE n + 1 \in T
        <3>1. PICK g : Is(g, n)
            BY <2>2
        <3> DEFINE h == [i \in 0..(n + 1) |-> IF i = n + 1 THEN Step(g[n], n + 1) ELSE g[i]]
        <3>2. Is(h, n + 1)
            BY <3>1
        <3> HIDE DEF h, Is
        <3> QED BY <3>2
    <2>3. Nat \subseteq T
        <3> HIDE DEF T
        <3> QED BY <2>1, <2>2, SetInduction
    <2> QED BY <2>3 DEF N
<1>2. Is(f, N)
    BY <1>1
<1>3. SortedBy(s, key) = [i \in 1..N |-> s[f[N][i]]]
    BY DEF SortedBy
<1>4. PlacesOf(f, key, N)
    <2>1. N \in Nat
        OBVIOUS
    <2>2. f[0] = << >> /\ \A i \in 0..(N - 1) : f[i + 1] = Step(f[i], i + 1)
        <3> HIDE DEF f, N, Step
        <3> QED BY <1>2, <2>1
    <2> HIDE DEF f, N
    <2> QED BY <2>2, Zenon DEF PlacesOf
<1> QED BY <1>3, <1>4

\* The first n positions, each once and in the order of the keys.
InPlace(p, key, n) ==
  /\ p \in Seq(1..n) /\ Len(p) = n
  /\ \A i, j \in 1..n : p[i] = p[j] => i = j
  /\ \A j \in 1..n : \E i \in 1..n : p[i] = j
  /\ Ordered(p, key)

LEMMA PlacedIs ==
  ASSUME NEW N \in Nat, NEW key \in [1..N -> Nat], NEW n \in 0..(N - 1), NEW p, InPlace(p, key, n)
  PROVE  InPlace(Placed(p, n + 1, key), key, n + 1)
<1> DEFINE x == n + 1
           low == {j \in 1..N : key[j] <= key[x]}
           high == (1..N) \ low
           a == Kept(p, low)
           b == Kept(p, high)
           l == Len(a)
           r == Len(b)
           q == Placed(p, x, key)
<1>1. /\ n \in Nat /\ x \in 1..N /\ x \notin 1..n /\ 1..n \subseteq 1..N /\ 1..x = 1..n \cup {x}
      /\ p \in Seq(1..n) /\ p \in Seq(1..N) /\ Len(p) = n /\ DOMAIN p = 1..n
    <2>1. n \in Nat /\ x \in 1..N /\ x \notin 1..n /\ 1..n \subseteq 1..N /\ 1..x = 1..n \cup {x}
        OBVIOUS
    <2>2. p \in Seq(1..n) /\ Len(p) = n
        BY DEF InPlace
    <2>3. p \in Seq(1..N) /\ DOMAIN p = 1..n
        BY <2>1, <2>2
    <2> QED BY <2>1, <2>2, <2>3
<1>2. IsRow(p) /\ \A i, j \in DOMAIN p : p[i] = p[j] => i = j
    BY <1>1 DEF IsRow, InPlace
<1>3. \A S : /\ OnceEach(Kept(p, S), S)
             /\ \A k \in DOMAIN Kept(p, S) : \E j \in DOMAIN p : Kept(p, S)[k] = p[j]
             /\ \A j \in DOMAIN p : p[j] \in S => \E k \in DOMAIN Kept(p, S) : Kept(p, S)[k] = p[j]
    BY <1>2, KeptOnceEach
<1>4. /\ a \in Seq(low) /\ b \in Seq(high) /\ l \in Nat /\ r \in Nat
      /\ DOMAIN a = 1..l /\ DOMAIN b = 1..r
    <2>1. a \in Seq(low) /\ b \in Seq(high)
        BY <1>3 DEF OnceEach
    <2> HIDE DEF a, b, low, high
    <2> QED BY <2>1
<1>5. l + r = n
    <2>1. \A i \in DOMAIN p : p[i] \in low <=> ~ (p[i] \in high)
        BY <1>1
    <2> HIDE DEF low, high
    <2> QED BY <1>1, <1>2, <1>4, <2>1, KeptHalves
<1>6. Ordered(a, key) /\ Ordered(b, key)
    <2>1. low \in SUBSET (1..N) /\ high \in SUBSET (1..N) /\ 1..N \in SUBSET Nat /\ Ordered(p, key)
        BY DEF InPlace
    <2> HIDE DEF low, high
    <2> QED BY <1>1, <2>1, KeptOrdered
<1>7. /\ \A i \in 1..l : a[i] \in low /\ a[i] \in 1..n
      /\ \A i \in 1..r : b[i] \in high /\ b[i] \in 1..n
    <2>1. \A j \in DOMAIN p : p[j] \in 1..n
        BY <1>1
    <2>2. /\ \A k \in DOMAIN a : \E j \in DOMAIN p : a[k] = p[j]
          /\ \A k \in DOMAIN b : \E j \in DOMAIN p : b[k] = p[j]
        BY <1>3
    <2> HIDE DEF a, b, low, high
    <2>3. /\ \A i \in 1..l : a[i] \in low
          /\ \A i \in 1..r : b[i] \in high
        BY <1>4
    <2> HIDE DEF l, r
    <2>4. /\ \A i \in 1..l : a[i] \in 1..n
          /\ \A i \in 1..r : b[i] \in 1..n
        BY <1>4, <2>1, <2>2
    <2> QED BY <2>3, <2>4
<1>8. /\ q \in Seq(1..x) /\ Len(q) = n + 1
      /\ \A i \in 1..x : q[i] = IF i <= l THEN a[i] ELSE IF i = l + 1 THEN x ELSE b[i - (l + 1)]
    <2>1. q = (a \o <<x>>) \o b
        BY DEF Placed
    <2>2. a \in Seq(1..x) /\ b \in Seq(1..x) /\ <<x>> \in Seq(1..x)
        <3> HIDE DEF a, b, low, high
        <3>0. a \in [1..l -> 1..x] /\ b \in [1..r -> 1..x]
            <4>1. a \in [1..l -> low] /\ b \in [1..r -> high]
                BY <1>4
            <4> HIDE DEF l, r
            <4> QED BY <1>1, <1>7, <4>1
        <3>1. a \in Seq(1..x) /\ b \in Seq(1..x)
            <4> HIDE DEF l, r, x
            <4> HIDE DEF a, b
            <4>1. a \in Seq(1..x)
                BY <1>4, <3>0, RowIn
            <4>2. b \in Seq(1..x)
                BY <1>4, <3>0, RowIn
            <4> QED BY <4>1, <4>2
        <3> QED BY <1>1, <3>1
    <2> DEFINE e == a \o <<x>>
    <2>3. e \in Seq(1..x) /\ Len(e) = l + 1 /\ \A i \in 1..(l + 1) : e[i] = IF i <= l THEN a[i] ELSE x
        <3> HIDE DEF a, b, low, high, x
        <3> QED BY <1>4, <2>2
    <2>4. /\ e \o b \in Seq(1..x) /\ Len(e \o b) = Len(e) + r
          /\ \A k \in 1..(Len(e) + r) : (e \o b)[k] = IF k <= Len(e) THEN e[k] ELSE b[k - Len(e)]
        <3> HIDE DEF a, b, e
        <3> QED BY <2>2, <2>3, ConcatProperties, Zenon
    <2> HIDE DEF a, b, low, high, e, q, l, r
    <2>5. Len(e) + r = n + 1 /\ Len(q) = n + 1 /\ q \in Seq(1..x)
        <3>1. Len(e) + r = n + 1
            BY <1>1, <1>4, <1>5, <2>3
        <3>2. q = e \o b
            BY <2>1 DEF e
        <3> QED BY <2>4, <3>1, <3>2
    <2>6. ASSUME NEW i \in 1..x PROVE q[i] = IF i <= l THEN a[i] ELSE IF i = l + 1 THEN x ELSE b[i - (l + 1)]
        <3>1. q[i] = IF i <= l + 1 THEN e[i] ELSE b[i - (l + 1)]
            BY <1>1, <2>1, <2>3, <2>4, <2>5 DEF e
        <3>2. i <= l + 1 => e[i] = IF i <= l THEN a[i] ELSE x
            BY <1>1, <1>4, <2>3
        <3> QED BY <1>1, <1>4, <3>1, <3>2
    <2> QED BY <2>5, <2>6
<1> HIDE DEF a, b, q, l, r
<1>9. ASSUME NEW i \in 1..x
      PROVE  \/ i \in 1..l /\ q[i] = a[i]
             \/ i = l + 1 /\ q[i] = x
             \/ i - (l + 1) \in 1..r /\ q[i] = b[i - (l + 1)] /\ i > l + 1
    <2>1. i \in Nat /\ 1 <= i /\ i <= n + 1 /\ l \in Nat /\ r \in Nat /\ l + r = n /\ n \in Nat
        BY <1>1, <1>4, <1>5
    <2>2. \/ i \in 1..l /\ i <= l
          \/ i = l + 1 /\ ~ (i <= l)
          \/ i - (l + 1) \in 1..r /\ i > l + 1 /\ ~ (i <= l) /\ i # l + 1
        BY <2>1
    <2>3. q[i] = IF i <= l THEN a[i] ELSE IF i = l + 1 THEN x ELSE b[i - (l + 1)]
        BY <1>8
    <2> HIDE DEF x
    <2> QED BY <2>2, <2>3, Zenon
<1>10. \A i, j \in 1..x : q[i] = q[j] => i = j
    <2>1. /\ \A i, j \in 1..l : a[i] = a[j] => i = j
          /\ \A i, j \in 1..r : b[i] = b[j] => i = j
        BY <1>3, <1>4 DEF OnceEach, a, b
    <2>2. /\ \A i \in 1..l : a[i] \in low /\ a[i] # x
          /\ \A i \in 1..r : b[i] \notin low /\ b[i] # x
        BY <1>1, <1>7
    <2> HIDE DEF low, high
    <2> SUFFICES ASSUME NEW i \in 1..x, NEW j \in 1..x, q[i] = q[j] PROVE i = j
        OBVIOUS
    <2>3. CASE i \in 1..l /\ q[i] = a[i]
        BY <1>9, <2>1, <2>2, <2>3
    <2>4. CASE i = l + 1 /\ q[i] = x
        BY <1>9, <2>2, <2>4
    <2>5. CASE i - (l + 1) \in 1..r /\ q[i] = b[i - (l + 1)] /\ i > l + 1
        <3>1. j - (l + 1) \in 1..r /\ q[j] = b[j - (l + 1)] /\ j > l + 1
            BY <1>9, <2>2, <2>5
        <3>2. i - (l + 1) = j - (l + 1)
            BY <2>1, <2>5, <3>1
        <3> QED BY <1>1, <1>4, <3>2
    <2> QED BY <1>9, <2>3, <2>4, <2>5
<1>11. ASSUME NEW j \in 1..x PROVE \E i \in 1..x : q[i] = j
    <2>1. CASE j = x
        <3>1. l + 1 \in 1..x /\ q[l + 1] = x
            BY <1>1, <1>4, <1>5, <1>8
        <3> QED BY <2>1, <3>1
    <2>2. CASE j \in 1..n
        <3>1. PICK k \in DOMAIN p : p[k] = j
            BY <1>1, <2>2 DEF InPlace
        <3>2. j \in low \/ j \in high
            BY <1>1, <2>2
        <3> HIDE DEF low, high
        <3>3. CASE j \in low
            <4>1. PICK i \in 1..l : a[i] = j
                BY <1>3, <1>4, <3>1, <3>3 DEF a
            <4>2. i \in 1..x /\ q[i] = a[i]
                BY <1>1, <1>4, <1>5, <1>8
            <4> QED BY <4>1, <4>2
        <3>4. CASE j \in high
            <4>1. PICK i \in 1..r : b[i] = j
                BY <1>3, <1>4, <3>1, <3>4 DEF b
            <4>2. i + (l + 1) \in 1..x /\ (i + (l + 1)) - (l + 1) = i /\ ~ (i + (l + 1) <= l) /\ i + (l + 1) # l + 1
                BY <1>1, <1>4, <1>5
            <4>3. q[i + (l + 1)] = b[i]
                BY <1>8, <4>2
            <4> QED BY <4>1, <4>2, <4>3
        <3> QED BY <3>2, <3>3, <3>4
    <2> QED BY <1>1, <2>1, <2>2
<1>12. Ordered(q, key)
    <2>1. /\ \A i \in 1..l : a[i] \in 1..N /\ key[a[i]] <= key[x]
          /\ \A i \in 1..r : b[i] \in 1..N /\ key[x] <= key[b[i]]
        BY <1>1, <1>7
    <2>2. /\ \A i, j \in 1..l : i < j => key[a[i]] <= key[a[j]]
          /\ \A i, j \in 1..r : i < j => key[b[i]] <= key[b[j]]
        BY <1>4, <1>6 DEF Ordered
    <2>3. DOMAIN q = 1..x
        BY <1>8
    <2>4. \A i \in 1..N : key[i] \in Nat
        OBVIOUS
    <2> HIDE DEF low, high
    <2> SUFFICES ASSUME NEW i \in 1..x, NEW j \in 1..x, i < j PROVE key[q[i]] <= key[q[j]]
        BY <2>3 DEF Ordered
    <2>5. CASE i \in 1..l /\ q[i] = a[i]
        <3>1. CASE j \in 1..l /\ q[j] = a[j]
            BY <2>2, <2>5, <3>1
        <3>2. CASE j = l + 1 /\ q[j] = x
            BY <2>1, <2>5, <3>2
        <3>3. CASE j - (l + 1) \in 1..r /\ q[j] = b[j - (l + 1)] /\ j > l + 1
            <4>1. key[q[i]] <= key[x] /\ key[x] <= key[q[j]] /\ key[q[i]] \in Nat /\ key[x] \in Nat /\ key[q[j]] \in Nat
                BY <1>1, <2>1, <2>4, <2>5, <3>3
            <4> QED BY <4>1
        <3> QED BY <1>9, <3>1, <3>2, <3>3
    <2>6. CASE i = l + 1 /\ q[i] = x
        <3>1. j - (l + 1) \in 1..r /\ q[j] = b[j - (l + 1)]
            BY <1>4, <1>9, <2>6
        <3> QED BY <2>1, <2>6, <3>1
    <2>7. CASE i - (l + 1) \in 1..r /\ q[i] = b[i - (l + 1)] /\ i > l + 1
        <3>1. j - (l + 1) \in 1..r /\ q[j] = b[j - (l + 1)]
            BY <1>4, <1>9, <2>7
        <3>2. i - (l + 1) < j - (l + 1)
            BY <1>4
        <3> QED BY <2>2, <2>7, <3>1, <3>2
    <2> QED BY <1>9, <2>5, <2>6, <2>7
<1> QED BY <1>8, <1>10, <1>11, <1>12 DEF InPlace, q

\* SortedBy permutes the positions, and afterwards the keys are in order.
LEMMA SortedIs ==
  ASSUME NEW s, Len(s) \in Nat, NEW key \in [1..Len(s) -> Nat]
  PROVE  \E p : InPlace(p, key, Len(s)) /\ SortedBy(s, key) = [i \in 1..Len(s) |-> s[p[i]]]
<1> DEFINE N == Len(s)
<1>1. PICK c : PlacesOf(c, key, N) /\ SortedBy(s, key) = [i \in 1..N |-> s[c[N][i]]]
    BY PlacesExist
<1> DEFINE T == {i \in 0..N : InPlace(c[i], key, i)}
<1>2. N \in Nat /\ 0 \in 0..N /\ N \in 0..N
    OBVIOUS
<1>3. 0 \in T
    <2>1. c[0] = << >>
        BY <1>1, Zenon DEF PlacesOf
    <2>2. << >> \in Seq(1..0) /\ Len(<< >>) = 0 /\ DOMAIN << >> = {} /\ 1..0 = {}
        OBVIOUS
    <2>3. InPlace(<< >>, key, 0)
        BY <2>2, Zenon DEF InPlace, Ordered
    <2> QED BY <1>2, <2>1, <2>3
<1>4. ASSUME NEW i \in 0..(N - 1), i \in T PROVE i + 1 \in T
    <2>1. c[i + 1] = Placed(c[i], i + 1, key) /\ i + 1 \in 0..N
        BY <1>1, <1>2 DEF PlacesOf
    <2>2. InPlace(Placed(c[i], i + 1, key), key, i + 1)
        BY <1>2, <1>4, PlacedIs
    <2> QED BY <2>1, <2>2
<1>5. 0..N \subseteq T
    <2> HIDE DEF T, N
    <2> QED BY <1>2, <1>3, <1>4, StepInduction
<1>6. N \in T
    <2> HIDE DEF T, N
    <2> QED BY <1>2, <1>5
<1> QED BY <1>1, <1>6

\* c[0], c[1], ... are the first n sequences one after another.
JoinedOf(c, ss, n) ==
  /\ c[0] = << >>
  /\ \A i \in 0..(n - 1) : c[i + 1] = c[i] \o ss[i + 1]

LEMMA JoinedExists ==
  ASSUME NEW ss, Len(ss) \in Nat
  PROVE  \E c : JoinedOf(c, ss, Len(ss)) /\ Joined(ss) = c[Len(ss)]
<1> DEFINE N == Len(ss)
           Step(x, i) == x \o ss[i]
           Is(g, n) == g = [i \in 0..n |-> IF i = 0 THEN << >> ELSE Step(g[i - 1], i)]
           T == {n \in Nat : \E g : Is(g, n)}
           f == CHOOSE g : Is(g, N)
<1>1. N \in T
    <2> HIDE DEF Step, N
    <2>1. 0 \in T
        <3>1. Is([i \in 0..0 |-> << >>], 0)
            OBVIOUS
        <3> QED BY <3>1
    <2>2. ASSUME NEW n \in Nat, n \in T PROVE n + 1 \in T
        <3>1. PICK g : Is(g, n)
            BY <2>2
        <3> DEFINE h == [i \in 0..(n + 1) |-> IF i = n + 1 THEN Step(g[n], n + 1) ELSE g[i]]
        <3>2. Is(h, n + 1)
            BY <3>1
        <3> HIDE DEF h, Is
        <3> QED BY <3>2
    <2>3. Nat \subseteq T
        <3> HIDE DEF T
        <3> QED BY <2>1, <2>2, SetInduction
    <2> QED BY <2>3 DEF N
<1>2. Is(f, N)
    BY <1>1
<1>3. Joined(ss) = f[N]
    BY DEF Joined
<1>4. JoinedOf(f, ss, N)
    <2>1. N \in Nat
        OBVIOUS
    <2>2. f[0] = << >> /\ \A i \in 0..(N - 1) : f[i + 1] = Step(f[i], i + 1)
        <3> HIDE DEF f, N, Step
        <3> QED BY <1>2, <2>1
    <2> HIDE DEF f, N
    <2> QED BY <2>2, Zenon DEF JoinedOf
<1> QED BY <1>3, <1>4

\* The first of them stands in front.
LEMMA JoinedIs ==
  ASSUME NEW S, NEW ss \in Seq(Seq(S))
  PROVE  /\ Joined(ss) \in Seq(S)
         /\ ss = << >> => Joined(ss) = << >>
         /\ ss # << >> => /\ Len(ss[1]) <= Len(Joined(ss))
                          /\ \A k \in 1..Len(ss[1]) : Joined(ss)[k] = ss[1][k]
<1> DEFINE N == Len(ss)
<1>1. PICK c : JoinedOf(c, ss, N) /\ Joined(ss) = c[N]
    BY JoinedExists
<1> DEFINE First(i) == i > 0 => Len(ss[1]) <= Len(c[i]) /\ \A k \in 1..Len(ss[1]) : c[i][k] = ss[1][k]
           T == {i \in 0..N : c[i] \in Seq(S) /\ First(i)}
<1>2. N \in Nat /\ DOMAIN ss = 1..N
    OBVIOUS
<1>0. c[0] = << >>
    BY <1>1, Zenon DEF JoinedOf
<1>3. 0 \in T
    <2>1. << >> \in Seq(S)
        OBVIOUS
    <2>2. c[0] \in Seq(S)
        BY <1>0, <2>1
    <2>3. 0 \in 0..N /\ ~(0 > 0)
        BY <1>2
    <2> QED BY <2>2, <2>3
<1>4. ASSUME NEW i \in 0..(N - 1), i \in T PROVE i + 1 \in T
    <2>1. i + 1 \in 0..N /\ i + 1 \in 1..N /\ ss[i + 1] \in Seq(S) /\ (i > 0 => ss[1] \in Seq(S))
        BY <1>2
    <2>2. c[i + 1] = c[i] \o ss[i + 1]
        BY <1>1 DEF JoinedOf
    <2>3. c[i] \in Seq(S)
        BY <1>4
    <2> HIDE DEF N
    <2>4. /\ c[i + 1] \in Seq(S) /\ Len(c[i + 1]) = Len(c[i]) + Len(ss[i + 1])
          /\ \A k \in 1..(Len(c[i]) + Len(ss[i + 1])) :
               c[i + 1][k] = IF k <= Len(c[i]) THEN c[i][k] ELSE ss[i + 1][k - Len(c[i])]
        <3>1. ss[i + 1] \in Seq(S)
            BY <2>1
        <3>2. /\ c[i] \o ss[i + 1] \in Seq(S) /\ Len(c[i] \o ss[i + 1]) = Len(c[i]) + Len(ss[i + 1])
              /\ \A k \in 1..(Len(c[i]) + Len(ss[i + 1])) :
                   (c[i] \o ss[i + 1])[k] = IF k <= Len(c[i]) THEN c[i][k] ELSE ss[i + 1][k - Len(c[i])]
            BY <2>3, <3>1, ConcatProperties, Zenon
        <3> QED BY <2>2, <3>2, Zenon
    <2>5. Len(c[i]) \in Nat /\ Len(ss[i + 1]) \in Nat
        BY <2>1, <2>3
    <2>6. First(i + 1)
        <3>1. CASE i = 0
            <4>1. Len(c[i]) = 0 /\ i + 1 = 1
                BY <1>0, <3>1
            <4>2. Len(c[i + 1]) = Len(ss[1]) /\ Len(ss[1]) \in Nat
                BY <2>4, <2>5, <4>1
            <4>3. ASSUME NEW k \in 1..Len(ss[1]) PROVE c[i + 1][k] = ss[1][k]
                <5>1. k \in 1..(Len(c[i]) + Len(ss[i + 1])) /\ ~(k <= Len(c[i])) /\ k - Len(c[i]) = k
                    BY <4>1, <4>2
                <5> QED BY <2>4, <5>1, <4>1
            <4> QED BY <4>2, <4>3
        <3>2. CASE i > 0
            <4>1. First(i) /\ Len(ss[1]) \in Nat
                BY <1>4, <2>1, <3>2
            <4>2. Len(ss[1]) <= Len(c[i]) /\ \A k \in 1..Len(ss[1]) : c[i][k] = ss[1][k]
                BY <3>2, <4>1
            <4>0. ASSUME NEW a \in Nat, NEW b \in Nat, NEW l \in Nat, l <= a
                  PROVE  l <= a + b /\ \A k \in 1..l : k \in 1..(a + b) /\ k <= a
                BY <4>0
            <4>5. /\ Len(ss[1]) <= Len(c[i]) + Len(ss[i + 1])
                  /\ \A k \in 1..Len(ss[1]) : k \in 1..(Len(c[i]) + Len(ss[i + 1])) /\ k <= Len(c[i])
                BY <2>5, <4>0, <4>1, <4>2, Zenon
            <4>3. Len(ss[1]) <= Len(c[i + 1])
                BY <2>4, <4>5, Zenon
            <4>4. ASSUME NEW k \in 1..Len(ss[1]) PROVE c[i + 1][k] = ss[1][k]
                <5>1. k \in 1..(Len(c[i]) + Len(ss[i + 1])) /\ k <= Len(c[i])
                    BY <4>5, Zenon
                <5> QED BY <2>4, <5>1, <4>2
            <4> QED BY <4>3, <4>4
        <3> QED BY <1>2, <3>1, <3>2
    <2> QED BY <2>1, <2>4, <2>6
<1>5. N \in T
    <2>1. 0..N \subseteq T
        <3> HIDE DEF T, N
        <3> QED BY <1>2, <1>3, <1>4, StepInduction
    <2> QED BY <1>2, <2>1
<1>6. ss # << >> => N > 0
    OBVIOUS
<1> HIDE DEF N
<1> QED BY <1>0, <1>1, <1>2, <1>5, <1>6 DEF N

-----------------------------------------------------------------------------
(* The loops of SchemaManager as sequences of caches. *)

\* c[0], c[1], ... are the caches behind the rounds of enumerate_scope.
RoundsOf(c, cache, m, n) ==
  /\ c[0] = FromHash(cache, m)
  /\ \A i \in 0..(n - 1) : c[i + 1] = FromBases(c[i], m)

LEMMA RoundsExist ==
  ASSUME NEW cache, NEW m, Cardinality(DOMAIN game.infos) \in Nat
  PROVE  \E c : /\ RoundsOf(c, cache, m, Cardinality(DOMAIN game.infos))
                /\ enumerate_scope(cache, m) = c[Cardinality(DOMAIN game.infos)]
<1> DEFINE N == Cardinality(DOMAIN game.infos)
           Start == FromHash(cache, m)
           Step(x) == FromBases(x, m)
           Is(g, n) == g = [i \in 0..n |-> IF i = 0 THEN Start ELSE Step(g[i - 1])]
           S == {n \in Nat : \E g : Is(g, n)}
           f == CHOOSE g : Is(g, N)
<1>1. N \in S
    <2> HIDE DEF Start, Step, N
    <2>1. 0 \in S
        <3>1. Is([i \in 0..0 |-> Start], 0)
            OBVIOUS
        <3> QED BY <3>1
    <2>2. ASSUME NEW n \in Nat, n \in S PROVE n + 1 \in S
        <3>1. PICK g : Is(g, n)
            BY <2>2
        <3> DEFINE h == [i \in 0..(n + 1) |-> IF i = n + 1 THEN Step(g[n]) ELSE g[i]]
        <3>2. Is(h, n + 1)
            BY <3>1
        <3> HIDE DEF h, Is
        <3> QED BY <3>2
    <2>3. Nat \subseteq S
        <3> HIDE DEF S
        <3> QED BY <2>1, <2>2, SetInduction
    <2> QED BY <2>3 DEF N
<1>2. Is(f, N)
    BY <1>1
<1>3. enumerate_scope(cache, m) = f[N]
    BY DEF enumerate_scope
<1>4. N \in Nat
    OBVIOUS
<1>5. RoundsOf(f, cache, m, N)
    <2> HIDE DEF f, N
    <2> QED BY <1>2, <1>4 DEF RoundsOf
<1> QED BY <1>3, <1>5

-----------------------------------------------------------------------------
(* What a cache holds. *)

\* Every entry is what was read of a class of its module, under its name, with
\* classes as bases.
Sound(cache) ==
  \A k \in DOMAIN cache :
    /\ cache[k].info \in ClassInfos /\ BelongsTo(cache[k].info, k[1])
    /\ cache[k] = resolve_class(cache[k].info)
    /\ k = <<k[1], game.infos[cache[k].info].name>>
    /\ cache[k].bases \subseteq ClassInfos

\* The bases of the classes of m that are of m are there.
Closed(cache, m) ==
  \A k \in DOMAIN cache : k[1] = m =>
    \A b \in cache[k].bases : BelongsTo(b, m) => <<m, game.infos[b].name>> \in DOMAIN cache

LEMMA ResolvedClass ==
  ASSUME NEW e
  PROVE  resolve_class(e).name = game.infos[e].name /\ resolve_class(e).info = e
BY DEF resolve_class

LEMMA ResolvedBases ==
  ASSUME game \in Games, NEW e \in ClassInfos
  PROVE  resolve_class(e).bases \subseteq ClassInfos
<1>1. resolve_class(e).bases = {b \in ToSet(game.infos[e].bases) : game.infos[b].name # Unprintable}
    BY DEF resolve_class
<1>2. game.infos[e].bases \in Seq(DOMAIN game.infos)
    BY GamesAssumption DEF ClassInfos
<1>3. ToSet(game.infos[e].bases) \subseteq DOMAIN game.infos
    BY <1>2 DEF ToSet
<1> QED BY <1>1, <1>3 DEF ClassInfos

\* emplace() keeps what is there and adds what was found.
LEMMA EmplaceKeeps ==
  ASSUME NEW cache, NEW m, NEW found
  PROVE  /\ DOMAIN Emplace(cache, m, found) = DOMAIN cache \cup {<<m, r.name>> : r \in found}
         /\ \A k \in DOMAIN cache : Emplace(cache, m, found)[k] = cache[k]
         /\ \A k \in DOMAIN Emplace(cache, m, found) \ DOMAIN cache :
              \E r \in found : k = <<m, r.name>> /\ Emplace(cache, m, found)[k].name = r.name
                              /\ Emplace(cache, m, found)[k] \in found
<1>1. \A k \in DOMAIN Emplace(cache, m, found) \ DOMAIN cache :
         \E r \in found : k = <<m, r.name>> /\ Emplace(cache, m, found)[k].name = r.name
                              /\ Emplace(cache, m, found)[k] \in found
    <2> SUFFICES ASSUME NEW k \in DOMAIN Emplace(cache, m, found) \ DOMAIN cache
                 PROVE  \E r \in found : k = <<m, r.name>> /\ Emplace(cache, m, found)[k].name = r.name
                              /\ Emplace(cache, m, found)[k] \in found
        OBVIOUS
    <2>1. PICK r \in found : k = <<m, r.name>>
        BY DEF Emplace
    <2>2. Emplace(cache, m, found)[k] = CHOOSE x \in found : x.name = k[2]
        BY DEF Emplace
    <2>3. k[2] = r.name
        BY <2>1
    <2> QED BY <2>1, <2>2, <2>3
<1> QED BY <1>1 DEF Emplace

LEMMA EmplaceSound ==
  ASSUME game \in Games, NEW cache, NEW m, NEW T,
         Sound(cache), T \subseteq ClassInfos, \A e \in T : BelongsTo(e, m)
  PROVE  Sound(Emplace(cache, m, {resolve_class(e) : e \in T}))
<1> DEFINE found == {resolve_class(e) : e \in T}
           new == Emplace(cache, m, found)
<1>1. \A k \in DOMAIN cache : new[k] = cache[k]
    BY DEF Emplace
<1>2. ASSUME NEW k \in DOMAIN new \ DOMAIN cache
      PROVE  /\ new[k].info \in ClassInfos /\ BelongsTo(new[k].info, k[1])
             /\ new[k] = resolve_class(new[k].info)
             /\ k = <<k[1], game.infos[new[k].info].name>>
             /\ new[k].bases \subseteq ClassInfos
    <2>1. PICK r \in found : k = <<m, r.name>> /\ new[k].name = r.name /\ new[k] \in found
        BY EmplaceKeeps
    <2>2. PICK e \in T : new[k] = resolve_class(e)
        BY <2>1
    <2>3. k = <<m, game.infos[e].name>> /\ new[k].info = e
        BY <2>1, <2>2, ResolvedClass
    <2>4. new[k].bases \subseteq ClassInfos
        BY <2>2, ResolvedBases
    <2> QED BY <2>2, <2>3, <2>4
<1> QED BY <1>1, <1>2 DEF Sound

\* What a round leaves: a cache that holds more, and more of m only.
Grows(cache, new, m) ==
  /\ DOMAIN cache \subseteq DOMAIN new
  /\ \A k \in DOMAIN cache : new[k] = cache[k]
  /\ \A k \in DOMAIN new \ DOMAIN cache : k[1] = m

LEMMA GrowsFurther ==
  ASSUME NEW a, NEW b, NEW c, NEW m, Grows(a, b, m), Grows(b, c, m) PROVE Grows(a, c, m)
BY DEF Grows

LEMMA EmplaceGrows == ASSUME NEW cache, NEW m, NEW found PROVE Grows(cache, Emplace(cache, m, found), m)
BY DEF Emplace, Grows

LEMMA FromHashRound ==
  ASSUME game \in Games, NEW cache, NEW m, Sound(cache)
  PROVE  Sound(FromHash(cache, m)) /\ Grows(cache, FromHash(cache, m), m)
<1> DEFINE T == {x \in collect_utltshash_entries(game.scopes[m].classes, ClassInfos) : BelongsTo(x, m)}
           found == {resolve_class(e) : e \in T}
<1>1. T \subseteq ClassInfos
    BY DEF collect_utltshash_entries
<1>2. FromHash(cache, m) = Emplace(cache, m, found)
    BY DEF FromHash
<1>3. Sound(FromHash(cache, m))
    <2>1. \A e \in T : BelongsTo(e, m)
        OBVIOUS
    <2> HIDE DEF T
    <2> QED BY <1>1, <1>2, <2>1, EmplaceSound
<1>4. Grows(cache, FromHash(cache, m), m)
    BY <1>2, EmplaceGrows
<1> QED BY <1>3, <1>4

BasesOf(cache, m) == {x \in UNION {cache[k].bases : k \in {y \in DOMAIN cache : y[1] = m}} : BelongsTo(x, m)}

LEMMA BasesAreClasses ==
  ASSUME game \in Games, NEW cache, NEW m, Sound(cache) PROVE BasesOf(cache, m) \subseteq ClassInfos
BY DEF BasesOf, Sound

LEMMA FromBasesRound ==
  ASSUME game \in Games, NEW cache, NEW m, Sound(cache)
  PROVE  /\ Sound(FromBases(cache, m)) /\ Grows(cache, FromBases(cache, m), m)
         /\ DOMAIN FromBases(cache, m)
              = DOMAIN cache \cup {<<m, game.infos[e].name>> : e \in BasesOf(cache, m)}
<1> DEFINE T == BasesOf(cache, m)
           found == {resolve_class(e) : e \in T}
<1>1. FromBases(cache, m) = Emplace(cache, m, found)
    BY DEF FromBases, BasesOf
<1>2. T \subseteq ClassInfos /\ \A e \in T : BelongsTo(e, m)
    BY BasesAreClasses DEF BasesOf
<1>3. Sound(FromBases(cache, m))
    <2> HIDE DEF T
    <2> QED BY <1>1, <1>2, EmplaceSound
<1>4. Grows(cache, FromBases(cache, m), m)
    BY <1>1, EmplaceGrows
<1>5. DOMAIN FromBases(cache, m) = DOMAIN cache \cup {<<m, r.name>> : r \in found}
    <2> HIDE DEF found
    <2> QED BY <1>1 DEF Emplace
<1>6. {<<m, r.name>> : r \in found} = {<<m, game.infos[e].name>> : e \in T}
    <2> HIDE DEF T
    <2> QED BY ResolvedClass
<1> QED BY <1>3, <1>4, <1>5, <1>6

\* A round that finds nothing is the last, and leaves a cache that is closed.
LEMMA NothingFound ==
  ASSUME NEW cache, NEW m, DOMAIN cache \cup {<<m, game.infos[e].name>> : e \in BasesOf(cache, m)} = DOMAIN cache
  PROVE  Closed(cache, m)
BY DEF Closed, BasesOf

-----------------------------------------------------------------------------
(* enumerate_scope ends with a cache that is closed: each of its rounds adds a
   class or finds nothing, and there are no more classes than rounds.         *)

\* The classes of the game that the cache has under m.
Known(cache, m) == {e \in DOMAIN game.infos : <<m, game.infos[e].name>> \in DOMAIN cache}

LEMMA RoundLearns ==
  ASSUME game \in Games, NEW cache, NEW m, Sound(cache)
  PROVE  \/ Known(cache, m) \subseteq Known(FromBases(cache, m), m) /\ Known(cache, m) # Known(FromBases(cache, m), m)
         \/ Closed(cache, m)
<1>0. Known(cache, m) \subseteq Known(FromBases(cache, m), m)
    <2>1. Grows(cache, FromBases(cache, m), m)
        BY FromBasesRound
    <2> QED BY <2>1 DEF Known, Grows
<1> SUFFICES ASSUME Known(cache, m) = Known(FromBases(cache, m), m) PROVE Closed(cache, m)
    BY <1>0
<1>1. {<<m, game.infos[e].name>> : e \in BasesOf(cache, m)} \subseteq DOMAIN cache
    <2> SUFFICES ASSUME NEW e \in BasesOf(cache, m) PROVE <<m, game.infos[e].name>> \in DOMAIN cache
        OBVIOUS
    <2>1. e \in DOMAIN game.infos
        BY BasesAreClasses DEF ClassInfos
    <2>2. e \in Known(FromBases(cache, m), m)
        <3>1. DOMAIN FromBases(cache, m)
                = DOMAIN cache \cup {<<m, game.infos[x].name>> : x \in BasesOf(cache, m)}
            BY FromBasesRound
        <3> QED BY <2>1, <3>1 DEF Known
    <2> QED BY <2>2 DEF Known
<1> QED BY <1>1, NothingFound

LEMMA ClosedStays ==
  ASSUME game \in Games, NEW cache, NEW m, Sound(cache), Closed(cache, m)
  PROVE  Closed(FromBases(cache, m), m)
<1> DEFINE new == FromBases(cache, m)
<1>1. {<<m, game.infos[e].name>> : e \in BasesOf(cache, m)} \subseteq DOMAIN cache
    BY DEF Closed, BasesOf
<1>2. DOMAIN new = DOMAIN cache /\ \A k \in DOMAIN cache : new[k] = cache[k]
    <2>1. /\ Grows(cache, new, m)
          /\ DOMAIN new = DOMAIN cache \cup {<<m, game.infos[e].name>> : e \in BasesOf(cache, m)}
        BY FromBasesRound
    <2> HIDE DEF new
    <2> QED BY <1>1, <2>1 DEF Grows
<1> QED BY <1>2 DEF Closed

LEMMA ScopeIsClosed ==
  ASSUME game \in Games, NEW cache, NEW m, Sound(cache)
  PROVE  LET new == enumerate_scope(cache, m) IN Sound(new) /\ Grows(cache, new, m) /\ Closed(new, m)
<1> DEFINE N == Cardinality(DOMAIN game.infos)
<1>1. IsFiniteSet(DOMAIN game.infos) /\ N \in Nat
    BY GamesAssumption, FS_CardinalityType
<1>2. PICK c : RoundsOf(c, cache, m, N) /\ enumerate_scope(cache, m) = c[N]
    BY <1>1, RoundsExist
<1> HIDE DEF N
<1>3. \A i \in 0..N : Sound(c[i]) /\ Grows(cache, c[i], m)
    <2> DEFINE S == {i \in 0..N : Sound(c[i]) /\ Grows(cache, c[i], m)}
    <2>1. 0 \in S
        BY <1>1, <1>2, FromHashRound DEF RoundsOf
    <2>2. ASSUME NEW i \in 0..(N - 1), i \in S PROVE i + 1 \in S
        <3>1. Sound(c[i + 1]) /\ Grows(c[i], c[i + 1], m)
            BY <1>2, <2>2, FromBasesRound DEF RoundsOf
        <3>2. Grows(cache, c[i + 1], m)
            BY <2>2, <3>1, GrowsFurther
        <3> QED BY <1>1, <3>1, <3>2
    <2>3. 0..N \subseteq S
        <3> HIDE DEF S
        <3> QED BY <1>1, <2>1, <2>2, StepInduction
    <2> QED BY <2>3
<1>4. ASSUME NEW i \in 0..N
      PROVE  IsFiniteSet(Known(c[i], m)) /\ Cardinality(Known(c[i], m)) \in Nat
             /\ Cardinality(Known(c[i], m)) <= N
             /\ (Cardinality(Known(c[i], m)) = N => Known(c[i], m) = DOMAIN game.infos)
    <2>1. Known(c[i], m) \subseteq DOMAIN game.infos
        BY DEF Known
    <2> QED BY <1>1, <2>1, FS_Subset, FS_CardinalityType DEF N
<1>5. \A i \in 0..N : Closed(c[i], m) \/ Cardinality(Known(c[i], m)) >= i
    <2> DEFINE S == {i \in 0..N : Closed(c[i], m) \/ Cardinality(Known(c[i], m)) >= i}
    <2>1. 0 \in S
        BY <1>1, <1>4
    <2>2. ASSUME NEW i \in 0..(N - 1), i \in S PROVE i + 1 \in S
        <3>1. i \in 0..N /\ i + 1 \in 0..N /\ c[i + 1] = FromBases(c[i], m) /\ Sound(c[i])
            BY <1>1, <1>2, <1>3 DEF RoundsOf
        <3>2. CASE Closed(c[i], m)
            BY <3>1, <3>2, ClosedStays
        <3>3. CASE ~ Closed(c[i], m)
            <4>1. Known(c[i], m) \subseteq Known(c[i + 1], m) /\ Known(c[i], m) # Known(c[i + 1], m)
                BY <3>1, <3>3, RoundLearns
            <4>2. Cardinality(Known(c[i], m)) < Cardinality(Known(c[i + 1], m))
                <5>1. IsFiniteSet(Known(c[i + 1], m))
                    BY <1>4, <3>1
                <5>2. Cardinality(Known(c[i], m)) <= Cardinality(Known(c[i + 1], m))
                      /\ Cardinality(Known(c[i], m)) # Cardinality(Known(c[i + 1], m))
                    BY <4>1, <5>1, FS_Subset
                <5> QED BY <1>4, <3>1, <5>2
            <4>3. Cardinality(Known(c[i], m)) \in Nat /\ Cardinality(Known(c[i + 1], m)) \in Nat
                BY <1>4, <3>1
            <4>4. Cardinality(Known(c[i], m)) >= i
                BY <2>2, <3>3
            <4>5. Cardinality(Known(c[i + 1], m)) >= i + 1
                BY <4>2, <4>3, <4>4
            <4> QED BY <3>1, <4>5
        <3> QED BY <3>2, <3>3
    <2>3. 0..N \subseteq S
        <3> HIDE DEF S
        <3> QED BY <1>1, <2>1, <2>2, StepInduction
    <2> QED BY <2>3
<1>6. N \in 0..N
    BY <1>1
<1>7. Closed(c[N], m)
    <2> SUFFICES ASSUME Cardinality(Known(c[N], m)) >= N PROVE Closed(c[N], m)
        BY <1>5, <1>6
    <2>1. Known(c[N], m) = DOMAIN game.infos
        BY <1>1, <1>4, <1>6
    <2>2. BasesOf(c[N], m) \subseteq DOMAIN game.infos
        BY <1>3, <1>6, BasesAreClasses DEF ClassInfos
    <2>3. {<<m, game.infos[e].name>> : e \in BasesOf(c[N], m)} \subseteq DOMAIN c[N]
        BY <2>1, <2>2 DEF Known
    <2> QED BY <2>3, NothingFound
<1> QED BY <1>2, <1>3, <1>6, <1>7

-----------------------------------------------------------------------------
(* dump_all_modules: what is closed for one module stays so, since the others
   add classes of their own only.                                             *)

\* c[0], c[1], ... are the caches behind the first n loaded modules.
ModulesOf(c, n) ==
  /\ c[0] = m_cache
  /\ \A i \in 0..(n - 1) :
       c[i + 1] = IF HasOwnScope(game.loaded[i + 1].name)
                  THEN enumerate_scope(c[i], game.loaded[i + 1].name) ELSE c[i]

LEMMA ModulesExist ==
  ASSUME NEW N \in Nat PROVE \E c : ModulesOf(c, N) /\ ClassesUpTo(N) = c[N]
<1> DEFINE Step(x, i) == IF HasOwnScope(game.loaded[i].name) THEN enumerate_scope(x, game.loaded[i].name) ELSE x
           Is(g, n) == g = [i \in 0..n |-> IF i = 0 THEN m_cache ELSE Step(g[i - 1], i)]
           S == {n \in Nat : \E g : Is(g, n)}
           f == CHOOSE g : Is(g, N)
<1>1. N \in S
    <2> HIDE DEF Step
    <2>1. 0 \in S
        <3>1. Is([i \in 0..0 |-> m_cache], 0)
            OBVIOUS
        <3> QED BY <3>1
    <2>2. ASSUME NEW n \in Nat, n \in S PROVE n + 1 \in S
        <3>1. PICK g : Is(g, n)
            BY <2>2
        <3> DEFINE h == [i \in 0..(n + 1) |-> IF i = n + 1 THEN Step(g[n], n + 1) ELSE g[i]]
        <3>2. Is(h, n + 1)
            BY <3>1
        <3> HIDE DEF h, Is
        <3> QED BY <3>2
    <2>3. Nat \subseteq S
        <3> HIDE DEF S
        <3> QED BY <2>1, <2>2, SetInduction
    <2> QED BY <2>3
<1>2. Is(f, N)
    BY <1>1
<1>3. ClassesUpTo(N) = f[N]
    BY DEF ClassesUpTo
<1>4. ModulesOf(f, N)
    <2> HIDE DEF f
    <2> QED BY <1>2 DEF ModulesOf
<1> QED BY <1>3, <1>4

LEMMA OthersStayClosed ==
  ASSUME NEW cache, NEW new, NEW m, Grows(cache, new, m), NEW x, x # m, Closed(cache, x)
  PROVE  Closed(new, x)
BY DEF Closed, Grows

\* The modules that have classes are loaded and have a scope of their own.
OfLoaded(cache) == \A k \in DOMAIN cache : k[1] \in LoadedNames /\ HasOwnScope(k[1])

LEMMA ModulesAreClosed ==
  ASSUME game \in Games, m_cache = << >>, NEW N \in 0..Len(game.loaded)
  PROVE  /\ Sound(ClassesUpTo(N)) /\ \A m : Closed(ClassesUpTo(N), m)
         /\ OfLoaded(ClassesUpTo(N))
<1>0. Len(game.loaded) \in Nat /\ N \in Nat /\ DOMAIN game.loaded = 1..Len(game.loaded)
    BY GamesAssumption DEF IsRow
<1>1. PICK c : ModulesOf(c, N) /\ ClassesUpTo(N) = c[N]
    BY <1>0, ModulesExist
<1> DEFINE S == {i \in 0..N : Sound(c[i]) /\ OfLoaded(c[i]) /\ \A m : Closed(c[i], m)}
<1>2. 0 \in S
    BY <1>0, <1>1 DEF ModulesOf, Sound, Closed, OfLoaded
<1>3. ASSUME NEW i \in 0..(N - 1), i \in S PROVE i + 1 \in S
    <2> DEFINE x == game.loaded[i + 1].name
    <2>1. i + 1 \in 0..N /\ x \in LoadedNames
        BY <1>0 DEF LoadedNames
    <2>2. CASE c[i + 1] = c[i]
        BY <1>3, <2>1, <2>2
    <2>3. CASE HasOwnScope(x) /\ c[i + 1] = enumerate_scope(c[i], x)
        <3>1. Sound(c[i + 1]) /\ Grows(c[i], c[i + 1], x) /\ Closed(c[i + 1], x)
            BY <1>3, <2>3, ScopeIsClosed
        <3>2. \A m : Closed(c[i + 1], m)
            BY <1>3, <3>1, OthersStayClosed
        <3>3. OfLoaded(c[i + 1])
            BY <1>3, <2>1, <2>3, <3>1 DEF OfLoaded, Grows
        <3> QED BY <2>1, <3>1, <3>2, <3>3
    <2> QED BY <1>1, <2>2, <2>3 DEF ModulesOf
<1>4. 0..N \subseteq S
    <2> HIDE DEF S
    <2> QED BY <1>0, <1>2, <1>3, StepInduction
<1> QED BY <1>0, <1>1, <1>4

-----------------------------------------------------------------------------
\* The cache of the schema is empty until phase 1 fills it, and what phase 1
\* leaves is sound and closed.
CacheInv ==
  /\ game \in Games
  /\ phase = "schema" => m_cache = << >>
  /\ phase = "rtti" => Sound(m_cache) /\ \A k \in DOMAIN m_cache : Closed(m_cache, k[1])

\* What is read of a class stays the same while the game does.
LEMMA ReadStays ==
  ASSUME game' = game
  PROVE  /\ ClassInfos' = ClassInfos /\ LoadedNames' = LoadedNames
         /\ \A e : resolve_class(e)' = resolve_class(e)
         /\ \A e, m : BelongsTo(e, m)' = BelongsTo(e, m)
<1>1. \A e : resolve_class(e)' = resolve_class(e)
    BY DEF resolve_class
<1>2. ClassInfos' = ClassInfos /\ LoadedNames' = LoadedNames /\ \A e, m : BelongsTo(e, m)' = BelongsTo(e, m)
    BY DEF ClassInfos, LoadedNames, BelongsTo
<1> QED BY <1>1, <1>2

LEMMA CacheInvInit == DumpInit => CacheInv
BY DEF DumpInit, SchemaInit, CacheInv

LEMMA CacheInvStep == CacheInv /\ [DumpNext]_dumpVars => CacheInv'
<1> SUFFICES ASSUME CacheInv, [DumpNext]_dumpVars PROVE CacheInv'
    OBVIOUS
<1>1. CASE PhaseSchema
    <2>1. game' = game /\ game \in Games /\ m_cache' = ClassesUpTo(Len(game.loaded)) /\ phase' # "schema"
        BY <1>1 DEF PhaseSchema, dump_all_modules, CacheInv
    <2>2. Len(game.loaded) \in Nat /\ m_cache = << >>
        BY <1>1, <2>1, GamesAssumption DEF PhaseSchema, CacheInv, IsRow
    <2>3. Sound(m_cache') /\ \A m : Closed(m_cache', m)
        BY <2>1, <2>2, ModulesAreClosed
    <2> QED BY <2>1, <2>3, ReadStays DEF CacheInv, Sound, Closed
<1>2. CASE \E key \in unresolved : ResolveRtti(key)
    BY <1>2 DEF CacheInv, ResolveRtti
<1>3. CASE PhaseRtti
    BY <1>3 DEF CacheInv, PhaseRtti, schemaVars
<1>4. CASE PhaseGlobals
    BY <1>4 DEF CacheInv, PhaseGlobals, schemaVars
<1>5. CASE PhasePatterns
    BY <1>5 DEF CacheInv, PhasePatterns, schemaVars
<1>6. CASE PhaseReferences
    BY <1>6 DEF CacheInv, PhaseReferences, schemaVars
<1>7. CASE WriteExport
    BY <1>7 DEF CacheInv, WriteExport, schemaVars
<1>8. CASE UNCHANGED dumpVars
    <2>1. UNCHANGED <<game, phase, m_cache>>
        BY <1>8 DEF dumpVars, schemaVars, workerVars
    <2> QED BY <2>1, ReadStays DEF CacheInv, Sound, Closed
<1> QED BY <1>1, <1>2, <1>3, <1>4, <1>5, <1>6, <1>7, <1>8 DEF DumpNext

LEMMA CacheInvImplies == CacheInv => CacheIsClosed
<1> SUFFICES ASSUME CacheInv, phase = "rtti", NEW k \in DOMAIN m_cache
             PROVE  /\ BelongsTo(m_cache[k].info, k[1])
                    /\ \A b \in m_cache[k].bases :
                         BelongsTo(b, k[1]) =>
                           /\ <<k[1], game.infos[b].name>> \in DOMAIN m_cache
                           /\ m_cache[<<k[1], game.infos[b].name>>].info = b
    BY DEF CacheIsClosed
<1>1. game \in Games /\ Sound(m_cache) /\ Closed(m_cache, k[1])
    BY DEF CacheInv
<1>2. ASSUME NEW b \in m_cache[k].bases, BelongsTo(b, k[1])
      PROVE  /\ <<k[1], game.infos[b].name>> \in DOMAIN m_cache
             /\ m_cache[<<k[1], game.infos[b].name>>].info = b
    <2> DEFINE key == <<k[1], game.infos[b].name>>
               d == m_cache[key].info
    <2>1. key \in DOMAIN m_cache
        BY <1>1, <1>2 DEF Closed
    <2>2. d \in ClassInfos /\ BelongsTo(d, k[1]) /\ game.infos[d].name = game.infos[b].name
        BY <1>1, <2>1 DEF Sound
    <2>3. b \in ClassInfos
        BY <1>1 DEF Sound
    <2>4. d = b
        <3> HIDE DEF d
        <3> QED BY <1>1, <1>2, <2>2, <2>3, GamesAssumption DEF ClassInfos, BelongsTo
    <2> QED BY <2>1, <2>4
<1> QED BY <1>1, <1>2 DEF Sound

\* Behind phase 1, whatever the game and however many modules and classes it
\* has, the layout of a cached class can be put together from its own module:
\* the classes cached under a module are of that module, and with a class every
\* base of the module is cached, under its name.
THEOREM CacheStaysClosed == DumpSpec => []CacheIsClosed
<1> QED BY CacheInvInit, CacheInvStep, CacheInvImplies, PTL DEF DumpSpec

-----------------------------------------------------------------------------
(* globals::scan. *)

\* c[0], c[1], ... are the entries behind the first n words.
WordsOf(c, rtti, schema, m, words, n) ==
  /\ c[0] = << >>
  /\ \A i \in 0..(n - 1) : c[i + 1] = ScanWord(rtti, schema, m, words, c[i], i + 1)

LEMMA WordsExist ==
  ASSUME NEW rtti, NEW schema, NEW m, NEW words, Len(words) \in Nat
  PROVE  \E c : /\ WordsOf(c, rtti, schema, m, words, Len(words))
                /\ ScanWords(rtti, schema, m, words) = c[Len(words)]
<1> DEFINE N == Len(words)
           Step(x, i) == ScanWord(rtti, schema, m, words, x, i)
           Is(g, n) == g = [i \in 0..n |-> IF i = 0 THEN << >> ELSE Step(g[i - 1], i)]
           S == {n \in Nat : \E g : Is(g, n)}
           f == CHOOSE g : Is(g, N)
<1>1. N \in S
    <2> HIDE DEF Step, N
    <2>1. 0 \in S
        <3>1. Is([i \in 0..0 |-> << >>], 0)
            OBVIOUS
        <3> QED BY <3>1
    <2>2. ASSUME NEW n \in Nat, n \in S PROVE n + 1 \in S
        <3>1. PICK g : Is(g, n)
            BY <2>2
        <3> DEFINE h == [i \in 0..(n + 1) |-> IF i = n + 1 THEN Step(g[n], n + 1) ELSE g[i]]
        <3>2. Is(h, n + 1)
            BY <3>1
        <3> HIDE DEF h, Is
        <3> QED BY <3>2
    <2>3. Nat \subseteq S
        <3> HIDE DEF S
        <3> QED BY <2>1, <2>2, SetInduction
    <2> QED BY <2>3 DEF N
<1>2. Is(f, N)
    BY <1>1
<1>3. ScanWords(rtti, schema, m, words) = f[N]
    BY DEF ScanWords
<1>4. N \in Nat
    OBVIOUS
<1>5. WordsOf(f, rtti, schema, m, words, N)
    <2> HIDE DEF f, N
    <2> QED BY <1>2, <1>4 DEF WordsOf
<1> QED BY <1>3, <1>5

\* A word is an object of the class, or a pointer to one.
Hit(rtti, word, class, pointer) ==
  /\ Matches(rtti, word) /\ word.class[2] = class
  /\ word.to = IF pointer THEN "object" ELSE "vtable"

\* The entries stand for the first hit of their class and kind among the words
\* before n, and every hit among those has one.
FirstHits(rtti, words, found, n) ==
  /\ \A j \in DOMAIN found :
       /\ found[j].rva \in 1..n
       /\ Hit(rtti, words[found[j].rva], found[j].class, found[j].pointer)
       /\ \A k \in 1..n : k < found[j].rva => ~ Hit(rtti, words[k], found[j].class, found[j].pointer)
  /\ \A k \in 1..n, pointer \in BOOLEAN :
       Hit(rtti, words[k], words[k].class[2], pointer) =>
         \E j \in DOMAIN found : found[j].class = words[k].class[2] /\ found[j].pointer = pointer

EntryOf(rtti, schema, m, words, i) ==
  [class |-> words[i].class[2], rva |-> i, vtable |-> VtableUnder(rtti, m, words[i].class[2]),
   pointer |-> words[i].to = "object", schema |-> words[i].class[2] \in schema]

LEMMA WordStep ==
  ASSUME NEW rtti, NEW schema, NEW m, NEW words, NEW S, NEW found \in Seq(S), NEW n \in Nat,
         EntryOf(rtti, schema, m, words, n + 1) \in S, FirstHits(rtti, words, found, n)
  PROVE  /\ ScanWord(rtti, schema, m, words, found, n + 1) \in Seq(S)
         /\ FirstHits(rtti, words, ScanWord(rtti, schema, m, words, found, n + 1), n + 1)
<1> DEFINE i == n + 1
           e == EntryOf(rtti, schema, m, words, i)
           new == ScanWord(rtti, schema, m, words, found, i)
           known == \E j \in DOMAIN found : found[j].class = e.class /\ found[j].pointer = e.pointer
<1>1. \A c : \A pointer \in BOOLEAN : Hit(rtti, words[i], c, pointer) => c = e.class /\ pointer = e.pointer
    BY DEF Hit, EntryOf, Matches
<1>2. Matches(rtti, words[i]) => Hit(rtti, words[i], e.class, e.pointer)
    BY DEF Hit, EntryOf, Matches
<1>3. e.rva = i /\ e.pointer \in BOOLEAN /\ e.class = words[i].class[2]
    BY DEF EntryOf
<1>4. new = IF ~ Matches(rtti, words[i]) \/ known THEN found ELSE Append(found, e)
    BY DEF ScanWord, EntryOf
<1> HIDE DEF e
<1> SUFFICES new \in Seq(S) /\ FirstHits(rtti, words, new, i)
    OBVIOUS
<1> HIDE DEF new
<1>5. CASE ~ Matches(rtti, words[i]) \/ known
    <2>1. new = found
        BY <1>4, <1>5
    <2>2. \A c, pointer : ~ Matches(rtti, words[i]) => ~ Hit(rtti, words[i], c, pointer)
        BY DEF Hit
    <2>3. \A pointer \in BOOLEAN : Hit(rtti, words[i], words[i].class[2], pointer) => known
        BY <1>1, <1>5, <2>2
    <2>4. ASSUME NEW j \in DOMAIN found
          PROVE  /\ found[j].rva \in 1..i
                 /\ Hit(rtti, words[found[j].rva], found[j].class, found[j].pointer)
                 /\ \A k \in 1..i : k < found[j].rva => ~ Hit(rtti, words[k], found[j].class, found[j].pointer)
        <3>1. found[j].rva \in 1..n
            BY DEF FirstHits
        <3>2. \A k \in 1..i : k < found[j].rva => k \in 1..n
            BY <3>1
        <3> QED BY <3>1, <3>2 DEF FirstHits
    <2>5. ASSUME NEW k \in 1..i, NEW pointer \in BOOLEAN, Hit(rtti, words[k], words[k].class[2], pointer)
          PROVE  \E j \in DOMAIN found : found[j].class = words[k].class[2] /\ found[j].pointer = pointer
        <3>1. CASE k \in 1..n
            BY <2>5, <3>1 DEF FirstHits
        <3>2. CASE k = i
            BY <1>1, <2>3, <2>5, <3>2
        <3> QED BY <3>1, <3>2
    <2> QED BY <2>1, <2>4, <2>5 DEF FirstHits
<1>6. CASE Matches(rtti, words[i]) /\ ~ known
    <2>1. new = Append(found, e)
        BY <1>4, <1>6
    <2>2. new \in Seq(S) /\ DOMAIN new = DOMAIN found \cup {Len(found) + 1}
          /\ new[Len(found) + 1] = e /\ \A j \in DOMAIN found : new[j] = found[j]
        BY <2>1 DEF e
    <2>3. \A k \in 1..n : ~ Hit(rtti, words[k], e.class, e.pointer)
        <3> SUFFICES ASSUME NEW k \in 1..n, Hit(rtti, words[k], e.class, e.pointer) PROVE FALSE
            OBVIOUS
        <3>1. words[k].class[2] = e.class
            BY DEF Hit
        <3> QED BY <1>3, <1>6, <3>1 DEF FirstHits
    <2>4. \A k \in 1..i : k \in 1..n \/ k = i
        OBVIOUS
    <2>5. ASSUME NEW j \in DOMAIN new
          PROVE  /\ new[j].rva \in 1..i
                 /\ Hit(rtti, words[new[j].rva], new[j].class, new[j].pointer)
                 /\ \A k \in 1..i : k < new[j].rva => ~ Hit(rtti, words[k], new[j].class, new[j].pointer)
        <3>1. CASE j \in DOMAIN found
            <4>1. new[j] = found[j] /\ found[j].rva \in 1..n
                BY <2>2, <3>1 DEF FirstHits
            <4>2. \A k \in 1..i : k < found[j].rva => k \in 1..n
                BY <4>1
            <4> QED BY <3>1, <4>1, <4>2 DEF FirstHits
        <3>2. CASE j = Len(found) + 1
            <4>1. new[j] = e
                BY <2>2, <3>2
            <4>2. \A k \in 1..i : k < i => k \in 1..n
                OBVIOUS
            <4> QED BY <1>2, <1>3, <1>6, <2>3, <4>1, <4>2
        <3> QED BY <2>2, <3>1, <3>2
    <2>6. ASSUME NEW k \in 1..i, NEW pointer \in BOOLEAN, Hit(rtti, words[k], words[k].class[2], pointer)
          PROVE  \E j \in DOMAIN new : new[j].class = words[k].class[2] /\ new[j].pointer = pointer
        <3>1. CASE k \in 1..n
            <4>1. PICK j \in DOMAIN found : found[j].class = words[k].class[2] /\ found[j].pointer = pointer
                BY <2>6, <3>1 DEF FirstHits
            <4> QED BY <2>2, <4>1
        <3>2. CASE k = i
            <4>1. pointer = e.pointer /\ words[k].class[2] = e.class
                BY <1>1, <2>6, <3>2
            <4> QED BY <2>2, <4>1
        <3> QED BY <2>4, <3>1, <3>2
    <2> QED BY <2>2, <2>5, <2>6 DEF FirstHits
<1> QED BY <1>5, <1>6

LEMMA WordsAreFirstHits ==
  ASSUME NEW rtti, NEW schema, NEW m, NEW words, Len(words) \in Nat
  PROVE  FirstHits(rtti, words, ScanWords(rtti, schema, m, words), Len(words))
<1> DEFINE N == Len(words)
           Entries == {EntryOf(rtti, schema, m, words, i) : i \in 1..N}
<1>1. PICK c : WordsOf(c, rtti, schema, m, words, N) /\ ScanWords(rtti, schema, m, words) = c[N]
    BY WordsExist
<1> DEFINE S == {i \in 0..N : c[i] \in Seq(Entries) /\ FirstHits(rtti, words, c[i], i)}
<1> HIDE DEF N
<1>2. N \in Nat
    BY DEF N
<1>3. 0 \in S
    <2> HIDE DEF Entries
    <2>1. c[0] = << >> /\ DOMAIN c[0] = {} /\ 1..0 = {} /\ c[0] \in Seq(Entries)
        BY <1>1 DEF WordsOf
    <2>2. FirstHits(rtti, words, c[0], 0)
        BY <2>1 DEF FirstHits
    <2>3. 0 \in 0..N
        BY <1>2
    <2> QED BY <2>1, <2>2, <2>3, Zenon
<1>4. ASSUME NEW i \in 0..(N - 1), i \in S PROVE i + 1 \in S
    <2>1. EntryOf(rtti, schema, m, words, i + 1) \in Entries
        BY <1>2
    <2> HIDE DEF Entries
    <2>2. c[i + 1] \in Seq(Entries) /\ FirstHits(rtti, words, c[i + 1], i + 1)
        BY <1>1, <1>2, <1>4, <2>1, WordStep DEF WordsOf
    <2> QED BY <1>2, <2>2
<1>5. 0..N \subseteq S
    <2> HIDE DEF S
    <2> QED BY <1>2, <1>3, <1>4, StepInduction
<1>6. N \in 0..N
    BY <1>2
<1>7. FirstHits(rtti, words, c[N], N)
    BY <1>5, <1>6
<1> QED BY <1>1, <1>7 DEF N

\* What FirstOfEachIsReported says of one module.
FirstReported(rtti, data, found) ==
  LET At(c, pointer) == {i \in DOMAIN data : /\ Matches(rtti, data[i])
                                             /\ data[i].class[2] = c
                                             /\ data[i].to = IF pointer THEN "object" ELSE "vtable"}
  IN  \A c \in {data[i].class[2] : i \in DOMAIN data}, pointer \in BOOLEAN :
        {e.rva : e \in {x \in ToSet(found) : x.class = c /\ x.pointer = pointer}}
          = IF At(c, pointer) = {} THEN {} ELSE {Lowest(At(c, pointer))}

LEMMA LowestIs ==
  ASSUME NEW S \in SUBSET Nat, NEW r \in S, \A k \in S : r <= k PROVE Lowest(S) = r
<1>1. \A x \in S : (\A k \in S : x <= k) => x = r
    <2> SUFFICES ASSUME NEW x \in S, \A k \in S : x <= k PROVE x = r
        OBVIOUS
    <2>1. x <= r /\ r <= x /\ x \in Nat /\ r \in Nat
        OBVIOUS
    <2> QED BY <2>1
<1> QED BY <1>1 DEF Lowest

LEMMA FirstHitsAreReported ==
  ASSUME NEW rtti, NEW data, NEW found, NEW n \in Nat, DOMAIN data = 1..n, FirstHits(rtti, data, found, n)
  PROVE  FirstReported(rtti, data, found)
<1> SUFFICES ASSUME NEW c \in {data[i].class[2] : i \in DOMAIN data}, NEW pointer \in BOOLEAN
             PROVE  LET At == {i \in DOMAIN data : /\ Matches(rtti, data[i])
                                                   /\ data[i].class[2] = c
                                                   /\ data[i].to = IF pointer THEN "object" ELSE "vtable"}
                    IN  {e.rva : e \in {x \in ToSet(found) : x.class = c /\ x.pointer = pointer}}
                          = IF At = {} THEN {} ELSE {Lowest(At)}
    BY DEF FirstReported
<1> DEFINE At == {i \in DOMAIN data : /\ Matches(rtti, data[i])
                                      /\ data[i].class[2] = c
                                      /\ data[i].to = IF pointer THEN "object" ELSE "vtable"}
           R == {e.rva : e \in {x \in ToSet(found) : x.class = c /\ x.pointer = pointer}}
<1>1. R = {found[j].rva : j \in {y \in DOMAIN found : found[y].class = c /\ found[y].pointer = pointer}}
    BY DEF ToSet
<1>2. At = {i \in 1..n : Hit(rtti, data[i], c, pointer)}
    BY DEF Hit
<1> HIDE DEF At, R
<1>3. ASSUME NEW r \in R PROVE r \in At /\ \A k \in At : r <= k
    <2>1. PICK j \in DOMAIN found : found[j].class = c /\ found[j].pointer = pointer /\ r = found[j].rva
        BY <1>1
    <2>2. /\ r \in 1..n /\ Hit(rtti, data[r], c, pointer)
          /\ \A k \in 1..n : k < r => ~ Hit(rtti, data[k], c, pointer)
        BY <2>1 DEF FirstHits
    <2> QED BY <1>2, <2>2
<1>4. ASSUME At # {} PROVE R # {}
    <2>1. PICK k \in 1..n : Hit(rtti, data[k], c, pointer)
        BY <1>2, <1>4
    <2>2. data[k].class[2] = c
        BY <2>1 DEF Hit
    <2>3. PICK j \in DOMAIN found : found[j].class = c /\ found[j].pointer = pointer
        BY <2>1, <2>2 DEF FirstHits
    <2> QED BY <1>1, <2>3
<1>5. At \in SUBSET Nat
    BY <1>2
<1>6. CASE At = {}
    BY <1>3, <1>6 DEF At, R
<1>7. CASE At # {}
    <2>1. PICK r : r \in R
        BY <1>4, <1>7
    <2>2. \A x \in R : Lowest(At) = x
        BY <1>3, <1>5, LowestIs
    <2>3. R = {Lowest(At)}
        BY <2>1, <2>2
    <2> QED BY <1>7, <2>3 DEF At, R
<1> QED BY <1>6, <1>7

\* Nothing is discovered before the scan.
GlobalsInv ==
  /\ game \in Games
  /\ phase \in {"schema", "rtti", "resolve"} => discovered = << >>
  /\ \A m \in DOMAIN discovered : FirstReported(m_rtti_map, Loaded(m).data, discovered[m])

LEMMA GlobalsInvInit == DumpInit => GlobalsInv
BY DEF DumpInit, SchemaInit, GlobalsInv

LEMMA LoadedIs ==
  ASSUME NEW m \in LoadedNames PROVE \E i \in DOMAIN game.loaded : Loaded(m) = game.loaded[i]
BY DEF LoadedNames, Loaded

LEMMA GlobalsInvStep == GlobalsInv /\ [DumpNext]_dumpVars => GlobalsInv'
<1> SUFFICES ASSUME GlobalsInv, [DumpNext]_dumpVars PROVE GlobalsInv'
    OBVIOUS
<1>1. CASE PhaseSchema
    <2>1. discovered' = discovered /\ phase = "schema" /\ dump_all_modules
        BY <1>1 DEF PhaseSchema
    <2>2. game' = game
        BY <2>1, Zenon DEF dump_all_modules
    <2> QED BY <2>1, <2>2 DEF GlobalsInv
<1>2. CASE \E key \in unresolved : ResolveRtti(key)
    BY <1>2 DEF GlobalsInv, ResolveRtti
<1>3. CASE PhaseRtti
    BY <1>3 DEF GlobalsInv, PhaseRtti, schemaVars
<1>4. CASE PhaseGlobals
    <2>1. game' = game /\ m_rtti_map' = m_rtti_map /\ phase' = "patterns" /\ game \in Games
        BY <1>4 DEF PhaseGlobals, schemaVars, GlobalsInv
    <2>2. ASSUME NEW m \in DOMAIN discovered' PROVE FirstReported(m_rtti_map, Loaded(m).data, discovered'[m])
        <3> DEFINE words == Loaded(m).data
        <3>1. m \in LoadedNames /\ \E schema : discovered'[m] = ScanWords(m_rtti_map, schema, m, words)
            BY <1>4 DEF PhaseGlobals, ScanGlobals
        <3>2. Len(words) \in Nat /\ DOMAIN words = 1..Len(words)
            BY <2>1, <3>1, LoadedIs, RowsAssumption DEF IsRow
        <3> HIDE DEF words
        <3>3. FirstHits(m_rtti_map, words, discovered'[m], Len(words))
            BY <3>1, <3>2, WordsAreFirstHits
        <3> QED BY <3>2, <3>3, FirstHitsAreReported DEF words
    <2> QED BY <2>1, <2>2 DEF GlobalsInv, Loaded
<1>5. CASE PhasePatterns
    BY <1>5 DEF GlobalsInv, PhasePatterns, schemaVars, Loaded
<1>6. CASE PhaseReferences
    BY <1>6 DEF GlobalsInv, PhaseReferences, schemaVars, Loaded
<1>7. CASE WriteExport
    BY <1>7 DEF GlobalsInv, WriteExport, schemaVars, Loaded
<1>8. CASE UNCHANGED dumpVars
    BY <1>8 DEF GlobalsInv, dumpVars, schemaVars, workerVars, Loaded
<1> QED BY <1>1, <1>2, <1>3, <1>4, <1>5, <1>6, <1>7, <1>8 DEF DumpNext

LEMMA GlobalsInvImplies == GlobalsInv => FirstOfEachIsReported
BY DEF GlobalsInv, FirstOfEachIsReported, FirstReported

\* Whatever lies in the writable memory of the modules, the scan reports of the
\* objects of a class in a module, and of the pointers to objects of it, the
\* first and no other.
THEOREM FirstIsReported == DumpSpec => []FirstOfEachIsReported
<1> QED BY GlobalsInvInit, GlobalsInvStep, GlobalsInvImplies, PTL DEF DumpSpec

-----------------------------------------------------------------------------
(* pattern::resolve_all. *)

Applies(cfg, active, modes, i) == cfg[i].mode \in modes /\ ForGame(cfg[i], active)

\* c[0], c[1], ... are the results behind the first n entries of a pass.
EntriesOf(c, cfg, active, modes, code, start, n) ==
  /\ c[0] = start
  /\ \A i \in 0..(n - 1) :
       c[i + 1] = IF Applies(cfg, active, modes, i + 1) THEN ResolveEntry(cfg, code, c[i], i + 1) ELSE c[i]

LEMMA EntriesExist ==
  ASSUME NEW cfg, NEW active, NEW modes, NEW code, NEW start, Len(cfg) \in Nat
  PROVE  \E c : /\ EntriesOf(c, cfg, active, modes, code, start, Len(cfg))
                /\ Pass(cfg, active, modes, code, start) = c[Len(cfg)]
<1> DEFINE N == Len(cfg)
           Step(x, i) == IF cfg[i].mode \in modes /\ ForGame(cfg[i], active)
                         THEN ResolveEntry(cfg, code, x, i) ELSE x
           Is(g, n) == g = [i \in 0..n |-> IF i = 0 THEN start ELSE Step(g[i - 1], i)]
           S == {n \in Nat : \E g : Is(g, n)}
           f == CHOOSE g : Is(g, N)
<1>1. N \in S
    <2> HIDE DEF Step, N
    <2>1. 0 \in S
        <3>1. Is([i \in 0..0 |-> start], 0)
            OBVIOUS
        <3> QED BY <3>1
    <2>2. ASSUME NEW n \in Nat, n \in S PROVE n + 1 \in S
        <3>1. PICK g : Is(g, n)
            BY <2>2
        <3> DEFINE h == [i \in 0..(n + 1) |-> IF i = n + 1 THEN Step(g[n], n + 1) ELSE g[i]]
        <3>2. Is(h, n + 1)
            BY <3>1
        <3> HIDE DEF h, Is
        <3> QED BY <3>2
    <2>3. Nat \subseteq S
        <3> HIDE DEF S
        <3> QED BY <2>1, <2>2, SetInduction
    <2> QED BY <2>3 DEF N
<1>2. Is(f, N)
    BY <1>1
<1>3. Pass(cfg, active, modes, code, start) = f[N]
    BY DEF Pass
<1>4. N \in Nat
    OBVIOUS
<1>5. EntriesOf(f, cfg, active, modes, code, start, N)
    <2> HIDE DEF f, N
    <2> QED BY <1>2, <1>4 DEF EntriesOf, Applies
<1> QED BY <1>3, <1>5

\* One entry: its result is set, and its rva is known when there is one.
LEMMA EntryStep ==
  ASSUME NEW cfg, NEW code, NEW st, NEW i
  PROVE  LET new   == ResolveEntry(cfg, code, st, i)
             found == Resolve(cfg[i], code, st.rvas)
         IN  /\ DOMAIN new.results = DOMAIN st.results \cup {i}
             /\ new.results[i] = found
             /\ \A k \in DOMAIN st.results \ {i} : new.results[k] = st.results[k]
             /\ \A n \in DOMAIN st.rvas : n # cfg[i].name => n \in DOMAIN new.rvas /\ new.rvas[n] = st.rvas[n]
             /\ found # {} => cfg[i].name \in DOMAIN new.rvas /\ new.rvas[cfg[i].name] \in found
BY DEF ResolveEntry

LEMMA AtMostOne ==
  ASSUME NEW e, NEW code, NEW rvas, NEW a \in Resolve(e, code, rvas) PROVE Resolve(e, code, rvas) = {a}
BY DEF Resolve

\* A pass gives a result to the entries it applies to and to no others.
LEMMA PassResults ==
  ASSUME NEW cfg, NEW active, NEW modes, NEW code, NEW start, NEW N \in Nat,
         NEW c, EntriesOf(c, cfg, active, modes, code, start, N)
  PROVE  \A n \in 0..N : DOMAIN c[n].results
           = DOMAIN start.results \cup {k \in 1..n : Applies(cfg, active, modes, k)}
<1> DEFINE Handled(n) == {k \in 1..n : Applies(cfg, active, modes, k)}
           S == {n \in 0..N : DOMAIN c[n].results = DOMAIN start.results \cup Handled(n)}
<1>1. 0 \in S
    BY DEF EntriesOf
<1>2. ASSUME NEW n \in 0..(N - 1), n \in S PROVE n + 1 \in S
    <2>1. 1..(n + 1) = 1..n \cup {n + 1}
        OBVIOUS
    <2>2. CASE Applies(cfg, active, modes, n + 1)
        <3>1. DOMAIN c[n + 1].results = DOMAIN c[n].results \cup {n + 1}
            BY <2>2, EntryStep DEF EntriesOf
        <3>2. Handled(n + 1) = Handled(n) \cup {n + 1}
            BY <2>1, <2>2
        <3> HIDE DEF Handled
        <3> QED BY <1>2, <3>1, <3>2
    <2>3. CASE ~ Applies(cfg, active, modes, n + 1)
        <3>1. c[n + 1] = c[n]
            BY <2>3 DEF EntriesOf
        <3>2. Handled(n + 1) = Handled(n)
            BY <2>1, <2>3
        <3> HIDE DEF Handled
        <3> QED BY <1>2, <3>1, <3>2
    <2> QED BY <2>2, <2>3
<1>3. 0..N \subseteq S
    <2> HIDE DEF S
    <2> QED BY <1>1, <1>2, StepInduction
<1> QED BY <1>3

\* What entry j resolved to is what its name stands for.
Stands(cfg, st, j) ==
  j \in DOMAIN st.results /\ st.results[j] # {} =>
    cfg[j].name \in DOMAIN st.rvas /\ st.results[j] = {st.rvas[cfg[j].name]}

LEMMA EntryStands ==
  ASSUME NEW cfg, NEW code, NEW st, NEW j, Stands(cfg, st, j),
         NEW k, k = j \/ cfg[k].name # cfg[j].name
  PROVE  Stands(cfg, ResolveEntry(cfg, code, st, k), j)
<1> DEFINE new == ResolveEntry(cfg, code, st, k)
           found == Resolve(cfg[k], code, st.rvas)
<1>1. /\ DOMAIN new.results = DOMAIN st.results \cup {k}
      /\ new.results[k] = found
      /\ \A x \in DOMAIN st.results \ {k} : new.results[x] = st.results[x]
      /\ \A n \in DOMAIN st.rvas : n # cfg[k].name => n \in DOMAIN new.rvas /\ new.rvas[n] = st.rvas[n]
      /\ found # {} => cfg[k].name \in DOMAIN new.rvas /\ new.rvas[cfg[k].name] \in found
    BY EntryStep
<1>2. found # {} => found = {new.rvas[cfg[k].name]}
    BY <1>1, AtMostOne
<1> SUFFICES Stands(cfg, new, j)
    OBVIOUS
<1> HIDE DEF new, found
<1>3. CASE k = j
    <2>1. found # {} => cfg[j].name \in DOMAIN new.rvas /\ new.results[j] = {new.rvas[cfg[j].name]}
        BY <1>1, <1>2, <1>3
    <2> QED BY <1>1, <1>3, <2>1 DEF Stands
<1>4. CASE k # j /\ cfg[k].name # cfg[j].name
    <2>1. j \in DOMAIN new.results => j \in DOMAIN st.results /\ new.results[j] = st.results[j]
        BY <1>1, <1>4
    <2>2. cfg[j].name \in DOMAIN st.rvas =>
            cfg[j].name \in DOMAIN new.rvas /\ new.rvas[cfg[j].name] = st.rvas[cfg[j].name]
        BY <1>1, <1>4
    <2> QED BY <2>1, <2>2 DEF Stands
<1> QED BY <1>3, <1>4

LEMMA PassStands ==
  ASSUME NEW cfg, NEW active, NEW modes, NEW code, NEW start, NEW N \in Nat,
         NEW c, EntriesOf(c, cfg, active, modes, code, start, N), NEW j, Stands(cfg, start, j),
         \A k \in 1..N : Applies(cfg, active, modes, k) => k = j \/ cfg[k].name # cfg[j].name
  PROVE  \A n \in 0..N : Stands(cfg, c[n], j)
<1> DEFINE S == {n \in 0..N : Stands(cfg, c[n], j)}
<1>1. 0 \in S
    BY DEF EntriesOf
<1>2. ASSUME NEW n \in 0..(N - 1), n \in S PROVE n + 1 \in S
    <2>1. n + 1 \in 1..N /\ n + 1 \in 0..N
        OBVIOUS
    <2>2. CASE Applies(cfg, active, modes, n + 1)
        BY <1>2, <2>1, <2>2, EntryStands DEF EntriesOf
    <2>3. CASE ~ Applies(cfg, active, modes, n + 1)
        BY <1>2, <2>1, <2>3 DEF EntriesOf
    <2> QED BY <2>2, <2>3
<1>3. 0..N \subseteq S
    <2> HIDE DEF S
    <2> QED BY <1>1, <1>2, StepInduction
<1> QED BY <1>3

\* The field of a derived entry in its own module.
FieldOf(cfg, code, i) == scan_extract_u32(code[cfg[i].module], cfg[i].pattern, cfg[i].offset)

LEMMA DerivedStep ==
  ASSUME NEW cfg, NEW code, NEW st, NEW i, NEW j \in DOMAIN st.results, i # j,
         Stands(cfg, st, j), cfg[i].mode = "derived", cfg[i].from = cfg[j].name,
         cfg[i].module \in DOMAIN code, FieldOf(cfg, code, i) # 0, st.results[j] # {}
  PROVE  ResolveEntry(cfg, code, st, i).results[i]
           = {(rva + FieldOf(cfg, code, i)) % RvaModulus : rva \in st.results[j]}
<1>1. ResolveEntry(cfg, code, st, i).results[i] = Resolve(cfg[i], code, st.rvas)
    BY EntryStep
<1>2. cfg[i].from \in DOMAIN st.rvas /\ st.results[j] = {st.rvas[cfg[i].from]}
    BY DEF Stands
<1>3. Resolve(cfg[i], code, st.rvas) = {(st.rvas[cfg[i].from] + FieldOf(cfg, code, i)) % RvaModulus}
    <2>1. Resolve(cfg[i], code, st.rvas)
            = {(st.rvas[cfg[i].from] + f) % RvaModulus : f \in {FieldOf(cfg, code, i)} \ {0}}
        BY <1>2 DEF Resolve, FieldOf
    <2> QED BY <2>1
<1> QED BY <1>1, <1>2, <1>3

LEMMA DerivedFollow ==
  ASSUME NEW cfg, NEW active, NEW code, Len(cfg) \in Nat,
         NEW i \in DOMAIN resolve_all(cfg, active, code), NEW j \in DOMAIN resolve_all(cfg, active, code),
         cfg[i].mode = "derived", cfg[i].module \in DOMAIN code, cfg[i].from = cfg[j].name,
         cfg[j].mode = "derived" => j < i,
         \A k \in DOMAIN resolve_all(cfg, active, code) \ {j} : cfg[k].name # cfg[j].name,
         FieldOf(cfg, code, i) # 0, resolve_all(cfg, active, code)[j] # {}
  PROVE  resolve_all(cfg, active, code)[i]
           = {(rva + FieldOf(cfg, code, i)) % RvaModulus : rva \in resolve_all(cfg, active, code)[j]}
<1> DEFINE N == Len(cfg)
           own == Pass(cfg, active, {"rip"}, code, Unresolved)
           r == resolve_all(cfg, active, code)
<1>1. PICK a : EntriesOf(a, cfg, active, {"rip"}, code, Unresolved, N) /\ own = a[N]
    BY EntriesExist
<1>2. PICK d : EntriesOf(d, cfg, active, {"derived"}, code, own, N) /\ r = d[N].results
    <2>1. \E d : /\ EntriesOf(d, cfg, active, {"derived"}, code, own, N)
                 /\ Pass(cfg, active, {"derived"}, code, own) = d[N]
        <3> HIDE DEF own
        <3> QED BY EntriesExist
    <2> QED BY <2>1 DEF resolve_all
<1> HIDE DEF N, own, r
<1>3. N \in Nat /\ N \in 0..N /\ 0 \in 0..N
    BY DEF N
<1> DEFINE Rip == {k \in 1..N : Applies(cfg, active, {"rip"}, k)}
           Der == {k \in 1..N : Applies(cfg, active, {"derived"}, k)}
<1>4. DOMAIN own.results = Rip
    <2>1. DOMAIN Unresolved.results = {}
        BY DEF Unresolved
    <2>2. DOMAIN a[N].results = DOMAIN Unresolved.results \cup Rip
        BY <1>1, <1>3, PassResults
    <2> QED BY <1>1, <2>1, <2>2
<1>5. \A n \in 0..N : DOMAIN d[n].results = Rip \cup {k \in 1..n : Applies(cfg, active, {"derived"}, k)}
    BY <1>2, <1>3, <1>4, PassResults
<1>6. DOMAIN r = Rip \cup Der
    BY <1>2, <1>3, <1>5
<1>7. \A k \in Rip \cup Der : k = j \/ cfg[k].name # cfg[j].name
    BY <1>6 DEF r
<1>8. \A n \in 0..N : Stands(cfg, d[n], j)
    <2>1. Stands(cfg, Unresolved, j)
        BY DEF Stands, Unresolved
    <2>2. Stands(cfg, own, j)
        BY <1>1, <1>3, <1>7, <2>1, PassStands
    <2> QED BY <1>2, <1>3, <1>7, <2>2, PassStands
<1>9. i \in Der /\ i # j /\ (j \in Rip \/ j < i)
    BY <1>6 DEF r, Applies
<1> DEFINE Good(st) == st.results[j] # {} =>
             st.results[i] = {(rva + FieldOf(cfg, code, i)) % RvaModulus : rva \in st.results[j]}
           S == {n \in 0..N : i <= n => Good(d[n])}
<1>10. 0 \in S
    BY <1>3, <1>9
<1>11. ASSUME NEW n \in 0..(N - 1), n \in S PROVE n + 1 \in S
    <2> SUFFICES ASSUME i <= n + 1 PROVE Good(d[n + 1])
        BY <1>3
    <2>1. n \in 0..N /\ n + 1 \in 1..N /\ i \in 1..N
        BY <1>3, <1>9
    <2>2. i <= n => i \in DOMAIN d[n].results
        BY <1>5, <1>9, <2>1
    <2>3. j \in DOMAIN d[n].results
        BY <1>5, <1>6, <1>9, <2>1 DEF r
    <2>4. CASE i = n + 1
        <3> DEFINE new == ResolveEntry(cfg, code, d[n], i)
        <3>1. d[n + 1] = new
            BY <1>2, <1>9, <2>4 DEF EntriesOf
        <3>2. new.results[j] = d[n].results[j]
            BY <1>9, <2>3, EntryStep
        <3>3. d[n].results[j] # {} =>
                new.results[i] = {(rva + FieldOf(cfg, code, i)) % RvaModulus : rva \in d[n].results[j]}
            BY <1>8, <1>9, <2>1, <2>3, DerivedStep
        <3> HIDE DEF new
        <3> QED BY <3>1, <3>2, <3>3
    <2>5. CASE i # n + 1 /\ Applies(cfg, active, {"derived"}, n + 1)
        <3>1. i <= n /\ n + 1 # j
            BY <1>9, <2>1, <2>5 DEF Applies
        <3>2. d[n + 1] = ResolveEntry(cfg, code, d[n], n + 1)
            BY <1>2, <2>5 DEF EntriesOf
        <3>3. d[n + 1].results[i] = d[n].results[i] /\ d[n + 1].results[j] = d[n].results[j]
            BY <2>2, <2>3, <2>5, <3>1, <3>2, EntryStep
        <3> QED BY <1>11, <3>1, <3>3
    <2>6. CASE ~ Applies(cfg, active, {"derived"}, n + 1)
        <3>1. d[n + 1] = d[n]
            BY <1>2, <2>6 DEF EntriesOf
        <3>2. i <= n
            BY <1>9, <2>1, <2>6
        <3> QED BY <1>11, <3>1, <3>2
    <2> QED BY <2>4, <2>5, <2>6
<1>12. 0..N \subseteq S
    <2> HIDE DEF S
    <2> QED BY <1>3, <1>10, <1>11, StepInduction
<1>13. Good(d[N])
    BY <1>3, <1>9, <1>12
<1>14. r[j] # {}
    BY DEF r
<1> QED BY <1>2, <1>13, <1>14 DEF r

\* What DerivedFollowBase says of one pair of entries, of a config and the code.
FollowsBase(cfg, code, results, i, j) ==
  /\ cfg[i].mode = "derived" /\ cfg[i].module \in DOMAIN code
  /\ cfg[i].from = cfg[j].name /\ (cfg[j].mode = "derived" => j < i)
  /\ \A k \in DOMAIN results \ {j} : cfg[k].name # cfg[j].name
  /\ results[j] # {} /\ FieldOf(cfg, code, i) # 0
  => results[i] = {(rva + FieldOf(cfg, code, i)) % RvaModulus : rva \in results[j]}

CodeOf == [m \in LoadedNames |-> Loaded(m).code]

\* Nothing is resolved before the patterns are.
PatternsInv ==
  /\ game \in Games
  /\ phase \in {"schema", "rtti", "resolve", "patterns"} => patterns = << >>
  /\ \A i, j \in DOMAIN patterns : FollowsBase(game.config, CodeOf, patterns, i, j)

LEMMA PatternsInvInit == DumpInit => PatternsInv
BY DEF DumpInit, SchemaInit, PatternsInv

LEMMA PatternsFrame ==
  ASSUME PatternsInv, game' = game, patterns' = patterns,
         phase' \in {"schema", "rtti", "resolve", "patterns"} => patterns = << >>
  PROVE  PatternsInv'
<1>1. CodeOf' = CodeOf
    BY DEF CodeOf, Loaded, LoadedNames
<1> QED BY <1>1 DEF PatternsInv

LEMMA PatternsInvStep == PatternsInv /\ [DumpNext]_dumpVars => PatternsInv'
<1> SUFFICES ASSUME PatternsInv, [DumpNext]_dumpVars PROVE PatternsInv'
    OBVIOUS
<1>1. CASE PhaseSchema
    <2>1. patterns' = patterns /\ phase = "schema" /\ dump_all_modules
        BY <1>1 DEF PhaseSchema
    <2>2. game' = game
        BY <2>1, Zenon DEF dump_all_modules
    <2> QED BY <2>1, <2>2, PatternsFrame DEF PatternsInv
<1>2. CASE \E key \in unresolved : ResolveRtti(key)
    BY <1>2, PatternsFrame DEF PatternsInv, ResolveRtti
<1>3. CASE PhaseRtti
    BY <1>3, PatternsFrame DEF PatternsInv, PhaseRtti, schemaVars
<1>4. CASE PhaseGlobals
    BY <1>4, PatternsFrame DEF PatternsInv, PhaseGlobals, schemaVars
<1>5. CASE PhasePatterns
    <2>1. game' = game /\ phase' = "interfaces" /\ patterns' = resolve_all(game.config, game.name, CodeOf)
        BY <1>5 DEF PhasePatterns, schemaVars, CodeOf
    <2>2. game \in Games /\ Len(game.config) \in Nat
        BY RowsAssumption DEF PatternsInv, IsRow
    <2>3. CodeOf' = CodeOf
        BY <2>1 DEF CodeOf, Loaded, LoadedNames
    <2>4. ASSUME NEW i \in DOMAIN patterns', NEW j \in DOMAIN patterns'
          PROVE  FollowsBase(game.config, CodeOf, patterns', i, j)
        BY <2>1, <2>2, DerivedFollow DEF FollowsBase
    <2> QED BY <2>1, <2>2, <2>3, <2>4 DEF PatternsInv
<1>6. CASE PhaseReferences
    BY <1>6, PatternsFrame DEF PatternsInv, PhaseReferences, schemaVars
<1>7. CASE WriteExport
    BY <1>7, PatternsFrame DEF PatternsInv, WriteExport, schemaVars
<1>8. CASE UNCHANGED dumpVars
    BY <1>8, PatternsFrame DEF PatternsInv, dumpVars, schemaVars, workerVars
<1> QED BY <1>1, <1>2, <1>3, <1>4, <1>5, <1>6, <1>7, <1>8 DEF DumpNext

LEMMA PatternsInvImplies == PatternsInv => DerivedFollowBase
<1> SUFFICES ASSUME PatternsInv, NEW i \in DOMAIN patterns, NEW j \in DOMAIN patterns,
                    game.config[i].mode = "derived", game.config[i].module \in LoadedNames,
                    game.config[i].from = game.config[j].name,
                    game.config[j].mode = "derived" => j < i,
                    \A k \in DOMAIN patterns \ {j} : game.config[k].name # game.config[j].name,
                    patterns[j] # {},
                    scan_extract_u32(Loaded(game.config[i].module).code, game.config[i].pattern,
                                     game.config[i].offset) # 0
             PROVE  patterns[i]
                      = {(rva + scan_extract_u32(Loaded(game.config[i].module).code,
                                                 game.config[i].pattern, game.config[i].offset))
                           % RvaModulus : rva \in patterns[j]}
    BY Zenon DEF DerivedFollowBase
<1>1. FieldOf(game.config, CodeOf, i)
        = scan_extract_u32(Loaded(game.config[i].module).code, game.config[i].pattern,
                           game.config[i].offset)
    BY DEF FieldOf, CodeOf
<1>2. game.config[i].module \in DOMAIN CodeOf
    BY DEF CodeOf
<1> QED BY <1>1, <1>2 DEF PatternsInv, FollowsBase

\* Whatever the patterns.json and the code of the modules, a derived entry lies
\* at its field from what the entry it names was found at.
THEOREM DerivedAlwaysFollowBase == DumpSpec => []DerivedFollowBase
<1> QED BY PatternsInvInit, PatternsInvStep, PatternsInvImplies, PTL DEF DumpSpec
-----------------------------------------------------------------------------
(* What RTTI finds of a module lies in that module. *)

\* Every function of every vtable is one of the module.
InText(text, info) ==
  \A c \in DOMAIN info : /\ IsRow(info[c].funcs)
                         /\ \A k \in DOMAIN info[c].funcs : info[c].funcs[k] \in DOMAIN text

\* A module whose words of .rdata stand in a row and point at its own functions.
TextWords(text, img) ==
  IsRow(img.rdata) /\ \A w \in ToSet(img.rdata) : w.to = "text" => w.at \in DOMAIN text

LEMMA VtableInText ==
  ASSUME NEW text, NEW img, TextWords(text, img), NEW i \in 1..Len(img.rdata)
  PROVE  /\ IsRow(VtableFrom(img, i))
         /\ \A k \in DOMAIN VtableFrom(img, i) : VtableFrom(img, i)[k] \in DOMAIN text
<1> DEFINE N == Len(img.rdata)
           stops == {j \in (i + 1)..N : img.rdata[j].to # "text"}
           first == CHOOSE j \in stops : \A k \in stops : j <= k
           end == IF stops = {} THEN N ELSE first - 1
           upto == IF end - i < MAX_VTABLE_ENTRIES THEN end - i ELSE MAX_VTABLE_ENTRIES
<1>1. N \in Nat /\ DOMAIN img.rdata = 1..N
    BY DEF TextWords, IsRow
<1>2. stops # {} => first \in stops /\ \A k \in stops : first <= k
    <2>1. stops \in SUBSET Nat
        BY <1>1
    <2>2. stops # {} => \E j \in stops : \A k \in stops : j <= k
        <3> HIDE DEF stops
        <3> QED BY <2>1, LeastNat
    <2> QED BY <2>2
<1>3. end \in i..N /\ \A j \in (i + 1)..end : img.rdata[j].to = "text"
    <2>1. CASE stops = {}
        BY <1>1, <2>1
    <2>2. CASE stops # {}
        <3>1. first \in (i + 1)..N /\ \A k \in stops : first <= k
            BY <1>2, <2>2
        <3>2. end = first - 1
            BY <2>2
        <3> HIDE DEF first, end
        <3> QED BY <1>1, <3>1, <3>2
    <2> QED BY <2>1, <2>2
<1>4. VtableFrom(img, i) = [k \in 1..upto |-> img.rdata[i + k].at]
    BY DEF VtableFrom
<1>5. upto \in Nat /\ upto <= end - i
    <2> HIDE DEF end
    <2> QED BY <1>3, <1>1, LimitsAssumption
<1>6. \A k \in 1..upto : img.rdata[i + k].at \in DOMAIN text
    <2> HIDE DEF upto, end
    <2>1. ASSUME NEW k \in 1..upto PROVE i + k \in (i + 1)..end /\ i + k \in 1..N
        BY <1>1, <1>3, <1>5
    <2> QED BY <2>1, <1>1, <1>3 DEF TextWords, ToSet
<1> HIDE DEF upto
<1> QED BY <1>4, <1>5, <1>6 DEF IsRow

LEMMA InheritanceInText == ASSUME NEW text, NEW img PROVE InText(text, Inheritance(img))
<1>1. \A c \in DOMAIN Inheritance(img) : \E h : Inheritance(img)[c] = Hierarchy(img, h)
    BY DEF Inheritance
<1>2. \A h : Hierarchy(img, h).funcs = << >>
    BY DEF Hierarchy
<1>3. IsRow(<< >>) /\ DOMAIN << >> = {}
    BY DEF IsRow
<1> QED BY <1>1, <1>2, <1>3 DEF InText

\* Entries are records that have functions.
Infos(info) == \A c \in DOMAIN info : {"vtable", "funcs"} \subseteq DOMAIN info[c]

LEMMA WithVtableInText ==
  ASSUME NEW text, NEW img, TextWords(text, img), NEW i \in 1..Len(img.rdata),
         NEW info, Infos(info), InText(text, info)
  PROVE  Infos(WithVtable(img, info, i)) /\ InText(text, WithVtable(img, info, i))
<1> DEFINE class == TypeDescriptors(img)[img.cols[img.rdata[i].at].td]
           new == [info EXCEPT ![class].vtable = i + 1, ![class].funcs = VtableFrom(img, i)]
<1>1. WithVtable(img, info, i) \in {info, new} /\ (class \notin DOMAIN info => WithVtable(img, info, i) = info)
    BY DEF WithVtable
<1>2. CASE class \in DOMAIN info
    <2>1. /\ IsRow(VtableFrom(img, i))
          /\ \A k \in DOMAIN VtableFrom(img, i) : VtableFrom(img, i)[k] \in DOMAIN text
        BY VtableInText
    <2>2. /\ DOMAIN new = DOMAIN info
          /\ \A c \in DOMAIN info : c # class => new[c] = info[c]
          /\ new[class].funcs = VtableFrom(img, i) /\ DOMAIN new[class] = DOMAIN info[class]
        <3> HIDE DEF class
        <3> QED BY <1>2 DEF Infos
    <2>3. Infos(new) /\ InText(text, new)
        <3> HIDE DEF new, class
        <3> QED BY <2>1, <2>2 DEF Infos, InText
    <2> QED BY <1>1, <2>3
<1> QED BY <1>1, <1>2

\* h[0], h[1], ... are the entries behind the words of .rdata.
VtablesOf(h, img, n) ==
  /\ h[0] = Inheritance(img)
  /\ \A i \in 0..(n - 1) : h[i + 1] = IF PrimaryAt(img, i + 1) THEN WithVtable(img, h[i], i + 1) ELSE h[i]

LEMMA VtablesExist ==
  ASSUME NEW img, Len(img.rdata) \in Nat, img.sections
  PROVE  \E h : VtablesOf(h, img, Len(img.rdata)) /\ build_rtti_hierarchy(img) = h[Len(img.rdata)]
<1> DEFINE N == Len(img.rdata)
           Start == Inheritance(img)
           Step(x, i) == IF PrimaryAt(img, i) THEN WithVtable(img, x, i) ELSE x
           Is(g, n) == g = [i \in 0..n |-> IF i = 0 THEN Start ELSE Step(g[i - 1], i)]
           S == {n \in Nat : \E g : Is(g, n)}
           f == CHOOSE g : Is(g, N)
<1>1. N \in S
    <2> HIDE DEF Start, Step, N
    <2>1. 0 \in S
        <3>1. Is([i \in 0..0 |-> Start], 0)
            OBVIOUS
        <3> QED BY <3>1
    <2>2. ASSUME NEW n \in Nat, n \in S PROVE n + 1 \in S
        <3>1. PICK g : Is(g, n)
            BY <2>2
        <3> DEFINE h == [i \in 0..(n + 1) |-> IF i = n + 1 THEN Step(g[n], n + 1) ELSE g[i]]
        <3>2. Is(h, n + 1)
            BY <3>1
        <3> HIDE DEF h, Is
        <3> QED BY <3>2
    <2>3. Nat \subseteq S
        <3> HIDE DEF S
        <3> QED BY <2>1, <2>2, SetInduction
    <2> QED BY <2>3 DEF N
<1>2. Is(f, N)
    BY <1>1
<1>3. build_rtti_hierarchy(img) = f[N]
    BY DEF build_rtti_hierarchy
<1>4. VtablesOf(f, img, N)
    <2>1. f[0] = Start /\ \A i \in 0..(N - 1) : f[i + 1] = Step(f[i], i + 1)
        <3> HIDE DEF f, Start, Step, N
        <3> QED BY <1>2 DEF N
    <2> HIDE DEF f, N
    <2> QED BY <2>1 DEF VtablesOf
<1> QED BY <1>3, <1>4

LEMMA HierarchyInText ==
  ASSUME NEW text, NEW img, TextWords(text, img)
  PROVE  InText(text, build_rtti_hierarchy(img))
<1>1. Infos(Inheritance(img)) /\ InText(text, Inheritance(img))
    <2>1. \A c \in DOMAIN Inheritance(img) : \E h : Inheritance(img)[c] = Hierarchy(img, h)
        BY DEF Inheritance
    <2>2. \A h : {"vtable", "funcs"} \subseteq DOMAIN Hierarchy(img, h)
        BY DEF Hierarchy
    <2> QED BY <2>1, <2>2, InheritanceInText DEF Infos
<1>2. CASE img.sections
    <2> DEFINE N == Len(img.rdata)
    <2>1. N \in Nat
        BY DEF TextWords, IsRow
    <2>2. PICK h : VtablesOf(h, img, N) /\ build_rtti_hierarchy(img) = h[N]
        BY <1>2, <2>1, VtablesExist
    <2> DEFINE S == {i \in 0..N : Infos(h[i]) /\ InText(text, h[i])}
    <2>3. 0 \in S
        BY <1>1, <2>1, <2>2 DEF VtablesOf
    <2>4. ASSUME NEW i \in 0..(N - 1), i \in S PROVE i + 1 \in S
        <3>1. i + 1 \in 1..N /\ h[i + 1] \in {h[i], WithVtable(img, h[i], i + 1)}
            BY <2>1, <2>2 DEF VtablesOf
        <3> QED BY <2>4, <3>1, WithVtableInText
    <2>5. 0..N \subseteq S
        <3> HIDE DEF S, N
        <3> QED BY <2>1, <2>3, <2>4, StepInduction
    <2> QED BY <2>1, <2>2, <2>5
<1> QED BY <1>1, <1>2 DEF build_rtti_hierarchy

\* The map holds entries of loaded modules, whose functions are theirs.
OwnText(map) ==
  \A k \in DOMAIN map :
    /\ k[1] \in LoadedNames
    /\ IsRow(map[k].funcs)
    /\ \A i \in DOMAIN map[k].funcs : map[k].funcs[i] \in DOMAIN Loaded(k[1]).text

LEMMA LoadKeepsOwnText ==
  ASSUME game \in Games, NEW map, OwnText(map), NEW m \in LoadedNames PROVE OwnText(load_rtti(map, m))
<1> DEFINE info == build_rtti_hierarchy(Loaded(m).image)
<1>1. InText(Loaded(m).text, info)
    <2>1. TextWords(Loaded(m).text, Loaded(m).image)
        BY LoadedIs, RowsAssumption DEF TextWords
    <2> QED BY <2>1, HierarchyInText
<1>2. load_rtti(map, m) = [k \in DOMAIN map \cup {<<m, c>> : c \in DOMAIN info} |->
                             IF k \in DOMAIN map THEN map[k] ELSE info[k[2]]]
    BY DEF load_rtti
<1> HIDE DEF info
<1>3. \A c \in DOMAIN info : <<m, c>>[1] = m /\ <<m, c>>[2] = c
    OBVIOUS
<1> QED BY <1>1, <1>2, <1>3 DEF OwnText, InText

\* r[0], r[1], ... are the maps behind the module names in their order.
MapsOf(r, mods, n) ==
  /\ r[0] = m_rtti_map
  /\ \A i \in 0..(n - 1) :
       r[i + 1] = IF ModuleOrder[i + 1] \in mods THEN load_rtti(r[i], ModuleOrder[i + 1]) ELSE r[i]

LEMMA MapsExist ==
  ASSUME NEW mods PROVE \E r : MapsOf(r, mods, Len(ModuleOrder)) /\ RttiOf(mods) = r[Len(ModuleOrder)]
<1> DEFINE N == Len(ModuleOrder)
           Step(x, i) == IF ModuleOrder[i] \in mods THEN load_rtti(x, ModuleOrder[i]) ELSE x
           Is(g, n) == g = [i \in 0..n |-> IF i = 0 THEN m_rtti_map ELSE Step(g[i - 1], i)]
           S == {n \in Nat : \E g : Is(g, n)}
           f == CHOOSE g : Is(g, N)
<1>1. N \in S
    <2> HIDE DEF Step, N
    <2>1. 0 \in S
        <3>1. Is([i \in 0..0 |-> m_rtti_map], 0)
            OBVIOUS
        <3> QED BY <3>1
    <2>2. ASSUME NEW n \in Nat, n \in S PROVE n + 1 \in S
        <3>1. PICK g : Is(g, n)
            BY <2>2
        <3> DEFINE h == [i \in 0..(n + 1) |-> IF i = n + 1 THEN Step(g[n], n + 1) ELSE g[i]]
        <3>2. Is(h, n + 1)
            BY <3>1
        <3> HIDE DEF h, Is
        <3> QED BY <3>2
    <2>3. Nat \subseteq S
        <3> HIDE DEF S
        <3> QED BY <2>1, <2>2, SetInduction
    <2> QED BY <2>3, OrderAssumption DEF N, IsRow
<1>2. Is(f, N)
    BY <1>1
<1>3. RttiOf(mods) = f[N]
    BY DEF RttiOf
<1>4. MapsOf(f, mods, N)
    <2>1. N \in Nat
        BY OrderAssumption DEF IsRow
    <2> HIDE DEF f, N
    <2> QED BY <1>2, <2>1 DEF MapsOf
<1> QED BY <1>3, <1>4

LEMMA RttiKeepsOwnText ==
  ASSUME game \in Games, OwnText(m_rtti_map), NEW mods \in SUBSET LoadedNames PROVE OwnText(RttiOf(mods))
<1> DEFINE N == Len(ModuleOrder)
<1>1. PICK r : MapsOf(r, mods, N) /\ RttiOf(mods) = r[N]
    BY MapsExist
<1> DEFINE S == {i \in 0..N : OwnText(r[i])}
<1>2. N \in Nat
    BY OrderAssumption DEF IsRow
<1>3. 0 \in S
    BY <1>1, <1>2 DEF MapsOf
<1>4. ASSUME NEW i \in 0..(N - 1), i \in S PROVE i + 1 \in S
    <2>1. /\ i + 1 \in 0..N
          /\ \/ r[i + 1] = r[i]
             \/ ModuleOrder[i + 1] \in LoadedNames /\ r[i + 1] = load_rtti(r[i], ModuleOrder[i + 1])
        BY <1>1, <1>2 DEF MapsOf
    <2> QED BY <1>4, <2>1, LoadKeepsOwnText
<1>5. 0..N \subseteq S
    <2> HIDE DEF S, N
    <2> QED BY <1>2, <1>3, <1>4, StepInduction
<1> QED BY <1>1, <1>2, <1>5

-----------------------------------------------------------------------------
(* The export file. *)

\* Every module stands in it once, and the functions of its vtables are its own.
Exported(mods) ==
  /\ \E n \in Nat : DOMAIN mods = 1..n
  /\ \A i, j \in DOMAIN mods : mods[i].name = mods[j].name => i = j
  /\ \A i \in DOMAIN mods : \A v \in mods[i].vtables : \A k \in DOMAIN v.functions :
       /\ mods[i].name \in LoadedNames
       /\ \E f \in DOMAIN Loaded(mods[i].name).text : v.functions[k] = BodyOf(mods[i].name, f)

ExportInv ==
  /\ game \in Games
  /\ OnceEach(m_dumped_modules, LoadedNames)
  /\ OwnText(m_rtti_map)
  /\ phase # "done" => export = << >>
  /\ export # << >> => Exported(export.modules)

LEMMA LoadedAreFinite == ASSUME game \in Games PROVE IsFiniteSet(LoadedNames)
<1> DEFINE n == Len(game.loaded)
           f == [i \in 1..n |-> game.loaded[i].name]
<1>1. n \in Nat /\ DOMAIN game.loaded = 1..n
    BY GamesAssumption DEF IsRow
<1>2. IsFiniteSet(1..n)
    BY <1>1, FS_Interval
<1>3. f \in Surjection(1..n, LoadedNames)
    BY <1>1 DEF Surjection, LoadedNames
<1> QED BY <1>2, <1>3, FS_Surjection

LEMMA NamesOnce ==
  ASSUME game \in Games, OnceEach(m_dumped_modules, LoadedNames), OwnText(m_rtti_map),
         NEW names \in ExportModules
  PROVE  OnceEach(names, LoadedNames) /\ (m_dumped_modules # << >> => 1 \in DOMAIN names)
<1> DEFINE D == m_dumped_modules
           R == {k[1] : k \in DOMAIN m_rtti_map} \ ToSet(D)
<1>1. PICK rest \in SetToSeqs(R) : names = D \o rest
    BY DEF ExportModules
<1>2. R \in SUBSET LoadedNames
    BY DEF OwnText
<1> HIDE DEF R
<1>3. Cardinality(R) \in Nat
    BY <1>2, LoadedAreFinite, FS_Subset, FS_CardinalityType
<1>4. rest \in [1..Cardinality(R) -> R] /\ \A i, j \in 1..Cardinality(R) : i # j => rest[i] # rest[j]
    BY <1>1 DEF SetToSeqs
<1>5. rest \in Seq(LoadedNames) /\ Len(rest) = Cardinality(R)
    BY <1>2, <1>3, <1>4
<1>6. D \in Seq(LoadedNames) /\ \A i, j \in DOMAIN D : D[i] = D[j] => i = j
    BY DEF OnceEach
<1> HIDE DEF D
<1>7. /\ names \in Seq(LoadedNames) /\ Len(names) = Len(D) + Len(rest)
      /\ \A i \in 1..(Len(D) + Len(rest)) : names[i] = IF i <= Len(D) THEN D[i] ELSE rest[i - Len(D)]
    <2>1. rest \in Seq(LoadedNames) /\ D \in Seq(LoadedNames) /\ names = D \o rest
        BY <1>1, <1>5, <1>6
    <2>2. /\ D \o rest \in Seq(LoadedNames)
          /\ Len(D \o rest) = Len(D) + Len(rest)
          /\ \A i \in 1..Len(D) + Len(rest) :
               (D \o rest)[i] = IF i <= Len(D) THEN D[i] ELSE rest[i - Len(D)]
        BY <2>1, ConcatProperties, Zenon
    <2> QED BY <2>1, <2>2
<1>8. \A i \in 1..Len(D), j \in 1..Len(rest) : D[i] # rest[j]
    <2>1. \A j \in 1..Len(rest) : rest[j] \notin ToSet(D)
        BY <1>3, <1>4, <1>5 DEF R
    <2>2. \A i \in 1..Len(D) : D[i] \in ToSet(D)
        BY <1>6 DEF ToSet
    <2> QED BY <2>1, <2>2
<1>9. ASSUME NEW i \in DOMAIN names, NEW j \in DOMAIN names, names[i] = names[j] PROVE i = j
    <2>1. /\ Len(D) \in Nat /\ Len(rest) \in Nat /\ DOMAIN D = 1..Len(D)
          /\ i \in 1..(Len(D) + Len(rest)) /\ j \in 1..(Len(D) + Len(rest))
        BY <1>3, <1>5, <1>6, <1>7
    <2>2. CASE i <= Len(D) /\ j <= Len(D)
        BY <1>6, <1>7, <1>9, <2>1, <2>2
    <2>3. CASE i <= Len(D) /\ j > Len(D)
        <3>1. names[i] = D[i] /\ names[j] = rest[j - Len(D)] /\ i \in 1..Len(D) /\ j - Len(D) \in 1..Len(rest)
            BY <1>7, <2>1, <2>3
        <3> QED BY <1>8, <1>9, <3>1
    <2>4. CASE i > Len(D) /\ j <= Len(D)
        <3>1. names[j] = D[j] /\ names[i] = rest[i - Len(D)] /\ j \in 1..Len(D) /\ i - Len(D) \in 1..Len(rest)
            BY <1>7, <2>1, <2>4
        <3> QED BY <1>8, <1>9, <3>1
    <2>5. CASE i > Len(D) /\ j > Len(D)
        <3>1. /\ names[i] = rest[i - Len(D)] /\ names[j] = rest[j - Len(D)]
              /\ i - Len(D) \in 1..Cardinality(R) /\ j - Len(D) \in 1..Cardinality(R)
            BY <1>5, <1>7, <2>1, <2>5
        <3>2. i - Len(D) = j - Len(D)
            BY <1>4, <1>9, <3>1
        <3> QED BY <2>1, <3>2
    <2> QED BY <2>1, <2>2, <2>3, <2>4, <2>5
<1>10. ASSUME D # << >> PROVE 1 \in DOMAIN names
    <2>1. Len(D) \in Nat /\ Len(D) # 0 /\ Len(rest) \in Nat
        BY <1>3, <1>5, <1>6, <1>10
    <2> QED BY <1>7, <2>1
<1> QED BY <1>7, <1>9, <1>10 DEF OnceEach, D

LEMMA VtablesAreOwn ==
  ASSUME OwnText(m_rtti_map), NEW m, NEW v \in ExportVtables(m), NEW k \in DOMAIN v.functions
  PROVE  m \in LoadedNames /\ \E f \in DOMAIN Loaded(m).text : v.functions[k] = BodyOf(m, f)
<1>1. PICK x \in DOMAIN m_rtti_map :
         /\ x[1] = m
         /\ v = [class |-> x[2], vtable |-> m_rtti_map[x].vtable,
                 functions |-> [i \in DOMAIN m_rtti_map[x].funcs |-> BodyOf(m, m_rtti_map[x].funcs[i])]]
    BY DEF ExportVtables
<1>2. k \in DOMAIN m_rtti_map[x].funcs /\ v.functions[k] = BodyOf(m, m_rtti_map[x].funcs[k])
    BY <1>1
<1>3. m \in LoadedNames /\ m_rtti_map[x].funcs[k] \in DOMAIN Loaded(m).text
    BY <1>1, <1>2 DEF OwnText
<1> QED BY <1>2, <1>3

LEMMA ExportInvInit == DumpInit => ExportInv
<1> SUFFICES ASSUME DumpInit PROVE ExportInv
    OBVIOUS
<1>1. OnceEach(<< >>, LoadedNames)
    <2>1. << >> \in Seq(LoadedNames) /\ DOMAIN << >> = {}
        OBVIOUS
    <2> QED BY <2>1, Zenon DEF OnceEach
<1>2. OwnText(<< >>)
    BY DEF OwnText
<1> QED BY <1>1, <1>2 DEF DumpInit, SchemaInit, ExportInv

LEMMA ExportFrame ==
  ASSUME ExportInv, UNCHANGED <<game, m_dumped_modules, m_rtti_map, export>>, phase # "done" \/ phase' = phase
  PROVE  ExportInv'
<1>1. LoadedNames' = LoadedNames /\ \A m : Loaded(m)' = Loaded(m)
    BY DEF LoadedNames, Loaded
<1>2. \A m, f : BodyOf(m, f)' = BodyOf(m, f)
    BY <1>1 DEF BodyOf
<1> QED BY <1>1, <1>2 DEF ExportInv, OwnText, Exported

LEMMA ExportInvStep == ExportInv /\ [DumpNext]_dumpVars => ExportInv'
<1> SUFFICES ASSUME ExportInv, [DumpNext]_dumpVars PROVE ExportInv'
    OBVIOUS
<1>1. CASE PhaseSchema
    <2>1. /\ UNCHANGED <<m_rtti_map, export>> /\ phase = "schema" /\ dump_all_modules
        BY <1>1 DEF PhaseSchema
    <2>2. game' = game /\ \E S \in SUBSET LoadedNames : m_dumped_modules' = InModuleOrder(S)
        BY <2>1, Zenon DEF dump_all_modules, LoadedNames
    <2>3. OnceEach(m_dumped_modules', LoadedNames)
        <3>1. PICK S \in SUBSET LoadedNames : m_dumped_modules' = InModuleOrder(S)
            BY <2>2
        <3>2. OnceEach(InModuleOrder(S), S)
            BY OrderAssumption, KeptOnceEach DEF InModuleOrder
        <3> QED BY <3>1, <3>2 DEF OnceEach
    <2>4. LoadedNames' = LoadedNames /\ \A m : Loaded(m)' = Loaded(m)
        BY <2>2 DEF LoadedNames, Loaded
    <2> QED BY <2>1, <2>2, <2>3, <2>4 DEF ExportInv, OwnText
<1>2. CASE \E key \in unresolved : ResolveRtti(key)
    BY <1>2, ExportFrame DEF ResolveRtti
<1>3. CASE PhaseRtti
    <2>1. PICK seen \in SeenBy(LoadedNames) :
             m_rtti_map' = RttiOf(ToSet(m_dumped_modules) \cup Interesting(seen))
        BY <1>3 DEF PhaseRtti
    <2>2. UNCHANGED <<game, m_dumped_modules, export>> /\ phase = "rtti" /\ phase' = "resolve"
        BY <1>3 DEF PhaseRtti, schemaVars
    <2>3. ToSet(m_dumped_modules) \in SUBSET LoadedNames
        BY DEF ExportInv, OnceEach, ToSet
    <2>4. Interesting(seen) \in SUBSET LoadedNames
        BY DEF Interesting, SeenBy, LoadedNames
    <2>5. OwnText(m_rtti_map')
        BY <2>1, <2>3, <2>4, RttiKeepsOwnText DEF ExportInv
    <2>6. LoadedNames' = LoadedNames /\ \A m : Loaded(m)' = Loaded(m)
        BY <2>2 DEF LoadedNames, Loaded
    <2> QED BY <2>2, <2>5, <2>6 DEF ExportInv, OwnText
<1>4. CASE PhaseGlobals
    BY <1>4, ExportFrame DEF PhaseGlobals, schemaVars
<1>5. CASE PhasePatterns
    BY <1>5, ExportFrame DEF PhasePatterns, schemaVars
<1>6. CASE PhaseReferences
    BY <1>6, ExportFrame DEF PhaseReferences, schemaVars
<1>7. CASE WriteExport
    <2>0. PICK first \in MetFirst, order \in SetToSeqs(DOMAIN m_cache), names \in ExportModules :
             export'.modules = [i \in DOMAIN names |-> ExportModule(first, order, names[i])]
        BY <1>7 DEF WriteExport
    <2>1. /\ DOMAIN export'.modules = DOMAIN names
          /\ \A i \in DOMAIN names : /\ export'.modules[i].name = names[i]
                                     /\ export'.modules[i].vtables = ExportVtables(names[i])
        <3>1. \A m : /\ ExportModule(first, order, m).name = m
                     /\ ExportModule(first, order, m).vtables = ExportVtables(m)
            BY DEF ExportModule
        <3> QED BY <2>0, <3>1
    <2>2. UNCHANGED <<game, m_dumped_modules, m_rtti_map>> /\ phase' = "done"
        BY <1>7 DEF WriteExport, schemaVars
    <2>3. OnceEach(names, LoadedNames)
        BY NamesOnce DEF ExportInv
    <2>4. Exported(export'.modules)
        <3>1. \A i, j \in DOMAIN export'.modules :
                 export'.modules[i].name = export'.modules[j].name => i = j
            BY <2>1, <2>3 DEF OnceEach
        <3>2. ASSUME NEW i \in DOMAIN export'.modules, NEW v \in export'.modules[i].vtables,
                     NEW k \in DOMAIN v.functions
              PROVE  /\ export'.modules[i].name \in LoadedNames
                     /\ \E f \in DOMAIN Loaded(export'.modules[i].name).text :
                          v.functions[k] = BodyOf(export'.modules[i].name, f)
            BY <2>1, <3>2, VtablesAreOwn DEF ExportInv
        <3>3. \E n \in Nat : DOMAIN export'.modules = 1..n
            BY <2>1, <2>3 DEF OnceEach
        <3> QED BY <3>1, <3>2, <3>3 DEF Exported
    <2>5. LoadedNames' = LoadedNames /\ \A m : Loaded(m)' = Loaded(m)
        BY <2>2 DEF LoadedNames, Loaded
    <2>6. \A m, f : BodyOf(m, f)' = BodyOf(m, f)
        BY <2>5 DEF BodyOf
    <2>7. Exported(export.modules)'
        BY <2>4, <2>5, <2>6 DEF Exported
    <2> QED BY <2>2, <2>5, <2>7 DEF ExportInv, OwnText
<1>8. CASE UNCHANGED dumpVars
    BY <1>8, ExportFrame DEF dumpVars, schemaVars, workerVars
<1> QED BY <1>1, <1>2, <1>3, <1>4, <1>5, <1>6, <1>7, <1>8 DEF DumpNext

-----------------------------------------------------------------------------
(* What the cache holds from phase 1 on, what find_class adds included. *)

Taken(cache) ==
  \A k \in DOMAIN cache :
    /\ cache[k].info \in ClassInfos /\ cache[k] = resolve_class(cache[k].info)
    /\ k = <<k[1], game.infos[cache[k].info].name>> /\ k[1] \in LoadedNames

CachedInv ==
  /\ phase = "schema" => m_cache = << >>
  /\ Taken(m_cache)

LEMMA EmplaceTaken ==
  ASSUME NEW cache, Taken(cache), NEW m \in LoadedNames, NEW T, T \subseteq ClassInfos
  PROVE  Taken(Emplace(cache, m, {resolve_class(e) : e \in T}))
<1> DEFINE found == {resolve_class(e) : e \in T}
           new == Emplace(cache, m, found)
<1>1. \A k \in DOMAIN cache : new[k] = cache[k]
    BY DEF Emplace
<1>2. ASSUME NEW k \in DOMAIN new \ DOMAIN cache
      PROVE  /\ new[k].info \in ClassInfos /\ new[k] = resolve_class(new[k].info)
             /\ k = <<k[1], game.infos[new[k].info].name>> /\ k[1] \in LoadedNames
    <2>1. PICK r \in found : k = <<m, r.name>> /\ new[k].name = r.name /\ new[k] \in found
        BY EmplaceKeeps
    <2>2. PICK e \in T : new[k] = resolve_class(e)
        BY <2>1
    <2>3. k = <<m, game.infos[e].name>> /\ new[k].info = e
        BY <2>1, <2>2, ResolvedClass
    <2> QED BY <2>2, <2>3
<1> QED BY <1>1, <1>2 DEF Taken

LEMMA FindTakes ==
  ASSUME CachedInv, NEW m \in LoadedNames, NEW name, find_class(m, name), game' = game, phase' # "schema"
  PROVE  CachedInv'
<1>1. CASE m_cache' = m_cache
    BY <1>1, ReadStays DEF CachedInv, Taken
<1>2. ASSUME NEW e \in Declared(m, name), m_cache' = Emplace(m_cache, m, {resolve_class(e)}) PROVE CachedInv'
    <2>1. e \in ClassInfos
        BY DEF Declared
    <2>2. {resolve_class(e)} = {resolve_class(x) : x \in {e}}
        OBVIOUS
    <2>3. Taken(Emplace(m_cache, m, {resolve_class(x) : x \in {e}}))
        BY <2>1, EmplaceTaken DEF CachedInv
    <2>4. Taken(m_cache')
        BY <1>2, <2>2, <2>3
    <2> QED BY <2>4, ReadStays DEF CachedInv, Taken
<1> QED BY <1>1, <1>2 DEF find_class

LEMMA CachedInvInit == DumpInit => CachedInv
BY DEF DumpInit, SchemaInit, CachedInv, Taken

LEMMA CachedInvStep == ExportInv /\ CachedInv /\ [DumpNext]_dumpVars => CachedInv'
<1> SUFFICES ASSUME ExportInv, CachedInv, [DumpNext]_dumpVars PROVE CachedInv'
    OBVIOUS
<1>1. CASE PhaseSchema
    <2>1. phase = "schema" /\ dump_all_modules /\ phase' # "schema"
        BY <1>1 DEF PhaseSchema
    <2>2. game' = game /\ m_cache' = ClassesUpTo(Len(game.loaded))
        BY <2>1, Zenon DEF dump_all_modules
    <2>3. Len(game.loaded) \in 0..Len(game.loaded) /\ m_cache = << >> /\ game \in Games
        BY <2>1, GamesAssumption DEF ExportInv, CachedInv, IsRow
    <2>4. Sound(m_cache') /\ OfLoaded(m_cache')
        BY <2>2, <2>3, ModulesAreClosed
    <2>5. Taken(m_cache')
        BY <2>4 DEF Sound, OfLoaded, Taken
    <2> QED BY <2>1, <2>2, <2>5, ReadStays DEF CachedInv, Taken
<1>2. ASSUME NEW key \in unresolved, ResolveRtti(key) PROVE CachedInv'
    <2> DEFINE found == Kept(m_dumped_modules, {m \in LoadedNames : Finds(m, key[2])})
    <2>1. /\ game' = game /\ phase' # "schema"
          /\ IF found = << >> THEN UNCHANGED m_cache ELSE find_class(found[1], key[2])
        BY <1>2 DEF ResolveRtti
    <2>2. CASE m_cache' = m_cache
        BY <2>1, <2>2, ReadStays DEF CachedInv, Taken
    <2>3. CASE found # << >> /\ find_class(found[1], key[2])
        <3>1. OnceEach(found, {m \in LoadedNames : Finds(m, key[2])})
            <4>1. IsRow(m_dumped_modules) /\ \A i, j \in DOMAIN m_dumped_modules :
                                               m_dumped_modules[i] = m_dumped_modules[j] => i = j
                BY DEF ExportInv, OnceEach, IsRow
            <4> QED BY <4>1, KeptOnceEach
        <3>2. found[1] \in LoadedNames
            BY <2>3, <3>1 DEF OnceEach
        <3> HIDE DEF found
        <3> QED BY <2>1, <2>3, <3>2, FindTakes
    <2> QED BY <2>1, <2>2, <2>3
<1>3. ASSUME UNCHANGED <<game, m_cache>>, phase' # "schema" \/ phase' = phase PROVE CachedInv'
    BY <1>3, ReadStays DEF CachedInv, Taken
<1>4. CASE PhaseRtti
    BY <1>3, <1>4 DEF PhaseRtti, schemaVars
<1>5. CASE PhaseGlobals
    BY <1>3, <1>5 DEF PhaseGlobals, schemaVars
<1>6. CASE PhasePatterns
    BY <1>3, <1>6 DEF PhasePatterns, schemaVars
<1>7. CASE PhaseReferences
    BY <1>3, <1>7 DEF PhaseReferences, schemaVars
<1>8. CASE WriteExport
    BY <1>3, <1>8 DEF WriteExport, schemaVars
<1>9. CASE UNCHANGED dumpVars
    BY <1>3, <1>9 DEF dumpVars, schemaVars, workerVars
<1> QED BY <1>1, <1>2, <1>4, <1>5, <1>6, <1>7, <1>8, <1>9 DEF DumpNext

\* A class of the export shows what the schema says of e.
IsClass(c, e) ==
  /\ c.name = game.infos[e].name /\ c.info = e
  /\ c.size = game.infos[e].size /\ c.fields = NamedOnly(game.infos[e].fields)

\* The classes of a module stand in a row, each of a name of its own.
ClassRow(classes) ==
  /\ IsRow(classes)
  /\ \A j, k \in DOMAIN classes : classes[j].name = classes[k].name => j = k
  /\ \A j \in DOMAIN classes : \E e \in ClassInfos : IsClass(classes[j], e)

ClassRows(mods) == \A i \in DOMAIN mods : ClassRow(mods[i].classes)

ClassesInv ==
  /\ phase # "done" => export = << >>
  /\ export # << >> => ClassRows(export.modules)

LEMMA CacheIsFinite == ASSUME game \in Games, Taken(m_cache) PROVE IsFiniteSet(DOMAIN m_cache)
<1> DEFINE E == DOMAIN game.infos
           N == {game.infos[e].name : e \in E}
           f == [e \in E |-> game.infos[e].name]
<1>1. IsFiniteSet(E) /\ IsFiniteSet(LoadedNames)
    BY GamesAssumption, LoadedAreFinite
<1>2. f \in Surjection(E, N)
    BY DEF Surjection
<1>3. IsFiniteSet(N)
    <2> HIDE DEF N, E, f
    <2> QED BY <1>1, <1>2, FS_Surjection
<1>4. IsFiniteSet(LoadedNames \X N)
    <2> HIDE DEF N
    <2> QED BY <1>1, <1>3, FS_Product
<1>5. DOMAIN m_cache \subseteq LoadedNames \X N
    BY DEF Taken, ClassInfos
<1> HIDE DEF N
<1> QED BY <1>4, <1>5, FS_Subset

LEMMA ExportClassIs ==
  ASSUME Taken(m_cache), NEW k \in DOMAIN m_cache, NEW entry
  PROVE  \E e \in ClassInfos : IsClass(ExportClass(k, entry), e) /\ k = <<k[1], ExportClass(k, entry).name>>
<1> DEFINE e == m_cache[k].info
           c == ExportClass(k, entry)
<1>1. e \in ClassInfos /\ m_cache[k] = resolve_class(e) /\ k = <<k[1], game.infos[e].name>>
    BY DEF Taken
<1>2. /\ c.name = m_cache[k].name /\ c.info = m_cache[k].info
      /\ c.size = m_cache[k].size /\ c.fields = m_cache[k].fields
    BY DEF ExportClass
<1>3. /\ resolve_class(e).name = game.infos[e].name /\ resolve_class(e).info = e
      /\ resolve_class(e).size = game.infos[e].size /\ resolve_class(e).fields = NamedOnly(game.infos[e].fields)
    BY DEF resolve_class
<1> HIDE DEF e, c
<1>4. IsClass(c, e) /\ k = <<k[1], c.name>>
    BY <1>1, <1>2, <1>3 DEF IsClass
<1> QED BY <1>1, <1>4 DEF c

LEMMA ExportModuleRow ==
  ASSUME game \in Games, Taken(m_cache), NEW first, NEW order \in SetToSeqs(DOMAIN m_cache), NEW m
  PROVE  ClassRow(ExportModule(first, order, m).classes)
<1> DEFINE D == DOMAIN m_cache
           S == {k \in D : k[1] = m}
           keys == Kept(order, S)
           classes == [j \in DOMAIN keys |-> ExportClass(keys[j], get_inheritance(first, keys[j]))]
<1>1. ExportModule(first, order, m).classes = classes
    BY DEF ExportModule
<1>2. IsRow(order) /\ \A i, j \in DOMAIN order : order[i] = order[j] => i = j
    <2>1. Cardinality(D) \in Nat
        BY CacheIsFinite, FS_CardinalityType
    <2>2. order \in [1..Cardinality(D) -> D] /\ \A i, j \in 1..Cardinality(D) : i # j => order[i] # order[j]
        BY DEF SetToSeqs
    <2> HIDE DEF D
    <2> QED BY <2>1, <2>2 DEF IsRow
<1>3. OnceEach(keys, S)
    <2> HIDE DEF S
    <2> QED BY <1>2, KeptOnceEach
<1>4. keys \in Seq(S) /\ \A i, j \in DOMAIN keys : keys[i] = keys[j] => i = j
    BY <1>3, Zenon DEF OnceEach
<1> HIDE DEF keys
<1>5. /\ Len(keys) \in Nat /\ DOMAIN keys = 1..Len(keys)
      /\ \A j \in DOMAIN keys : keys[j] \in D /\ keys[j][1] = m
    BY <1>4
<1>6. IsRow(classes) /\ DOMAIN classes = DOMAIN keys
    BY <1>5 DEF IsRow
<1>7. \A j \in DOMAIN keys : /\ \E e \in ClassInfos : IsClass(classes[j], e)
                             /\ keys[j] = <<m, classes[j].name>>
    <2> SUFFICES ASSUME NEW j \in DOMAIN keys
                 PROVE  /\ \E e \in ClassInfos : IsClass(classes[j], e)
                        /\ keys[j] = <<m, classes[j].name>>
        OBVIOUS
    <2>1. classes[j] = ExportClass(keys[j], get_inheritance(first, keys[j])) /\ keys[j] \in D /\ keys[j][1] = m
        BY <1>5
    <2>2. PICK e \in ClassInfos : /\ IsClass(classes[j], e)
                                  /\ keys[j] = <<keys[j][1], classes[j].name>>
        BY <2>1, ExportClassIs
    <2> HIDE DEF classes
    <2> QED BY <2>1, <2>2
<1> HIDE DEF classes
<1>8. \A i, j \in DOMAIN classes : classes[i].name = classes[j].name => i = j
    BY <1>4, <1>6, <1>7
<1>9. ClassRow(classes)
    BY <1>6, <1>7, <1>8 DEF ClassRow
<1> QED BY <1>1, <1>9

LEMMA ClassesInvInit == DumpInit => ClassesInv
BY DEF DumpInit, ClassesInv

\* A row of classes stays one while the game does.
LEMMA RowStays ==
  ASSUME game' = game
  PROVE  /\ ClassInfos' = ClassInfos
         /\ \A c, e : IsClass(c, e)' = IsClass(c, e)
<1>1. \A c, e : IsClass(c, e)' = IsClass(c, e)
    BY DEF IsClass
<1> QED BY <1>1, ReadStays

LEMMA ClassesInvStep == ExportInv /\ CachedInv /\ ClassesInv /\ [DumpNext]_dumpVars => ClassesInv'
<1> SUFFICES ASSUME ExportInv, CachedInv, ClassesInv, [DumpNext]_dumpVars PROVE ClassesInv'
    OBVIOUS
<1>1. ASSUME UNCHANGED <<game, export>>, phase # "done" \/ phase' = phase PROVE ClassesInv'
    BY <1>1, RowStays DEF ClassesInv, ClassRows, ClassRow
<1>2. CASE PhaseSchema
    <2>1. phase = "schema" /\ export' = export /\ dump_all_modules
        BY <1>2 DEF PhaseSchema
    <2>2. game' = game
        BY <2>1, Zenon DEF dump_all_modules
    <2> QED BY <1>1, <2>1, <2>2
<1>3. ASSUME NEW key \in unresolved, ResolveRtti(key) PROVE ClassesInv'
    BY <1>1, <1>3 DEF ResolveRtti
<1>4. CASE PhaseRtti
    BY <1>1, <1>4 DEF PhaseRtti, schemaVars
<1>5. CASE PhaseGlobals
    BY <1>1, <1>5 DEF PhaseGlobals, schemaVars
<1>6. CASE PhasePatterns
    BY <1>1, <1>6 DEF PhasePatterns, schemaVars
<1>7. CASE PhaseReferences
    BY <1>1, <1>7 DEF PhaseReferences, schemaVars
<1>8. CASE WriteExport
    <2>1. PICK first \in MetFirst, order \in SetToSeqs(DOMAIN m_cache), names \in ExportModules :
             export'.modules = [i \in DOMAIN names |-> ExportModule(first, order, names[i])]
        BY <1>8 DEF WriteExport
    <2>2. game' = game /\ phase' = "done" /\ game \in Games /\ Taken(m_cache)
        BY <1>8 DEF WriteExport, schemaVars, ExportInv, CachedInv
    <2>3. \A i \in DOMAIN names : ClassRow(ExportModule(first, order, names[i]).classes)
        BY <2>2, ExportModuleRow
    <2>4. ClassRows(export'.modules)
        BY <2>1, <2>3 DEF ClassRows
    <2> QED BY <2>2, <2>4, RowStays DEF ClassesInv, ClassRows, ClassRow
<1>9. CASE UNCHANGED dumpVars
    BY <1>1, <1>9 DEF dumpVars, schemaVars, workerVars
<1> QED BY <1>2, <1>3, <1>4, <1>5, <1>6, <1>7, <1>8, <1>9 DEF DumpNext

-----------------------------------------------------------------------------
(* What RTTI yields is what was declared. *)

\* w[0], w[1], ... are the walks that go one, two, ... classes deep.
WalkOf(w, decl, n) ==
  /\ w[0] = [c \in DOMAIN decl |-> <<c>>]
  /\ \A k \in 0..(n - 1) :
       w[k + 1] = [c \in DOMAIN decl |->
                     <<c>> \o Joined([i \in DOMAIN decl[c].bases |-> w[k][decl[c].bases[i]]])]

LEMMA WalkExists ==
  ASSUME NEW decl, Cardinality(DOMAIN decl) \in Nat
  PROVE  \E w : /\ WalkOf(w, decl, Cardinality(DOMAIN decl))
                /\ \A c : Preorder(decl, c) = w[Cardinality(DOMAIN decl)][c]
<1> DEFINE N == Cardinality(DOMAIN decl)
           Start == [c \in DOMAIN decl |-> <<c>>]
           Step(x) == [c \in DOMAIN decl |->
                         <<c>> \o Joined([i \in DOMAIN decl[c].bases |-> x[decl[c].bases[i]]])]
           Is(g, n) == g = [k \in 0..n |-> IF k = 0 THEN Start ELSE Step(g[k - 1])]
           S == {n \in Nat : \E g : Is(g, n)}
           f == CHOOSE g : Is(g, N)
<1>1. N \in S
    <2> HIDE DEF Step, N, Start
    <2>1. 0 \in S
        <3>1. Is([k \in 0..0 |-> Start], 0)
            OBVIOUS
        <3> QED BY <3>1
    <2>2. ASSUME NEW n \in Nat, n \in S PROVE n + 1 \in S
        <3>1. PICK g : Is(g, n)
            BY <2>2
        <3> DEFINE h == [k \in 0..(n + 1) |-> IF k = n + 1 THEN Step(g[n]) ELSE g[k]]
        <3>2. Is(h, n + 1)
            BY <3>1
        <3> HIDE DEF h, Is
        <3> QED BY <3>2
    <2>3. Nat \subseteq S
        <3> HIDE DEF S
        <3> QED BY <2>1, <2>2, SetInduction
    <2> QED BY <2>3 DEF N
<1>2. Is(f, N)
    BY <1>1
<1>3. \A c : Preorder(decl, c) = f[N][c]
    BY DEF Preorder
<1>4. WalkOf(f, decl, N)
    <2>1. N \in Nat
        OBVIOUS
    <2>2. f[0] = Start /\ \A k \in 0..(N - 1) : f[k + 1] = Step(f[k])
        <3> HIDE DEF f, N, Step, Start
        <3> QED BY <1>2, <2>1
    <2> HIDE DEF f, N
    <2> QED BY <2>2, Zenon DEF WalkOf
<1> QED BY <1>3, <1>4

LEMMA OneMore ==
  ASSUME NEW S, NEW c \in S, NEW j \in Seq(S)
  PROVE  /\ <<c>> \o j \in Seq(S) /\ Len(<<c>> \o j) = 1 + Len(j)
         /\ (<<c>> \o j)[1] = c
         /\ \A k \in 1..Len(j) : (<<c>> \o j)[k + 1] = j[k]
OBVIOUS

\* A class in front of the walks of its bases.
LEMMA InFront ==
  ASSUME NEW S, NEW c \in S, NEW ss \in Seq(Seq(S)), \A i \in DOMAIN ss : Len(ss[i]) >= 1
  PROVE  /\ <<c>> \o Joined(ss) \in Seq(S) /\ (<<c>> \o Joined(ss))[1] = c
         /\ ss = << >> => Len(<<c>> \o Joined(ss)) = 1
         /\ ss # << >> => Len(<<c>> \o Joined(ss)) >= 2 /\ (<<c>> \o Joined(ss))[2] = ss[1][1]
         /\ Len(<<c>> \o Joined(ss)) >= 1
<1> DEFINE j == Joined(ss)
           r == <<c>> \o j
<1>1. /\ j \in Seq(S)
      /\ ss = << >> => j = << >>
      /\ ss # << >> => Len(ss[1]) <= Len(j) /\ \A k \in 1..Len(ss[1]) : j[k] = ss[1][k]
    BY JoinedIs
<1> HIDE DEF j
<1>2. /\ r \in Seq(S) /\ Len(r) = 1 + Len(j) /\ r[1] = c
      /\ \A k \in 1..Len(j) : r[k + 1] = j[k]
    BY <1>1, OneMore
<1>3. Len(j) \in Nat
    BY <1>1
<1> HIDE DEF r
<1>4. ss = << >> => Len(r) = 1
    BY <1>1, <1>2
<1>5. ASSUME ss # << >> PROVE Len(r) >= 2 /\ r[2] = ss[1][1]
    <2>1. 1 \in DOMAIN ss /\ Len(ss[1]) >= 1 /\ Len(ss[1]) \in Nat
        BY <1>5
    <2>2. Len(j) >= 1 /\ j[1] = ss[1][1]
        BY <1>1, <1>3, <1>5, <2>1
    <2>3. 1 \in 1..Len(j) /\ 1 + 1 = 2
        BY <1>3, <2>2
    <2>4. r[2] = j[1]
        BY <1>2, <2>3
    <2>5. Len(r) >= 2
        BY <1>2, <1>3, <2>2
    <2> QED BY <2>2, <2>4, <2>5
<1> QED BY <1>2, <1>3, <1>4, <1>5 DEF r, j

\* The walk from a class starts with the class, and its first base, if it has
\* one, comes next.
LEMMA PreorderIs ==
  ASSUME NEW decl, IsFiniteSet(DOMAIN decl), \A c \in DOMAIN decl : decl[c].bases \in Seq(DOMAIN decl),
         NEW class \in DOMAIN decl
  PROVE  /\ Preorder(decl, class) \in Seq(DOMAIN decl)
         /\ Len(Preorder(decl, class)) >= 1 /\ Preorder(decl, class)[1] = class
         /\ decl[class].bases = << >> => Len(Preorder(decl, class)) = 1
         /\ decl[class].bases # << >> => /\ Len(Preorder(decl, class)) >= 2
                                         /\ Preorder(decl, class)[2] = decl[class].bases[1]
<1> DEFINE N == Cardinality(DOMAIN decl)
           D == DOMAIN decl
<1>1. N \in Nat /\ N # 0
    BY FS_CardinalityType, FS_EmptySet
<1>2. PICK w : WalkOf(w, decl, N) /\ \A c : Preorder(decl, c) = w[N][c]
    BY <1>1, WalkExists
<1> DEFINE Shape(x) == \A c \in D : x[c] \in Seq(D) /\ Len(x[c]) >= 1 /\ x[c][1] = c
           Walks(x, c) == [i \in DOMAIN decl[c].bases |-> x[decl[c].bases[i]]]
<1>3. ASSUME NEW x, Shape(x), NEW c \in D
      PROVE  /\ Walks(x, c) \in Seq(Seq(D)) /\ \A i \in DOMAIN Walks(x, c) : Len(Walks(x, c)[i]) >= 1
             /\ decl[c].bases = << >> <=> Walks(x, c) = << >>
             /\ decl[c].bases # << >> => Walks(x, c)[1][1] = decl[c].bases[1]
    <2>1. decl[c].bases \in Seq(D)
        OBVIOUS
    <2>2. /\ DOMAIN Walks(x, c) = DOMAIN decl[c].bases
          /\ \A i \in DOMAIN decl[c].bases : decl[c].bases[i] \in D /\ Walks(x, c)[i] = x[decl[c].bases[i]]
        BY <2>1
    <2>3. Walks(x, c) \in Seq(Seq(D)) /\ \A i \in DOMAIN Walks(x, c) : Len(Walks(x, c)[i]) >= 1
        <3>1. \A i \in DOMAIN decl[c].bases : x[decl[c].bases[i]] \in Seq(D) /\ Len(x[decl[c].bases[i]]) >= 1
            BY <1>3, <2>2
        <3>2. DOMAIN decl[c].bases = 1..Len(decl[c].bases) /\ Len(decl[c].bases) \in Nat
            BY <2>1
        <3> HIDE DEF D
        <3> QED BY <2>2, <3>1, <3>2
    <2>4. decl[c].bases = << >> <=> Walks(x, c) = << >>
        <3>1. \A s \in Seq(D) : s = << >> <=> DOMAIN s = {}
            OBVIOUS
        <3>2. \A s \in Seq(Seq(D)) : s = << >> <=> DOMAIN s = {}
            OBVIOUS
        <3> HIDE DEF D, Walks
        <3> QED BY <2>1, <2>2, <2>3, <3>1, <3>2, Zenon
    <2>5. ASSUME decl[c].bases # << >> PROVE Walks(x, c)[1][1] = decl[c].bases[1]
        <3>1. 1 \in DOMAIN decl[c].bases
            BY <2>1, <2>5
        <3> QED BY <1>3, <2>2, <3>1
    <2> QED BY <2>3, <2>4, <2>5
<1>4. \A k \in 0..(N - 1), c \in D : w[k + 1][c] = <<c>> \o Joined(Walks(w[k], c))
    BY <1>2 DEF WalkOf
<1> DEFINE T == {k \in 0..N : Shape(w[k])}
<1>5. 0 \in T
    <2>1. \A c \in D : w[0][c] = <<c>>
        BY <1>2 DEF WalkOf
    <2>2. ASSUME NEW c \in D PROVE w[0][c] \in Seq(D) /\ Len(w[0][c]) >= 1 /\ w[0][c][1] = c
        <3>1. w[0][c] = <<c>>
            BY <2>1
        <3>2. <<c>> \in Seq(D) /\ Len(<<c>>) = 1 /\ <<c>>[1] = c
            OBVIOUS
        <3> QED BY <3>1, <3>2
    <2>3. Shape(w[0])
        BY <2>2
    <2>4. 0 \in 0..N
        BY <1>1
    <2> HIDE DEF Shape
    <2> QED BY <2>3, <2>4
<1>6. ASSUME NEW k \in 0..(N - 1), k \in T PROVE k + 1 \in T
    <2>1. Shape(w[k])
        BY <1>6
    <2>2. ASSUME NEW c \in D PROVE w[k + 1][c] \in Seq(D) /\ Len(w[k + 1][c]) >= 1 /\ w[k + 1][c][1] = c
        <3> DEFINE ss == Walks(w[k], c)
        <3> HIDE DEF Walks, D, Shape
        <3>1. ss \in Seq(Seq(D)) /\ \A i \in DOMAIN ss : Len(ss[i]) >= 1
            BY <1>3, <2>1
        <3>2. w[k + 1][c] = <<c>> \o Joined(ss)
            BY <1>4
        <3> HIDE DEF ss
        <3>3. /\ <<c>> \o Joined(ss) \in Seq(D) /\ Len(<<c>> \o Joined(ss)) >= 1
              /\ (<<c>> \o Joined(ss))[1] = c
            BY <3>1, InFront
        <3> QED BY <3>2, <3>3, Zenon
    <2>3. k + 1 \in 0..N
        BY <1>1
    <2> QED BY <2>2, <2>3
<1>7. N - 1 \in T
    <2>1. 0..N \subseteq T
        <3> HIDE DEF T, N
        <3> QED BY <1>1, <1>5, <1>6, StepInduction
    <2>2. N - 1 \in 0..N
        BY <1>1
    <2> QED BY <2>1, <2>2
<1>8. Preorder(decl, class) = <<class>> \o Joined(Walks(w[N - 1], class))
    <2>1. N - 1 \in 0..(N - 1) /\ (N - 1) + 1 = N
        BY <1>1
    <2> HIDE DEF N, Walks
    <2> QED BY <1>2, <1>4, <2>1
<1>9. Shape(w[N - 1])
    BY <1>7
<1> DEFINE ss == Walks(w[N - 1], class)
<1>10. /\ ss \in Seq(Seq(D)) /\ \A i \in DOMAIN ss : Len(ss[i]) >= 1
       /\ decl[class].bases = << >> <=> ss = << >>
       /\ decl[class].bases # << >> => ss[1][1] = decl[class].bases[1]
    <2> HIDE DEF Walks, D, Shape, N
    <2> QED BY <1>3, <1>9 DEF D
<1> HIDE DEF Walks, Shape, N, ss
<1>11. Preorder(decl, class) = <<class>> \o Joined(ss)
    BY <1>8 DEF ss
<1> QED BY <1>10, <1>11, InFront

\* In the image of what was declared every descriptor has its own name, and
\* every locator is one of the declared ones.
LEMMA CompiledNames ==
  ASSUME NEW decl, NEW img, IsCompiled(decl, img)
  PROVE  TypeDescriptors(img) = [td \in DOMAIN decl |-> td]
<1>1. img.tds = [c \in DOMAIN decl |-> c] /\ Garbage \notin DOMAIN decl
    BY DEF IsCompiled
<1>2. {t \in DOMAIN img.tds : img.tds[t] # Garbage} = DOMAIN decl
    BY <1>1
<1>3. [td \in DOMAIN decl |-> img.tds[td]] = [td \in DOMAIN decl |-> td]
    BY <1>1
<1> QED BY <1>2, <1>3 DEF TypeDescriptors

LEMMA CompiledCols ==
  ASSUME NEW decl, NEW img, IsCompiled(decl, img), NEW i \in DOMAIN img.cols, NEW x, x = img.cols[i]
  PROVE  KnownCol(img, x) /\ x.td \in DOMAIN decl /\ x.hierarchy = x.td
<1>1. x \in ColsOf(decl)
    BY DEF IsCompiled
<1>2. /\ x \in [td : DOMAIN decl, offset : {0, 1}, hierarchy : DOMAIN decl, valid : {TRUE}]
      /\ x.hierarchy = x.td
    BY <1>1 DEF ColsOf
<1>3. x.td \in DOMAIN decl /\ x.valid
    BY <1>2
<1>4. DOMAIN TypeDescriptors(img) = DOMAIN decl
    BY CompiledNames
<1> QED BY <1>2, <1>3, <1>4 DEF KnownCol

\* A class has one locator for its primary vtable.
LEMMA OnePrimaryCol ==
  ASSUME NEW decl, NEW img, IsCompiled(decl, img), NEW i \in DOMAIN img.cols, NEW j \in DOMAIN img.cols,
         NEW x, x = img.cols[i], NEW y, y = img.cols[j], x.td = y.td, x.offset = 0, y.offset = 0
  PROVE  i = j
<1>1. x \in ColsOf(decl) /\ y \in ColsOf(decl)
    BY DEF IsCompiled
<1>2. /\ x \in [td : DOMAIN decl, offset : {0, 1}, hierarchy : DOMAIN decl, valid : {TRUE}]
      /\ y \in [td : DOMAIN decl, offset : {0, 1}, hierarchy : DOMAIN decl, valid : {TRUE}]
      /\ x.hierarchy = x.td /\ y.hierarchy = y.td
    BY <1>1 DEF ColsOf
<1>3. /\ x = [td |-> x.td, offset |-> x.offset, hierarchy |-> x.hierarchy, valid |-> TRUE]
      /\ y = [td |-> y.td, offset |-> y.offset, hierarchy |-> y.hierarchy, valid |-> TRUE]
    BY <1>2
<1>4. x.hierarchy = y.hierarchy
    BY <1>2
<1>5. x = y
    BY <1>3, <1>4, Zenon
<1> QED BY <1>5 DEF IsCompiled

\* Pass 3 reads the walk of the bases of a class within the limits.
LEMMA InheritanceIs ==
  ASSUME NEW decl, NEW img, IsCompiled(decl, img), NEW class \in DOMAIN decl, ReadableBases(decl, class)
  PROVE  /\ class \in DOMAIN Inheritance(img)
         /\ Inheritance(img)[class].chain = Preorder(decl, class)
         /\ Inheritance(img)[class].parent
              = IF decl[class].bases = << >> THEN NoName ELSE decl[class].bases[1]
         /\ Inheritance(img)[class].vtable = 0 /\ Inheritance(img)[class].funcs = << >>
         /\ {"chain", "parent", "vtable", "funcs"} \subseteq DOMAIN Inheritance(img)[class]
<1> DEFINE D == DOMAIN decl
           P == Preorder(decl, class)
           names == TypeDescriptors(img)
           usable == {i \in DOMAIN img.cols :
                        /\ KnownCol(img, img.cols[i])
                        /\ names[img.cols[i].td] = class
                        /\ UsableHierarchy(img, img.cols[i].hierarchy)}
           first == CHOOSE i \in usable : \A j \in usable : i <= j
<1>1. names = [td \in D |-> td]
    BY CompiledNames
<1>2. /\ IsFiniteSet(D) /\ \A c \in D : decl[c].bases \in Seq(D)
      /\ img.bases = [c \in D |-> Preorder(decl, c)] /\ IsRow(img.cols)
    BY DEF IsCompiled
<1>3. /\ P \in Seq(D) /\ Len(P) >= 1
      /\ decl[class].bases = << >> => Len(P) = 1
      /\ decl[class].bases # << >> => Len(P) >= 2 /\ P[2] = decl[class].bases[1]
    <2> HIDE DEF D
    <2> QED BY <1>2, PreorderIs DEF D
<1>4. UsableHierarchy(img, class)
    <2>1. img.bases[class] = P /\ class \in DOMAIN img.bases
        BY <1>2
    <2>2. Len(P) \in 1..MaxBases
        <3>1. Len(P) <= MaxBases /\ Len(P) \in Nat
            BY <1>3 DEF ReadableBases
        <3> HIDE DEF P
        <3> QED BY <1>3, <3>1, LimitsAssumption
    <2> HIDE DEF P
    <2> QED BY <2>1, <2>2 DEF UsableHierarchy
<1>5. usable # {} /\ \A i \in usable : img.cols[i].hierarchy = class
    <2>1. \E i \in DOMAIN img.cols : img.cols[i].td = class
        <3>1. PICK i \in DOMAIN img.rdata :
                 /\ img.rdata[i].to = "col" /\ img.rdata[i].at \in DOMAIN img.cols
                 /\ img.cols[img.rdata[i].at].td = class
            BY DEF IsCompiled, IsPrimaryVtable
        <3> QED BY <3>1
    <2>2. \A i \in DOMAIN img.cols : /\ KnownCol(img, img.cols[i])
                                     /\ img.cols[i].td \in D /\ img.cols[i].hierarchy = img.cols[i].td
        <3> SUFFICES ASSUME NEW i \in DOMAIN img.cols, NEW x, x = img.cols[i]
                     PROVE  KnownCol(img, x) /\ x.td \in D /\ x.hierarchy = x.td
            OBVIOUS
        <3> QED BY CompiledCols
    <2>3. \A i \in DOMAIN img.cols : names[img.cols[i].td] = img.cols[i].td
        BY <1>1, <2>2
    <2> HIDE DEF names, D
    <2> QED BY <1>4, <2>1, <2>2, <2>3
<1>6. first \in usable /\ first # 0
    <2>1. usable \in SUBSET Nat /\ \A i \in usable : i # 0
        BY <1>2 DEF IsRow
    <2>2. \E i \in usable : \A j \in usable : i <= j
        <3> HIDE DEF usable
        <3> QED BY <1>5, <2>1, LeastNat
    <2> HIDE DEF usable
    <2> QED BY <2>1, <2>2
<1>7. FirstColOf(img, class) = first
    BY <1>5 DEF FirstColOf
<1> DEFINE info == Hierarchy(img, class)
<1>8. class \in DOMAIN Inheritance(img) /\ Inheritance(img)[class] = info
    <2>1. class \in {names[td] : td \in DOMAIN names}
        BY <1>1
    <2>2. FirstColOf(img, class) # 0 /\ img.cols[FirstColOf(img, class)].hierarchy = class
        BY <1>5, <1>6, <1>7
    <2> HIDE DEF usable, first
    <2> QED BY <2>1, <2>2 DEF Inheritance
<1>9. info = [chain |-> P, parent |-> IF Len(P) > 1 THEN P[2] ELSE NoName, vtable |-> 0, funcs |-> << >>]
    <2>1. img.bases[class] = P /\ DOMAIN names = D
        BY <1>1, <1>2
    <2>2. Kept(P, D) = P
        BY <1>3, KeptAll
    <2>3. [i \in DOMAIN P |-> names[P[i]]] = P
        <3>1. \A i \in DOMAIN P : P[i] \in D
            BY <1>3
        <3>2. \A i \in DOMAIN P : names[P[i]] = P[i]
            BY <1>1, <3>1
        <3>3. P = [i \in DOMAIN P |-> P[i]]
            BY <1>3
        <3> HIDE DEF P, names
        <3> QED BY <3>2, <3>3
    <2>4. Len(P) > 1 => P[2] \in D /\ names[P[2]] = P[2]
        <3>1. Len(P) > 1 => 2 \in 1..Len(P)
            BY <1>3
        <3>2. Len(P) > 1 => P[2] \in D
            BY <1>3, <3>1
        <3> QED BY <1>1, <3>2
    <2> HIDE DEF P, D, names
    <2> QED BY <2>1, <2>2, <2>3, <2>4 DEF Hierarchy, names
<1>10. decl[class].bases = << >> <=> ~ (Len(P) > 1)
    <2>1. Len(P) \in Nat
        BY <1>3
    <2>2. decl[class].bases # << >> => Len(P) >= 2
        BY <1>3
    <2>3. decl[class].bases = << >> => Len(P) = 1
        BY <1>3
    <2> HIDE DEF P
    <2>4. \A n \in Nat : (n >= 2 => n > 1) /\ (n = 1 => ~ (n > 1))
        OBVIOUS
    <2> QED BY <2>1, <2>2, <2>3, <2>4, Zenon
<1> HIDE DEF info, P
<1>11. /\ info.chain = P /\ info.vtable = 0 /\ info.funcs = << >>
       /\ info.parent = IF Len(P) > 1 THEN P[2] ELSE NoName
       /\ {"chain", "parent", "vtable", "funcs"} \subseteq DOMAIN info
    BY <1>9
<1>12. info.parent = IF decl[class].bases = << >> THEN NoName ELSE decl[class].bases[1]
    BY <1>3, <1>10, <1>11
<1>13. info.chain = Preorder(decl, class)
    BY <1>11 DEF P
<1> QED BY <1>8, <1>11, <1>12, <1>13

\* Behind the locator of a primary vtable pass 4 reads the functions of the
\* class and stops before what follows them.
LEMMA PrimaryFunctions ==
  ASSUME NEW decl, NEW img, IsCompiled(decl, img), NEW class \in DOMAIN decl, WithinLimits(decl, class),
         NEW i \in DOMAIN img.rdata, IsPrimaryVtable(decl, img, class, i)
  PROVE  VtableFrom(img, i) = decl[class].functions
<1> DEFINE fs == decl[class].functions
           n == Len(fs)
           N == Len(img.rdata)
           stops == {j \in (i + 1)..N : img.rdata[j].to # "text"}
           first == CHOOSE j \in stops : \A k \in stops : j <= k
           end == IF stops = {} THEN N ELSE first - 1
           upto == IF end - i < MAX_VTABLE_ENTRIES THEN end - i ELSE MAX_VTABLE_ENTRIES
<1>1. /\ n \in Nat /\ DOMAIN fs = 1..n /\ N \in Nat /\ DOMAIN img.rdata = 1..N
      /\ fs = [f \in 1..n |-> fs[f]]
    <2>1. fs \in Seq(ToSet(fs)) /\ IsRow(img.rdata)
        BY DEF IsCompiled
    <2> HIDE DEF fs
    <2>2. n \in Nat /\ DOMAIN fs = 1..n /\ fs = [f \in 1..n |-> fs[f]]
        BY <2>1
    <2> QED BY <2>1, <2>2 DEF IsRow
<1>2. /\ i \in 1..N /\ i + n <= N
      /\ \A f \in 1..n : img.rdata[i + f] = ToText(fs[f])
      /\ i + n < N => img.rdata[i + n + 1].to # "text"
    BY <1>1 DEF IsPrimaryVtable
<1>3. \A f \in 1..n : img.rdata[i + f].to = "text" /\ img.rdata[i + f].at = fs[f]
    <2> SUFFICES ASSUME NEW f \in 1..n PROVE img.rdata[i + f].to = "text" /\ img.rdata[i + f].at = fs[f]
        OBVIOUS
    <2>1. img.rdata[i + f] = [to |-> "text", at |-> fs[f]]
        BY <1>2, Zenon DEF ToText
    <2> HIDE DEF n, fs
    <2> QED BY <2>1
<1>4. \A j \in stops : j \in (i + n + 1)..N
    <2> SUFFICES ASSUME NEW j \in (i + 1)..N, j <= i + n PROVE img.rdata[j].to = "text"
        <3> HIDE DEF n, N
        <3> QED BY <1>1, <1>2
    <2>1. j - i \in 1..n /\ i + (j - i) = j
        <3> HIDE DEF n, N
        <3> QED BY <1>1, <1>2
    <2> HIDE DEF n, N
    <2> QED BY <1>3, <2>1
<1>5. end = i + n
    <2>1. CASE i + n = N
        <3>1. stops = {}
            <4> HIDE DEF n, N, stops
            <4> QED BY <1>1, <1>2, <1>4, <2>1
        <3> QED BY <2>1, <3>1
    <2>2. CASE i + n < N
        <3>1. i + n + 1 \in stops
            <4>1. i + n + 1 \in (i + 1)..N
                <5> HIDE DEF n, N
                <5> QED BY <1>1, <1>2, <2>2
            <4> HIDE DEF n, N
            <4> QED BY <1>2, <2>2, <4>1
        <3>2. \A j \in stops : i + n + 1 <= j /\ j \in Nat
            <4> HIDE DEF n, N, stops
            <4> QED BY <1>1, <1>2, <1>4
        <3>3. first \in stops /\ \A k \in stops : first <= k
            <4>1. \E j \in stops : \A k \in stops : j <= k
                <5> HIDE DEF n, N, stops
                <5> QED BY <3>1, <3>2
            <4> HIDE DEF stops
            <4> QED BY <4>1
        <3>4. first = i + n + 1
            <4> HIDE DEF first, stops, n, N
            <4> QED BY <1>1, <1>2, <3>1, <3>2, <3>3
        <3>5. end = first - 1
            <4> HIDE DEF first, stops, n, N
            <4> QED BY <3>1
        <3> HIDE DEF first, end, n, N
        <3> QED BY <1>1, <1>2, <3>4, <3>5
    <2> HIDE DEF end, n, N
    <2> QED BY <1>1, <1>2, <2>1, <2>2
<1>6. upto = n
    <2>1. n <= MAX_VTABLE_ENTRIES
        BY DEF WithinLimits
    <2> HIDE DEF end, n, N
    <2> QED BY <1>1, <1>2, <1>5, <2>1, LimitsAssumption
<1>7. VtableFrom(img, i) = [k \in 1..upto |-> img.rdata[i + k].at]
    BY DEF VtableFrom
<1> HIDE DEF upto, n, fs
<1> QED BY <1>1, <1>3, <1>6, <1>7 DEF fs

\* Pass 4 leaves the parents of the classes alone: they are the first declared
\* bases, however many functions a class has.
LEMMA ParentIs ==
  ASSUME NEW decl, NEW img, IsCompiled(decl, img), NEW class \in DOMAIN decl, ReadableBases(decl, class)
  PROVE  /\ class \in DOMAIN build_rtti_hierarchy(img)
         /\ build_rtti_hierarchy(img)[class].parent
              = IF decl[class].bases = << >> THEN NoName ELSE decl[class].bases[1]
<1> DEFINE N == Len(img.rdata)
           start == Inheritance(img)[class]
<1>1. N \in Nat /\ DOMAIN img.rdata = 1..N
    BY DEF IsCompiled, IsRow
<1>2. PICK h : VtablesOf(h, img, N) /\ build_rtti_hierarchy(img) = h[N]
    <2>1. img.sections
        BY DEF IsCompiled
    <2> QED BY <1>1, <2>1, VtablesExist
<1> DEFINE Keeps(i) == class \in DOMAIN h[i] /\ "parent" \in DOMAIN h[i][class] /\ h[i][class].parent = start.parent
           S == {i \in 0..N : Keeps(i)}
<1>3. 0 \in S
    <2>1. h[0] = Inheritance(img)
        BY <1>2 DEF VtablesOf
    <2>2. class \in DOMAIN Inheritance(img) /\ "parent" \in DOMAIN start
        BY InheritanceIs
    <2> QED BY <1>1, <2>1, <2>2
<1>4. ASSUME NEW i \in 0..(N - 1), i \in S PROVE i + 1 \in S
    <2> DEFINE old == h[i]
               other == TypeDescriptors(img)[img.cols[img.rdata[i + 1].at].td]
               gs == VtableFrom(img, i + 1)
               put == [old EXCEPT ![other].vtable = (i + 1) + 1, ![other].funcs = gs]
    <2>0. i + 1 \in 1..N /\ i + 1 \in 0..N /\ i \in Nat
        BY <1>1
    <2>1. h[i + 1] = IF PrimaryAt(img, i + 1) THEN WithVtable(img, old, i + 1) ELSE old
        BY <1>2 DEF VtablesOf
    <2>2. h[i + 1] = old \/ (h[i + 1] = put /\ other \in DOMAIN old)
        BY <2>0, <2>1 DEF WithVtable
    <2>3. class \in DOMAIN old /\ "parent" \in DOMAIN old[class] /\ old[class].parent = start.parent
        BY <1>4
    <2>4. ASSUME other \in DOMAIN old
          PROVE  class \in DOMAIN put /\ "parent" \in DOMAIN put[class] /\ put[class].parent = start.parent
        <3>1. CASE other = class
            <4>1. put[class] = [[old[class] EXCEPT !.vtable = (i + 1) + 1] EXCEPT !.funcs = gs]
                <5> HIDE DEF old, gs, start
                <5> QED BY <2>3, <3>1
            <4>2. DOMAIN put = DOMAIN old
                <5> HIDE DEF old, gs, start
                <5> QED OBVIOUS
            <4> HIDE DEF put, old, gs, start
            <4> QED BY <2>3, <4>1, <4>2
        <3>2. CASE other # class
            <4> HIDE DEF other, old, gs, start
            <4> QED BY <2>3, <3>2
        <3> QED BY <3>1, <3>2
    <2> HIDE DEF put, start, old
    <2> QED BY <2>0, <2>2, <2>3, <2>4 DEF old
<1>5. N \in S
    <2>1. 0..N \subseteq S
        <3> HIDE DEF S, N
        <3> QED BY <1>1, <1>3, <1>4, StepInduction
    <2> QED BY <1>1, <2>1
<1>6. start.parent = IF decl[class].bases = << >> THEN NoName ELSE decl[class].bases[1]
    BY InheritanceIs
<1> HIDE DEF start, N
<1> QED BY <1>2, <1>5, <1>6

\* Pass 4: from the word of its primary vtable on the entry of a class has the
\* functions of that vtable; no other word changes it.
LEMMA RecoversDeclared ==
  ASSUME NEW decl, NEW img, IsCompiled(decl, img)
  PROVE  AsDeclared(decl, build_rtti_hierarchy(img))
<1> SUFFICES ASSUME NEW class \in DOMAIN decl, WithinLimits(decl, class)
             PROVE  /\ class \in DOMAIN build_rtti_hierarchy(img)
                    /\ build_rtti_hierarchy(img)[class].parent
                         = IF decl[class].bases = << >> THEN NoName ELSE decl[class].bases[1]
                    /\ build_rtti_hierarchy(img)[class].chain = Preorder(decl, class)
                    /\ build_rtti_hierarchy(img)[class].funcs = decl[class].functions
    BY DEF AsDeclared
<1> DEFINE N == Len(img.rdata)
           fs == decl[class].functions
           start == Inheritance(img)[class]
           Of(i) == TypeDescriptors(img)[img.cols[img.rdata[i].at].td]
<1>1. PICK p \in DOMAIN img.rdata : img.rdata[p].to = "col" /\ IsPrimaryVtable(decl, img, class, p)
    BY DEF IsCompiled
<1>2. N \in Nat /\ DOMAIN img.rdata = 1..N /\ p \in 1..N
    BY <1>1 DEF IsCompiled, IsRow
<1>3. PICK h : VtablesOf(h, img, N) /\ build_rtti_hierarchy(img) = h[N]
    <2>1. img.sections
        BY DEF IsCompiled
    <2> QED BY <1>2, <2>1, VtablesExist
<1>4. VtableFrom(img, p) = fs
    BY <1>1, PrimaryFunctions
<1>0. ReadableBases(decl, class)
    BY DEF WithinLimits
<1>5. /\ class \in DOMAIN Inheritance(img)
      /\ start.vtable = 0 /\ start.funcs = << >>
      /\ {"chain", "parent", "vtable", "funcs"} \subseteq DOMAIN start
    BY <1>0, InheritanceIs
<1>6. \A i \in 1..N : img.rdata[i].to = "col" => img.rdata[i].at \in DOMAIN img.cols
    BY <1>2 DEF IsCompiled
<1>7. PrimaryAt(img, p) /\ Of(p) = class
    <2> DEFINE x == img.cols[img.rdata[p].at]
    <2>1. KnownCol(img, x) /\ x.td = class /\ x.offset = 0 /\ img.rdata[p].to = "col"
        <3>1. img.rdata[p].at \in DOMAIN img.cols
            BY <1>1, <1>2, <1>6
        <3>2. KnownCol(img, x)
            BY <3>1, CompiledCols
        <3> QED BY <1>1, <3>2 DEF IsPrimaryVtable
    <2>2. Of(p) = class
        BY <2>1, CompiledNames
    <2> QED BY <2>1, <2>2 DEF PrimaryAt
<1>8. ASSUME NEW i \in 1..N, PrimaryAt(img, i), Of(i) = class PROVE i = p
    <2>1. img.rdata[i].to = "col" /\ img.cols[img.rdata[i].at].offset = 0
        BY <1>8 DEF PrimaryAt
    <2>2. PICK a \in DOMAIN img.cols : a = img.rdata[i].at
        BY <1>6, <2>1
    <2>3. PICK b \in DOMAIN img.cols : b = img.rdata[p].at
        BY <1>1, <1>2, <1>6
    <2>4. PICK x : x = img.cols[a]
        OBVIOUS
    <2>5. PICK y : y = img.cols[b]
        OBVIOUS
    <2>6. x.td \in DOMAIN decl
        BY <2>4, CompiledCols
    <2>7. x.td = class /\ x.offset = 0
        BY <1>8, <2>1, <2>2, <2>4, <2>6, CompiledNames
    <2>8. y.td = class /\ y.offset = 0
        BY <1>1, <2>3, <2>5 DEF IsPrimaryVtable
    <2>9. a = b
        BY <2>4, <2>5, <2>7, <2>8, OnePrimaryCol
    <2>10. img.rdata[i].at = img.rdata[p].at
        BY <2>2, <2>3, <2>9
    <2> QED BY <1>1, <1>2, <2>1, <2>10 DEF IsCompiled
<1> DEFINE T == {i \in 0..N : /\ class \in DOMAIN h[i]
                              /\ i < p => h[i][class] = start
                              /\ i >= p => /\ h[i][class].funcs = fs
                                           /\ h[i][class].chain = start.chain
                                           /\ h[i][class].parent = start.parent}
<1>9. 0 \in T
    <2>1. h[0] = Inheritance(img)
        BY <1>3 DEF VtablesOf
    <2>2. 0 < p /\ ~(0 >= p) /\ 0 \in 0..N
        BY <1>2
    <2> QED BY <1>5, <2>1, <2>2
<1>10. ASSUME NEW i \in 0..(N - 1), i \in T PROVE i + 1 \in T
    <2> DEFINE old == h[i]
               new == h[i + 1]
    <2>0. i + 1 \in 1..N /\ i + 1 \in 0..N /\ i \in Nat
        BY <1>2
    <2>1. new = IF PrimaryAt(img, i + 1) THEN WithVtable(img, old, i + 1) ELSE old
        BY <1>3 DEF VtablesOf
    <2>2. class \in DOMAIN old
        BY <1>10
    <2>3. CASE i + 1 = p
        <3>1. old[class] = start /\ new = WithVtable(img, old, p)
            <4>1. i < p
                BY <1>2, <2>0, <2>3
            <4> QED BY <1>7, <1>10, <2>1, <2>3, <4>1
        <3>2. /\ class \in DOMAIN new /\ new[class].funcs = fs
              /\ new[class].chain = start.chain /\ new[class].parent = start.parent
            <4> DEFINE put == [old EXCEPT ![class].vtable = p + 1, ![class].funcs = fs]
            <4>1. WithVtable(img, old, p)
                    = IF fs = << >> \/ class \notin DOMAIN old \/ old[class].vtable # 0 THEN old ELSE put
                BY <1>4, <1>7 DEF WithVtable
            <4>2. CASE fs = << >>
                BY <1>5, <2>2, <3>1, <4>1, <4>2
            <4>3. CASE fs # << >>
                <5>1. new = put
                    BY <1>5, <2>2, <3>1, <4>1, <4>3
                <5>2. /\ DOMAIN put = DOMAIN old
                      /\ put[class] = [[start EXCEPT !.vtable = p + 1] EXCEPT !.funcs = fs]
                    <6> HIDE DEF old, start, fs
                    <6> QED BY <2>2, <3>1
                <5>3. /\ put[class].funcs = fs /\ put[class].chain = start.chain
                      /\ put[class].parent = start.parent
                    <6> HIDE DEF put, start, fs
                    <6> QED BY <1>5, <5>2
                <5> HIDE DEF put, old, new
                <5> QED BY <2>2, <5>1, <5>2, <5>3
            <4> QED BY <4>2, <4>3
        <3>3. ~(i + 1 < p)
            BY <1>2, <2>3
        <3> HIDE DEF start, fs, old
        <3> QED BY <2>0, <3>2, <3>3 DEF T
    <2>4. CASE i + 1 # p
        <3>1. class \in DOMAIN new /\ new[class] = old[class]
            <4>1. CASE ~ PrimaryAt(img, i + 1)
                BY <2>1, <2>2, <4>1
            <4>2. CASE PrimaryAt(img, i + 1)
                <5> DEFINE other == Of(i + 1)
                           gs == VtableFrom(img, i + 1)
                           put == [old EXCEPT ![other].vtable = (i + 1) + 1, ![other].funcs = gs]
                <5>1. other # class
                    BY <1>8, <2>0, <2>4, <4>2
                <5>2. WithVtable(img, old, i + 1) \in {old, put}
                    BY <2>0 DEF WithVtable
                <5>3. class \in DOMAIN put /\ put[class] = old[class]
                    <6> HIDE DEF other, old, gs
                    <6> QED BY <2>2, <5>1
                <5> HIDE DEF put, old, new
                <5> QED BY <2>1, <2>2, <4>2, <5>2, <5>3
            <4> QED BY <4>1, <4>2
        <3>2. (i + 1 < p => i < p) /\ (i + 1 >= p => i >= p)
            BY <1>2, <2>0, <2>4
        <3> HIDE DEF start, fs
        <3> QED BY <1>10, <2>0, <3>1, <3>2
    <2> QED BY <2>3, <2>4
<1>11. N \in T
    <2>1. 0..N \subseteq T
        <3> HIDE DEF T, N
        <3> QED BY <1>2, <1>9, <1>10, StepInduction
    <2> QED BY <1>2, <2>1
<1>12. N >= p
    BY <1>2
<1> DEFINE end == h[N][class]
<1>13. class \in DOMAIN h[N] /\ end.funcs = fs /\ end.chain = start.chain /\ end.parent = start.parent
    BY <1>11, <1>12
<1>14. /\ start.chain = Preorder(decl, class)
       /\ start.parent = IF decl[class].bases = << >> THEN NoName ELSE decl[class].bases[1]
    BY <1>0, InheritanceIs
<1> HIDE DEF start, T, N
<1> QED BY <1>3, <1>13, <1>14

InfoOf(j) == build_rtti_hierarchy(Loaded(ModuleOrder[j]).image)

\* The map holds exactly what RTTI finds in the first n modules of the order,
\* as far as they are of mods.
FoundUpTo(map, mods, n) ==
  /\ \A k \in DOMAIN map : \E j \in 1..n : \E c \in DOMAIN InfoOf(j) :
       k = <<ModuleOrder[j], c>> /\ map[k] = InfoOf(j)[c]
  /\ \A j \in 1..n : ModuleOrder[j] \in mods =>
       \A c \in DOMAIN InfoOf(j) : <<ModuleOrder[j], c>> \in DOMAIN map

LEMMA FoundInOrder ==
  ASSUME m_rtti_map = << >>, NEW mods PROVE FoundUpTo(RttiOf(mods), mods, Len(ModuleOrder))
<1> DEFINE N == Len(ModuleOrder)
<1>1. PICK r : MapsOf(r, mods, N) /\ RttiOf(mods) = r[N]
    BY MapsExist
<1> DEFINE Only(map, n) == \A k \in DOMAIN map : \E j \in 1..n : \E c \in DOMAIN InfoOf(j) :
                              k = <<ModuleOrder[j], c>> /\ map[k] = InfoOf(j)[c]
           All(map, n) == \A j \in 1..n : ModuleOrder[j] \in mods =>
                            \A c \in DOMAIN InfoOf(j) : <<ModuleOrder[j], c>> \in DOMAIN map
           T == {i \in 0..N : Only(r[i], i) /\ All(r[i], i)}
<1>2. N \in Nat
    BY OrderAssumption DEF IsRow
<1>3. 0 \in T
    <2>1. r[0] = << >>
        BY <1>1 DEF MapsOf
    <2>2. Only(r[0], 0) /\ All(r[0], 0)
        BY <2>1
    <2>3. 0 \in 0..N
        BY <1>2
    <2> HIDE DEF Only, All
    <2> QED BY <2>2, <2>3
<1>4. ASSUME NEW i \in 0..(N - 1), i \in T PROVE i + 1 \in T
    <2> DEFINE info == InfoOf(i + 1)
               m == ModuleOrder[i + 1]
               new == r[i + 1]
               old == r[i]
    <2>1. Only(old, i) /\ All(old, i)
        BY <1>4
    <2>2. i + 1 \in 0..N /\ i + 1 \in 1..(i + 1) /\ \A j \in 1..(i + 1) : j \in 1..i \/ j = i + 1
        BY <1>2
    <2>3. \A j \in 1..i : j \in 1..(i + 1)
        BY <1>2
    <2>4. CASE m \in mods
        <3>1. new = [k \in DOMAIN old \cup {<<m, c>> : c \in DOMAIN info} |->
                       IF k \in DOMAIN old THEN old[k] ELSE info[k[2]]]
            BY <1>1, <2>4 DEF MapsOf, load_rtti, InfoOf
        <3> HIDE DEF info, m
        <3>2. /\ DOMAIN new = DOMAIN old \cup {<<m, c>> : c \in DOMAIN info}
              /\ \A k \in DOMAIN old : new[k] = old[k]
              /\ \A k \in DOMAIN new \ DOMAIN old : \E c \in DOMAIN info : k = <<m, c>> /\ new[k] = info[c]
            <4> HIDE DEF new, old
            <4>1. DOMAIN new = DOMAIN old \cup {<<m, c>> : c \in DOMAIN info}
                BY <3>1
            <4>2. \A k \in DOMAIN old : new[k] = old[k]
                BY <3>1
            <4>3. ASSUME NEW k \in DOMAIN new \ DOMAIN old
                  PROVE  \E c \in DOMAIN info : k = <<m, c>> /\ new[k] = info[c]
                <5>1. PICK c \in DOMAIN info : k = <<m, c>>
                    BY <4>1, <4>3
                <5>2. new[k] = info[k[2]] /\ k[2] = c
                    BY <3>1, <4>1, <4>3, <5>1
                <5> QED BY <5>1, <5>2
            <4> QED BY <4>1, <4>2, <4>3
        <3>3. Only(new, i + 1)
            <4> SUFFICES ASSUME NEW k \in DOMAIN new
                         PROVE  \E j \in 1..(i + 1) : \E c \in DOMAIN InfoOf(j) :
                                   k = <<ModuleOrder[j], c>> /\ new[k] = InfoOf(j)[c]
                OBVIOUS
            <4>1. CASE k \in DOMAIN old
                <5> HIDE DEF new, old
                <5> QED BY <2>1, <2>3, <3>2, <4>1
            <4>2. CASE k \notin DOMAIN old
                <5>1. \E c \in DOMAIN info : k = <<m, c>> /\ new[k] = info[c]
                    BY <3>2, <4>2
                <5> HIDE DEF new, old
                <5> QED BY <2>2, <5>1 DEF info, m
            <4> QED BY <4>1, <4>2
        <3>4. All(new, i + 1)
            <4> SUFFICES ASSUME NEW j \in 1..(i + 1), ModuleOrder[j] \in mods, NEW c \in DOMAIN InfoOf(j)
                         PROVE  <<ModuleOrder[j], c>> \in DOMAIN new
                OBVIOUS
            <4>1. CASE j \in 1..i
                <5> HIDE DEF new, old
                <5> QED BY <2>1, <3>2, <4>1
            <4>2. CASE j = i + 1
                <5> HIDE DEF new, old
                <5> QED BY <3>2, <4>2 DEF info, m
            <4> QED BY <2>2, <4>1, <4>2
        <3> HIDE DEF Only, All
        <3> QED BY <2>2, <3>3, <3>4
    <2>5. CASE m \notin mods
        <3>1. new = old
            BY <1>1, <2>5 DEF MapsOf
        <3>2. Only(new, i + 1)
            <4> HIDE DEF new, old
            <4> QED BY <2>1, <2>3, <3>1
        <3>3. All(new, i + 1)
            <4> HIDE DEF new, old
            <4> QED BY <2>1, <2>2, <2>5, <3>1
        <3> HIDE DEF Only, All
        <3> QED BY <2>2, <3>2, <3>3
    <2> QED BY <2>4, <2>5
<1>5. N \in T
    <2>1. 0..N \subseteq T
        <3> HIDE DEF T, N
        <3> QED BY <1>2, <1>3, <1>4, StepInduction
    <2> QED BY <1>2, <2>1
<1>6. Only(r[N], N) /\ All(r[N], N)
    BY <1>5
<1> HIDE DEF N
<1>7. FoundUpTo(r[N], mods, N)
    BY <1>6, Zenon DEF FoundUpTo
<1> QED BY <1>1, <1>7 DEF N

\* The entries of a module of the order that is of mods are what RTTI finds in it.
LEMMA FoundOfModule ==
  ASSUME m_rtti_map = << >>, NEW mods, NEW m \in mods, m \in ToSet(ModuleOrder),
         NEW map, map = RttiOf(mods), NEW info, info = build_rtti_hierarchy(Loaded(m).image)
  PROVE  /\ \A k \in DOMAIN map : k[1] = m => \E c \in DOMAIN info : k = <<m, c>> /\ map[k] = info[c]
         /\ \A c \in DOMAIN info : <<m, c>> \in DOMAIN map /\ map[<<m, c>>] = info[c]
<1> DEFINE Info(x) == build_rtti_hierarchy(Loaded(x).image)
           N == Len(ModuleOrder)
<1>1. FoundUpTo(map, mods, N)
    BY FoundInOrder
<1>2. \A k \in DOMAIN map : \E j \in 1..N : \E c \in DOMAIN Info(ModuleOrder[j]) :
          k = <<ModuleOrder[j], c>> /\ map[k] = Info(ModuleOrder[j])[c]
    BY <1>1, Zenon DEF FoundUpTo, InfoOf
<1>3. ASSUME NEW k \in DOMAIN map, k[1] = m PROVE \E c \in DOMAIN info : k = <<m, c>> /\ map[k] = info[c]
    <2>0. PICK j \in 1..N : \E c \in DOMAIN Info(ModuleOrder[j]) :
             k = <<ModuleOrder[j], c>> /\ map[k] = Info(ModuleOrder[j])[c]
        BY <1>2
    <2>1. PICK c \in DOMAIN Info(ModuleOrder[j]) :
             k = <<ModuleOrder[j], c>> /\ map[k] = Info(ModuleOrder[j])[c]
        BY <2>0
    <2>2. ModuleOrder[j] = m
        BY <1>3, <2>1
    <2>3. Info(ModuleOrder[j]) = info
        BY <2>2
    <2> HIDE DEF Info
    <2> QED BY <2>1, <2>2, <2>3
<1>4. PICK j \in 1..N : ModuleOrder[j] = m
    BY OrderAssumption DEF ToSet, IsRow
<1>5. ASSUME NEW c \in DOMAIN info PROVE <<m, c>> \in DOMAIN map /\ map[<<m, c>>] = info[c]
    <2>1. <<m, c>> \in DOMAIN map
        BY <1>1, <1>4, <1>5 DEF FoundUpTo, InfoOf
    <2>2. PICK d \in DOMAIN info : <<m, c>> = <<m, d>> /\ map[<<m, c>>] = info[d]
        BY <1>3, <2>1
    <2>3. d = c
        BY <2>2
    <2> QED BY <2>1, <2>2, <2>3
<1> QED BY <1>3, <1>5

-----------------------------------------------------------------------------
\* The map is empty until phase 2 fills it, with what was declared.
RttiInv ==
  /\ game \in Games
  /\ phase \in {"schema", "rtti"} => m_rtti_map = << >>
  /\ RttiAsDeclared

LEMMA RttiInvInit == DumpInit => RttiInv
BY DEF DumpInit, SchemaInit, RttiInv, RttiAsDeclared

LEMMA RttiFrame ==
  ASSUME RttiInv, UNCHANGED <<game, m_dumped_modules, m_rtti_map>>,
         phase' = phase \/ {phase, phase'} \cap {"schema", "rtti"} = {}
  PROVE  RttiInv'
<1>1. LoadedNames' = LoadedNames /\ \A m : Loaded(m)' = Loaded(m)
    BY DEF LoadedNames, Loaded
<1>2. \A S : Interesting(S)' = Interesting(S)
    BY <1>1 DEF Interesting
<1> QED BY <1>1, <1>2 DEF RttiInv, RttiAsDeclared

LEMMA RttiInvStep == RttiInv /\ [DumpNext]_dumpVars => RttiInv'
<1> SUFFICES ASSUME RttiInv, [DumpNext]_dumpVars PROVE RttiInv'
    OBVIOUS
<1>1. CASE PhaseSchema
    <2>1. /\ phase = "schema" /\ m_rtti_map' = m_rtti_map /\ dump_all_modules
          /\ phase' = IF m_dumped_modules' = << >> THEN "done" ELSE "rtti"
        BY <1>1 DEF PhaseSchema
    <2>2. game' = game
        BY <2>1, Zenon DEF dump_all_modules
    <2> QED BY <2>1, <2>2 DEF RttiInv, RttiAsDeclared
<1>2. CASE PhaseRtti
    <2>1. PICK seen \in SeenBy(LoadedNames) :
             m_rtti_map' = RttiOf(ToSet(m_dumped_modules) \cup Interesting(seen))
        BY <1>2 DEF PhaseRtti
    <2>2. UNCHANGED <<game, m_dumped_modules>> /\ phase = "rtti" /\ phase' = "resolve"
        BY <1>2 DEF PhaseRtti, schemaVars
    <2> DEFINE mods == ToSet(m_dumped_modules) \cup Interesting(seen)
               within == {game.loaded[i].name : i \in {j \in DOMAIN game.loaded : j <= MaxModules}}
    <2>3. LoadedNames' = LoadedNames /\ (\A m : Loaded(m)' = Loaded(m)) /\ within' = within
        BY <2>2 DEF LoadedNames, Loaded
    <2>4. within \subseteq seen /\ within \subseteq LoadedNames
        BY DEF SeenBy, LoadedNames
    <2>5. ASSUME NEW m \in within, m \in ToSet(m_dumped_modules) \cup Interesting(LoadedNames)
          PROVE  LET own == {k \in DOMAIN m_rtti_map' : k[1] = m}
                 IN  AsDeclared(Loaded(m).decl, [c \in {k[2] : k \in own} |-> m_rtti_map'[<<m, c>>]])
        <3>1. m \in mods
            BY <2>4, <2>5 DEF Interesting
        <3>2. PICK i \in DOMAIN game.loaded : Loaded(m) = game.loaded[i] /\ game.loaded[i].name = m
            BY <2>4 DEF LoadedNames, Loaded
        <3>3. m \in ToSet(ModuleOrder) /\ IsCompiled(Loaded(m).decl, Loaded(m).image)
            <4>1. game \in Games
                BY DEF RttiInv
            <4>2. game.loaded[i].name \in ToSet(ModuleOrder)
                BY <4>1, GamesAssumption, Zenon
            <4>3. IsCompiled(game.loaded[i].decl, game.loaded[i].image)
                BY <4>1, ImagesAssumption, Zenon
            <4> QED BY <3>2, <4>2, <4>3
        <3>4. PICK info : info = build_rtti_hierarchy(Loaded(m).image)
            OBVIOUS
        <3>5. AsDeclared(Loaded(m).decl, info)
            BY <3>3, <3>4, RecoversDeclared
        <3> DEFINE map == m_rtti_map'
                   own == {k \in DOMAIN map : k[1] = m}
        <3>6. m_rtti_map = << >>
            BY <2>2 DEF RttiInv
        <3>7. map = RttiOf(mods)
            BY <2>1
        <3> HIDE DEF mods, map
        <3>8. /\ \A k \in DOMAIN map : k[1] = m => \E c \in DOMAIN info : k = <<m, c>> /\ map[k] = info[c]
              /\ \A c \in DOMAIN info : <<m, c>> \in DOMAIN map /\ map[<<m, c>>] = info[c]
            BY <3>1, <3>3, <3>4, <3>6, <3>7, FoundOfModule
        <3>9. {k[2] : k \in own} = DOMAIN info
            <4>1. ASSUME NEW k \in own PROVE k[2] \in DOMAIN info
                <5>1. PICK c \in DOMAIN info : k = <<m, c>>
                    BY <3>8
                <5> QED BY <5>1
            <4>2. ASSUME NEW c \in DOMAIN info PROVE \E k \in own : k[2] = c
                <5>1. <<m, c>> \in own /\ <<m, c>>[2] = c
                    BY <3>8
                <5> QED BY <5>1
            <4> HIDE DEF own
            <4> QED BY <4>1, <4>2
        <3>10. AsDeclared(Loaded(m).decl, [c \in DOMAIN info |-> map[<<m, c>>]])
            <4> DEFINE f == [c \in DOMAIN info |-> map[<<m, c>>]]
            <4>1. DOMAIN f = DOMAIN info /\ \A c \in DOMAIN info : f[c] = info[c]
                BY <3>8
            <4> HIDE DEF f
            <4>2. AsDeclared(Loaded(m).decl, f)
                BY <3>5, <4>1 DEF AsDeclared
            <4> QED BY <4>2 DEF f
        <3> HIDE DEF own
        <3>11. AsDeclared(Loaded(m).decl, [c \in {k[2] : k \in own} |-> map[<<m, c>>]])
            BY <3>9, <3>10, Zenon
        <3> QED BY <3>11 DEF own, map
    <2>6. RttiAsDeclared'
        <3>1. \A S : Interesting(S)' = Interesting(S)
            BY <2>3 DEF Interesting
        <3> QED BY <2>2, <2>3, <2>5, <3>1 DEF RttiAsDeclared
    <2> QED BY <2>2, <2>6 DEF RttiInv
<1>3. CASE \E key \in unresolved : ResolveRtti(key)
    BY <1>3, RttiFrame DEF ResolveRtti
<1>4. CASE PhaseGlobals
    BY <1>4, RttiFrame DEF PhaseGlobals, schemaVars
<1>5. CASE PhasePatterns
    BY <1>5, RttiFrame DEF PhasePatterns, schemaVars
<1>6. CASE PhaseReferences
    BY <1>6, RttiFrame DEF PhaseReferences, schemaVars
<1>7. CASE WriteExport
    BY <1>7, RttiFrame DEF WriteExport, schemaVars
<1>8. CASE UNCHANGED dumpVars
    BY <1>8, RttiFrame DEF dumpVars, schemaVars, workerVars
<1> QED BY <1>1, <1>2, <1>3, <1>4, <1>5, <1>6, <1>7, <1>8 DEF DumpNext

\* Whatever classes a module was compiled from, and wherever the linker put their
\* locators and vtables, what RTTI yields of a scanned module is what was
\* declared: parent, chain and functions of every class within the limits.
THEOREM RttiIsAsDeclared == DumpSpec => []RttiAsDeclared
<1>1. RttiInv => RttiAsDeclared
    BY DEF RttiInv
<1> QED BY <1>1, RttiInvInit, RttiInvStep, PTL DEF DumpSpec

-----------------------------------------------------------------------------
(* What the export shows of the line of bases of a class. *)

ParentIn(decl, c) == IF decl[c].bases = << >> THEN NoName ELSE decl[c].bases[1]

\* RTTI knows the readable classes of the module, each with its first base.
Recovered(map, m) ==
  \A c \in DOMAIN Loaded(m).decl : ReadableBases(Loaded(m).decl, c) =>
    <<m, c>> \in DOMAIN map /\ map[<<m, c>>].parent = ParentIn(Loaded(m).decl, c)

\* c is what the cache has under its name, with the parent RTTI has for it.
RowShows(m, c) ==
  /\ <<m, c.name>> \in DOMAIN m_cache
  /\ c.info = m_cache[<<m, c.name>>].info /\ c.fields = m_cache[<<m, c.name>>].fields
  /\ <<m, c.name>> \in DOMAIN m_rtti_map => c.parent = m_rtti_map[<<m, c.name>>].parent

\* The classes are those that are cached under the module.
IsCached(m, classes) ==
  /\ \A j \in DOMAIN classes : RowShows(m, classes[j])
  /\ \A k \in DOMAIN m_cache : k[1] = m => \E j \in DOMAIN classes : classes[j].name = k[2]

AllCached(mods) == \A i \in DOMAIN mods : IsCached(mods[i].name, mods[i].classes)

\* What is cached is of the modules that were dumped, RTTI has what was declared
\* in them, and the file shows both.
LineInv ==
  /\ phase \in {"schema", "rtti"} => m_rtti_map = << >>
  /\ phase \notin {"schema", "done"} => m_dumped_modules # << >>
  /\ \A k \in DOMAIN m_cache : k[1] \in ToSet(m_dumped_modules)
  /\ phase \notin {"schema", "rtti"} => \A m \in ToSet(m_dumped_modules) : Recovered(m_rtti_map, m)
  /\ export # << >> => 1 \in DOMAIN export.modules /\ AllCached(export.modules)

LEMMA LineInvInit == DumpInit => LineInv
BY DEF DumpInit, SchemaInit, LineInv

\* A dumped module is compiled from its declared classes, which RTTI recovers.
LEMMA RttiRecovers ==
  ASSUME game \in Games, m_rtti_map = << >>, NEW mods, NEW m \in mods, m \in LoadedNames
  PROVE  Recovered(RttiOf(mods), m)
<1>1. PICK i \in DOMAIN game.loaded : Loaded(m) = game.loaded[i] /\ game.loaded[i].name = m
    BY DEF LoadedNames, Loaded
<1>2. game.loaded[i].name \in ToSet(ModuleOrder)
    BY GamesAssumption, Zenon
<1>3. IsCompiled(game.loaded[i].decl, game.loaded[i].image)
    BY ImagesAssumption, Zenon
<1>4. PICK decl, img : decl = Loaded(m).decl /\ img = Loaded(m).image
    OBVIOUS
<1>5. IsCompiled(decl, img) /\ m \in ToSet(ModuleOrder)
    BY <1>1, <1>2, <1>3, <1>4
<1>6. PICK info, map : info = build_rtti_hierarchy(Loaded(m).image) /\ map = RttiOf(mods)
    OBVIOUS
<1>7. \A c \in DOMAIN info : <<m, c>> \in DOMAIN map /\ map[<<m, c>>] = info[c]
    BY <1>5, <1>6, FoundOfModule
<1>8. ASSUME NEW c \in DOMAIN decl, ReadableBases(decl, c)
      PROVE  c \in DOMAIN info /\ info[c].parent = ParentIn(decl, c)
    BY <1>4, <1>5, <1>6, <1>8, ParentIs DEF ParentIn
<1> QED BY <1>4, <1>6, <1>7, <1>8 DEF Recovered

\* The classes of a module in the file are those that are cached under it.
LEMMA ExportModuleCached ==
  ASSUME game \in Games, Taken(m_cache), NEW first, NEW order \in SetToSeqs(DOMAIN m_cache), NEW m
  PROVE  IsCached(m, ExportModule(first, order, m).classes)
<1> DEFINE D == DOMAIN m_cache
           S == {k \in D : k[1] = m}
           keys == Kept(order, S)
           classes == [j \in DOMAIN keys |-> ExportClass(keys[j], get_inheritance(first, keys[j]))]
<1>1. ExportModule(first, order, m).classes = classes
    BY DEF ExportModule
<1>2. /\ IsRow(order) /\ \A i, j \in DOMAIN order : order[i] = order[j] => i = j
      /\ \A k \in D : \E i \in DOMAIN order : order[i] = k
    <2>1. Cardinality(D) \in Nat
        BY CacheIsFinite, FS_CardinalityType
    <2>2. /\ order \in [1..Cardinality(D) -> D]
          /\ \A i, j \in 1..Cardinality(D) : i # j => order[i] # order[j]
        BY DEF SetToSeqs
    <2>3. \A k \in D : \E i \in 1..Cardinality(D) : order[i] = k
        <3> DEFINE n == Cardinality(D)
        <3>1. IsFiniteSet(D) /\ IsFiniteSet(1..n) /\ Cardinality(1..n) = n
            BY <2>1, CacheIsFinite, FS_Interval
        <3>2. order \in Injection(1..n, D)
            BY <2>2 DEF Injection, IsInjective
        <3> HIDE DEF D
        <3>3. order \in Surjection(1..n, D)
            BY <3>1, <3>2, FS_Injection
        <3> QED BY <3>3 DEF Surjection
    <2> HIDE DEF D
    <2> QED BY <2>1, <2>2, <2>3 DEF IsRow
<1>3. /\ OnceEach(keys, S)
      /\ \A j \in DOMAIN order : order[j] \in S => \E k \in DOMAIN keys : keys[k] = order[j]
    <2> HIDE DEF S
    <2> QED BY <1>2, KeptOnceEach
<1>4. keys \in Seq(S)
    BY <1>3, Zenon DEF OnceEach
<1> HIDE DEF keys
<1>5. \A j \in DOMAIN keys : keys[j] \in D /\ keys[j][1] = m
    BY <1>4
<1>6. ASSUME NEW j \in DOMAIN keys, NEW k, k = keys[j], NEW c, c = classes[j]
      PROVE  k = <<m, c.name>> /\ RowShows(m, c)
    <2>1. k \in D /\ k[1] = m /\ c = ExportClass(k, get_inheritance(first, k))
        BY <1>5, <1>6
    <2>2. k = <<m, c.name>>
        <3>1. k = <<k[1], c.name>>
            BY <2>1, ExportClassIs
        <3> QED BY <2>1, <3>1
    <2>3. c.info = m_cache[k].info /\ c.fields = m_cache[k].fields
        BY <2>1 DEF ExportClass
    <2>4. ASSUME k \in DOMAIN m_rtti_map PROVE c.parent = m_rtti_map[k].parent
        <3>1. get_inheritance(first, k) = {k}
            BY <2>4 DEF get_inheritance
        <3>2. (CHOOSE x \in {k} : TRUE) = k /\ {k} # {}
            OBVIOUS
        <3>3. c = ExportClass(k, {k})
            BY <2>1, <3>1
        <3> HIDE DEF classes, D
        <3> QED BY <3>2, <3>3 DEF ExportClass
    <2> HIDE DEF classes, D
    <2> QED BY <2>1, <2>2, <2>3, <2>4 DEF RowShows, D
<1>7. DOMAIN classes = DOMAIN keys
    OBVIOUS
<1>8. ASSUME NEW k \in DOMAIN m_cache, k[1] = m PROVE \E j \in DOMAIN keys : classes[j].name = k[2]
    <2>1. PICK i \in DOMAIN order : order[i] = k
        BY <1>2
    <2>2. PICK j \in DOMAIN keys : keys[j] = k
        BY <1>3, <1>8, <2>1
    <2>3. k = <<m, classes[j].name>>
        BY <1>6, <2>2
    <2> HIDE DEF classes
    <2> QED BY <2>3
<1> HIDE DEF classes
<1>9. IsCached(m, classes)
    BY <1>6, <1>7, <1>8 DEF IsCached
<1> QED BY <1>1, <1>9

\* A step that reads the game no further leaves what the rows show.
LEMMA LineFrame ==
  ASSUME LineInv, UNCHANGED <<game, m_cache, m_dumped_modules, m_rtti_map, export>>,
         phase' = phase \/ {phase, phase'} \cap {"schema", "rtti", "done"} = {}
  PROVE  LineInv'
<1>1. \A m : Loaded(m)' = Loaded(m)
    BY DEF Loaded
<1>2. \A map, m : Recovered(map, m)' = Recovered(map, m)
    BY <1>1 DEF Recovered
<1>3. \A m, c : RowShows(m, c)' = RowShows(m, c)
    BY DEF RowShows
<1>4. \A m, classes : IsCached(m, classes)' = IsCached(m, classes)
    BY <1>3 DEF IsCached
<1>5. \A mods : AllCached(mods)' = AllCached(mods)
    BY <1>4 DEF AllCached
<1> QED BY <1>2, <1>5 DEF LineInv

LEMMA LineInvStep == ExportInv /\ CachedInv /\ LineInv /\ [DumpNext]_dumpVars => LineInv'
<1> SUFFICES ASSUME ExportInv, CachedInv, LineInv, [DumpNext]_dumpVars PROVE LineInv'
    OBVIOUS
<1>0. game \in Games /\ (phase # "done" => export = << >>)
    BY DEF ExportInv
<1>1. CASE PhaseSchema
    <2>1. /\ phase = "schema" /\ m_rtti_map' = m_rtti_map /\ export' = export /\ dump_all_modules
          /\ phase' = IF m_dumped_modules' = << >> THEN "done" ELSE "rtti"
        BY <1>1 DEF PhaseSchema
    <2> DEFINE cache == ClassesUpTo(Len(game.loaded))
    <2>2. /\ game' = game /\ m_cache' = cache
          /\ \E E : m_dumped_modules' = InModuleOrder({m \in {x \in LoadedNames : HasOwnScope(x)} :
                                                         \E k \in DOMAIN cache \cup E : k[1] = m})
        BY <2>1, Zenon DEF dump_all_modules, LoadedNames
    <2>3. PICK E : m_dumped_modules' = InModuleOrder({m \in {x \in LoadedNames : HasOwnScope(x)} :
                                                         \E k \in DOMAIN cache \cup E : k[1] = m})
        BY <2>2
    <2> DEFINE yielded == {m \in {x \in LoadedNames : HasOwnScope(x)} : \E k \in DOMAIN cache \cup E : k[1] = m}
    <2>4. OfLoaded(cache)
        <3>1. Len(game.loaded) \in 0..Len(game.loaded) /\ m_cache = << >>
            BY <1>0, <2>1, GamesAssumption DEF CachedInv, IsRow
        <3> QED BY <1>0, <3>1, ModulesAreClosed
    <2>5. ASSUME NEW k \in DOMAIN m_cache' PROVE k[1] \in ToSet(m_dumped_modules')
        <3>1. k[1] \in yielded
            BY <2>2, <2>4 DEF OfLoaded
        <3>2. PICK j \in DOMAIN ModuleOrder : ModuleOrder[j] = k[1]
            <4>1. PICK i \in DOMAIN game.loaded : game.loaded[i].name = k[1]
                BY <3>1 DEF LoadedNames
            <4>2. game.loaded[i].name \in ToSet(ModuleOrder)
                BY <1>0, GamesAssumption, Zenon
            <4> QED BY <4>1, <4>2 DEF ToSet
        <3> HIDE DEF yielded
        <3>3. \E i \in DOMAIN Kept(ModuleOrder, yielded) : Kept(ModuleOrder, yielded)[i] = ModuleOrder[j]
            BY <3>1, <3>2, OrderAssumption, KeptOnceEach
        <3>4. m_dumped_modules' = Kept(ModuleOrder, yielded)
            BY <2>3 DEF InModuleOrder, yielded
        <3> QED BY <3>2, <3>3, <3>4 DEF ToSet
    <2>6. m_rtti_map' = << >> /\ export' = << >>
        BY <1>0, <2>1 DEF LineInv
    <2>7. ASSUME phase' \notin {"schema", "rtti"} PROVE ToSet(m_dumped_modules') = {}
        BY <2>1, <2>7 DEF ToSet
    <2> HIDE DEF cache
    <2>8. phase' \notin {"schema", "done"} => m_dumped_modules' # << >>
        BY <2>1
    <2> QED BY <2>5, <2>6, <2>7, <2>8 DEF LineInv
<1>2. CASE PhaseRtti
    <2>1. PICK seen \in SeenBy(LoadedNames) :
             m_rtti_map' = RttiOf(ToSet(m_dumped_modules) \cup Interesting(seen))
        BY <1>2 DEF PhaseRtti
    <2>2. /\ UNCHANGED <<game, m_cache, m_dumped_modules, export>> /\ phase = "rtti" /\ phase' = "resolve"
          /\ m_rtti_map = << >>
        BY <1>2 DEF PhaseRtti, schemaVars, LineInv
    <2>3. \A m \in ToSet(m_dumped_modules) : Recovered(m_rtti_map', m)
        <3>1. ToSet(m_dumped_modules) \subseteq LoadedNames
            BY DEF ExportInv, OnceEach, ToSet
        <3> QED BY <1>0, <2>1, <2>2, <3>1, RttiRecovers
    <2>4. \A m : Loaded(m)' = Loaded(m)
        BY <2>2 DEF Loaded
    <2>5. \A map, m : Recovered(map, m)' = Recovered(map, m)
        BY <2>4 DEF Recovered
    <2>6. \A m \in ToSet(m_dumped_modules') : Recovered(m_rtti_map', m)
        BY <2>2, <2>3
    <2>7. export' = << >>
        BY <1>0, <2>2
    <2>8. \A m \in ToSet(m_dumped_modules') : Recovered(m_rtti_map, m)'
        BY <2>4, <2>6 DEF Recovered
    <2> QED BY <2>2, <2>7, <2>8 DEF LineInv
<1>3. ASSUME NEW key \in unresolved, ResolveRtti(key) PROVE LineInv'
    <2> DEFINE found == Kept(m_dumped_modules, {m \in LoadedNames : Finds(m, key[2])})
    <2>1. /\ UNCHANGED <<game, m_dumped_modules, phase, m_rtti_map, export>> /\ phase = "resolve"
          /\ IF found = << >> THEN UNCHANGED m_cache ELSE find_class(found[1], key[2])
        BY <1>3 DEF ResolveRtti
    <2>2. export' = << >> /\ \A m : Loaded(m)' = Loaded(m)
        BY <1>0, <2>1 DEF Loaded
    <2>3. CASE m_cache' = m_cache
        BY <2>1, <2>3, LineFrame
    <2>4. CASE found # << >> /\ find_class(found[1], key[2])
        <3>1. /\ OnceEach(found, {m \in LoadedNames : Finds(m, key[2])})
              /\ \A k \in DOMAIN found : \E j \in DOMAIN m_dumped_modules : found[k] = m_dumped_modules[j]
            <4>1. IsRow(m_dumped_modules) /\ \A i, j \in DOMAIN m_dumped_modules :
                                               m_dumped_modules[i] = m_dumped_modules[j] => i = j
                BY DEF ExportInv, OnceEach, IsRow
            <4> QED BY <4>1, KeptOnceEach
        <3>2. found[1] \in ToSet(m_dumped_modules)
            <4>1. 1 \in DOMAIN found
                BY <2>4, <3>1 DEF OnceEach
            <4> QED BY <3>1, <4>1 DEF ToSet
        <3> HIDE DEF found
        <3>3. ASSUME NEW e, m_cache' = Emplace(m_cache, found[1], {resolve_class(e)})
              PROVE  \A k \in DOMAIN m_cache' : k[1] \in ToSet(m_dumped_modules)
            <4>1. DOMAIN m_cache' = DOMAIN m_cache \cup {<<found[1], r.name>> : r \in {resolve_class(e)}}
                BY <3>3 DEF Emplace
            <4> QED BY <3>2, <4>1 DEF LineInv
        <3>4. \A k \in DOMAIN m_cache' : k[1] \in ToSet(m_dumped_modules)
            BY <2>4, <3>3 DEF find_class, LineInv
        <3>5. \A map, m : Recovered(map, m)' = Recovered(map, m)
            BY <2>2 DEF Recovered
        <3> QED BY <2>1, <2>2, <3>4, <3>5 DEF LineInv
    <2> QED BY <2>1, <2>3, <2>4
<1>4. CASE PhaseGlobals
    BY <1>4, LineFrame DEF PhaseGlobals, schemaVars
<1>5. CASE PhasePatterns
    BY <1>5, LineFrame DEF PhasePatterns, schemaVars
<1>6. CASE PhaseReferences
    BY <1>6, LineFrame DEF PhaseReferences, schemaVars
<1>7. CASE WriteExport
    <2>1. PICK first \in MetFirst, order \in SetToSeqs(DOMAIN m_cache), names \in ExportModules :
             export'.modules = [i \in DOMAIN names |-> ExportModule(first, order, names[i])]
        BY <1>7 DEF WriteExport
    <2>2. /\ UNCHANGED <<game, m_cache, m_dumped_modules, m_rtti_map>> /\ phase = "export" /\ phase' = "done"
          /\ Taken(m_cache)
        BY <1>7 DEF WriteExport, schemaVars, CachedInv
    <2>3. \A i \in DOMAIN names : /\ ExportModule(first, order, names[i]).name = names[i]
                                   /\ IsCached(names[i], ExportModule(first, order, names[i]).classes)
        <3>1. \A m : ExportModule(first, order, m).name = m
            BY DEF ExportModule
        <3> QED BY <1>0, <2>2, <3>1, ExportModuleCached
    <2>4. AllCached(export'.modules)
        BY <2>1, <2>3 DEF AllCached
    <2>5. \A m : Loaded(m)' = Loaded(m)
        BY <2>2 DEF Loaded
    <2>6. \A map, m : Recovered(map, m)' = Recovered(map, m)
        BY <2>5 DEF Recovered
    <2>7. \A m, c : RowShows(m, c)' = RowShows(m, c)
        BY <2>2 DEF RowShows
    <2>8. \A m, classes : IsCached(m, classes)' = IsCached(m, classes)
        BY <2>2, <2>7 DEF IsCached
    <2>9. AllCached(export.modules)'
        BY <2>4, <2>8 DEF AllCached
    <2>10. 1 \in DOMAIN export'.modules
        BY <2>1, <2>2, NamesOnce DEF ExportInv, LineInv
    <2> QED BY <2>2, <2>6, <2>9, <2>10 DEF LineInv
<1>8. CASE UNCHANGED dumpVars
    BY <1>8, LineFrame DEF dumpVars, schemaVars, workerVars
<1> QED BY <1>1, <1>2, <1>3, <1>4, <1>5, <1>6, <1>7, <1>8 DEF DumpNext

-----------------------------------------------------------------------------
(* The line of a class, for the flattened fields. *)

\* The first base of a class is a class of the module.
FirstBases(decl) == \A d \in DOMAIN decl : decl[d].bases # << >> => decl[d].bases[1] \in DOMAIN decl

\* The line begins with the class and has with each class its first base.
LEMMA LineHas ==
  ASSUME NEW decl, FirstBases(decl), NEW class \in DOMAIN decl
  PROVE  /\ class \in LineOf(decl, class) /\ LineOf(decl, class) \subseteq DOMAIN decl
         /\ \A c \in LineOf(decl, class) : decl[c].bases # << >> => decl[c].bases[1] \in LineOf(decl, class)
BY DEF LineOf, FirstBases

\* Whatever begins with the class and has with each class its first base has
\* the whole line.
LEMMA LineLeast ==
  ASSUME NEW decl, NEW class, NEW S \in SUBSET DOMAIN decl, class \in S,
         \A d \in S : decl[d].bases # << >> => decl[d].bases[1] \in S
  PROVE  LineOf(decl, class) \subseteq S
BY DEF LineOf

\* Behind a class comes the line of its first base.
LEMMA LineSplits ==
  ASSUME NEW decl, FirstBases(decl), NEW class \in DOMAIN decl
  PROVE  /\ decl[class].bases = << >> => LineOf(decl, class) = {class}
         /\ decl[class].bases # << >> => LineOf(decl, class) = {class} \cup LineOf(decl, decl[class].bases[1])
<1>1. CASE decl[class].bases = << >>
    <2>1. {class} \in SUBSET DOMAIN decl /\ \A d \in {class} : decl[d].bases = << >>
        BY <1>1
    <2>2. LineOf(decl, class) \subseteq {class}
        <3>1. PICK S : S = {class}
            OBVIOUS
        <3>2. S \in SUBSET DOMAIN decl /\ class \in S /\ \A d \in S : decl[d].bases # << >> => decl[d].bases[1] \in S
            BY <2>1, <3>1
        <3> QED BY <3>1, <3>2, LineLeast
    <2> QED BY <1>1, <2>2, LineHas
<1>2. CASE decl[class].bases # << >>
    <2> DEFINE base == decl[class].bases[1]
               S == {class} \cup LineOf(decl, base)
    <2>1. base \in DOMAIN decl
        BY <1>2 DEF FirstBases
    <2>2. /\ base \in LineOf(decl, base) /\ LineOf(decl, base) \subseteq DOMAIN decl
          /\ \A c \in LineOf(decl, base) : decl[c].bases # << >> => decl[c].bases[1] \in LineOf(decl, base)
        BY <2>1, LineHas
    <2>3. LineOf(decl, class) \subseteq S
        <3>1. /\ S \in SUBSET DOMAIN decl /\ class \in S
              /\ \A d \in S : decl[d].bases # << >> => decl[d].bases[1] \in S
            BY <1>2, <2>2
        <3> HIDE DEF S
        <3> QED BY <3>1, LineLeast
    <2>4. LineOf(decl, base) \subseteq LineOf(decl, class)
        <3>1. base \in LineOf(decl, class)
            BY <1>2, LineHas
        <3>2. /\ LineOf(decl, class) \in SUBSET DOMAIN decl
              /\ \A d \in LineOf(decl, class) : decl[d].bases # << >> => decl[d].bases[1] \in LineOf(decl, class)
            BY LineHas
        <3> QED BY <3>1, <3>2, LineLeast
    <2> QED BY <1>2, <2>3, <2>4, LineHas
<1> QED BY <1>1, <1>2

\* What is loaded was compiled.
LEMMA DeclIs ==
  ASSUME game \in Games, NEW m \in LoadedNames
  PROVE  /\ IsCompiled(Loaded(m).decl, Loaded(m).image)
         /\ FirstBases(Loaded(m).decl) /\ NoName \notin DOMAIN Loaded(m).decl
         /\ \A c \in DOMAIN Loaded(m).decl :
              Loaded(m).decl[c].bases # << >> => c \notin LineOf(Loaded(m).decl, Loaded(m).decl[c].bases[1])
<1>1. PICK i \in DOMAIN game.loaded : Loaded(m) = game.loaded[i]
    BY DEF LoadedNames, Loaded
<1>2. IsCompiled(game.loaded[i].decl, game.loaded[i].image)
    BY ImagesAssumption, Zenon
<1>3. PICK decl, img : decl = Loaded(m).decl /\ img = Loaded(m).image
    OBVIOUS
<1>4. IsCompiled(decl, img)
    BY <1>1, <1>2, <1>3
<1>5. /\ NoName \notin DOMAIN decl /\ \A c \in DOMAIN decl : decl[c].bases \in Seq(DOMAIN decl)
      /\ \A c \in DOMAIN decl : decl[c].bases # << >> => c \notin LineOf(decl, decl[c].bases[1])
    BY <1>4 DEF IsCompiled
<1>6. FirstBases(decl)
    <2> SUFFICES ASSUME NEW d \in DOMAIN decl, decl[d].bases # << >> PROVE decl[d].bases[1] \in DOMAIN decl
        BY DEF FirstBases
    <2> QED BY <1>5
<1> QED BY <1>3, <1>4, <1>5, <1>6

\* A sorted row has the same elements, in the order of their keys.
LEMMA SortedKeeps ==
  ASSUME NEW s, IsRow(s), NEW key \in [DOMAIN s -> Nat], NEW sorted, sorted = SortedBy(s, key)
  PROVE  /\ DOMAIN sorted = DOMAIN s /\ IsRow(sorted) /\ ToSet(sorted) = ToSet(s)
         /\ \E p : /\ \A i \in DOMAIN s : p[i] \in DOMAIN s /\ sorted[i] = s[p[i]]
                   /\ \A i, j \in DOMAIN s : i < j => key[p[i]] <= key[p[j]]
<1> DEFINE n == Len(s)
<1>1. n \in Nat /\ DOMAIN s = 1..n
    BY DEF IsRow
<1>2. PICK p : InPlace(p, key, n) /\ sorted = [i \in 1..n |-> s[p[i]]]
    BY <1>1, SortedIs
<1> HIDE DEF n
<1>3. DOMAIN sorted = 1..n /\ \A i \in 1..n : sorted[i] = s[p[i]]
    BY <1>2
<1>4. \A i \in 1..n : p[i] \in 1..n
    <2>1. p \in Seq(1..n) /\ Len(p) = n
        BY <1>2, Zenon DEF InPlace
    <2> QED BY <1>1, <2>1
<1>5. \A j \in 1..n : \E i \in 1..n : p[i] = j
    BY <1>2, Zenon DEF InPlace
<1>6. \A i, j \in 1..n : i < j => key[p[i]] <= key[p[j]]
    <2>1. Ordered(p, key) /\ p \in Seq(1..n) /\ Len(p) = n
        BY <1>2, Zenon DEF InPlace
    <2>2. DOMAIN p = 1..n
        BY <1>1, <2>1
    <2> QED BY <2>1, <2>2 DEF Ordered
<1>7. IsRow(sorted)
    <2>1. Len(sorted) = n
        BY <1>1, <1>2
    <2> QED BY <1>1, <1>3, <2>1 DEF IsRow
<1>8. ToSet(sorted) = ToSet(s)
    <2>1. ASSUME NEW x \in ToSet(sorted) PROVE x \in ToSet(s)
        BY <1>1, <1>3, <1>4 DEF ToSet
    <2>2. ASSUME NEW x \in ToSet(s) PROVE x \in ToSet(sorted)
        <3>1. PICK j \in 1..n : x = s[j]
            BY <1>1 DEF ToSet
        <3>2. PICK i \in 1..n : p[i] = j
            BY <1>5
        <3> QED BY <1>3, <3>1, <3>2 DEF ToSet
    <2> QED BY <2>1, <2>2
<1> QED BY <1>1, <1>3, <1>4, <1>6, <1>7, <1>8

LEMMA SortedIsSequence ==
  ASSUME NEW s, IsRow(s), NEW key \in [DOMAIN s -> Nat], NEW sorted, sorted = SortedBy(s, key)
  PROVE  sorted \in Seq(ToSet(sorted))
<1> DEFINE n == Len(s)
<1>1. n \in Nat /\ DOMAIN s = 1..n
    BY DEF IsRow
<1>2. PICK p : sorted = [i \in 1..n |-> s[p[i]]]
    BY <1>1, SortedIs
<1> HIDE DEF n
<1>3. \A i \in 1..n : sorted[i] \in ToSet(sorted)
    BY <1>2 DEF ToSet
<1>4. sorted \in [1..n -> ToSet(sorted)]
    BY <1>2, <1>3
<1> QED BY <1>1, <1>4

\* Two sequences one after the other have the elements of both.
LEMMA RowsConcatenate ==
  ASSUME NEW a, a \in Seq(ToSet(a)), NEW b, b \in Seq(ToSet(b))
  PROVE  a \o b \in Seq(ToSet(a \o b)) /\ ToSet(a \o b) = ToSet(a) \cup ToSet(b)
<1> DEFINE S == ToSet(a) \cup ToSet(b)
<1>0. PICK c : c = a \o b
    OBVIOUS
<1>1. a \in Seq(S) /\ b \in Seq(S)
    <2>1. \A A, B : A \subseteq B => Seq(A) \subseteq Seq(B)
        OBVIOUS
    <2> QED BY <2>1, Zenon
<1>2. /\ c \in Seq(S) /\ Len(c) = Len(a) + Len(b)
      /\ \A i \in 1..Len(a) + Len(b) : c[i] = IF i <= Len(a) THEN a[i] ELSE b[i - Len(a)]
    <2> HIDE DEF S
    <2> QED BY <1>0, <1>1, ConcatProperties, Zenon
<1> HIDE DEF S
<1>3. /\ Len(a) \in Nat /\ Len(b) \in Nat /\ DOMAIN a = 1..Len(a) /\ DOMAIN b = 1..Len(b)
      /\ DOMAIN c = 1..(Len(a) + Len(b))
    BY <1>1, <1>2
<1>4. ASSUME NEW x \in ToSet(c) PROVE x \in ToSet(a) \cup ToSet(b)
    <2>1. PICK i \in DOMAIN c : x = c[i]
        BY DEF ToSet
    <2>2. CASE i <= Len(a)
        BY <1>2, <1>3, <2>1, <2>2 DEF ToSet
    <2>3. CASE i > Len(a)
        <3>1. i - Len(a) \in DOMAIN b /\ x = b[i - Len(a)]
            BY <1>2, <1>3, <2>1, <2>3
        <3> QED BY <3>1 DEF ToSet
    <2> QED BY <1>3, <2>2, <2>3
<1>5. ASSUME NEW x \in ToSet(a) PROVE x \in ToSet(c)
    <2>1. PICK i \in DOMAIN a : x = a[i]
        BY DEF ToSet
    <2>2. i \in DOMAIN c /\ c[i] = x
        BY <1>2, <1>3, <2>1
    <2> QED BY <2>2 DEF ToSet
<1>6. ASSUME NEW x \in ToSet(b) PROVE x \in ToSet(c)
    <2>1. PICK i \in DOMAIN b : x = b[i]
        BY DEF ToSet
    <2>2. i + Len(a) \in DOMAIN c /\ c[i + Len(a)] = x
        BY <1>2, <1>3, <2>1
    <2> QED BY <2>2 DEF ToSet
<1>7. c \in Seq(ToSet(c))
    <2>1. \A i \in DOMAIN c : c[i] \in ToSet(c)
        BY DEF ToSet
    <2>2. c \in [1..Len(c) -> ToSet(c)] /\ Len(c) \in Nat
        BY <1>2, <2>1
    <2> QED BY <2>2
<1> QED BY <1>0, <1>4, <1>5, <1>6, <1>7
==============================================================================
