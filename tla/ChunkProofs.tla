---------------------------- MODULE ChunkProofs ----------------------------
(***************************************************************************)
(* Proofs about Chunking, for any text.                                    *)
(***************************************************************************)
EXTENDS Chunking, SequenceTheorems, WellFoundedInduction, TLAPS

-----------------------------------------------------------------------------
(* Induction, with sets in place of predicates.                            *)

(* A set of numbers has a least one.                                       *)
LEMMA LeastNumber ==
  ASSUME NEW T, T \subseteq Nat, T # {}
  PROVE  \E n \in T : \A m \in T : n <= m
<1> DEFINE less == {p \in Nat \X Nat : p[1] < p[2]}
<1>1. IsWellFoundedOn(less, Nat)
  BY NatLessThanWellFounded DEF OpToRel
<1>2. PICK n \in T : \A m \in T : ~(<<m, n>> \in less)
  BY <1>1, WFMin, Zenon
<1>3. ASSUME NEW m \in T PROVE n <= m
  <2>1. ~(<<m, n>> \in less)
    BY <1>2
  <2>2. m \in Nat /\ n \in Nat
    OBVIOUS
  <2>3. ~(m < n)
    BY <2>1, <2>2
  <2> QED BY <2>2, <2>3
<1> QED BY <1>3

(* What holds at 0 and goes from each number to the next holds up to N.    *)
LEMMA InductionTo ==
  ASSUME NEW N \in Nat, NEW T, 0 \in T, \A i \in 0..N - 1 : i \in T => i + 1 \in T
  PROVE  \A i \in 0..N : i \in T
<1> SUFFICES ASSUME NEW k \in 0..N, k \notin T PROVE FALSE
  OBVIOUS
<1> DEFINE out == (0..N) \ T
<1>1. PICK n \in out : \A m \in out : n <= m
  <2>1. out \subseteq Nat /\ out # {}
    OBVIOUS
  <2> HIDE DEF out
  <2> QED BY <2>1, LeastNumber
<1>2. n \in 1..N
  OBVIOUS
<1>3. n - 1 \in 0..N - 1 /\ n - 1 \notin out
  BY <1>1, <1>2
<1>4. n - 1 \in T
  BY <1>2, <1>3
<1>5. (n - 1) + 1 \in T
  BY <1>3, <1>4
<1> QED BY <1>2, <1>5

(* Min and Max of sets of numbers, the latter bounded.                     *)
LEMMA MinIsLeast ==
  ASSUME NEW T, T \subseteq Nat, T # {}
  PROVE  Min(T) \in T /\ \A m \in T : Min(T) <= m
BY LeastNumber DEF Min

LEMMA MaxIsGreatest ==
  ASSUME NEW T, T \subseteq Nat, T # {}, NEW b \in Nat, \A m \in T : m <= b
  PROVE  Max(T) \in T /\ \A m \in T : m <= Max(T)
<1> DEFINE below == {b - m : m \in T}
<1>1. PICK d \in below : \A x \in below : d <= x
  <2>1. \A m \in T : b - m \in Nat
    OBVIOUS
  <2>2. below \subseteq Nat
    BY <2>1
  <2>3. below # {}
    OBVIOUS
  <2> HIDE DEF below
  <2> QED BY <2>2, <2>3, LeastNumber
<1>2. PICK n \in T : d = b - n
  OBVIOUS
<1>3. \A m \in T : m <= n
  BY <1>1, <1>2
<1>4. \E x \in T : \A y \in T : x >= y
  BY <1>3
<1>5. Max(T) \in T /\ \A y \in T : Max(T) >= y
  BY <1>4 DEF Max
<1> QED BY <1>5

(* A function defined along 0..N exists, if each step stays in its set.    *)
Follows(f, N, e, g) == f = [i \in 0..N |-> IF i = 0 THEN e ELSE g[<<f[i - 1], i>>]]

LEMMA RecursionExists ==
  ASSUME NEW N \in Nat, NEW S, NEW e, e \in S[0],
         NEW g, \A i \in 1..N : \A a \in S[i - 1] : g[<<a, i>>] \in S[i]
  PROVE  \E f : Follows(f, N, e, g) /\ \A i \in 0..N : f[i] \in S[i]
<1> DEFINE Goes(f, n) == /\ f = [i \in 0..n |-> IF i = 0 THEN e ELSE g[<<f[i - 1], i>>]]
                         /\ \A i \in 0..n : f[i] \in S[i]
           T == {n \in 0..N : \E f : Goes(f, n)}
<1>1. 0 \in T
  <2> DEFINE f == [i \in 0..0 |-> e]
  <2>1. \A i \in 0..0 : i = 0
    OBVIOUS
  <2>2. f = [i \in 0..0 |-> IF i = 0 THEN e ELSE g[<<f[i - 1], i>>]]
    BY <2>1
  <2>3. \A i \in 0..0 : f[i] \in S[i]
    BY <2>1
  <2> HIDE DEF f
  <2>4. Goes(f, 0)
    BY <2>2, <2>3
  <2> QED BY <2>4
<1>2. ASSUME NEW n \in 0..N - 1, n \in T PROVE n + 1 \in T
  <2>1. PICK f : Goes(f, n)
    BY <1>2
  <2> DEFINE h == [i \in 0..n + 1 |-> IF i = n + 1 THEN g[<<f[n], n + 1>>] ELSE f[i]]
  <2>2. \A i \in 0..n : h[i] = f[i]
    OBVIOUS
  <2>3. h[n + 1] = g[<<f[n], n + 1>>] /\ f[n] \in S[n]
    BY <2>1
  <2>4. g[<<f[n], n + 1>>] \in S[n + 1]
    <3>1. n + 1 \in 1..N /\ (n + 1) - 1 = n
      OBVIOUS
    <3> QED BY <2>3, <3>1
  <2>5. \A i \in 0..n + 1 : h[i] \in S[i]
    BY <2>1, <2>2, <2>3, <2>4
  <2>6. \A i \in 0..n + 1 : h[i] = IF i = 0 THEN e ELSE g[<<h[i - 1], i>>]
    <3> SUFFICES ASSUME NEW i \in 0..n + 1
                 PROVE  h[i] = IF i = 0 THEN e ELSE g[<<h[i - 1], i>>]
      OBVIOUS
    <3>1. CASE i = n + 1
      BY <2>2, <2>3, <3>1
    <3>2. CASE i \in 0..n
      <4>1. f[i] = IF i = 0 THEN e ELSE g[<<f[i - 1], i>>]
        BY <2>1, <3>2
      <4>2. i # 0 => h[i - 1] = f[i - 1]
        BY <2>2, <3>2
      <4> QED BY <2>2, <3>2, <4>1, <4>2
    <3> QED BY <3>1, <3>2
  <2> HIDE DEF h
  <2>7. h = [i \in 0..n + 1 |-> h[i]]
    BY DEF h
  <2>8. h = [i \in 0..n + 1 |-> IF i = 0 THEN e ELSE g[<<h[i - 1], i>>]]
    BY <2>6, <2>7
  <2>9. n + 1 \in 0..N
    OBVIOUS
  <2> QED BY <2>5, <2>8, <2>9
<1> HIDE DEF T
<1>3. N \in T
  BY <1>1, <1>2, InductionTo
<1> QED BY <1>3 DEF T, Follows

-----------------------------------------------------------------------------
(* The sums and the selections of the model, one step at a time.           *)

(* Cost sums up word by word.                                              *)
LEMMA CostSteps ==
  ASSUME NEW words \in Seq(Nat)
  PROVE  \E f : /\ f[0] = 0
                /\ \A k \in 1..Len(words) : f[k] = f[k - 1] + words[k]
                /\ \A k \in 0..Len(words) : f[k] \in Nat
                /\ Cost(words) = f[Len(words)]
<1> DEFINE N == Len(words)
           Sums(h) == h = [k \in 0..N |-> IF k = 0 THEN 0 ELSE h[k - 1] + words[k]]
           V == Nat
           g == [x \in V \X (1..N) |-> x[1] + words[x[2]]]
           S == [i \in 0..N |-> V]
<1>1. N \in Nat
  OBVIOUS
<1>2. 0 \in V
  OBVIOUS
<1>3. \A a \in V : \A i \in 1..N : a + words[i] \in V
  OBVIOUS
<1>4. \E h : Sums(h)
  <2>1. \A i \in 0..N : S[i] = V
    OBVIOUS
  <2>2. \A i \in 1..N : \A a \in V : g[<<a, i>>] = a + words[i]
    OBVIOUS
  <2> HIDE DEF g, S, N, V
  <2>3. \A i \in 1..N : \A a \in S[i - 1] : g[<<a, i>>] \in S[i]
    <3> TAKE i \in 1..N
    <3>1. i \in 0..N /\ i - 1 \in 0..N
      BY <1>1
    <3>2. S[i - 1] = V /\ S[i] = V
      BY <2>1, <3>1
    <3> TAKE a \in S[i - 1]
    <3>3. a \in V
      BY <3>2
    <3>4. a + words[i] \in V
      BY <1>3, <3>3, Zenon
    <3>5. g[<<a, i>>] \in V
      BY <2>2, <3>3, <3>4, Zenon
    <3> QED BY <3>2, <3>5
  <2>4. 0 \in S[0]
    BY <1>1, <1>2, <2>1
  <2>5. PICK u : Follows(u, N, 0, g) /\ \A i \in 0..N : u[i] \in S[i]
    <3> HIDE DEF Sums
    <3> QED BY <1>1, <2>3, <2>4, RecursionExists
  <2>6. \A i \in 0..N : i # 0 => g[<<u[i - 1], i>>] = u[i - 1] + words[i]
    <3> TAKE i \in 0..N
    <3> HAVE i # 0
    <3>1. i \in 1..N /\ i - 1 \in 0..N
      BY <1>1
    <3> QED BY <2>1, <2>2, <2>5, <3>1
  <2>7. Sums(u)
    BY <2>5, <2>6 DEF Follows
  <2> QED BY <2>7
<1> DEFINE f == CHOOSE h : Sums(h)
<1>5. Sums(f)
  BY <1>4
<1>6. Cost(words) = f[N]
  BY DEF Cost
<1> HIDE DEF f, V
<1>7. f[0] = 0 /\ \A k \in 1..N : f[k] = f[k - 1] + words[k]
  <2>1. 0 \in 0..N /\ \A k \in 1..N : k \in 0..N /\ k # 0
    BY <1>1
  <2> QED BY <1>5, <2>1
<1>8. \A k \in 0..N : f[k] \in V
  <2> DEFINE T == {k \in 0..N : f[k] \in V}
  <2>1. 0 \in T
    BY <1>1, <1>2, <1>7
  <2>2. ASSUME NEW i \in 0..N - 1, i \in T PROVE i + 1 \in T
    <3>1. i + 1 \in 1..N /\ (i + 1) - 1 = i
      BY <1>1
    <3>2. f[i + 1] = f[i] + words[(i + 1)]
      BY <1>7, <3>1
    <3>3. f[i] + words[(i + 1)] \in V
      BY <1>3, <2>2, <3>1
    <3>4. f[i + 1] \in V
      BY <3>2, <3>3, Zenon
    <3> QED BY <1>1, <3>1, <3>4
  <2> HIDE DEF T
  <2>3. \A i \in 0..N : i \in T
    BY <1>1, <2>1, <2>2, InductionTo
  <2> QED BY <2>3 DEF T
<1> QED BY <1>6, <1>7, <1>8 DEF V

(* Kept drops blank units, one by one.                                     *)
LEMMA KeptSteps ==
  ASSUME NEW P, NEW parts \in Seq(P)
  PROVE  \E f : /\ f[0] = <<>>
                /\ \A k \in 1..Len(parts) : f[k] = Keep(f[k - 1], parts[k])
                /\ \A k \in 0..Len(parts) : f[k] \in Seq(P)
                /\ Kept(parts) = f[Len(parts)]
<1> DEFINE N == Len(parts)
           Sums(h) == h = [k \in 0..N |->
             IF k = 0 THEN <<>> ELSE Keep(h[k - 1], parts[k])]
           V == Seq(P)
           g == [x \in V \X (1..N) |-> Keep(x[1], parts[x[2]])]
           S == [i \in 0..N |-> V]
<1>1. N \in Nat
  OBVIOUS
<1>2. <<>> \in V
  OBVIOUS
<1>3. \A a \in V : \A i \in 1..N : Keep(a, parts[i]) \in V
  <2> TAKE a \in V
  <2> TAKE i \in 1..N
  <2>1. parts[i] \in P
    OBVIOUS
  <2> QED BY <2>1 DEF Keep
<1>4. \E h : Sums(h)
  <2>1. \A i \in 0..N : S[i] = V
    OBVIOUS
  <2>2. \A i \in 1..N : \A a \in V : g[<<a, i>>] = Keep(a, parts[i])
    OBVIOUS
  <2> HIDE DEF g, S, N, V
  <2>3. \A i \in 1..N : \A a \in S[i - 1] : g[<<a, i>>] \in S[i]
    <3> TAKE i \in 1..N
    <3>1. i \in 0..N /\ i - 1 \in 0..N
      BY <1>1
    <3>2. S[i - 1] = V /\ S[i] = V
      BY <2>1, <3>1
    <3> TAKE a \in S[i - 1]
    <3>3. a \in V
      BY <3>2
    <3>4. Keep(a, parts[i]) \in V
      BY <1>3, <3>3, Zenon
    <3>5. g[<<a, i>>] \in V
      BY <2>2, <3>3, <3>4, Zenon
    <3> QED BY <3>2, <3>5
  <2>4. <<>> \in S[0]
    BY <1>1, <1>2, <2>1
  <2>5. PICK u : Follows(u, N, <<>>, g) /\ \A i \in 0..N : u[i] \in S[i]
    <3> HIDE DEF Sums
    <3> QED BY <1>1, <2>3, <2>4, RecursionExists
  <2>6. \A i \in 0..N : i # 0 => g[<<u[i - 1], i>>] = Keep(u[i - 1], parts[i])
    <3> TAKE i \in 0..N
    <3> HAVE i # 0
    <3>1. i \in 1..N /\ i - 1 \in 0..N
      BY <1>1
    <3> QED BY <2>1, <2>2, <2>5, <3>1
  <2>7. Sums(u)
    BY <2>5, <2>6 DEF Follows
  <2> QED BY <2>7
<1> DEFINE f == CHOOSE h : Sums(h)
<1>5. Sums(f)
  BY <1>4
<1>6. Kept(parts) = f[N]
  BY DEF Kept
<1> HIDE DEF f, V
<1>7. f[0] = <<>> /\ \A k \in 1..N : f[k] = Keep(f[k - 1], parts[k])
  <2>1. 0 \in 0..N /\ \A k \in 1..N : k \in 0..N /\ k # 0
    BY <1>1
  <2> QED BY <1>5, <2>1
<1>8. \A k \in 0..N : f[k] \in V
  <2> DEFINE T == {k \in 0..N : f[k] \in V}
  <2>1. 0 \in T
    BY <1>1, <1>2, <1>7
  <2>2. ASSUME NEW i \in 0..N - 1, i \in T PROVE i + 1 \in T
    <3>1. i + 1 \in 1..N /\ (i + 1) - 1 = i
      BY <1>1
    <3>2. f[i + 1] = Keep(f[i], parts[(i + 1)])
      BY <1>7, <3>1
    <3>3. Keep(f[i], parts[(i + 1)]) \in V
      BY <1>3, <2>2, <3>1
    <3>4. f[i + 1] \in V
      BY <3>2, <3>3, Zenon
    <3> QED BY <1>1, <3>1, <3>4
  <2> HIDE DEF T
  <2>3. \A i \in 0..N : i \in T
    BY <1>1, <2>1, <2>2, InductionTo
  <2> QED BY <2>3 DEF T
<1> QED BY <1>6, <1>7, <1>8 DEF V

LEMMA KeptIsTyped ==
  ASSUME NEW P, NEW parts \in Seq(P)
  PROVE  Kept(parts) \in Seq(P)
<1>1. Len(parts) \in 0..Len(parts)
  OBVIOUS
<1> QED BY <1>1, KeptSteps

LEMMA NewIsTyped ==
  ASSUME NEW P, NEW parts \in Seq(P), NEW n \in Nat
  PROVE  NewOf(parts, n) \in Seq(P)
<1>1. Len(parts) \in Nat /\ \A i \in n + 1..Len(parts) : parts[i] \in P
  OBVIOUS
<1>2. SubSeq(parts, n + 1, Len(parts)) \in Seq(P)
  BY <1>1, SubSeqProperties
<1> QED BY <1>2, KeptIsTyped DEF NewOf

(* Closed chunks, with the number of their repeats.                        *)
ClosedOf(P) == [parts : Seq(P), fresh : Nat]

(* Told appends what is new, chunk by chunk.                               *)
LEMMA ToldSteps ==
  ASSUME NEW P, NEW closed \in Seq(ClosedOf(P))
  PROVE  \E f : /\ f[0] = <<>>
                /\ \A k \in 1..Len(closed) : f[k] = f[k - 1] \o NewOf(closed[k].parts, closed[k].fresh)
                /\ \A k \in 0..Len(closed) : f[k] \in Seq(P)
                /\ Told(closed) = f[Len(closed)]
<1> DEFINE N == Len(closed)
           Sums(h) == h = [k \in 0..N |-> IF k = 0 THEN <<>>
             ELSE h[k - 1] \o NewOf(closed[k].parts, closed[k].fresh)]
           V == Seq(P)
           g == [x \in V \X (1..N) |->
             x[1] \o NewOf(closed[x[2]].parts, closed[x[2]].fresh)]
           S == [i \in 0..N |-> V]
<1>1. N \in Nat
  OBVIOUS
<1>2. <<>> \in V
  OBVIOUS
<1>3. \A a \in V : \A i \in 1..N : a \o NewOf(closed[i].parts, closed[i].fresh) \in V
  <2> TAKE a \in V
  <2> TAKE i \in 1..N
  <2>1. closed[i] \in ClosedOf(P)
    OBVIOUS
  <2>2. NewOf(closed[i].parts, closed[i].fresh) \in V
    BY <2>1, NewIsTyped DEF ClosedOf
  <2> QED BY <2>2, ConcatProperties
<1>4. \E h : Sums(h)
  <2>1. \A i \in 0..N : S[i] = V
    OBVIOUS
  <2>2. \A i \in 1..N : \A a \in V :
          g[<<a, i>>] = a \o NewOf(closed[i].parts, closed[i].fresh)
    OBVIOUS
  <2> HIDE DEF g, S, N, V
  <2>3. \A i \in 1..N : \A a \in S[i - 1] : g[<<a, i>>] \in S[i]
    <3> TAKE i \in 1..N
    <3>1. i \in 0..N /\ i - 1 \in 0..N
      BY <1>1
    <3>2. S[i - 1] = V /\ S[i] = V
      BY <2>1, <3>1
    <3> TAKE a \in S[i - 1]
    <3>3. a \in V
      BY <3>2
    <3>4. a \o NewOf(closed[i].parts, closed[i].fresh) \in V
      BY <1>3, <3>3, Zenon
    <3>5. g[<<a, i>>] \in V
      BY <2>2, <3>3, <3>4, Zenon
    <3> QED BY <3>2, <3>5
  <2>4. <<>> \in S[0]
    BY <1>1, <1>2, <2>1
  <2>5. PICK u : Follows(u, N, <<>>, g) /\ \A i \in 0..N : u[i] \in S[i]
    <3> HIDE DEF Sums
    <3> QED BY <1>1, <2>3, <2>4, RecursionExists
  <2>6. \A i \in 0..N : i # 0 => g[<<u[i - 1], i>>] = u[i - 1] \o NewOf(closed[i].parts, closed[i].fresh)
    <3> TAKE i \in 0..N
    <3> HAVE i # 0
    <3>1. i \in 1..N /\ i - 1 \in 0..N
      BY <1>1
    <3> QED BY <2>1, <2>2, <2>5, <3>1
  <2>7. Sums(u)
    BY <2>5, <2>6 DEF Follows
  <2> QED BY <2>7
<1> DEFINE f == CHOOSE h : Sums(h)
<1>5. Sums(f)
  BY <1>4
<1>6. Told(closed) = f[N]
  BY DEF Told
<1> HIDE DEF f, V
<1>7. /\ f[0] = <<>>
      /\ \A k \in 1..N : f[k] = f[k - 1] \o NewOf(closed[k].parts, closed[k].fresh)
  <2>1. 0 \in 0..N /\ \A k \in 1..N : k \in 0..N /\ k # 0
    BY <1>1
  <2> QED BY <1>5, <2>1
<1>8. \A k \in 0..N : f[k] \in V
  <2> DEFINE T == {k \in 0..N : f[k] \in V}
  <2>1. 0 \in T
    BY <1>1, <1>2, <1>7
  <2>2. ASSUME NEW i \in 0..N - 1, i \in T PROVE i + 1 \in T
    <3>1. i + 1 \in 1..N /\ (i + 1) - 1 = i
      BY <1>1
    <3>2. f[i + 1] = f[i] \o NewOf(closed[(i + 1)].parts, closed[(i + 1)].fresh)
      BY <1>7, <3>1
    <3>3. f[i] \o NewOf(closed[(i + 1)].parts, closed[(i + 1)].fresh) \in V
      BY <1>3, <2>2, <3>1
    <3>4. f[i + 1] \in V
      BY <3>2, <3>3, Zenon
    <3> QED BY <1>1, <3>1, <3>4
  <2> HIDE DEF T
  <2>3. \A i \in 0..N : i \in T
    BY <1>1, <2>1, <2>2, InductionTo
  <2> QED BY <2>3 DEF T
<1> QED BY <1>6, <1>7, <1>8 DEF V

(* Two runs of the same recursion agree as far as both go.                 *)
Agree(f, h, N) == \A k \in 0..N : f[k] = h[k]

LEMMA RunsAgree ==
  ASSUME NEW N \in Nat, NEW f, NEW h, f[0] = h[0],
         \A k \in 1..N : f[k - 1] = h[k - 1] => f[k] = h[k]
  PROVE  Agree(f, h, N)
<1> DEFINE T == {k \in 0..N : f[k] = h[k]}
<1>1. 0 \in T
  OBVIOUS
<1>2. ASSUME NEW i \in 0..N - 1, i \in T PROVE i + 1 \in T
  <2>1. i + 1 \in 1..N /\ (i + 1) - 1 = i
    OBVIOUS
  <2>2. f[i + 1] = h[i + 1]
    BY <1>2, <2>1
  <2> QED BY <2>1, <2>2
<1> HIDE DEF T
<1>3. \A k \in 0..N : k \in T
  BY <1>1, <1>2, InductionTo
<1> QED BY <1>3 DEF T, Agree

LEMMA CostIsTyped ==
  ASSUME NEW words \in Seq(Nat)
  PROVE  Cost(words) \in Nat
<1>1. Len(words) \in 0..Len(words)
  OBVIOUS
<1> QED BY <1>1, CostSteps

LEMMA CostOfNone == Cost(<<>>) = 0
<1>1. <<>> \in Seq(Nat) /\ Len(<<>>) = 0
  OBVIOUS
<1> QED BY <1>1, CostSteps

(* One more word adds its cost.                                            *)
LEMMA CostAppend ==
  ASSUME NEW words \in Seq(Nat), NEW n \in Nat
  PROVE  Cost(Append(words, n)) = Cost(words) + n
<1> DEFINE more == Append(words, n)
           N == Len(words)
<1>1. /\ N \in Nat /\ more \in Seq(Nat) /\ Len(more) = N + 1 /\ more[N + 1] = n
      /\ \A k \in 1..N : more[k] = words[k]
  OBVIOUS
<1> HIDE DEF more
<1>2. PICK f : /\ f[0] = 0 /\ (\A k \in 1..N : f[k] = f[k - 1] + words[k])
               /\ Cost(words) = f[N]
  BY CostSteps
<1>3. PICK h : /\ h[0] = 0 /\ (\A k \in 1..N + 1 : h[k] = h[k - 1] + more[k])
               /\ Cost(more) = h[N + 1]
  BY <1>1, CostSteps
<1> HIDE DEF N
<1>4. \A k \in 1..N : f[k - 1] = h[k - 1] => f[k] = h[k]
  <2> TAKE k \in 1..N
  <2> HAVE f[k - 1] = h[k - 1]
  <2>1. k \in 1..N + 1
    BY <1>1
  <2> QED BY <1>1, <1>2, <1>3, <2>1
<1>5. f[N] = h[N]
  <2>1. f[0] = h[0]
    BY <1>2, <1>3
  <2>2. N \in Nat /\ N \in 0..N
    BY <1>1
  <2>3. Agree(f, h, N)
    BY <1>4, <2>1, <2>2, RunsAgree
  <2> QED BY <2>2, <2>3 DEF Agree
<1>6. N + 1 \in 1..N + 1 /\ (N + 1) - 1 = N
  BY <1>1
<1>7. h[N + 1] = h[N] + n
  BY <1>1, <1>3, <1>6
<1> QED BY <1>2, <1>3, <1>5, <1>7 DEF more

LEMMA KeptOfNone == Kept(<<>>) = <<>>
<1>1. <<>> \in Seq({}) /\ Len(<<>>) = 0
  OBVIOUS
<1> QED BY <1>1, KeptSteps

(* One more unit is kept unless it is blank.                               *)
LEMMA KeptAppend ==
  ASSUME NEW P, NEW parts \in Seq(P), NEW u \in P
  PROVE  Kept(Append(parts, u)) = Keep(Kept(parts), u)
<1> DEFINE more == Append(parts, u)
           N == Len(parts)
<1>1. /\ N \in Nat /\ more \in Seq(P) /\ Len(more) = N + 1 /\ more[N + 1] = u
      /\ \A k \in 1..N : more[k] = parts[k]
  OBVIOUS
<1> HIDE DEF more
<1>2. PICK f : /\ f[0] = <<>>
               /\ \A k \in 1..N : f[k] = Keep(f[k - 1], parts[k])
               /\ Kept(parts) = f[N]
  BY KeptSteps
<1>3. PICK h : /\ h[0] = <<>>
               /\ \A k \in 1..N + 1 : h[k] = Keep(h[k - 1], more[k])
               /\ Kept(more) = h[N + 1]
  <2>1. \E h : /\ h[0] = <<>>
               /\ \A k \in 1..Len(more) : h[k] = Keep(h[k - 1], more[k])
               /\ Kept(more) = h[Len(more)]
    BY <1>1, KeptSteps
  <2> QED BY <1>1, <2>1, Zenon
<1> HIDE DEF N
<1>4. \A k \in 1..N : f[k - 1] = h[k - 1] => f[k] = h[k]
  <2> TAKE k \in 1..N
  <2> HAVE f[k - 1] = h[k - 1]
  <2>1. k \in 1..N + 1
    BY <1>1
  <2> QED BY <1>1, <1>2, <1>3, <2>1
<1>5. f[N] = h[N]
  <2>1. f[0] = h[0]
    BY <1>2, <1>3
  <2>2. N \in Nat /\ N \in 0..N
    BY <1>1
  <2>3. Agree(f, h, N)
    BY <1>4, <2>1, <2>2, RunsAgree
  <2> QED BY <2>2, <2>3 DEF Agree
<1>6. N + 1 \in 1..N + 1 /\ (N + 1) - 1 = N
  BY <1>1
<1>7. h[N + 1] = Keep(h[N], u)
  BY <1>1, <1>3, <1>6
<1> QED BY <1>2, <1>3, <1>5, <1>7 DEF more

LEMMA ToldOfNone == Told(<<>>) = <<>>
<1>1. <<>> \in Seq(ClosedOf({})) /\ Len(<<>>) = 0
  OBVIOUS
<1> QED BY <1>1, ToldSteps

(* One more chunk tells what is new in it.                                 *)
LEMMA ToldAppend ==
  ASSUME NEW P, NEW closed \in Seq(ClosedOf(P)), NEW c \in ClosedOf(P)
  PROVE  Told(Append(closed, c)) = Told(closed) \o NewOf(c.parts, c.fresh)
<1> DEFINE more == Append(closed, c)
           N == Len(closed)
<1>1. /\ N \in Nat /\ more \in Seq(ClosedOf(P)) /\ Len(more) = N + 1 /\ more[N + 1] = c
      /\ \A k \in 1..N : more[k] = closed[k]
  OBVIOUS
<1> HIDE DEF more
<1>2. PICK f : /\ f[0] = <<>>
               /\ \A k \in 1..N : f[k] = f[k - 1] \o NewOf(closed[k].parts, closed[k].fresh)
               /\ Told(closed) = f[N]
  BY ToldSteps
<1>3. PICK h : /\ h[0] = <<>>
               /\ \A k \in 1..N + 1 : h[k] = h[k - 1] \o NewOf(more[k].parts, more[k].fresh)
               /\ Told(more) = h[N + 1]
  <2>1. \E h : /\ h[0] = <<>>
               /\ \A k \in 1..Len(more) : h[k] = h[k - 1] \o NewOf(more[k].parts, more[k].fresh)
               /\ \A k \in 0..Len(more) : h[k] \in Seq(P)
               /\ Told(more) = h[Len(more)]
    BY <1>1, ToldSteps, Zenon
  <2> QED BY <1>1, <2>1, Zenon
<1> HIDE DEF N
<1>4. \A k \in 1..N : f[k - 1] = h[k - 1] => f[k] = h[k]
  <2> TAKE k \in 1..N
  <2> HAVE f[k - 1] = h[k - 1]
  <2>1. k \in 1..N + 1
    BY <1>1
  <2> QED BY <1>1, <1>2, <1>3, <2>1, Zenon
<1>5. f[N] = h[N]
  <2>1. f[0] = h[0]
    BY <1>2, <1>3
  <2>2. N \in Nat /\ N \in 0..N
    BY <1>1
  <2>3. Agree(f, h, N)
    BY <1>4, <2>1, <2>2, RunsAgree
  <2> QED BY <2>2, <2>3 DEF Agree
<1>6. N + 1 \in 1..N + 1 /\ (N + 1) - 1 = N
  BY <1>1
<1>7. h[N + 1] = h[N] \o NewOf(c.parts, c.fresh)
  BY <1>1, <1>3, <1>6, Zenon
<1> QED BY <1>2, <1>3, <1>5, <1>7, Zenon DEF more

(* One more unit is one more new one, unless it is blank.                  *)
LEMMA NewAppend ==
  ASSUME NEW P, NEW parts \in Seq(P), NEW u \in P, NEW n \in 0..Len(parts)
  PROVE  NewOf(Append(parts, u), n) =
           Keep(NewOf(parts, n), u)
<1> DEFINE rest == SubSeq(parts, n + 1, Len(parts))
           more == Append(parts, u)
<1>1. rest \in Seq(P)
  OBVIOUS
<1>2. Len(more) = Len(parts) + 1 /\ SubSeq(more, n + 1, Len(parts) + 1) = Append(rest, u)
  <2> DEFINE N == Len(parts)
  <2>1. N \in Nat /\ more \in Seq(P) /\ Len(more) = N + 1 /\ more[N + 1] = u
    OBVIOUS
  <2>2. \A i \in 1..N : more[i] = parts[i]
    OBVIOUS
  <2>3. Len(rest) = N - n /\ \A i \in 1..N - n : rest[i] = parts[n + i]
    BY <2>1
  <2>4. /\ Append(rest, u) \in Seq(P) /\ Len(Append(rest, u)) = (N - n) + 1
        /\ Append(rest, u)[(N - n) + 1] = u
        /\ \A i \in 1..N - n : Append(rest, u)[i] = rest[i]
    BY <1>1, <2>3
  <2> DEFINE all == SubSeq(more, n + 1, N + 1)
             both == Append(rest, u)
  <2> HIDE DEF more, rest
  <2>5. /\ all \in Seq(P) /\ Len(all) = (N - n) + 1
        /\ \A i \in 1..(N - n) + 1 : all[i] = more[n + i]
    BY <2>1
  <2> HIDE DEF N, all, both
  <2>6. \A i \in 1..(N - n) + 1 : all[i] = both[i]
    <3> TAKE i \in 1..(N - n) + 1
    <3>1. CASE i = (N - n) + 1
      <4>1. n + i = N + 1
        BY <2>1, <3>1 DEF N
      <4> QED BY <2>1, <2>4, <2>5, <3>1, <4>1 DEF both
    <3>2. CASE i \in 1..N - n
      <4>1. n + i \in 1..N
        BY <2>1, <3>2 DEF N
      <4> QED BY <2>2, <2>3, <2>4, <2>5, <3>2, <4>1 DEF both
    <3> QED BY <2>1, <3>1, <3>2 DEF N
  <2>7. both \in Seq(P) /\ Len(both) = (N - n) + 1
    BY <2>4 DEF both
  <2>8. all = both
    BY <2>5, <2>6, <2>7, SeqEqual
  <2> QED BY <2>1, <2>8 DEF all, both, N
<1> HIDE DEF rest, more
<1>3. NewOf(more, n) = Kept(Append(rest, u))
  BY <1>2 DEF NewOf
<1>4. NewOf(parts, n) = Kept(rest)
  BY DEF NewOf, rest
<1> QED BY <1>1, <1>3, <1>4, KeptAppend DEF more

(* A chunk that only repeats has nothing new.                              *)
LEMMA NoneNew ==
  ASSUME NEW P, NEW parts \in Seq(P)
  PROVE  NewOf(parts, Len(parts)) = <<>>
<1>1. SubSeq(parts, Len(parts) + 1, Len(parts)) = <<>>
  OBVIOUS
<1> QED BY <1>1, KeptOfNone DEF NewOf

(* The units up to n are those before it and the n-th.                     *)
LEMMA KeptUpTo ==
  ASSUME NEW P, NEW parts \in Seq(P), NEW n \in 1..Len(parts)
  PROVE  Kept(SubSeq(parts, 1, n)) =
           Keep(Kept(SubSeq(parts, 1, n - 1)), parts[n])
<1> DEFINE before == SubSeq(parts, 1, n - 1)
<1>1. before \in Seq(P) /\ parts[n] \in P
  OBVIOUS
<1>2. SubSeq(parts, 1, n) = Append(before, parts[n])
  OBVIOUS
<1> HIDE DEF before
<1>3. Kept(Append(before, parts[n])) =
        Keep(Kept(before), parts[n])
  BY <1>1, KeptAppend
<1> QED BY <1>2, <1>3 DEF before

-----------------------------------------------------------------------------
(* The units.                                                              *)

Pieces ==
  [line : Nat, kind : {"blank", "prose", "row", "separator"}, from : Nat, to : Nat,
   tokens : Nat, table : Nat, first : BOOLEAN]

(* One more unit adds its tokens.                                          *)
LEMMA TokensAppend ==
  ASSUME NEW parts \in Seq(Pieces), NEW u \in Pieces
  PROVE  /\ Tokens(parts) \in Nat
         /\ Tokens(Append(parts, u)) = Tokens(parts) + u.tokens
<1> DEFINE costs == [i \in DOMAIN parts |-> parts[i].tokens]
           more == Append(parts, u)
<1>1. u.tokens \in Nat /\ \A i \in 1..Len(parts) : parts[i].tokens \in Nat
  <2>1. \A p \in Pieces : p.tokens \in Nat
    BY DEF Pieces
  <2>2. \A i \in 1..Len(parts) : parts[i] \in Pieces
    OBVIOUS
  <2> QED BY <2>1, <2>2
<1>2. costs \in Seq(Nat)
  BY <1>1
<1>3. [i \in DOMAIN more |-> more[i].tokens] = Append(costs, u.tokens)
  OBVIOUS
<1>4. Tokens(parts) = Cost(costs) /\ Tokens(more) = Cost(Append(costs, u.tokens))
  BY <1>3 DEF Tokens
<1> HIDE DEF costs, more
<1> QED BY <1>1, <1>2, <1>4, CostAppend, CostIsTyped DEF more

LEMMA TokensOfNone == Tokens(<<>>) = 0
<1>1. [i \in DOMAIN <<>> |-> <<>>[i].tokens] = <<>>
  OBVIOUS
<1> QED BY <1>1, CostOfNone DEF Tokens

-----------------------------------------------------------------------------
(* Packing.                                                                *)

Shown == Range(units) \cup {h[2] : h \in heads}

PackTyped ==
  /\ size \in Sizes /\ overlap \in Overlaps
  /\ units \in Seq(Pieces) /\ heads \subseteq Range(units) \X Pieces
  /\ next \in 1..Len(units) + 1
  /\ cur \in Seq(Shown) /\ fresh \in 0..Len(cur)
  /\ chunks \in Seq(ClosedOf(Pieces)) /\ \A c \in Range(chunks) : c.fresh < Len(c.parts)

(* The open chunk has more than repeats, or nothing; it is within its      *)
(* budget, or one unit.                                                    *)
CurFits ==
  /\ Len(cur) = fresh => cur = <<>>
  /\ \/ Tokens(cur) <= size
     \/ fresh = 0 /\ Len(cur) = 1 /\ cur[1].kind # "blank"

PackIInv == PackTyped /\ CurFits /\ UnitsKept /\ ChunksFit

(* What chunks show, units and repeated separators, are units by type.     *)
LEMMA ShownAreTyped ==
  ASSUME PackTyped
  PROVE  /\ Shown \subseteq Pieces /\ cur \in Seq(Pieces) /\ size \in Nat /\ overlap \in Nat
         /\ \A i \in 1..Len(units) : units[i] \in Shown
<1>1. \A i \in DOMAIN units : units[i] \in Pieces
  BY DEF PackTyped
<1>2. Range(units) \subseteq Pieces
  BY <1>1 DEF Range
<1>3. \A h \in heads : h[2] \in Pieces
  BY DEF PackTyped
<1>4. Shown \subseteq Pieces
  BY <1>2, <1>3 DEF Shown
<1>5. cur \in Seq(Pieces)
  BY <1>4, SeqMonotonic DEF PackTyped
<1>6. \A i \in 1..Len(units) : units[i] \in Range(units)
  BY DEF PackTyped, Range
<1>7. size \in Nat /\ overlap \in Nat
  BY ChunkingAssumption DEF PackTyped
<1> QED BY <1>4, <1>5, <1>6, <1>7 DEF Shown

(* What a chunk repeats is of the text, and leaves room for the next unit  *)
(* (restart, chunking.py:143-163).                                         *)
LEMMA SeedIsShown ==
  ASSUME PackTyped, NEW u \in Pieces
  PROVE  /\ Seed(u) \in Seq(Shown)
         /\ Seed(u) # <<>> => Tokens(Seed(u)) + u.tokens <= size
<1>1. TrailingProse \in Seq(Shown)
  <2> DEFINE Fits(k) == \A i \in k..Len(cur) :
               ~InTable(cur[i]) /\ Tokens(SubSeq(cur, i, Len(cur))) <= overlap
             starts == {k \in 1..Len(cur) : Fits(k) /\ cur[k].kind # "blank"}
  <2>1. cur \in Seq(Shown) /\ Len(cur) \in Nat
    BY DEF PackTyped
  <2>2. TrailingProse = IF starts = {} THEN <<>> ELSE SubSeq(cur, Min(starts), Len(cur))
    BY DEF TrailingProse
  <2>3. starts \subseteq 1..Len(cur)
    OBVIOUS
  <2> HIDE DEF starts
  <2>4. ASSUME starts # {} PROVE SubSeq(cur, Min(starts), Len(cur)) \in Seq(Shown)
    <3>1. starts \subseteq Nat
      BY <2>1, <2>3
    <3>2. Min(starts) \in 1..Len(cur)
      BY <2>3, <2>4, <3>1, MinIsLeast
    <3> QED BY <2>1, <3>2
  <2> QED BY <2>2, <2>4
<1>2. \A h \in heads : h \in Seq(Shown)
  <2> TAKE h \in heads
  <2>1. h \in Range(units) \X Pieces
    BY DEF PackTyped
  <2>2. h[1] \in Shown /\ h[2] \in Shown
    BY <2>1 DEF Shown
  <2>3. h = <<h[1], h[2]>>
    BY <2>1
  <2>4. \A a, b \in Shown : <<a, b>> \in Seq(Shown)
    OBVIOUS
  <2>5. <<h[1], h[2]>> \in Seq(Shown)
    BY <2>2, <2>4
  <2> QED BY <2>3, <2>5, Zenon
<1>3. Repeats(u) \in Seq(Shown)
  <2>1. CASE ~InTable(u)
    BY <1>1, <2>1 DEF Repeats
  <2>2. CASE InTable(u) /\ (u.first \/ \A h \in heads : h[1].table # u.table)
    BY <2>2 DEF Repeats
  <2>3. CASE InTable(u) /\ ~u.first /\ ~ \A h \in heads : h[1].table # u.table
    <3>1. Repeats(u) = CHOOSE h \in heads : h[1].table = u.table
      BY <2>3 DEF Repeats
    <3>2. \E h \in heads : h[1].table = u.table
      BY <2>3
    <3> QED BY <1>2, <3>1, <3>2
  <2> QED BY <2>1, <2>2, <2>3
<1>4. size \in Nat /\ Shown \subseteq Pieces
  BY ShownAreTyped
<1>5. Repeats(u) \in Seq(Pieces)
  BY <1>3, <1>4, SeqMonotonic
<1>6. Tokens(Repeats(u)) \in Nat /\ u.tokens \in Nat
  <2>1. \A p \in Pieces : p.tokens \in Nat
    BY DEF Pieces
  <2> QED BY <1>5, <2>1, TokensAppend
<1> QED BY <1>3, <1>4, <1>6 DEF Seed

(* Before the first unit there is nothing to hold.                         *)
LEMMA PackInitially ==
  ASSUME ChunkingAssumption, size \in Sizes, overlap \in Overlaps,
         units \in Seq(Pieces), heads \subseteq Range(units) \X Pieces,
         next = 1, cur = <<>>, fresh = 0, chunks = <<>>
  PROVE  PackIInv
<1>1. Len(cur) = 0 /\ cur \in Seq(Shown) /\ chunks \in Seq(ClosedOf(Pieces)) /\ Range(chunks) = {}
  BY DEF Range
<1>2. PackTyped
  BY <1>1 DEF PackTyped
<1>3. CurFits
  <2>1. Tokens(cur) = 0 /\ size \in Nat
    BY <1>2, TokensOfNone, ShownAreTyped
  <2> QED BY <2>1 DEF CurFits
<1>4. UnitsKept
  <2>1. Told(chunks) = <<>>
    BY ToldOfNone
  <2>2. NewOf(cur, fresh) = <<>>
    BY <1>1, NoneNew
  <2>3. SubSeq(units, 1, next - 1) = <<>>
    OBVIOUS
  <2>4. <<>> \o <<>> = <<>>
    OBVIOUS
  <2> QED BY <2>1, <2>2, <2>3, <2>4, KeptOfNone, Zenon DEF UnitsKept
<1>5. ChunksFit
  BY <1>1 DEF ChunksFit
<1> QED BY <1>2, <1>3, <1>4, <1>5 DEF PackIInv

(* What closing the open chunk does to the closed ones.                    *)
LEMMA ClosingKeeps ==
  ASSUME PackIInv, Len(cur) > fresh
  PROVE  /\ Closed \in Seq(ClosedOf(Pieces))
         /\ \A c \in Range(Closed) : c.fresh < Len(c.parts)
         /\ \A c \in Range(Closed) :
              Tokens(c.parts) <= size \/ (c.fresh = 0 /\ Len(Kept(c.parts)) = 1)
         /\ Told(Closed) = Kept(SubSeq(units, 1, next - 1))
<1> DEFINE last == [parts |-> cur, fresh |-> fresh]
<1>1. last \in ClosedOf(Pieces) /\ chunks \in Seq(ClosedOf(Pieces))
  <2>1. cur \in Seq(Pieces) /\ fresh \in Nat
    BY ShownAreTyped DEF PackIInv, PackTyped
  <2> QED BY <2>1 DEF ClosedOf, PackIInv, PackTyped
<1>2. Closed = Append(chunks, last) /\ last.parts = cur /\ last.fresh = fresh
  BY DEF Closed
<1> HIDE DEF last
<1>3. Closed \in Seq(ClosedOf(Pieces))
  BY <1>1, <1>2
<1>4. Range(Closed) = Range(chunks) \cup {last}
  <2>1. /\ DOMAIN Closed = 1..Len(chunks) + 1 /\ DOMAIN chunks = 1..Len(chunks)
        /\ Closed[Len(chunks) + 1] = last /\ Len(chunks) \in Nat
        /\ \A i \in 1..Len(chunks) : Closed[i] = chunks[i]
    BY <1>1, <1>2
  <2>2. \A i \in DOMAIN Closed : i \in DOMAIN chunks \/ i = Len(chunks) + 1
    BY <2>1
  <2>3. DOMAIN chunks \subseteq DOMAIN Closed /\ Len(chunks) + 1 \in DOMAIN Closed
    BY <2>1
  <2> QED BY <2>1, <2>2, <2>3 DEF Range
<1>5. \A c \in Range(Closed) : c.fresh < Len(c.parts)
  BY <1>2, <1>4 DEF PackIInv, PackTyped
<1>6. Tokens(cur) <= size \/ (fresh = 0 /\ Len(Kept(cur)) = 1)
  <2> SUFFICES ASSUME Len(cur) = 1, cur[1].kind # "blank" PROVE Len(Kept(cur)) = 1
    BY DEF PackIInv, CurFits
  <2>1. cur \in Seq(Pieces)
    BY ShownAreTyped DEF PackIInv
  <2>2. cur = Append(<<>>, cur[1]) /\ cur[1] \in Pieces /\ <<>> \in Seq(Pieces)
    BY <2>1
  <2>3. Kept(cur) = Append(<<>>, cur[1])
    BY <2>1, <2>2, KeptAppend, KeptOfNone DEF Keep
  <2> QED BY <2>3
<1>7. \A c \in Range(Closed) :
        Tokens(c.parts) <= size \/ (c.fresh = 0 /\ Len(Kept(c.parts)) = 1)
  BY <1>2, <1>4, <1>6 DEF PackIInv, ChunksFit
<1>8. Told(Closed) = Told(chunks) \o NewOf(cur, fresh)
  <2>1. Told(Append(chunks, last)) = Told(chunks) \o NewOf(last.parts, last.fresh)
    BY <1>1, ToldAppend
  <2> QED BY <1>2, <2>1, Zenon
<1>9. Told(Closed) = Kept(SubSeq(units, 1, next - 1))
  BY <1>8, Zenon DEF PackIInv, UnitsKept
<1> QED BY <1>3, <1>5, <1>7, <1>9

(* What a unit does to the open chunk it is put into.                      *)
LEMMA ExtendedIs ==
  ASSUME NEW P, NEW base \in Seq(P), NEW u \in P, P \subseteq Pieces
  PROVE  /\ Extended(base, u) \in Seq(P)
         /\ Len(base) <= Len(Extended(base, u))
         /\ Len(base) = Len(Extended(base, u)) => base = <<>> /\ Extended(base, u) = <<>>
         /\ base = <<>> => Extended(base, u) = IF u.kind = "blank" THEN <<>> ELSE <<u>>
         /\ Tokens(Extended(base, u)) <= Tokens(base) + u.tokens
         /\ \A n \in 0..Len(base) : NewOf(Extended(base, u), n) =
              Keep(NewOf(base, n), u)
<1>1. base \in Seq(Pieces) /\ u \in Pieces
  BY SeqMonotonic
<1>2. Tokens(base) \in Nat /\ u.tokens \in Nat
  <2>1. \A p \in Pieces : p.tokens \in Nat
    BY DEF Pieces
  <2> QED BY <1>1, <2>1, TokensAppend
<1>3. CASE base = <<>> /\ u.kind = "blank"
  <2>1. Extended(base, u) = base
    BY <1>3 DEF Extended
  <2>2. Len(base) \in Nat /\ Tokens(base) <= Tokens(base) + u.tokens
    BY <1>2
  <2>3. \A n \in 0..Len(base) : NewOf(Extended(base, u), n) =
              Keep(NewOf(base, n), u)
    BY <1>3, <2>1 DEF Keep
  <2>4. Tokens(Extended(base, u)) <= Tokens(base) + u.tokens
    BY <2>1, <2>2
  <2>5. Len(base) <= Len(Extended(base, u))
    BY <2>1, <2>2
  <2>6. base = <<>> /\ Extended(base, u) = <<>> /\ Extended(base, u) \in Seq(P)
    BY <1>3, <2>1
  <2> QED BY <1>3, <2>3, <2>4, <2>5, <2>6
<1>4. CASE ~(base = <<>> /\ u.kind = "blank")
  <2>1. Extended(base, u) = Append(base, u)
    BY <1>4 DEF Extended
  <2>2. Tokens(Append(base, u)) = Tokens(base) + u.tokens
    BY <1>1, TokensAppend
  <2>3. \A n \in 0..Len(base) : NewOf(Append(base, u), n) =
              Keep(NewOf(base, n), u)
    BY NewAppend
  <2>4. /\ Append(base, u) \in Seq(P) /\ Len(Append(base, u)) = Len(base) + 1
        /\ Len(base) \in Nat
    OBVIOUS
  <2>5. base = <<>> => Append(base, u) = <<u>>
    OBVIOUS
  <2> QED BY <1>2, <1>4, <2>1, <2>2, <2>3, <2>4, <2>5
<1> QED BY <1>3, <1>4

(* Appending goes on at the end.                                           *)
LEMMA AppendLast ==
  ASSUME NEW P, NEW s \in Seq(P), NEW t \in Seq(P), NEW u \in P
  PROVE  s \o Append(t, u) = Append(s \o t, u)
OBVIOUS

LEMMA NewIsSeq ==
  ASSUME PackTyped
  PROVE  Told(chunks) \in Seq(Pieces) /\ NewOf(cur, fresh) \in Seq(Pieces)
<1>1. cur \in Seq(Pieces) /\ fresh \in Nat
  BY ShownAreTyped DEF PackTyped
<1>2. chunks \in Seq(ClosedOf(Pieces)) /\ Len(chunks) \in 0..Len(chunks)
  BY DEF PackTyped
<1>3. Told(chunks) \in Seq(Pieces)
  BY <1>2, ToldSteps
<1> QED BY <1>1, <1>3, NewIsTyped

(* A unit that fits keeps the invariant ...                                *)
LEMMA PacksKeeps ==
  ASSUME PackIInv, Packs
  PROVE  PackIInv'
<1> DEFINE u == units[next]
           wide == Extended(cur, u)
<1>1. u \in Shown /\ u \in Pieces /\ next \in 1..Len(units) /\ Len(units) \in Nat
  BY ShownAreTyped DEF PackIInv, PackTyped, Packs
<1>2. /\ Shown \subseteq Pieces /\ cur \in Seq(Shown) /\ size \in Nat /\ fresh \in 0..Len(cur)
      /\ cur \in Seq(Pieces)
  BY ShownAreTyped DEF PackIInv, PackTyped
<1>3. /\ cur' = wide /\ next' = next + 1 /\ ~Unfit(u)
      /\ UNCHANGED <<size, overlap, text, units, heads, fresh, chunks>>
  BY DEF Packs
<1> HIDE DEF u, wide
<1>4. /\ wide \in Seq(Shown) /\ Len(cur) <= Len(wide)
      /\ Len(cur) = Len(wide) => wide = <<>>
      /\ cur = <<>> => wide = IF u.kind = "blank" THEN <<>> ELSE <<u>>
      /\ Tokens(wide) <= Tokens(cur) + u.tokens
      /\ NewOf(wide, fresh) =
           Keep(NewOf(cur, fresh), u)
  BY <1>1, <1>2, ExtendedIs DEF wide
<1>5. Len(wide) \in Nat /\ Len(cur) \in Nat /\ wide \in Seq(Pieces)
  BY <1>2, <1>4, SeqMonotonic
<1>6. PackTyped'
  <2>1. Shown' = Shown
    BY <1>3 DEF Shown
  <2>2. fresh \in 0..Len(wide)
    BY <1>2, <1>4, <1>5
  <2>3. next + 1 \in 1..Len(units) + 1
    BY <1>1
  <2> QED BY <1>3, <1>4, <2>1, <2>2, <2>3 DEF PackIInv, PackTyped
<1>7. CurFits'
  <2>1. Tokens(cur) \in Nat /\ u.tokens \in Nat /\ Tokens(wide) \in Nat
    <3>1. \A p \in Pieces : p.tokens \in Nat
      BY DEF Pieces
    <3> QED BY <1>1, <1>2, <1>5, <3>1, TokensAppend
  <2>2. Len(wide) = fresh => wide = <<>>
    BY <1>2, <1>4, <1>5
  <2>3. \/ Tokens(wide) <= size
        \/ fresh = 0 /\ Len(wide) = 1 /\ wide[1].kind # "blank"
    <3>1. CASE Len(cur) > fresh
      <4>1. Tokens(cur) + u.tokens <= size
        BY <1>2, <1>3, <2>1, <3>1 DEF Unfit
      <4> QED BY <1>2, <1>4, <2>1, <4>1
    <3>2. CASE cur = <<>>
      <4>1. fresh = 0
        BY <1>2, <3>2
      <4>2. wide = <<>> => Tokens(wide) = 0
        BY TokensOfNone
      <4>3. wide = <<u>> => Len(wide) = 1 /\ wide[1] = u
        OBVIOUS
      <4> QED BY <1>2, <1>4, <3>2, <4>1, <4>2, <4>3
    <3>3. Len(cur) > fresh \/ cur = <<>>
      BY <1>2, <1>5 DEF PackIInv, CurFits
    <3> QED BY <3>1, <3>2, <3>3
  <2> QED BY <1>3, <2>2, <2>3 DEF CurFits
<1>8. UnitsKept'
  <2> DEFINE X == Told(chunks)
             Y == NewOf(cur, fresh)
             K == Kept(SubSeq(units, 1, next - 1))
  <2>1. X \in Seq(Pieces) /\ Y \in Seq(Pieces)
    BY NewIsSeq DEF PackIInv
  <2>2. X \o Y = K
    BY DEF PackIInv, UnitsKept
  <2>3. Kept(SubSeq(units, 1, next)) = Keep(K, u)
    BY <1>1, KeptUpTo DEF PackIInv, PackTyped, u
  <2>4. X \o NewOf(wide, fresh) = X \o Keep(Y, u)
    BY <1>4, Zenon
  <2>5. X \o Append(Y, u) = Append(X \o Y, u)
    BY <1>1, <2>1, AppendLast
  <2> HIDE DEF X, Y, K
  <2>6. X \o NewOf(wide, fresh) = Kept(SubSeq(units, 1, next))
    <3>1. CASE u.kind = "blank"
      BY <2>2, <2>3, <2>4, <3>1 DEF Keep
    <3>2. CASE u.kind # "blank"
      BY <2>2, <2>3, <2>4, <2>5, <3>2 DEF Keep
    <3> QED BY <3>1, <3>2
  <2>7. (next + 1) - 1 = next
    BY <1>1
  <2> QED BY <1>3, <2>6, <2>7, Zenon DEF UnitsKept, X
<1>9. ChunksFit'
  BY <1>3 DEF PackIInv, ChunksFit
<1> QED BY <1>6, <1>7, <1>8, <1>9 DEF PackIInv

(* ... as does one that closes the chunk and opens another ...             *)
LEMMA ClosesKeeps ==
  ASSUME PackIInv, Closes
  PROVE  PackIInv'
<1> DEFINE u == units[next]
           seed == Seed(u)
           wide == Extended(seed, u)
<1>1. u \in Shown /\ u \in Pieces /\ next \in 1..Len(units) /\ Len(units) \in Nat
  BY ShownAreTyped DEF PackIInv, PackTyped, Closes
<1>2. /\ Shown \subseteq Pieces /\ size \in Nat /\ fresh \in 0..Len(cur) /\ cur \in Seq(Pieces)
  BY ShownAreTyped DEF PackIInv, PackTyped
<1>3. /\ cur' = wide /\ fresh' = Len(seed) /\ next' = next + 1 /\ chunks' = Closed
      /\ Len(cur) > fresh /\ UNCHANGED <<size, overlap, text, units, heads>>
  BY DEF Closes, Unfit
<1>4. seed \in Seq(Shown) /\ (seed # <<>> => Tokens(seed) + u.tokens <= size)
  BY <1>1, SeedIsShown DEF PackIInv
<1> HIDE DEF u, seed, wide
<1>5. /\ wide \in Seq(Shown) /\ Len(seed) <= Len(wide)
      /\ Len(seed) = Len(wide) => wide = <<>>
      /\ seed = <<>> => wide = IF u.kind = "blank" THEN <<>> ELSE <<u>>
      /\ Tokens(wide) <= Tokens(seed) + u.tokens
  BY <1>1, <1>2, <1>4, ExtendedIs DEF wide
<1>6. NewOf(wide, Len(seed)) =
        Keep(NewOf(seed, Len(seed)), u)
  <2>1. Len(seed) \in 0..Len(seed)
    BY <1>4
  <2> QED BY <1>1, <1>2, <1>4, <2>1, ExtendedIs DEF wide
<1>7. Len(wide) \in Nat /\ Len(seed) \in Nat /\ wide \in Seq(Pieces) /\ seed \in Seq(Pieces)
  BY <1>2, <1>4, <1>5, SeqMonotonic
<1>8. /\ Closed \in Seq(ClosedOf(Pieces))
      /\ \A c \in Range(Closed) : c.fresh < Len(c.parts)
      /\ \A c \in Range(Closed) :
           Tokens(c.parts) <= size \/ (c.fresh = 0 /\ Len(Kept(c.parts)) = 1)
      /\ Told(Closed) = Kept(SubSeq(units, 1, next - 1))
  BY <1>3, ClosingKeeps
<1>9. PackTyped'
  <2>1. Shown' = Shown
    BY <1>3 DEF Shown
  <2>2. Len(seed) \in 0..Len(wide)
    BY <1>5, <1>7
  <2>3. next + 1 \in 1..Len(units) + 1
    BY <1>1
  <2> QED BY <1>3, <1>5, <1>8, <2>1, <2>2, <2>3 DEF PackIInv, PackTyped
<1>10. CurFits'
  <2>1. Tokens(seed) \in Nat /\ u.tokens \in Nat /\ Tokens(wide) \in Nat
    <3>1. \A p \in Pieces : p.tokens \in Nat
      BY DEF Pieces
    <3> QED BY <1>1, <1>7, <3>1, TokensAppend
  <2>2. \/ Tokens(wide) <= size
        \/ Len(seed) = 0 /\ Len(wide) = 1 /\ wide[1].kind # "blank"
    <3>1. CASE seed # <<>>
      BY <1>2, <1>4, <1>5, <2>1, <3>1
    <3>2. CASE seed = <<>>
      <4>1. Len(seed) = 0
        BY <3>2
      <4>2. wide = <<>> => Tokens(wide) = 0
        BY TokensOfNone
      <4>3. wide = <<u>> => Len(wide) = 1 /\ wide[1] = u
        OBVIOUS
      <4> QED BY <1>2, <1>5, <3>2, <4>1, <4>2, <4>3
    <3> QED BY <3>1, <3>2
  <2> QED BY <1>3, <1>5, <2>2 DEF CurFits
<1>11. UnitsKept'
  <2> DEFINE K == Kept(SubSeq(units, 1, next - 1))
             Y == NewOf(seed, Len(seed))
  <2>1. K \in Seq(Pieces)
    <3>1. units \in Seq(Pieces)
      BY DEF PackIInv, PackTyped
    <3>2. SubSeq(units, 1, next - 1) \in Seq(Pieces)
      BY <1>1, <3>1
    <3> QED BY <3>2, KeptIsTyped
  <2>2. Kept(SubSeq(units, 1, next)) = Keep(K, u)
    BY <1>1, KeptUpTo DEF PackIInv, PackTyped, u
  <2>3. Y = <<>>
    BY <1>7, NoneNew
  <2> HIDE DEF K, Y
  <2>4. K \o <<>> = K /\ <<>> \in Seq(Pieces)
    BY <2>1
  <2>5. K \o Append(<<>>, u) = Append(K \o <<>>, u)
    BY <1>1, <2>1, <2>4, AppendLast
  <2>6. K \o NewOf(wide, Len(seed)) = Kept(SubSeq(units, 1, next))
    <3>1. CASE u.kind = "blank"
      BY <1>6, <2>2, <2>3, <2>4, <3>1 DEF Y, Keep
    <3>2. CASE u.kind # "blank"
      BY <1>6, <2>2, <2>3, <2>4, <2>5, <3>2 DEF Y, Keep
    <3> QED BY <3>1, <3>2
  <2>7. (next + 1) - 1 = next
    BY <1>1
  <2> QED BY <1>3, <1>8, <2>6, <2>7, Zenon DEF UnitsKept, K
<1>12. ChunksFit'
  BY <1>3, <1>8 DEF ChunksFit
<1> QED BY <1>9, <1>10, <1>11, <1>12 DEF PackIInv

(* ... and the end of the text.                                            *)
LEMMA CloseLastKeeps ==
  ASSUME PackIInv, CloseLast
  PROVE  PackIInv'
<1>1. /\ cur' = <<>> /\ fresh' = 0 /\ next' = next /\ chunks' = Closed
      /\ Len(cur) > fresh /\ UNCHANGED <<size, overlap, text, units, heads>>
  BY DEF CloseLast
<1>2. /\ Closed \in Seq(ClosedOf(Pieces))
      /\ \A c \in Range(Closed) : c.fresh < Len(c.parts)
      /\ \A c \in Range(Closed) :
           Tokens(c.parts) <= size \/ (c.fresh = 0 /\ Len(Kept(c.parts)) = 1)
      /\ Told(Closed) = Kept(SubSeq(units, 1, next - 1))
  BY <1>1, ClosingKeeps
<1>3. PackTyped'
  <2>1. Shown' = Shown
    BY <1>1 DEF Shown
  <2>2. <<>> \in Seq(Shown) /\ 0 \in 0..Len(<<>>)
    OBVIOUS
  <2> QED BY <1>1, <1>2, <2>1, <2>2 DEF PackIInv, PackTyped
<1>4. CurFits'
  <2>1. size \in Nat
    BY ShownAreTyped DEF PackIInv
  <2>2. Tokens(<<>>) <= size
    BY <2>1, TokensOfNone
  <2> QED BY <1>1, <2>2 DEF CurFits
<1>5. UnitsKept'
  <2> DEFINE K == Kept(SubSeq(units, 1, next - 1))
  <2>1. K \in Seq(Pieces)
    <3>1. units \in Seq(Pieces) /\ next \in 1..Len(units) + 1
      BY DEF PackIInv, PackTyped
    <3>2. SubSeq(units, 1, next - 1) \in Seq(Pieces)
      BY <3>1
    <3> QED BY <3>2, KeptIsTyped
  <2> HIDE DEF K
  <2>2. K \o <<>> = K
    BY <2>1
  <2>3. NewOf(<<>>, 0) = <<>>
    <3>1. <<>> \in Seq(Pieces) /\ Len(<<>>) = 0
      OBVIOUS
    <3> QED BY <3>1, NoneNew
  <2> QED BY <1>1, <1>2, <2>2, <2>3, Zenon DEF UnitsKept, K
<1>6. ChunksFit'
  BY <1>1, <1>2 DEF ChunksFit
<1> QED BY <1>3, <1>4, <1>5, <1>6 DEF PackIInv

-----------------------------------------------------------------------------
(* The windows of a long line.                                             *)

(* A window ends in its line, at its begin or later.                       *)
LEMMA WindowEndIs ==
  ASSUME NEW words, Len(words) \in Nat, NEW s \in 1..Len(words), NEW n
  PROVE  WindowEnd(words, s, n) \in s..Len(words)
<1> DEFINE ends == {e \in s..Len(words) : e = s \/ Cost(SubSeq(words, s, e)) <= n}
<1>1. ends \subseteq s..Len(words) /\ s \in ends
  OBVIOUS
<1>2. WindowEnd(words, s, n) = Max(ends)
  BY DEF WindowEnd
<1> HIDE DEF ends
<1>3. ends \subseteq Nat /\ ends # {} /\ \A e \in ends : e <= Len(words)
  BY <1>1
<1>4. Max(ends) \in ends
  BY <1>3, MaxIsGreatest
<1> QED BY <1>1, <1>2, <1>4

(* The next window begins later, and leaves no gap.                        *)
LEMMA NextWindowIs ==
  ASSUME NEW words, NEW s \in Nat, NEW e \in Nat, s <= e, NEW back
  PROVE  NextWindow(words, s, e, back) \in s + 1..e + 1
<1> DEFINE begins == {b \in s + 1..e + 1 : b = e + 1 \/ Cost(SubSeq(words, b, e)) <= back}
<1>1. begins \subseteq s + 1..e + 1 /\ e + 1 \in begins
  OBVIOUS
<1>2. NextWindow(words, s, e, back) = Min(begins)
  BY DEF NextWindow
<1> HIDE DEF begins
<1>3. begins \subseteq Nat /\ begins # {}
  BY <1>1
<1>4. Min(begins) \in begins
  BY <1>3, MinIsLeast
<1> QED BY <1>1, <1>2, <1>4

(* The first k windows, at most, of N words: they leave no word out, and   *)
(* unless they are through, the last of them begins at word k or later.    *)
Covers(w, x) == \E j \in 1..Len(w) : w[j][1] <= x /\ x <= w[j][2]

Linked(w) ==
  \A j \in 2..Len(w) : w[j - 1][1] < w[j][1] /\ w[j][1] <= w[j - 1][2] + 1

Spans(N) == {p \in (1..N) \X (1..N) : p[1] <= p[2]}

WindowsTo(N, k) ==
  {w \in Seq(Spans(N)) :
     /\ Linked(w)
     /\ w # <<>> => \A x \in 1..w[Len(w)][2] : Covers(w, x)
     /\ k = 0 \/ (w # <<>> /\ (w[Len(w)][2] = N \/ k <= w[Len(w)][1]))}

(* Each further window goes on where the last one ended.                   *)
LEMMA FurtherKeeps ==
  ASSUME NEW words, Len(words) \in Nat, NEW n, NEW back, NEW k \in 1..Len(words),
         NEW w \in WindowsTo(Len(words), k - 1), ~Whole(words, w)
  PROVE  Further(words, w, n, back) \in WindowsTo(Len(words), k)
<1> DEFINE N == Len(words)
           begin == IF w = <<>> THEN 1 ELSE NextWindow(words, w[Len(w)][1], w[Len(w)][2], back)
           end == WindowEnd(words, begin, n)
           more == Append(w, <<begin, end>>)
<1>1. N \in Nat /\ k \in Nat /\ 1 <= k /\ k <= N
  OBVIOUS
<1>2. w \in Seq(Spans(N)) /\ Len(w) \in Nat /\ \A j \in 1..Len(w) : w[j] \in Spans(N)
  BY DEF WindowsTo
<1>3. \A p \in Spans(N) :
        /\ p[1] \in Nat /\ p[2] \in Nat /\ 1 <= p[1] /\ p[1] <= p[2] /\ p[2] <= N
  BY DEF Spans
<1>4. w # <<>> => /\ Len(w) \in 1..Len(w) /\ w[Len(w)][2] # N
                  /\ k = 1 \/ k - 1 <= w[Len(w)][1]
                  /\ \A x \in 1..w[Len(w)][2] : Covers(w, x)
  BY <1>1, <1>2 DEF Whole, WindowsTo
<1>5. w = <<>> => k = 1
  BY <1>1 DEF WindowsTo
<1>6. /\ begin \in 1..N /\ k <= begin
      /\ w # <<>> => w[Len(w)][1] < begin /\ begin <= w[Len(w)][2] + 1
  <2>1. CASE w = <<>>
    BY <1>1, <1>5, <2>1
  <2>2. CASE w # <<>>
    <3> DEFINE b == w[Len(w)][1]
               e == w[Len(w)][2]
    <3>1. b \in Nat /\ e \in Nat /\ 1 <= b /\ b <= e /\ e <= N /\ e # N /\ k - 1 <= b
      BY <1>1, <1>2, <1>3, <1>4, <2>2
    <3> HIDE DEF b, e
    <3>2. NextWindow(words, b, e, back) \in b + 1..e + 1
      BY <3>1, NextWindowIs
    <3>3. begin = NextWindow(words, b, e, back)
      BY <2>2 DEF b, e
    <3> HIDE DEF begin
    <3>4. /\ begin \in 1..N /\ k <= begin /\ b < begin /\ begin <= e + 1
      BY <1>1, <3>1, <3>2, <3>3
    <3> QED BY <3>4 DEF b, e
  <2> QED BY <2>1, <2>2
<1>7. Further(words, w, n, back) = more
  BY DEF Further
<1>6a. w = <<>> => begin = 1
  OBVIOUS
<1> HIDE DEF begin
<1>8. end \in begin..N
  BY <1>1, <1>6, WindowEndIs
<1> HIDE DEF end
<1>9. <<begin, end>> \in Spans(N)
  BY <1>1, <1>6, <1>8 DEF Spans
<1>10. /\ more \in Seq(Spans(N)) /\ Len(more) = Len(w) + 1
       /\ more[Len(w) + 1] = <<begin, end>>
       /\ \A j \in 1..Len(w) : more[j] = w[j]
  BY <1>2, <1>9
<1> HIDE DEF more, N
<1>11. begin \in Nat /\ end \in Nat /\ begin <= end /\ end <= N
  BY <1>1, <1>6, <1>8
<1>12. Linked(more)
  <2> SUFFICES ASSUME NEW j \in 2..Len(more)
               PROVE  more[j - 1][1] < more[j][1] /\ more[j][1] <= more[j - 1][2] + 1
    BY DEF Linked
  <2>1. CASE j = Len(w) + 1
    <3>1. Len(w) \in 1..Len(w) /\ w # <<>> /\ j - 1 = Len(w)
      BY <1>2, <1>10, <2>1
    <3> QED BY <1>6, <1>10, <2>1, <3>1
  <2>2. CASE j \in 2..Len(w)
    <3>1. j \in 1..Len(w) /\ j - 1 \in 1..Len(w)
      BY <1>2, <2>2
    <3>2. w[j - 1][1] < w[j][1] /\ w[j][1] <= w[j - 1][2] + 1
      BY <2>2 DEF WindowsTo, Linked
    <3> QED BY <1>10, <3>1, <3>2
  <2> QED BY <1>2, <1>10, <2>1, <2>2
<1>13. \A x \in 1..end : Covers(more, x)
  <2> SUFFICES ASSUME NEW x \in 1..end PROVE Covers(more, x)
    OBVIOUS
  <2>1. CASE begin <= x
    BY <1>2, <1>10, <1>11, <2>1 DEF Covers
  <2>2. CASE x < begin
    <3>1. w # <<>>
      BY <1>11, <1>6a, <2>2
    <3>2. x \in 1..w[Len(w)][2]
      BY <1>2, <1>3, <1>4, <1>6, <1>11, <2>2, <3>1
    <3>3. PICK j \in 1..Len(w) : w[j][1] <= x /\ x <= w[j][2]
      BY <1>4, <3>1, <3>2 DEF Covers
    <3>4. j \in 1..Len(more) /\ more[j] = w[j]
      BY <1>2, <1>10
    <3> QED BY <3>3, <3>4 DEF Covers
  <2> QED BY <1>11, <2>1, <2>2
<1>14. more # <<>> /\ more[Len(more)] = <<begin, end>>
  BY <1>2, <1>10
<1> QED BY <1>6, <1>7, <1>10, <1>12, <1>13, <1>14 DEF WindowsTo, N

(* So all words of a line are in its windows.                              *)
LEMMA WindowsAreCut ==
  ASSUME NEW words, Len(words) \in Nat, NEW n, NEW back
  PROVE  Windows(words, n, back) \in WindowsTo(Len(words), Len(words))
<1> DEFINE N == Len(words)
           Sums(h) == h = [k \in 0..N |-> IF k = 0 THEN <<>>
             ELSE (IF Whole(words, h[k - 1]) THEN h[k - 1] ELSE Further(words, h[k - 1], n, back))]
           g == [x \in (UNION {WindowsTo(Len(words), j) : j \in 0..N}) \X (1..N) |->
             (IF Whole(words, x[1]) THEN x[1] ELSE Further(words, x[1], n, back))]
           S == [i \in 0..N |-> WindowsTo(Len(words), i)]
<1>1. N \in Nat
  OBVIOUS
<1>2. <<>> \in WindowsTo(Len(words), 0)
  BY DEF WindowsTo, Linked
<1>3. \A i \in 1..N : \A a \in WindowsTo(Len(words), i - 1) :
        (IF Whole(words, a) THEN a ELSE Further(words, a, n, back))
        \in WindowsTo(Len(words), i)
  <2> TAKE i \in 1..N
  <2> TAKE a \in WindowsTo(Len(words), i - 1)
  <2>1. CASE Whole(words, a)
    BY <2>1 DEF WindowsTo, Whole
  <2>2. CASE ~Whole(words, a)
    BY <2>2, FurtherKeeps
  <2> QED BY <2>1, <2>2
<1>4. \E h : Sums(h)
  <2>1. \A i \in 0..N : S[i] = WindowsTo(Len(words), i)
    OBVIOUS
  <2>2. \A i \in 1..N : \A a \in UNION {WindowsTo(Len(words), j) : j \in 0..N} :
          g[<<a, i>>] = (IF Whole(words, a) THEN a ELSE Further(words, a, n, back))
    OBVIOUS
  <2> HIDE DEF g, S, N
  <2>3. \A i \in 1..N : \A a \in S[i - 1] :
          /\ g[<<a, i>>] \in S[i]
          /\ g[<<a, i>>] =
               (IF Whole(words, a) THEN a ELSE Further(words, a, n, back))
    <3> TAKE i \in 1..N
    <3>1. i \in 0..N /\ i - 1 \in 0..N
      BY <1>1
    <3>2. S[i - 1] = WindowsTo(Len(words), i - 1) /\ S[i] = WindowsTo(Len(words), i)
      BY <2>1, <3>1
    <3> TAKE a \in S[i - 1]
    <3>3. a \in WindowsTo(Len(words), i - 1) /\ a \in UNION {WindowsTo(Len(words), j) : j \in 0..N}
      BY <3>1, <3>2
    <3>4. (IF Whole(words, a) THEN a ELSE Further(words, a, n, back))
            \in WindowsTo(Len(words), i)
      BY <1>3, <3>3, Zenon
    <3>5. g[<<a, i>>] = (IF Whole(words, a) THEN a ELSE Further(words, a, n, back))
      BY <2>2, <3>3, Zenon
    <3> QED BY <3>2, <3>4, <3>5, Zenon
  <2>4. <<>> \in S[0]
    BY <1>1, <1>2, <2>1
  <2>5. PICK u : Follows(u, N, <<>>, g) /\ \A i \in 0..N : u[i] \in S[i]
    <3> HIDE DEF Sums
    <3>1. \A i \in 1..N : \A a \in S[i - 1] : g[<<a, i>>] \in S[i]
      BY <2>3
    <3> QED BY <1>1, <2>4, <3>1, RecursionExists
  <2>6. \A i \in 0..N : i # 0 => g[<<u[i - 1], i>>] =
          (IF Whole(words, u[i - 1]) THEN u[i - 1] ELSE Further(words, u[i - 1], n, back))
    <3> TAKE i \in 0..N
    <3> HAVE i # 0
    <3>1. i \in 1..N /\ i - 1 \in 0..N
      BY <1>1
    <3>2. u[i - 1] \in S[i - 1]
      BY <2>5, <3>1
    <3> QED BY <2>3, <3>1, <3>2, Zenon
  <2>7. Sums(u)
    BY <2>5, <2>6 DEF Follows
  <2> QED BY <2>7
<1> DEFINE f == CHOOSE h : Sums(h)
<1>5. Sums(f)
  BY <1>4
<1>6. Windows(words, n, back) = f[N]
  BY DEF Windows
<1> HIDE DEF f
<1>7. /\ f[0] = <<>>
      /\ \A k \in 1..N : f[k] =
        (IF Whole(words, f[k - 1]) THEN f[k - 1] ELSE Further(words, f[k - 1], n, back))
  <2>1. 0 \in 0..N /\ \A k \in 1..N : k \in 0..N /\ k # 0
    BY <1>1
  <2> QED BY <1>5, <2>1
<1>8. \A k \in 0..N : f[k] \in WindowsTo(Len(words), k)
  <2> DEFINE T == {k \in 0..N : f[k] \in WindowsTo(Len(words), k)}
  <2>1. 0 \in T
    BY <1>1, <1>2, <1>7
  <2>2. ASSUME NEW i \in 0..N - 1, i \in T PROVE i + 1 \in T
    <3>1. i + 1 \in 1..N /\ (i + 1) - 1 = i
      BY <1>1
    <3>2. f[i + 1] =
            (IF Whole(words, f[i]) THEN f[i] ELSE Further(words, f[i], n, back))
      BY <1>7, <3>1
    <3>3. (IF Whole(words, f[i]) THEN f[i] ELSE Further(words, f[i], n, back))
            \in WindowsTo(Len(words), (i + 1))
      BY <1>3, <2>2, <3>1
    <3>4. f[i + 1] \in WindowsTo(Len(words), (i + 1))
      BY <3>2, <3>3, Zenon
    <3> QED BY <1>1, <3>1, <3>4
  <2> HIDE DEF T
  <2>3. \A i \in 0..N : i \in T
    BY <1>1, <2>1, <2>2, InductionTo
  <2> QED BY <2>3 DEF T
<1>9. N \in 0..N
  BY <1>1
<1> QED BY <1>6, <1>8, <1>9

-----------------------------------------------------------------------------
(* The units of a text.                                                    *)

(* A line has words of known cost, some unless it is blank.                *)
LEMMA LineIs ==
  ASSUME NEW line \in Lines
  PROVE  /\ line.words \in Seq(Nat)
         /\ line.kind \in {"blank", "prose", "row", "separator"}
         /\ line.kind # "blank" => line.words # <<>>
<1> DEFINE Blank == [kind : {"blank"}, words : {<<>>}]
           Plain == [kind : {"prose"}, words : Prose]
           InRows == [kind : {"row", "separator"}, words : {<<n>> : n \in RowTokens}]
<1>1. ASSUME line \in Blank PROVE line.kind = "blank" /\ line.words \in Seq(Nat)
  <2>1. line.kind \in {"blank"} /\ line.words \in {<<>>}
    BY <1>1
  <2>2. <<>> \in Seq(Nat)
    OBVIOUS
  <2> QED BY <2>1, <2>2
<1>2. ASSUME line \in Plain
      PROVE  line.kind = "prose" /\ line.words \in Seq(Nat) /\ line.words # <<>>
  <2>1. line.words \in Seq(Nat \ {0}) /\ line.words # <<>> /\ line.kind = "prose"
    BY <1>2, ChunkingAssumption
  <2>2. line.words \in Seq(Nat)
    BY <2>1, SeqMonotonic
  <2> QED BY <2>1, <2>2
<1>3. ASSUME line \in InRows
      PROVE  /\ line.kind \in {"row", "separator"}
             /\ line.words \in Seq(Nat) /\ line.words # <<>>
  <2>1. PICK n \in RowTokens : line.words = <<n>>
    BY <1>3
  <2>2. n \in Nat
    BY ChunkingAssumption
  <2>3. line.words \in Seq(Nat) /\ line.words # <<>>
    BY <2>1, <2>2
  <2> QED BY <1>3, <2>3
<1>4. line \in Blank \/ line \in Plain \/ line \in InRows
  BY DEF Lines
<1> HIDE DEF Blank, Plain, InRows
<1> QED BY <1>1, <1>2, <1>3, <1>4

(* A unit is one by type if it is within its line.                         *)
LEMMA UnitIs ==
  ASSUME NEW line \in Lines, NEW i \in Nat, NEW table \in Nat, NEW first \in BOOLEAN,
         NEW from \in Nat, NEW to \in Nat, 1 <= from, to <= Len(line.words)
  PROVE  /\ Unit(i, line, from, to, table, first) \in Pieces
         /\ Unit(i, line, from, to, table, first).line = i
         /\ Unit(i, line, from, to, table, first).kind = line.kind
         /\ Unit(i, line, from, to, table, first).from = from
         /\ Unit(i, line, from, to, table, first).to = to
<1>1. line.words \in Seq(Nat) /\ line.kind \in {"blank", "prose", "row", "separator"}
  BY LineIs
<1>2. SubSeq(line.words, from, to) \in Seq(Nat)
  <2>1. \A k \in from..to : line.words[k] \in Nat
    BY <1>1
  <2> QED BY <2>1, SubSeqProperties
<1>3. Cost(SubSeq(line.words, from, to)) \in Nat
  BY <1>2, CostIsTyped
<1> QED BY <1>1, <1>3, Zenon DEF Unit, Pieces

LEMMA WholeLineIs ==
  ASSUME NEW line \in Lines, NEW i \in Nat, NEW table \in Nat, NEW first \in BOOLEAN
  PROVE  /\ WholeLine(i, line, table, first) \in Pieces
         /\ WholeLine(i, line, table, first).line = i
         /\ WholeLine(i, line, table, first).from = 1
         /\ WholeLine(i, line, table, first).to = Len(line.words)
<1>1. Len(line.words) \in Nat
  BY LineIs
<1>2. 1 \in Nat /\ 1 <= 1 /\ Len(line.words) <= Len(line.words)
  BY <1>1
<1>3. WholeLine(i, line, table, first) = Unit(i, line, 1, Len(line.words), table, first)
  BY DEF WholeLine
<1>4. /\ Unit(i, line, 1, Len(line.words), table, first) \in Pieces
      /\ Unit(i, line, 1, Len(line.words), table, first).line = i
      /\ Unit(i, line, 1, Len(line.words), table, first).from = 1
      /\ Unit(i, line, 1, Len(line.words), table, first).to = Len(line.words)
  BY <1>1, <1>2, UnitIs
<1> QED BY <1>3, <1>4, Zenon

Follow(p, q) ==
  \/ p.line < q.line
  \/ p.line = q.line /\ p.from < q.from /\ q.from <= p.to + 1

InOrder(us) == \A k \in 2..Len(us) : Follow(us[k - 1], us[k])

Has(us, j, w) == \E k \in 1..Len(us) : us[k].line = j /\ us[k].from <= w /\ w <= us[k].to

UnitsTo(lines, i) ==
  {us \in Seq(Pieces) :
     /\ InOrder(us) /\ \A k \in 1..Len(us) : us[k].line <= i
     /\ \A j \in 1..i : lines[j].kind # "blank" =>
          \A w \in 1..Len(lines[j].words) : Has(us, j, w)}

(* Units of the next line, in order and with all its words, go at the end. *)
LEMMA UnitsExtend ==
  ASSUME NEW lines \in Seq(Lines), NEW i \in 1..Len(lines), NEW us \in UnitsTo(lines, i - 1),
         NEW more \in Seq(Pieces), InOrder(more), \A k \in 1..Len(more) : more[k].line = i,
         lines[i].kind # "blank" => \A w \in 1..Len(lines[i].words) : Has(more, i, w)
  PROVE  us \o more \in UnitsTo(lines, i)
<1> DEFINE M == Len(us)
           all == us \o more
<1>1. /\ us \in Seq(Pieces) /\ M \in Nat /\ Len(more) \in Nat /\ i \in Nat /\ 1 <= i
      /\ InOrder(us) /\ \A k \in 1..M : us[k].line <= i - 1
  BY DEF UnitsTo
<1>2. /\ all \in Seq(Pieces) /\ Len(all) = M + Len(more)
      /\ \A k \in 1..M : all[k] = us[k]
      /\ \A k \in 1..Len(more) : all[M + k] = more[k]
  BY <1>1
<1>3. \A p \in Pieces : p.line \in Nat
  BY DEF Pieces
<1> HIDE DEF M, all
<1>4. InOrder(all)
  <2> SUFFICES ASSUME NEW k \in 2..Len(all) PROVE Follow(all[k - 1], all[k])
    BY DEF InOrder
  <2>1. CASE k \in 2..M
    <3>1. k - 1 \in 1..M /\ k \in 1..M
      BY <1>1, <2>1
    <3>2. Follow(us[k - 1], us[k])
      BY <1>1, <2>1 DEF InOrder, M
    <3> QED BY <1>2, <3>1, <3>2
  <2>2. CASE k = M + 1
    <3>1. k - 1 \in 1..M /\ 1 \in 1..Len(more) /\ k - 1 = M
      BY <1>1, <1>2, <2>2
    <3>2. all[k - 1] = us[M] /\ all[k] = more[1]
      BY <1>2, <2>2, <3>1
    <3>3. us[M].line <= i - 1 /\ more[1].line = i /\ us[M].line \in Nat
      <4>1. us[M] \in Pieces
        BY <1>1, <3>1 DEF M
      <4> QED BY <1>1, <1>3, <3>1, <4>1
    <3>4. us[M].line < more[1].line
      BY <1>1, <3>3
    <3> QED BY <3>2, <3>4 DEF Follow
  <2>3. CASE k - M \in 2..Len(more)
    <3> DEFINE x == k - M
    <3>1. x \in 2..Len(more) /\ x - 1 \in 1..Len(more) /\ x \in 1..Len(more)
      BY <1>1, <2>3
    <3>2. M + x = k /\ M + (x - 1) = k - 1
      BY <1>1
    <3> HIDE DEF x
    <3>3. all[k] = more[x] /\ all[k - 1] = more[x - 1]
      BY <1>2, <3>1, <3>2
    <3>4. Follow(more[x - 1], more[x])
      BY <3>1 DEF InOrder
    <3> QED BY <3>3, <3>4
  <2> QED BY <1>1, <1>2, <2>1, <2>2, <2>3
<1>5. \A k \in 1..Len(all) : all[k].line <= i
  <2> SUFFICES ASSUME NEW k \in 1..Len(all) PROVE all[k].line <= i
    OBVIOUS
  <2>1. CASE k \in 1..M
    <3>1. us[k] \in Pieces
      BY <1>1, <2>1 DEF M
    <3>2. us[k].line <= i - 1 /\ us[k].line \in Nat
      BY <1>1, <1>3, <2>1, <3>1
    <3>3. us[k].line <= i
      BY <1>1, <3>2
    <3> QED BY <1>2, <2>1, <3>3
  <2>2. CASE k - M \in 1..Len(more)
    <3>1. M + (k - M) = k
      BY <1>1
    <3>2. all[k] = more[k - M]
      BY <1>2, <2>2, <3>1
    <3> QED BY <1>1, <2>2, <3>2
  <2> QED BY <1>1, <1>2, <2>1, <2>2
<1>6. ASSUME NEW j \in 1..i, lines[j].kind # "blank", NEW w \in 1..Len(lines[j].words)
      PROVE  Has(all, j, w)
  <2>1. CASE j = i
    <3>1. PICK k \in 1..Len(more) : more[k].line = i /\ more[k].from <= w /\ w <= more[k].to
      BY <1>6, <2>1 DEF Has
    <3>2. M + k \in 1..Len(all) /\ all[M + k] = more[k]
      BY <1>1, <1>2
    <3> QED BY <2>1, <3>1, <3>2 DEF Has
  <2>2. CASE j \in 1..i - 1
    <3>1. PICK k \in 1..M : us[k].line = j /\ us[k].from <= w /\ w <= us[k].to
      BY <1>6, <2>2 DEF Has, UnitsTo, M
    <3>2. k \in 1..Len(all) /\ all[k] = us[k]
      BY <1>1, <1>2
    <3> QED BY <3>1, <3>2 DEF Has
  <2> QED BY <1>1, <2>1, <2>2
<1>7. all \in UnitsTo(lines, i)
  BY <1>2, <1>4, <1>5, <1>6 DEF UnitsTo
<1> QED BY <1>7 DEF all

(* Units stay while others follow.                                         *)
LEMMA RangeGrows ==
  ASSUME NEW P, NEW us \in Seq(P), NEW more \in Seq(P)
  PROVE  Range(us) \subseteq Range(us \o more)
<1> SUFFICES ASSUME NEW k \in 1..Len(us) PROVE us[k] \in Range(us \o more)
  BY DEF Range
<1>1. k \in 1..Len(us \o more) /\ (us \o more)[k] = us[k]
  OBVIOUS
<1>2. DOMAIN (us \o more) = 1..Len(us \o more)
  OBVIOUS
<1> HIDE DEF Range
<1> QED BY <1>1, <1>2 DEF Range

(* A blank line needs none ...                                             *)
LEMMA NoMore ==
  ASSUME NEW lines \in Seq(Lines), NEW i \in 1..Len(lines), NEW us \in UnitsTo(lines, i - 1),
         lines[i].kind = "blank"
  PROVE  us \in UnitsTo(lines, i)
<1>1. us \in Seq(Pieces) /\ <<>> \in Seq(Pieces) /\ Len(<<>>) = 0
  BY DEF UnitsTo
<1>2. us \o <<>> = us
  BY <1>1
<1>3. InOrder(<<>>) /\ \A k \in 1..Len(<<>>) : <<>>[k].line = i
  BY <1>1 DEF InOrder
<1>4. us \o <<>> \in UnitsTo(lines, i)
  BY <1>1, <1>3, UnitsExtend
<1> QED BY <1>2, <1>4

(* ... and one unit with the whole line is enough.                         *)
LEMMA OneMore ==
  ASSUME NEW lines \in Seq(Lines), NEW i \in 1..Len(lines), NEW us \in UnitsTo(lines, i - 1),
         NEW p \in Pieces, p.line = i,
         lines[i].kind # "blank" => p.from = 1 /\ p.to = Len(lines[i].words)
  PROVE  /\ Append(us, p) \in UnitsTo(lines, i) /\ p \in Range(Append(us, p))
         /\ Range(us) \subseteq Range(Append(us, p))
<1> DEFINE more == <<p>>
<1>1. us \in Seq(Pieces)
  BY DEF UnitsTo
<1>2. more \in Seq(Pieces) /\ Len(more) = 1 /\ more[1] = p /\ \A k \in 1..1 : k = 1
  OBVIOUS
<1>3. us \o more = Append(us, p)
  BY <1>1
<1> HIDE DEF more
<1>4. InOrder(more)
  <2>1. \A k \in 2..Len(more) : FALSE
    BY <1>2
  <2> QED BY <2>1 DEF InOrder
<1>5. \A k \in 1..Len(more) : more[k].line = i
  BY <1>2
<1>6. ASSUME lines[i].kind # "blank", NEW w \in 1..Len(lines[i].words) PROVE Has(more, i, w)
  <2>1. more[1].line = i /\ more[1].from = 1 /\ more[1].to = Len(lines[i].words)
    BY <1>2, <1>6
  <2>2. Len(lines[i].words) \in Nat
    BY LineIs
  <2>3. more[1].from <= w /\ w <= more[1].to /\ 1 \in 1..Len(more)
    BY <1>2, <2>1, <2>2
  <2> QED BY <2>1, <2>3 DEF Has
<1>7. us \o more \in UnitsTo(lines, i)
  BY <1>2, <1>4, <1>5, <1>6, UnitsExtend
<1>8. Range(us) \subseteq Range(us \o more)
  BY <1>1, <1>2, RangeGrows
<1>9. p \in Range(Append(us, p))
  <2>1. /\ DOMAIN Append(us, p) = 1..Len(us) + 1 /\ Append(us, p)[Len(us) + 1] = p
        /\ Len(us) + 1 \in 1..Len(us) + 1
    BY <1>1
  <2> QED BY <2>1 DEF Range
<1> QED BY <1>3, <1>7, <1>8, <1>9

BuiltTo(lines, i) ==
  {acc \in [units : UnitsTo(lines, i), heads : SUBSET (Pieces \X Pieces), tables : Nat,
            inTable : BOOLEAN] :
     acc.heads \subseteq Range(acc.units) \X Pieces}

(* The records of _build_units, taken apart and put together.              *)
LEMMA BuiltIs ==
  ASSUME NEW lines, NEW i, NEW us \in UnitsTo(lines, i), NEW hs, NEW n \in Nat, NEW b \in BOOLEAN,
         hs \subseteq Range(us) \X Pieces
  PROVE  [units |-> us, heads |-> hs, tables |-> n, inTable |-> b] \in BuiltTo(lines, i)
<1>1. Range(us) \subseteq Pieces
  <2>1. us \in Seq(Pieces)
    BY DEF UnitsTo
  <2>2. \A k \in DOMAIN us : us[k] \in Pieces
    BY <2>1
  <2> QED BY <2>2 DEF Range
<1>2. hs \in SUBSET (Pieces \X Pieces)
  BY <1>1
<1> DEFINE acc == [units |-> us, heads |-> hs, tables |-> n, inTable |-> b]
<1>3. acc \in [units : UnitsTo(lines, i), heads : SUBSET (Pieces \X Pieces), tables : Nat,
               inTable : BOOLEAN]
  BY <1>2, Zenon
<1>4. acc.heads = hs /\ acc.units = us
  OBVIOUS
<1> HIDE DEF acc
<1>5. acc \in BuiltTo(lines, i)
  BY <1>3, <1>4, Zenon DEF BuiltTo
<1> QED BY <1>5 DEF acc

LEMMA BuiltHas ==
  ASSUME NEW lines, NEW i, NEW acc \in BuiltTo(lines, i)
  PROVE  /\ acc.units \in UnitsTo(lines, i) /\ acc.heads \subseteq Range(acc.units) \X Pieces
         /\ acc.tables \in Nat /\ acc.inTable \in BOOLEAN
BY Zenon DEF BuiltTo

(* Blank lines, rows and prose each keep the units in order and complete.  *)
LEMMA AddBlankKeeps ==
  ASSUME NEW lines \in Seq(Lines), NEW i \in 1..Len(lines), lines[i].kind = "blank",
         NEW acc \in BuiltTo(lines, i - 1)
  PROVE  AddBlank(acc, i, lines[i]) \in BuiltTo(lines, i)
<1> DEFINE us == acc.units
           p == WholeLine(i, lines[i], 0, FALSE)
           longer == Broken(us, i, lines[i])
<1>1. us \in UnitsTo(lines, i - 1) /\ acc.tables \in Nat /\ acc.heads \subseteq Range(us) \X Pieces
  BY BuiltHas
<1>2. p \in Pieces /\ p.line = i
  <2>1. lines[i] \in Lines /\ i \in Nat /\ 0 \in Nat
    OBVIOUS
  <2>2. FALSE \in BOOLEAN
    OBVIOUS
  <2> QED BY <2>1, <2>2, WholeLineIs, Zenon
<1>3. AddBlank(acc, i, lines[i]) =
        [units |-> longer, heads |-> acc.heads, tables |-> acc.tables, inTable |-> FALSE]
  BY DEF AddBlank
<1> HIDE DEF us, p
<1>4. longer \in UnitsTo(lines, i) /\ Range(us) \subseteq Range(longer)
  <2>1. us \in UnitsTo(lines, i)
    BY <1>1, NoMore
  <2>2. Append(us, p) \in UnitsTo(lines, i) /\ Range(us) \subseteq Range(Append(us, p))
    BY <1>1, <1>2, OneMore
  <2>3. longer = us \/ longer = Append(us, p)
    BY DEF Broken, p
  <2> QED BY <2>1, <2>2, <2>3
<1> HIDE DEF longer
<1>5. acc.heads \subseteq Range(longer) \X Pieces
  BY <1>1, <1>4
<1> QED BY <1>1, <1>3, <1>4, <1>5, BuiltIs

LEMMA AddRowKeeps ==
  ASSUME NEW lines \in Seq(Lines), NEW i \in 1..Len(lines),
         NEW acc \in BuiltTo(lines, i - 1)
  PROVE  AddRow(acc, i, lines[i], lines) \in BuiltTo(lines, i)
<1> DEFINE us == acc.units
           first == ~acc.inTable
           table == IF first THEN acc.tables + 1 ELSE acc.tables
           p == WholeLine(i, lines[i], table, first)
           q == WholeLine(i + 1, lines[i + 1], table, FALSE)
           headed == first /\ i < Len(lines) /\ lines[i + 1].kind = "separator"
           hs == IF headed THEN acc.heads \cup {<<p, q>>} ELSE acc.heads
           longer == Append(us, p)
<1>1. /\ us \in UnitsTo(lines, i - 1) /\ acc.heads \subseteq Range(us) \X Pieces
      /\ acc.tables \in Nat /\ acc.inTable \in BOOLEAN
  BY BuiltHas
<1>2. first \in BOOLEAN /\ FALSE \in BOOLEAN /\ TRUE \in BOOLEAN
  BY <1>1
<1>3. table \in Nat
  BY <1>1
<1>4. AddRow(acc, i, lines[i], lines) =
        [units |-> longer, heads |-> hs, tables |-> table, inTable |-> TRUE]
  BY DEF AddRow
<1>5. lines[i] \in Lines /\ i \in Nat /\ i + 1 \in Nat /\ Len(lines) \in Nat
  OBVIOUS
<1>6. headed => lines[i + 1] \in Lines
  BY <1>5
<1> HIDE DEF first, table
<1>7. p \in Pieces /\ p.line = i /\ p.from = 1 /\ p.to = Len(lines[i].words)
  <2>1. \A line \in Lines : /\ WholeLine(i, line, table, first) \in Pieces
                             /\ WholeLine(i, line, table, first).line = i
                             /\ WholeLine(i, line, table, first).from = 1
                             /\ WholeLine(i, line, table, first).to = Len(line.words)
    BY <1>2, <1>3, <1>5, WholeLineIs
  <2> QED BY <1>5, <2>1, Zenon
<1>8. headed => q \in Pieces
  BY <1>2, <1>3, <1>5, <1>6, WholeLineIs, Zenon
<1> HIDE DEF us, p, q, headed
<1>9. /\ longer \in UnitsTo(lines, i) /\ p \in Range(longer)
      /\ Range(us) \subseteq Range(longer)
  BY <1>1, <1>7, OneMore
<1> HIDE DEF longer
<1>10. hs \subseteq Range(longer) \X Pieces
  <2>1. acc.heads \subseteq Range(longer) \X Pieces
    BY <1>1, <1>9
  <2>2. CASE headed
    BY <1>8, <1>9, <2>1, <2>2
  <2>3. CASE ~headed
    BY <2>1, <2>3
  <2> QED BY <2>2, <2>3
<1> HIDE DEF hs
<1> QED BY <1>2, <1>3, <1>4, <1>9, <1>10, BuiltIs

(* The units of a prose line have all its words, in order.                 *)
LEMMA ProseUnitsAre ==
  ASSUME NEW line \in Lines, line.kind # "blank", NEW i \in Nat, NEW n, NEW back
  PROVE  /\ ProseUnits(i, line, n, back) \in Seq(Pieces) /\ InOrder(ProseUnits(i, line, n, back))
         /\ \A k \in 1..Len(ProseUnits(i, line, n, back)) : ProseUnits(i, line, n, back)[k].line = i
         /\ \A w \in 1..Len(line.words) : Has(ProseUnits(i, line, n, back), i, w)
<1> DEFINE N == Len(line.words)
           windows == IF Cost(line.words) <= n THEN <<<<1, N>>>> ELSE Windows(line.words, n, back)
           all == ProseUnits(i, line, n, back)
<1>1. N \in Nat /\ 1 <= N
  <2>1. line.words \in Seq(Nat) /\ line.words # <<>>
    BY LineIs
  <2> QED BY <2>1
<1>2. all = [k \in DOMAIN windows |-> Unit(i, line, windows[k][1], windows[k][2], 0, FALSE)]
  BY DEF ProseUnits
<1>3. windows \in WindowsTo(N, N)
  <2>1. Windows(line.words, n, back) \in WindowsTo(N, N)
    BY <1>1, WindowsAreCut
  <2>2. <<<<1, N>>>> \in WindowsTo(N, N)
    <3> HIDE DEF N
    <3> DEFINE one == <<<<1, N>>>>
    <3>1. <<1, N>> \in Spans(N) /\ <<1, N>>[1] = 1 /\ <<1, N>>[2] = N
      BY <1>1 DEF Spans
    <3>2. one \in Seq(Spans(N)) /\ Len(one) = 1 /\ one[1] = <<1, N>> /\ one # <<>>
      BY <3>1
    <3> HIDE DEF one
    <3>3. Linked(one)
      <4>1. \A j \in 2..Len(one) : FALSE
        BY <3>2
      <4> QED BY <4>1 DEF Linked
    <3>4. \A x \in 1..one[Len(one)][2] : Covers(one, x)
      BY <1>1, <3>1, <3>2 DEF Covers
    <3> QED BY <3>1, <3>2, <3>3, <3>4 DEF WindowsTo, one
  <2> QED BY <2>1, <2>2
<1> HIDE DEF windows, N, all
<1>4. /\ windows \in Seq(Spans(N)) /\ Linked(windows) /\ windows # <<>>
      /\ \A x \in 1..windows[Len(windows)][2] : Covers(windows, x)
      /\ windows[Len(windows)][2] = N \/ N <= windows[Len(windows)][1]
  BY <1>1, <1>3 DEF WindowsTo
<1> DEFINE L == Len(windows)
<1>5. /\ L \in Nat /\ DOMAIN windows = 1..L /\ L \in 1..L
      /\ \A k \in 1..L : windows[k] \in Spans(N)
  BY <1>4
<1> HIDE DEF L
<1>6. \A k \in 1..L : /\ windows[k][1] \in Nat /\ windows[k][2] \in Nat
                      /\ 1 <= windows[k][1] /\ windows[k][1] <= windows[k][2] /\ windows[k][2] <= N
  BY <1>1, <1>5 DEF Spans
<1>7. windows[L][2] = N
  BY <1>1, <1>4, <1>5, <1>6 DEF L
<1>8. \A k \in 1..L : /\ all[k] \in Pieces /\ all[k].line = i
                      /\ all[k].from = windows[k][1] /\ all[k].to = windows[k][2]
  <2> TAKE k \in 1..L
  <2> DEFINE from == windows[k][1]
             to == windows[k][2]
  <2>1. all[k] = Unit(i, line, from, to, 0, FALSE)
    BY <1>2, <1>5
  <2>2. 0 \in Nat /\ FALSE \in BOOLEAN /\ line \in Lines /\ i \in Nat
    OBVIOUS
  <2>3. from \in Nat /\ to \in Nat /\ 1 <= from /\ to <= Len(line.words)
    BY <1>6 DEF N
  <2> HIDE DEF from, to
  <2>4. \A table \in Nat, first \in BOOLEAN :
          /\ Unit(i, line, from, to, table, first) \in Pieces
          /\ Unit(i, line, from, to, table, first).line = i
          /\ Unit(i, line, from, to, table, first).from = from
          /\ Unit(i, line, from, to, table, first).to = to
    BY <2>3, UnitIs
  <2> QED BY <2>1, <2>2, <2>4, Zenon DEF from, to
<1>9. all \in Seq(Pieces) /\ Len(all) = L
  <2>1. all = [k \in 1..L |-> all[k]]
    BY <1>2, <1>5
  <2>2. all \in [1..L -> Pieces]
    BY <1>8, <2>1
  <2> QED BY <1>5, <2>2
<1>10. InOrder(all)
  <2> SUFFICES ASSUME NEW k \in 2..L PROVE Follow(all[k - 1], all[k])
    BY <1>9 DEF InOrder
  <2>1. k \in 1..L /\ k - 1 \in 1..L
    BY <1>5
  <2>2. windows[k - 1][1] < windows[k][1] /\ windows[k][1] <= windows[k - 1][2] + 1
    BY <1>4 DEF Linked, L
  <2> QED BY <1>8, <2>1, <2>2 DEF Follow
<1>11. ASSUME NEW w \in 1..N PROVE Has(all, i, w)
  <2>1. PICK k \in 1..L : windows[k][1] <= w /\ w <= windows[k][2]
    BY <1>4, <1>7 DEF Covers, L
  <2> QED BY <1>8, <1>9, <2>1 DEF Has
<1> QED BY <1>8, <1>9, <1>10, <1>11 DEF all, N

LEMMA AddProseKeeps ==
  ASSUME NEW lines \in Seq(Lines), NEW i \in 1..Len(lines), lines[i].kind # "blank",
         NEW acc \in BuiltTo(lines, i - 1), NEW n, NEW back
  PROVE  AddProse(acc, i, lines[i], n, back) \in BuiltTo(lines, i)
<1> DEFINE us == acc.units
           more == ProseUnits(i, lines[i], n, back)
<1>1. /\ us \in UnitsTo(lines, i - 1) /\ acc.heads \subseteq Range(us) \X Pieces
      /\ acc.tables \in Nat
  BY BuiltHas
<1>2. AddProse(acc, i, lines[i], n, back) =
        [units |-> us \o more, heads |-> acc.heads, tables |-> acc.tables, inTable |-> FALSE]
  BY DEF AddProse
<1>3. lines[i] \in Lines /\ i \in Nat
  OBVIOUS
<1>4. /\ more \in Seq(Pieces) /\ InOrder(more)
      /\ \A k \in 1..Len(more) : more[k].line = i
      /\ \A w \in 1..Len(lines[i].words) : Has(more, i, w)
  BY <1>3, ProseUnitsAre
<1> HIDE DEF us, more
<1>5. us \o more \in UnitsTo(lines, i)
  BY <1>1, <1>4, UnitsExtend
<1>6. Range(us) \subseteq Range(us \o more)
  <2>1. us \in Seq(Pieces)
    BY <1>1 DEF UnitsTo
  <2> QED BY <1>4, <2>1, RangeGrows
<1>7. acc.heads \subseteq Range(us \o more) \X Pieces
  BY <1>1, <1>6
<1> QED BY <1>1, <1>2, <1>5, <1>7, BuiltIs

(* So does every line (_build_units, chunking.py:92-115) ...               *)
LEMMA AddLineKeeps ==
  ASSUME NEW lines \in Seq(Lines), NEW i \in 1..Len(lines),
         NEW acc \in BuiltTo(lines, i - 1), NEW n, NEW back
  PROVE  AddLine(acc, i, lines, n, back) \in BuiltTo(lines, i)
<1>1. CASE lines[i].kind = "blank"
  <2>1. AddLine(acc, i, lines, n, back) = AddBlank(acc, i, lines[i])
    BY <1>1 DEF AddLine, InTable
  <2> QED BY <1>1, <2>1, AddBlankKeeps
<1>2. CASE InTable(lines[i])
  <2>1. AddLine(acc, i, lines, n, back) = AddRow(acc, i, lines[i], lines)
    BY <1>2 DEF AddLine, InTable
  <2> QED BY <2>1, AddRowKeeps
<1>3. CASE lines[i].kind # "blank" /\ ~InTable(lines[i])
  <2>1. AddLine(acc, i, lines, n, back) = AddProse(acc, i, lines[i], n, back)
    BY <1>3 DEF AddLine
  <2> QED BY <1>3, <2>1, AddProseKeeps
<1> QED BY <1>1, <1>2, <1>3

(* ... and the whole text.                                                 *)
LEMMA UnitsAreBuilt ==
  ASSUME NEW lines \in Seq(Lines), NEW n, NEW back
  PROVE  BuildUnits(lines, n, back) \in BuiltTo(lines, Len(lines))
<1> DEFINE N == Len(lines)
           Sums(h) == h = [k \in 0..N |->
             IF k = 0 THEN [units |-> <<>>, heads |-> {}, tables |-> 0, inTable |-> FALSE]
             ELSE AddLine(h[k - 1], k, lines, n, back)]
           g == [x \in (UNION {BuiltTo(lines, j) : j \in 0..N}) \X (1..N) |->
             AddLine(x[1], x[2], lines, n, back)]
           S == [i \in 0..N |-> BuiltTo(lines, i)]
<1>1. N \in Nat
  OBVIOUS
<1>2. [units |-> <<>>, heads |-> {}, tables |-> 0, inTable |-> FALSE] \in BuiltTo(lines, 0)
  <2>1. <<>> \in UnitsTo(lines, 0) /\ 0 \in Nat /\ FALSE \in BOOLEAN
    BY DEF UnitsTo, InOrder
  <2> QED BY <2>1, BuiltIs
<1>3. \A i \in 1..N : \A a \in BuiltTo(lines, i - 1) :
        AddLine(a, i, lines, n, back) \in BuiltTo(lines, i)
  BY AddLineKeeps
<1>4. \E h : Sums(h)
  <2>1. \A i \in 0..N : S[i] = BuiltTo(lines, i)
    OBVIOUS
  <2>2. \A i \in 1..N : \A a \in UNION {BuiltTo(lines, j) : j \in 0..N} :
          g[<<a, i>>] = AddLine(a, i, lines, n, back)
    OBVIOUS
  <2> HIDE DEF g, S, N
  <2>3. \A i \in 1..N : \A a \in S[i - 1] :
          /\ g[<<a, i>>] \in S[i]
          /\ g[<<a, i>>] = AddLine(a, i, lines, n, back)
    <3> TAKE i \in 1..N
    <3>1. i \in 0..N /\ i - 1 \in 0..N
      BY <1>1
    <3>2. S[i - 1] = BuiltTo(lines, i - 1) /\ S[i] = BuiltTo(lines, i)
      BY <2>1, <3>1
    <3> TAKE a \in S[i - 1]
    <3>3. a \in BuiltTo(lines, i - 1) /\ a \in UNION {BuiltTo(lines, j) : j \in 0..N}
      BY <3>1, <3>2
    <3>4. AddLine(a, i, lines, n, back) \in BuiltTo(lines, i)
      BY <1>3, <3>3, Zenon
    <3>5. g[<<a, i>>] = AddLine(a, i, lines, n, back)
      BY <2>2, <3>3, Zenon
    <3> QED BY <3>2, <3>4, <3>5, Zenon
  <2>4. [units |-> <<>>, heads |-> {}, tables |-> 0, inTable |-> FALSE] \in S[0]
    BY <1>1, <1>2, <2>1
  <2>5. PICK u : /\ Follows(u, N, [units |-> <<>>, heads |-> {}, tables |-> 0,
                                  inTable |-> FALSE], g)
                 /\ \A i \in 0..N : u[i] \in S[i]
    <3> HIDE DEF Sums
    <3>1. \A i \in 1..N : \A a \in S[i - 1] : g[<<a, i>>] \in S[i]
      BY <2>3
    <3> QED BY <1>1, <2>4, <3>1, RecursionExists
  <2>6. \A i \in 0..N : i # 0 => g[<<u[i - 1], i>>] = AddLine(u[i - 1], i, lines, n, back)
    <3> TAKE i \in 0..N
    <3> HAVE i # 0
    <3>1. i \in 1..N /\ i - 1 \in 0..N
      BY <1>1
    <3>2. u[i - 1] \in S[i - 1]
      BY <2>5, <3>1
    <3> QED BY <2>3, <3>1, <3>2, Zenon
  <2>7. Sums(u)
    BY <2>5, <2>6 DEF Follows
  <2> QED BY <2>7
<1> DEFINE f == CHOOSE h : Sums(h)
<1>5. Sums(f)
  BY <1>4
<1>6. BuildUnits(lines, n, back) = f[N]
  BY DEF BuildUnits
<1> HIDE DEF f
<1>7. /\ f[0] = [units |-> <<>>, heads |-> {}, tables |-> 0, inTable |-> FALSE]
      /\ \A k \in 1..N : f[k] = AddLine(f[k - 1], k, lines, n, back)
  <2>1. 0 \in 0..N /\ \A k \in 1..N : k \in 0..N /\ k # 0
    BY <1>1
  <2> QED BY <1>5, <2>1
<1>8. \A k \in 0..N : f[k] \in BuiltTo(lines, k)
  <2> DEFINE T == {k \in 0..N : f[k] \in BuiltTo(lines, k)}
  <2>1. 0 \in T
    BY <1>1, <1>2, <1>7
  <2>2. ASSUME NEW i \in 0..N - 1, i \in T PROVE i + 1 \in T
    <3>1. i + 1 \in 1..N /\ (i + 1) - 1 = i
      BY <1>1
    <3>2. f[i + 1] = AddLine(f[i], (i + 1), lines, n, back)
      BY <1>7, <3>1
    <3>3. AddLine(f[i], (i + 1), lines, n, back) \in BuiltTo(lines, (i + 1))
      BY <1>3, <2>2, <3>1
    <3>4. f[i + 1] \in BuiltTo(lines, (i + 1))
      BY <3>2, <3>3, Zenon
    <3> QED BY <1>1, <3>1, <3>4
  <2> HIDE DEF T
  <2>3. \A i \in 0..N : i \in T
    BY <1>1, <2>1, <2>2, InductionTo
  <2> QED BY <2>3 DEF T
<1>9. N \in 0..N
  BY <1>1
<1> QED BY <1>6, <1>8, <1>9

-----------------------------------------------------------------------------
(* The text, and what becomes of it.                                       *)

(* So chunk_rows begins with all of the text.                              *)
LEMMA UnitsInitially ==
  ASSUME ChunkInit
  PROVE  /\ text \in Seq(Lines) /\ units \in UnitsTo(text, Len(text))
         /\ heads \subseteq Range(units) \X Pieces
<1>1. text \in Seq(Lines)
  <2>1. PICK n \in 1..MaxLines : text \in [1..n -> Lines]
    BY DEF ChunkInit
  <2>2. n \in Nat
    BY ChunkingAssumption
  <2> QED BY <2>1, <2>2
<1>2. BuildUnits(text, size, overlap) \in BuiltTo(text, Len(text))
  BY <1>1, UnitsAreBuilt
<1>3. /\ units = BuildUnits(text, size, overlap).units
      /\ heads = BuildUnits(text, size, overlap).heads
  BY DEF ChunkInit
<1> QED BY <1>1, <1>2, <1>3, BuiltHas, Zenon

LEMMA WordsInitially ==
  ASSUME ChunkInit
  PROVE  WordsKept
<1>1. text \in Seq(Lines) /\ units \in UnitsTo(text, Len(text)) /\ units \in Seq(Pieces)
  BY UnitsInitially DEF UnitsTo
<1>2. ASSUME NEW i \in DOMAIN text, text[i].kind # "blank", NEW w \in DOMAIN text[i].words
      PROVE  \E u \in Range(units) : u.line = i /\ w \in u.from..u.to
  <2>1. i \in 1..Len(text) /\ text[i] \in Lines
    BY <1>1
  <2>2. text[i].words \in Seq(Nat)
    BY <2>1, LineIs
  <2>3. w \in 1..Len(text[i].words) /\ w \in Nat
    BY <2>2
  <2>4. PICK k \in 1..Len(units) : units[k].line = i /\ units[k].from <= w /\ w <= units[k].to
    BY <1>1, <1>2, <2>1, <2>3 DEF UnitsTo, Has
  <2>5. units[k] \in Range(units) /\ units[k] \in Pieces
    BY <1>1 DEF Range
  <2>6. \A p \in Pieces : p.from \in Nat /\ p.to \in Nat
    BY DEF Pieces
  <2>7. units[k].from \in Nat /\ units[k].to \in Nat
    BY <2>5, <2>6
  <2>8. w \in units[k].from..units[k].to
    BY <2>3, <2>4, <2>7
  <2> QED BY <2>4, <2>5, <2>8
<1>3. ASSUME NEW k \in 2..Len(units)
      PROVE  \/ units[k - 1].line < units[k].line
             \/ /\ units[k - 1].line = units[k].line
                /\ units[k - 1].from < units[k].from /\ units[k].from <= units[k - 1].to + 1
  BY <1>1, <1>3 DEF UnitsTo, InOrder, Follow
<1> QED BY <1>2, <1>3 DEF WordsKept

ChunkIInv == PackIInv /\ WordsKept

(* The invariant holds at first ...                                        *)
LEMMA ChunkBegins == ChunkInit => ChunkIInv
<1> SUFFICES ASSUME ChunkInit PROVE ChunkIInv
  OBVIOUS
<1>1. units \in Seq(Pieces) /\ heads \subseteq Range(units) \X Pieces
  BY UnitsInitially DEF UnitsTo
<1>2. PackIInv
  BY <1>1, PackInitially, ChunkingAssumption DEF ChunkInit
<1> QED BY <1>2, WordsInitially DEF ChunkIInv

(* ... and each step keeps it.                                             *)
LEMMA ChunkGoesOn == ChunkIInv /\ [ChunkNext]_chunkVars => ChunkIInv'
<1> SUFFICES ASSUME ChunkIInv, [ChunkNext]_chunkVars PROVE ChunkIInv'
  OBVIOUS
<1>1. UNCHANGED <<text, units>>
  BY DEF ChunkNext, chunkVars, Packs, Closes, CloseLast
<1>2. WordsKept'
  BY <1>1 DEF ChunkIInv, WordsKept
<1>3. PackIInv'
  <2>1. CASE Packs
    BY <2>1, PacksKeeps DEF ChunkIInv
  <2>2. CASE Closes
    BY <2>2, ClosesKeeps DEF ChunkIInv
  <2>3. CASE CloseLast
    BY <2>3, CloseLastKeeps DEF ChunkIInv
  <2>4. CASE UNCHANGED chunkVars
    BY <2>4 DEF chunkVars, ChunkIInv, PackIInv, PackTyped, CurFits, UnitsKept, ChunksFit, Shown
  <2> QED BY <2>1, <2>2, <2>3, <2>4 DEF ChunkNext
<1> QED BY <1>2, <1>3 DEF ChunkIInv

(* Whatever the text, the sizes and the overlap: nothing is lost on the    *)
(* way from the lines into the chunks, and no chunk grows past its budget  *)
(* unless it is a single line.                                             *)
THEOREM NothingIsLost == ChunkSpec => []ChunksHold
<1>1. ChunkIInv => ChunksHold
  BY DEF ChunkIInv, PackIInv, ChunksHold
<1> QED BY <1>1, ChunkBegins, ChunkGoesOn, PTL DEF ChunkSpec

LEMMA ChunkTyped == ChunkIInv => ChunkTypeOK
<1> SUFFICES ASSUME PackTyped PROVE ChunkTypeOK
  BY DEF ChunkIInv, PackIInv
<1>1. cur \in Seq(Shown)
  BY DEF PackTyped
<1>2. Range(cur) \subseteq Shown
  BY <1>1 DEF Range
<1> QED BY <1>2 DEF PackTyped, Shown, ChunkTypeOK

(* Every variable has its type: chunks are built of the text's units and   *)
(* the repeated separators, and each closed one has something new.         *)
THEOREM ChunksAreTyped == ChunkSpec => []ChunkTypeOK
  BY ChunkTyped, ChunkBegins, ChunkGoesOn, PTL DEF ChunkSpec
=============================================================================
