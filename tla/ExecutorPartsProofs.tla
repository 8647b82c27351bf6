------------------------- MODULE ExecutorPartsProofs -------------------------
(***************************************************************************)
(* Theorems about two parts of the executor's mod.rs that Executor takes   *)
(* for granted: that ClassQueues is one list in arrival order, whatever    *)
(* leaves it from the middle, and that the caps of EffectiveConfig leave   *)
(* room for one another, whatever was configured.                          *)
(*                                                                         *)
(* The argument for ClassQueues.  The k-th entry of a lane in `order'      *)
(* stands for the k-th job of its deque, and "k-th" is counting: Rank(S,n) *)
(* is the number of members of S up to n.  Two facts about ranks carry     *)
(* everything: a finite set has a member of every rank up to its size      *)
(* (NthExists), and a map that keeps the order keeps the ranks             *)
(* (RankMapped).  Entries leaving the line are such a map on those that    *)
(* stay, and so are their jobs leaving the lanes, so entry and job still   *)
(* have one rank (LaneKept).  No induction over the length of the line is  *)
(* needed.                                                                 *)
(***************************************************************************)
EXTENDS ClassQueues, Integers, FiniteSetTheorems, TLAPS

-----------------------------------------------------------------------------
(* Ranks, and what Kept leaves.                                              *)

(* A finite set of positions.                                                *)
Counted(S) == S \in SUBSET Nat /\ IsFiniteSet(S)

(* A rank is a number, at most the size of the set.                          *)
LEMMA RankTyped ==
  ASSUME NEW S, Counted(S), NEW n \in Nat
  PROVE  Rank(S, n) \in Nat /\ Rank(S, n) <= Cardinality(S) /\ Cardinality(S) \in Nat
  <1>1. {m \in S : m <= n} \in SUBSET S
    OBVIOUS
  <1> QED BY <1>1, FS_Subset, FS_CardinalityType DEF Rank, Counted

(* Ranks grow with the members.                                              *)
LEMMA RankGrows ==
  ASSUME NEW S, Counted(S), NEW m \in Nat, NEW n \in S, m < n
  PROVE  Rank(S, m) < Rank(S, n)
  <1> DEFINE A == {k \in S : k <= m}
             B == {k \in S : k <= n}
  <1>1. n \in Nat /\ S \in SUBSET Nat /\ IsFiniteSet(S) /\ B \in SUBSET S
    BY DEF Counted
  <1>2. IsFiniteSet(B) /\ A \in SUBSET B /\ n \in B /\ n \notin A
    <2>1. IsFiniteSet(B)
      BY <1>1, FS_Subset
    <2>2. \A k \in S : k <= m => k <= n
      <3> SUFFICES ASSUME NEW k \in S, k <= m PROVE k <= n
        OBVIOUS
      <3>1. k \in Nat
        BY <1>1
      <3> QED BY <1>1, <3>1
    <2>3. n <= n /\ ~(n <= m)
      BY <1>1
    <2> QED BY <2>1, <2>2, <2>3
  <1>3. Cardinality(A) <= Cardinality(B) /\ Cardinality(A) # Cardinality(B)
    BY <1>2, FS_Subset
  <1>4. Cardinality(A) \in Nat /\ Cardinality(B) \in Nat
    BY <1>2, FS_Subset, FS_CardinalityType
  <1> QED BY <1>3, <1>4 DEF Rank

(* A member's rank is one of 1..size.                                        *)
LEMMA RankPositive ==
  ASSUME NEW S, Counted(S), NEW n \in S
  PROVE  Rank(S, n) \in 1..Cardinality(S)
  <1>1. n \in Nat
    BY DEF Counted
  <1>2. {m \in S : m <= n} # {} /\ IsFiniteSet({m \in S : m <= n})
    BY <1>1, FS_Subset DEF Counted
  <1>3. Rank(S, n) # 0
    BY <1>2, FS_EmptySet DEF Rank
  <1> QED BY <1>1, <1>3, RankTyped

(* No two members have one rank.                                             *)
LEMMA RankInjective ==
  ASSUME NEW S, Counted(S), NEW m \in S, NEW n \in S, Rank(S, m) = Rank(S, n)
  PROVE  m = n
  <1>1. m \in Nat /\ n \in Nat
    BY DEF Counted
  <1>2. m < n \/ n < m \/ m = n
    BY <1>1
  <1> QED BY <1>1, <1>2, RankGrows, RankTyped

(* Every rank is taken: the ranks are an injection into 1..size, and an      *)
(* injection between finite sets of one size is onto.                        *)
LEMMA NthExists ==
  ASSUME NEW S, Counted(S), NEW i \in 1..Cardinality(S)
  PROVE  Nth(S, i) \in S /\ Rank(S, Nth(S, i)) = i
  <1> DEFINE T == 1..Cardinality(S)
             f == [n \in S |-> Rank(S, n)]
  <1>1. f \in [S -> T]
    BY RankPositive
  <1>2. f \in Injection(S, T)
    <2>1. \A m, n \in S : f[m] = f[n] => m = n
      BY RankInjective
    <2> QED BY <1>1, <2>1 DEF Injection, IsInjective
  <1>3. Cardinality(S) \in Nat
    BY FS_CardinalityType DEF Counted
  <1>4. IsFiniteSet(T) /\ Cardinality(T) = Cardinality(S)
    BY <1>3, FS_Interval
  <1>5. f \in Surjection(S, T)
    <2> HIDE DEF f, T
    <2> QED BY <1>2, <1>4, FS_Injection
  <1>6. \E n \in S : Rank(S, n) = i
    BY <1>5 DEF Surjection
  <1> QED BY <1>6 DEF Nth

(* Nth and Rank are inverse to each other.                                   *)
LEMMA NthOfRank ==
  ASSUME NEW S, Counted(S), NEW n \in S
  PROVE  Nth(S, Rank(S, n)) = n
  <1>1. Rank(S, n) \in 1..Cardinality(S)
    BY RankPositive
  <1> DEFINE i == Rank(S, n)
  <1>2. Nth(S, i) \in S /\ Rank(S, Nth(S, i)) = i
    BY <1>1, NthExists
  <1> QED BY <1>2, RankInjective

(* An increasing map keeps ranks. *)
LEMMA RankMapped ==
  ASSUME NEW S, Counted(S), NEW f \in [S -> Nat],
         \A m, n \in S : m < n => f[m] < f[n]
  PROVE  LET T == {f[m] : m \in S} IN
         /\ Counted(T) /\ Cardinality(T) = Cardinality(S)
         /\ \A n \in S : Rank(T, f[n]) = Rank(S, n)
  <1> DEFINE T == {f[m] : m \in S}
  <1>1. \A m, n \in S : m \in Nat /\ n \in Nat /\ f[m] \in Nat /\ f[n] \in Nat
    BY DEF Counted
  <1>2. \A m, n \in S : (f[m] = f[n] => m = n) /\ (f[m] <= f[n] <=> m <= n)
    BY <1>1
  <1>3. f \in Bijection(S, T)
    BY <1>2 DEF Bijection, Injection, Surjection, IsInjective
  <1>4. Counted(T) /\ Cardinality(T) = Cardinality(S)
    BY <1>3, FS_Bijection DEF Counted, ExistsBijection
  <1>5. ASSUME NEW n \in S PROVE Rank(T, f[n]) = Rank(S, n)
    <2> DEFINE A == {m \in S : m <= n}
               B == {k \in T : k <= f[n]}
               g == [m \in A |-> f[m]]
    <2>1. g \in [A -> B]
      BY <1>2
    <2>2. \A k \in B : \E m \in A : g[m] = k
      BY <1>2
    <2>3. \A a, b \in A : g[a] = g[b] => a = b
      BY <1>2
    <2>4. g \in Bijection(A, B)
      BY <2>1, <2>2, <2>3 DEF Bijection, Injection, Surjection, IsInjective
    <2>5. IsFiniteSet(A)
      BY FS_Subset DEF Counted
    <2>6. Cardinality(B) = Cardinality(A)
      <3> HIDE DEF g, A, B
      <3> QED BY <2>4, <2>5, FS_Bijection DEF ExistsBijection
    <2> QED BY <2>6 DEF Rank
  <1> QED BY <1>4, <1>5

(* The positions of a sequence, and those left of them.                      *)
LEMMA DomainCounted ==
  ASSUME NEW A, NEW s \in Seq(A), NEW D
  PROVE  /\ Len(s) \in Nat /\ DOMAIN s = 1..Len(s)
         /\ Counted(DOMAIN s) /\ Counted(DOMAIN s \ D) /\ Counted(DOMAIN s \cap D)
         /\ Cardinality(DOMAIN s) = Len(s)
  <1>1. Len(s) \in Nat /\ DOMAIN s = 1..Len(s)
    OBVIOUS
  <1>2. IsFiniteSet(1..Len(s)) /\ Cardinality(1..Len(s)) = Len(s)
    BY <1>1, FS_Interval
  <1>3. (DOMAIN s \ D) \in SUBSET (DOMAIN s) /\ (DOMAIN s \cap D) \in SUBSET (DOMAIN s)
    OBVIOUS
  <1>4. IsFiniteSet(DOMAIN s \ D) /\ IsFiniteSet(DOMAIN s \cap D)
    BY <1>1, <1>2, <1>3, FS_Subset
  <1>5. DOMAIN s \in SUBSET Nat
    BY <1>1
  <1> QED BY <1>1, <1>2, <1>4, <1>5 DEF Counted

(* t holds the entries of s at the positions K, in their order, and no others. *)
Survivors(s, K, t) ==
  /\ Len(t) = Cardinality(K) /\ DOMAIN t = 1..Cardinality(K) /\ Cardinality(K) \in Nat
  /\ \A m \in K : Rank(K, m) \in DOMAIN t /\ t[Rank(K, m)] = s[m]
  /\ \A i \in DOMAIN t : \E m \in K : i = Rank(K, m)

(* Kept puts each entry that stays at its rank among those that stay.        *)
LEMMA KeptEntries ==
  ASSUME NEW A, NEW s \in Seq(A), NEW D
  PROVE  Survivors(s, DOMAIN s \ D, Kept(s, D)) /\ Kept(s, D) \in Seq(A)
  <1> DEFINE K == DOMAIN s \ D
  <1>1. Counted(K) /\ K \subseteq DOMAIN s
    BY DomainCounted
  <1>2. Cardinality(K) \in Nat
    BY <1>1, FS_CardinalityType DEF Counted
  <1>3. Kept(s, D) = [i \in 1..Cardinality(K) |-> s[Nth(K, i)]]
    BY DEF Kept
  <1> HIDE DEF K
  <1>4. \A i \in 1..Cardinality(K) : Nth(K, i) \in K /\ Rank(K, Nth(K, i)) = i
    BY <1>1, NthExists
  <1>5. \A m \in K : Rank(K, m) \in 1..Cardinality(K) /\ Nth(K, Rank(K, m)) = m
    BY <1>1, RankPositive, NthOfRank
  <1>6. \A i \in 1..Cardinality(K) : s[Nth(K, i)] \in A
    BY <1>1, <1>4
  <1>7. Kept(s, D) \in Seq(A) /\ Len(Kept(s, D)) = Cardinality(K)
    BY <1>2, <1>3, <1>6
  <1>8. DOMAIN Kept(s, D) = 1..Cardinality(K)
    BY <1>3
  <1>9. \A m \in K : Kept(s, D)[Rank(K, m)] = s[m]
    BY <1>3, <1>5
  <1>10. Survivors(s, K, Kept(s, D))
    BY <1>2, <1>4, <1>5, <1>7, <1>8, <1>9 DEF Survivors
  <1> QED BY <1>7, <1>10 DEF K

(* t has the entries of s at the positions K where their ranks say.          *)
Fills(s, K, t) == Len(t) = Cardinality(K) /\ \A m \in K : t[Rank(K, m)] = s[m]

(* There is only one such sequence.                                          *)
LEMMA KeptUnique ==
  ASSUME NEW A, NEW s \in Seq(A), NEW D, NEW t \in Seq(A),
         Fills(s, DOMAIN s \ D, t)
  PROVE  t = Kept(s, D)
  <1> DEFINE K == DOMAIN s \ D
  <1>1. Counted(K)
    BY DomainCounted
  <1>2. Kept(s, D) = [i \in 1..Cardinality(K) |-> s[Nth(K, i)]]
    BY DEF Kept
  <1>3. \A m \in K : t[Rank(K, m)] = s[m]
    BY DEF Fills
  <1>4. Len(t) = Cardinality(K)
    BY DEF Fills
  <1> HIDE DEF K
  <1>5. \A i \in 1..Cardinality(K) : Nth(K, i) \in K /\ Rank(K, Nth(K, i)) = i
    BY <1>1, NthExists
  <1>6. \A i \in 1..Cardinality(K) : t[i] = s[Nth(K, i)]
    BY <1>3, <1>5
  <1>7. t = [i \in 1..Len(t) |-> t[i]]
    OBVIOUS
  <1> QED BY <1>2, <1>4, <1>6, <1>7

(* If nothing is taken, all is left. *)
LEMMA KeptNone ==
  ASSUME NEW A, NEW s \in Seq(A)
  PROVE  Kept(s, {}) = s
  <1>1. /\ Len(s) \in Nat /\ DOMAIN s = 1..Len(s) /\ Cardinality(DOMAIN s) = Len(s)
        /\ DOMAIN s \ {} = DOMAIN s
    BY DomainCounted
  <1>2. \A m \in DOMAIN s : Rank(DOMAIN s, m) = m
    <2> SUFFICES ASSUME NEW m \in DOMAIN s PROVE Rank(DOMAIN s, m) = m
      OBVIOUS
    <2>1. {k \in DOMAIN s : k <= m} = 1..m /\ m \in Nat /\ m >= 1
      BY <1>1
    <2>2. Cardinality(1..m) = m
      BY <2>1, FS_Interval
    <2> QED BY <2>1, <2>2 DEF Rank
  <1>3. \A m \in DOMAIN s \ {} : s[Rank(DOMAIN s \ {}, m)] = s[m]
    BY <1>1, <1>2
  <1>4. Len(s) = Cardinality(DOMAIN s \ {})
    BY <1>1
  <1> QED BY <1>3, <1>4, KeptUnique DEF Fills

(* If everything is taken, nothing is left.                                  *)
LEMMA KeptEmpty ==
  ASSUME NEW s, NEW D, DOMAIN s \subseteq D
  PROVE  Kept(s, D) = <<>>
  <1>1. DOMAIN s \ D = {}
    OBVIOUS
  <1>2. Cardinality(DOMAIN s \ D) = 0
    BY <1>1, FS_EmptySet
  <1>3. Kept(s, D) = [i \in 1..0 |-> s[Nth(DOMAIN s \ D, i)]]
    BY <1>2 DEF Kept
  <1>4. 1..0 = {}
    OBVIOUS
  <1>5. Kept(s, D) \in Seq({}) /\ Len(Kept(s, D)) = 0
    BY <1>3, <1>4
  <1> QED BY <1>5

(* The entries of a concatenation.                                           *)
LEMMA Joined ==
  ASSUME NEW A, NEW t \in Seq(A), NEW u \in Seq(A)
  PROVE  /\ t \o u \in Seq(A) /\ Len(t \o u) = Len(t) + Len(u)
         /\ \A m \in 1..Len(t) : (t \o u)[m] = t[m]
         /\ \A m \in (Len(t) + 1)..(Len(t) + Len(u)) : (t \o u)[m] = u[m - Len(t)]
  OBVIOUS

(* RemoveAt leaves what is before its place and moves the rest down.         *)
LEMMA RemoveAtEntries ==
  ASSUME NEW A, NEW s \in Seq(A), NEW p \in DOMAIN s
  PROVE  /\ RemoveAt(s, p) \in Seq(A) /\ Len(RemoveAt(s, p)) = Len(s) - 1
         /\ \A m \in 1..(Len(s) - 1) : RemoveAt(s, p)[m] = IF m < p THEN s[m] ELSE s[m + 1]
  <1> DEFINE t == SubSeq(s, 1, p - 1)
             u == SubSeq(s, p + 1, Len(s))
  <1>1. Len(s) \in Nat /\ DOMAIN s = 1..Len(s) /\ p \in 1..Len(s)
    OBVIOUS
  <1>2. t \in Seq(A) /\ Len(t) = p - 1 /\ \A m \in 1..(p - 1) : t[m] = s[m]
    BY <1>1
  <1>3. u \in Seq(A) /\ Len(u) = Len(s) - p /\ \A m \in 1..(Len(s) - p) : u[m] = s[p + m]
    BY <1>1
  <1>4. RemoveAt(s, p) = t \o u
    BY DEF RemoveAt
  <1> HIDE DEF t, u
  <1>5. t \o u \in Seq(A) /\ Len(t \o u) = Len(t) + Len(u)
    BY <1>2, <1>3, Joined
  <1>6. Len(t) + Len(u) = Len(s) - 1
    BY <1>1, <1>2, <1>3
  <1>7. ASSUME NEW m \in 1..(Len(s) - 1) PROVE (t \o u)[m] = IF m < p THEN s[m] ELSE s[m + 1]
    <2>1. CASE m < p
      <3>1. m \in 1..Len(t) /\ t[m] = s[m]
        BY <1>1, <1>2, <2>1
      <3> QED BY <1>2, <1>3, <2>1, <3>1
    <2>2. CASE ~(m < p)
      <3>1. /\ m - Len(t) \in 1..Len(u) /\ p + (m - Len(t)) = m + 1
            /\ m > Len(t) /\ m <= Len(t) + Len(u)
        BY <1>1, <1>2, <1>3, <2>2
      <3>2. (t \o u)[m] = u[m - Len(t)]
        BY <1>2, <1>3, <3>1
      <3>3. u[m - Len(t)] = s[p + (m - Len(t))]
        BY <1>3, <3>1
      <3> QED BY <2>2, <3>1, <3>2, <3>3
    <2> QED BY <2>1, <2>2
  <1> QED BY <1>4, <1>5, <1>6, <1>7

(* One entry taken. *)
LEMMA KeptAllButOne ==
  ASSUME NEW A, NEW s \in Seq(A), NEW p \in DOMAIN s
  PROVE  RemoveAt(s, p) = Kept(s, {p})
  <1> DEFINE K == DOMAIN s \ {p}
  <1>1. Len(s) \in Nat /\ DOMAIN s = 1..Len(s) /\ p \in Nat /\ p >= 1 /\ p <= Len(s)
    OBVIOUS
  <1>2. Cardinality(K) = Len(s) - 1
    BY <1>1, FS_RemoveElement, DomainCounted DEF Counted
  <1>3. \A m \in K : Rank(K, m) = IF m < p THEN m ELSE m - 1
    <2> SUFFICES ASSUME NEW m \in K PROVE Rank(K, m) = IF m < p THEN m ELSE m - 1
      OBVIOUS
    <2>1. m \in Nat /\ m >= 1 /\ m <= Len(s) /\ m # p
      BY <1>1
    <2>2. {k \in K : k <= m} = (1..m) \ {p}
      BY <1>1, <2>1
    <2>3. IsFiniteSet(1..m) /\ Cardinality(1..m) = m
      BY <2>1, FS_Interval
    <2>4. Cardinality((1..m) \ {p}) = IF p \in 1..m THEN m - 1 ELSE m
      BY <2>3, FS_RemoveElement
    <2>5. p \in 1..m <=> ~(m < p)
      BY <1>1, <2>1
    <2> QED BY <2>2, <2>4, <2>5 DEF Rank
  <1>4. /\ RemoveAt(s, p) \in Seq(A) /\ Len(RemoveAt(s, p)) = Len(s) - 1
        /\ \A m \in 1..(Len(s) - 1) : RemoveAt(s, p)[m] = IF m < p THEN s[m] ELSE s[m + 1]
    BY RemoveAtEntries
  <1>5. \A m \in K : RemoveAt(s, p)[Rank(K, m)] = s[m]
    <2> SUFFICES ASSUME NEW m \in K PROVE RemoveAt(s, p)[Rank(K, m)] = s[m]
      OBVIOUS
    <2>1. m \in Nat /\ m >= 1 /\ m <= Len(s) /\ m # p
      BY <1>1
    <2>2. CASE m < p
      <3>1. Rank(K, m) = m
        BY <1>3, <2>2
      <3>2. Rank(K, m) = m /\ m \in 1..(Len(s) - 1)
        BY <1>1, <2>1, <2>2, <3>1
      <3> QED BY <1>4, <2>2, <3>2
    <2>3. CASE m > p
      <3>1. ~(m < p)
        BY <1>1, <2>1, <2>3
      <3>2. Rank(K, m) = m - 1
        BY <1>3, <3>1
      <3>3. m - 1 \in 1..(Len(s) - 1) /\ ~(m - 1 < p) /\ (m - 1) + 1 = m
        BY <1>1, <2>1, <2>3
      <3> QED BY <1>4, <3>2, <3>3
    <2> QED BY <1>1, <2>1, <2>2, <2>3
  <1>6. RemoveAt(s, p) \in Seq(A) /\ Len(RemoveAt(s, p)) = Cardinality(K)
    BY <1>2, <1>4
  <1> DEFINE t == RemoveAt(s, p)
  <1>7. t \in Seq(A) /\ Len(t) = Cardinality(DOMAIN s \ {p})
    BY <1>6
  <1>8. \A m \in DOMAIN s \ {p} : t[Rank(DOMAIN s \ {p}, m)] = s[m]
    BY <1>5
  <1> HIDE DEF t, K
  <1>9. t = Kept(s, {p})
    BY <1>7, <1>8, KeptUnique DEF Fills
  <1> QED BY <1>9 DEF t

-----------------------------------------------------------------------------
(* The line and the lanes, as values.                                        *)

(* The entries of a lane.                                                    *)
Of(s, l) == {i \in DOMAIN s : s[i] = l}

(* They are a finite set of positions.                                       *)
LEMMA OfCounted ==
  ASSUME NEW A, NEW s \in Seq(A), NEW l
  PROVE  Counted(Of(s, l)) /\ Cardinality(Of(s, l)) \in Nat /\ Of(s, l) \subseteq DOMAIN s
  <1>1. Of(s, l) \in SUBSET (DOMAIN s)
    BY DEF Of
  <1>2. Counted(DOMAIN s)
    BY DomainCounted
  <1> QED BY <1>1, <1>2, FS_Subset, FS_CardinalityType DEF Counted

(* Which of the lane's jobs the entries D stand for.                         *)
Ranks(s, l, D) == {Rank(Of(s, l), i) : i \in D \cap Of(s, l)}

(* After the entries D have gone, a lane still has one job per entry, and each*)
(* entry that stayed stands for the job it stood for.                        *)
LaneSurvives(s, l, D, q, t, r) ==
  /\ Cardinality(Of(t, l)) = Len(r)
  /\ \A m \in Of(s, l) \ D :
       /\ Rank(DOMAIN s \ D, m) \in Of(t, l)
       /\ Rank(Of(t, l), Rank(DOMAIN s \ D, m)) \in DOMAIN r
       /\ r[Rank(Of(t, l), Rank(DOMAIN s \ D, m))] = q[Rank(Of(s, l), m)]
       /\ Rank(Of(s, l), m) \in DOMAIN q

(* It is so when those entries leave the line and their jobs the lane.       *)
LEMMA LaneKept ==
  ASSUME NEW A, NEW s \in Seq(A), NEW D, NEW l, NEW B, NEW q \in Seq(B),
         Cardinality(Of(s, l)) = Len(q), NEW t, t = Kept(s, D),
         NEW r, r = Kept(q, Ranks(s, l, D))
  PROVE  LaneSurvives(s, l, D, q, t, r)
  <1> DEFINE E == Of(s, l)
             F == Of(t, l)
             K == DOMAIN s \ D
             T == E \ D
             X == {Rank(E, i) : i \in D \cap E}
             Q == DOMAIN q \ X
  <1>1. Counted(E) /\ E \subseteq DOMAIN s
    BY OfCounted
  <1>2. Counted(K)
    BY DomainCounted
  <1>3. Counted(T) /\ T \subseteq K /\ T \subseteq E
    BY <1>1, FS_Subset DEF Counted
  <1>4. \A m \in T : m \in Nat /\ m \in K /\ m \in E
    BY <1>3 DEF Counted
  <1>5. Survivors(s, DOMAIN s \ D, Kept(s, D))
    BY KeptEntries
  <1>6. /\ \A m \in K : Rank(K, m) \in DOMAIN t /\ t[Rank(K, m)] = s[m]
        /\ \A i \in DOMAIN t : \E m \in K : i = Rank(K, m)
    <2>1. Survivors(s, K, t)
      BY <1>5
    <2> HIDE DEF K
    <2> QED BY <2>1 DEF Survivors
  <1>7. \A m \in DOMAIN s : m \in E <=> s[m] = l
    BY DEF Of
  <1>8. \A i : i \in F <=> i \in DOMAIN t /\ t[i] = l
    BY DEF Of
  <1>9. \A m : m \in K <=> m \in DOMAIN s /\ m \notin D
    OBVIOUS
  <1>10. \A m : m \in T <=> m \in E /\ m \notin D
    OBVIOUS
  <1>11. DOMAIN q = 1..Cardinality(E)
    BY DomainCounted
  <1>12. \A c : c \in X <=> \E i \in E : i \in D /\ c = Rank(E, i)
    OBVIOUS
  <1>13. \A c : c \in Q <=> c \in DOMAIN q /\ c \notin X
    OBVIOUS
  <1>14. Survivors(q, Q, r)
    <2>1. r = Kept(q, X)
      BY DEF Ranks
    <2> HIDE DEF X
    <2> QED BY <2>1, KeptEntries
  <1>15. /\ Len(r) = Cardinality(Q) /\ DOMAIN r = 1..Cardinality(Q)
        /\ \A c \in Q : Rank(Q, c) \in DOMAIN r /\ r[Rank(Q, c)] = q[c]
    <2> HIDE DEF Q
    <2> QED BY <1>14 DEF Survivors
  <1> HIDE DEF E, F, K, T, X, Q
  <1> DEFINE f == [m \in T |-> Rank(K, m)]
             g == [m \in T |-> Rank(E, m)]
  <1>16. f \in [T -> Nat] /\ \A m, n \in T : m < n => f[m] < f[n]
    BY <1>2, <1>4, RankTyped, RankGrows
  <1>17. g \in [T -> Nat] /\ \A m, n \in T : m < n => g[m] < g[n]
    BY <1>1, <1>4, RankTyped, RankGrows
  <1>18. F = {f[m] : m \in T}
    <2>1. ASSUME NEW i \in F PROVE i \in {f[m] : m \in T}
      <3>1. PICK m \in K : i = Rank(K, m)
        BY <1>6, <1>8
      <3>2. s[m] = l /\ m \in T
        BY <1>6, <1>7, <1>8, <1>9, <1>10, <3>1
      <3> QED BY <3>1, <3>2
    <2>2. ASSUME NEW m \in T PROVE f[m] \in F
      BY <1>1, <1>4, <1>6, <1>7, <1>8
    <2> QED BY <2>1, <2>2
  <1>19. Q = {g[m] : m \in T}
    <2>1. ASSUME NEW c \in Q PROVE c \in {g[m] : m \in T}
      <3>1. c \in 1..Cardinality(E) /\ c \notin X
        BY <1>11, <1>13
      <3>2. Nth(E, c) \in E /\ Rank(E, Nth(E, c)) = c
        BY <1>1, <3>1, NthExists
      <3>3. Nth(E, c) \in T
        BY <1>10, <1>12, <3>1, <3>2
      <3> QED BY <3>2, <3>3
    <2>2. ASSUME NEW m \in T PROVE g[m] \in Q
      <3>1. Rank(E, m) \in DOMAIN q
        BY <1>1, <1>4, <1>11, RankPositive
      <3>2. Rank(E, m) \notin X
        BY <1>1, <1>4, <1>10, <1>12, RankInjective
      <3> QED BY <1>13, <3>1, <3>2
    <2> QED BY <2>1, <2>2
  <1> HIDE DEF f, g
  <1>20. Cardinality(F) = Cardinality(T) /\ \A m \in T : Rank(F, f[m]) = Rank(T, m)
    BY <1>3, <1>16, <1>18, RankMapped
  <1>21. Cardinality(Q) = Cardinality(T) /\ \A m \in T : Rank(Q, g[m]) = Rank(T, m)
    BY <1>3, <1>17, <1>19, RankMapped
  <1>22. Cardinality(F) = Len(r)
    BY <1>20, <1>21, <1>15
  <1>23. ASSUME NEW m \in T
         PROVE  /\ Rank(K, m) \in F
                /\ Rank(F, Rank(K, m)) \in DOMAIN r
                /\ r[Rank(F, Rank(K, m))] = q[Rank(E, m)]
                /\ Rank(E, m) \in DOMAIN q
    <2>1. f[m] = Rank(K, m) /\ g[m] = Rank(E, m)
      BY DEF f, g
    <2>2. Rank(K, m) \in F /\ Rank(E, m) \in Q
      BY <1>18, <1>19, <2>1
    <2>3. Rank(F, Rank(K, m)) = Rank(Q, Rank(E, m))
      BY <1>20, <1>21, <2>1
    <2> QED BY <2>2, <2>3, <1>15, <1>13
  <1> QED BY <1>22, <1>23 DEF LaneSurvives, E, F, K, T, X, Q

(* A line o and the lanes q that it orders. *)
Pairing(o, q) ==
  /\ o \in Seq(Lanes) /\ q \in [Lanes -> Seq(Jobs)]
  /\ \A l \in Lanes : Cardinality(Of(o, l)) = Len(q[l])
  /\ \A l \in Lanes : \A k \in DOMAIN q[l] : Lane(q[l][k]) = l
  /\ \A l \in Lanes : \A j, k \in DOMAIN q[l] : q[l][j] = q[l][k] => j = k

(* The jobs as the line orders them.                                         *)
Listed(o, q) == [i \in DOMAIN o |-> q[o[i]][Rank(Of(o, o[i]), i)]]

(* The lanes stand for one list. *)
StandFor(o, q, t) == Pairing(o, q) /\ Listed(o, q) = t

(* The jobs in the order of their entries. *)
LEMMA ListedEntries ==
  ASSUME NEW o, NEW q, Pairing(o, q), NEW i \in DOMAIN o
  PROVE  /\ o[i] \in Lanes /\ i \in Of(o, o[i])
         /\ Rank(Of(o, o[i]), i) \in DOMAIN q[o[i]]
         /\ Listed(o, q)[i] = q[o[i]][Rank(Of(o, o[i]), i)]
         /\ Listed(o, q)[i] \in Jobs /\ Lane(Listed(o, q)[i]) = o[i]
  <1>1. o \in Seq(Lanes) /\ o[i] \in Lanes
    BY DEF Pairing
  <1> DEFINE l == o[i]
             E == Of(o, l)
  <1>2. i \in E
    BY DEF Of
  <1>3. Counted(E)
    BY <1>1, OfCounted
  <1>4. q[l] \in Seq(Jobs) /\ Cardinality(E) = Len(q[l])
    BY <1>1 DEF Pairing
  <1>5. DOMAIN q[l] = 1..Cardinality(E)
    BY <1>4, DomainCounted
  <1>6. Rank(E, i) \in DOMAIN q[l]
    <2> HIDE DEF E
    <2> QED BY <1>2, <1>3, <1>5, RankPositive
  <1>7. q[l][Rank(E, i)] \in Jobs /\ Lane(q[l][Rank(E, i)]) = l
    <2> HIDE DEF E
    <2> QED BY <1>1, <1>4, <1>6 DEF Pairing
  <1>8. Listed(o, q)[i] = q[l][Rank(E, i)]
    BY DEF Listed
  <1> QED BY <1>1, <1>2, <1>6, <1>7, <1>8

(* The list is as long as the line.                                          *)
LEMMA ListedTyped ==
  ASSUME NEW o, NEW q, Pairing(o, q)
  PROVE  /\ Listed(o, q) \in Seq(Jobs) /\ DOMAIN Listed(o, q) = DOMAIN o
         /\ Len(Listed(o, q)) = Len(o) /\ o \in Seq(Lanes)
  <1>1. o \in Seq(Lanes)
    BY DEF Pairing
  <1>2. DOMAIN Listed(o, q) = DOMAIN o
    BY DEF Listed
  <1>3. \A i \in DOMAIN o : Listed(o, q)[i] \in Jobs
    BY ListedEntries
  <1>4. DOMAIN o = 1..Len(o) /\ Len(o) \in Nat
    BY <1>1, DomainCounted
  <1>5. Listed(o, q) = [i \in 1..Len(o) |-> Listed(o, q)[i]]
    BY <1>4 DEF Listed
  <1>6. Listed(o, q) \in Seq(Jobs) /\ Len(Listed(o, q)) = Len(o)
    BY <1>3, <1>4, <1>5
  <1> QED BY <1>1, <1>2, <1>6

(* No job is listed twice. *)
LEMMA ListedOnce ==
  ASSUME NEW o, NEW q, Pairing(o, q), NEW i \in DOMAIN o, NEW k \in DOMAIN o,
         Listed(o, q)[i] = Listed(o, q)[k]
  PROVE  i = k
  <1>1. o[i] = o[k]
    BY ListedEntries
  <1> DEFINE l == o[i]
             E == Of(o, l)
  <1>2. o \in Seq(Lanes) /\ l \in Lanes
    BY DEF Pairing
  <1>3. Counted(E)
    BY <1>2, OfCounted
  <1>4. i \in E /\ k \in E
    BY <1>1 DEF Of
  <1>5. /\ Rank(E, i) \in DOMAIN q[l] /\ Rank(E, k) \in DOMAIN q[l]
        /\ q[l][Rank(E, i)] = q[l][Rank(E, k)]
    BY <1>1, ListedEntries
  <1> HIDE DEF E, l
  <1>6. Rank(E, i) = Rank(E, k)
    BY <1>2, <1>5 DEF Pairing
  <1> QED BY <1>3, <1>4, <1>6, RankInjective

(* Every job of a lane has its entry. *)
LEMMA ListedAll ==
  ASSUME NEW o, NEW q, Pairing(o, q), NEW l \in Lanes, NEW k \in DOMAIN q[l]
  PROVE  \E i \in DOMAIN o : /\ o[i] = l /\ Rank(Of(o, l), i) = k
                             /\ Listed(o, q)[i] = q[l][k]
  <1> DEFINE E == Of(o, l)
  <1>1. o \in Seq(Lanes) /\ q[l] \in Seq(Jobs) /\ Cardinality(E) = Len(q[l])
    BY DEF Pairing
  <1>2. Counted(E)
    BY <1>1, OfCounted
  <1>3. k \in 1..Cardinality(E)
    BY <1>1, DomainCounted
  <1>4. Nth(E, k) \in E /\ Rank(E, Nth(E, k)) = k
    <2> HIDE DEF E
    <2> QED BY <1>2, <1>3, NthExists
  <1>5. Nth(E, k) \in DOMAIN o /\ o[Nth(E, k)] = l
    BY <1>4 DEF Of
  <1>6. Listed(o, q)[Nth(E, k)] = q[l][k]
    BY <1>4, <1>5, ListedEntries
  <1> QED BY <1>4, <1>5, <1>6

(* Entries taken from the line, and their jobs from their lanes. *)
LEMMA Dropped ==
  ASSUME NEW o, NEW q, Pairing(o, q), NEW D, NEW o2, NEW q2,
         o2 = Kept(o, D), q2 \in [Lanes -> Seq(Jobs)],
         \A l \in Lanes : q2[l] = Kept(q[l], Ranks(o, l, D))
  PROVE  Pairing(o2, q2) /\ Listed(o2, q2) = Kept(Listed(o, q), D)
  <1>1. o \in Seq(Lanes) /\ \A l \in Lanes : q[l] \in Seq(Jobs) /\ Cardinality(Of(o, l)) = Len(q[l])
    BY DEF Pairing
  <1>2. o2 \in Seq(Lanes) /\ Survivors(o, DOMAIN o \ D, o2)
    BY <1>1, KeptEntries
  <1>3. ASSUME NEW l \in Lanes
        PROVE  /\ Cardinality(Of(o2, l)) = Len(q2[l])
               /\ \A m \in Of(o, l) \ D :
                  /\ Rank(DOMAIN o \ D, m) \in Of(o2, l)
                  /\ Rank(Of(o2, l), Rank(DOMAIN o \ D, m)) \in DOMAIN q2[l]
                  /\ q2[l][Rank(Of(o2, l), Rank(DOMAIN o \ D, m))] = q[l][Rank(Of(o, l), m)]
    <2>1. q2[l] = Kept(q[l], Ranks(o, l, D))
      OBVIOUS
    <2>2. q[l] \in Seq(Jobs) /\ Cardinality(Of(o, l)) = Len(q[l])
      BY <1>1
    <2>3. LaneSurvives(o, l, D, q[l], o2, q2[l])
      BY <1>1, <2>1, <2>2, LaneKept
    <2> QED BY <2>3 DEF LaneSurvives
  <1>4. ASSUME NEW l \in Lanes
        PROVE  /\ \A k \in DOMAIN q2[l] : Lane(q2[l][k]) = l
               /\ \A j, k \in DOMAIN q2[l] : q2[l][j] = q2[l][k] => j = k
    <2> DEFINE X == Ranks(o, l, D)
               K == DOMAIN q[l] \ X
    <2>1. q2[l] = Kept(q[l], X)
      OBVIOUS
    <2>2. Survivors(q[l], K, q2[l])
      <3> HIDE DEF X
      <3> QED BY <1>1, <2>1, KeptEntries
    <2>3. \A k \in K : k \in DOMAIN q[l]
      OBVIOUS
    <2> HIDE DEF X, K
    <2>4. \A k \in DOMAIN q2[l] : \E m \in K : k = Rank(K, m) /\ q2[l][k] = q[l][m]
      BY <2>2 DEF Survivors
    <2> QED BY <2>3, <2>4 DEF Pairing
  <1>5. Pairing(o2, q2)
    BY <1>2, <1>3, <1>4 DEF Pairing
  <1> DEFINE L == Listed(o, q)
             M == Listed(o2, q2)
             K == DOMAIN o \ D
  <1>6. L \in Seq(Jobs) /\ DOMAIN L = DOMAIN o /\ M \in Seq(Jobs) /\ Len(M) = Len(o2)
    BY <1>5, ListedTyped
  <1>7. Len(M) = Cardinality(K)
    BY <1>2, <1>6 DEF Survivors
  <1>8. ASSUME NEW m \in K PROVE M[Rank(K, m)] = L[m]
    <2>1. m \in DOMAIN o /\ m \notin D /\ o[m] \in Lanes /\ m \in Of(o, o[m])
      BY ListedEntries
    <2> DEFINE i == Rank(K, m)
               l == o[m]
    <2>2. i \in Of(o2, l) /\ q2[l][Rank(Of(o2, l), i)] = q[l][Rank(Of(o, l), m)]
      BY <1>3, <2>1
    <2>3. i \in DOMAIN o2 /\ o2[i] = l
      BY <2>2 DEF Of
    <2>4. M[i] = q2[l][Rank(Of(o2, l), i)]
      BY <1>5, <2>3, ListedEntries
    <2>5. L[m] = q[l][Rank(Of(o, l), m)]
      BY <2>1, ListedEntries
    <2> QED BY <2>2, <2>4, <2>5
  <1>9. M = Kept(L, D)
    <2>1. \A m \in DOMAIN L \ D : M[Rank(DOMAIN L \ D, m)] = L[m]
      BY <1>6, <1>8
    <2>2. Len(M) = Cardinality(DOMAIN L \ D)
      BY <1>6, <1>7
    <2>3. L \in Seq(Jobs) /\ M \in Seq(Jobs)
      BY <1>6
    <2> HIDE DEF L, M
    <2>4. Fills(L, DOMAIN L \ D, M)
      BY <2>1, <2>2 DEF Fills
    <2> QED BY <2>3, <2>4, KeptUnique
  <1> QED BY <1>5, <1>9

(* Sequences with the same entries are equal.                                *)
LEMMA SameEntries ==
  ASSUME NEW A, NEW t \in Seq(A), NEW u \in Seq(A), Len(t) = Len(u),
         \A i \in DOMAIN t : t[i] = u[i]
  PROVE  t = u
  <1>1. Len(t) \in Nat /\ DOMAIN t = 1..Len(t) /\ DOMAIN u = 1..Len(u)
    OBVIOUS
  <1>2. t = [i \in 1..Len(t) |-> t[i]] /\ u = [i \in 1..Len(u) |-> u[i]]
    OBVIOUS
  <1> QED BY <1>1, <1>2

(* The entries after an append.                                              *)
LEMMA BackEntries ==
  ASSUME NEW A, NEW x \in A, NEW s \in Seq(A)
  PROVE  /\ Append(s, x) \in Seq(A) /\ Len(Append(s, x)) = Len(s) + 1
         /\ Len(s) \in Nat /\ DOMAIN s = 1..Len(s) /\ DOMAIN Append(s, x) = 1..(Len(s) + 1)
         /\ \A k \in DOMAIN s : Append(s, x)[k] = s[k]
         /\ Append(s, x)[Len(s) + 1] = x
  OBVIOUS

(* The entries after a push at the front.                                    *)
LEMMA FrontEntries ==
  ASSUME NEW A, NEW x \in A, NEW s \in Seq(A)
  PROVE  /\ <<x>> \o s \in Seq(A) /\ Len(<<x>> \o s) = Len(s) + 1
         /\ Len(s) \in Nat /\ DOMAIN s = 1..Len(s) /\ DOMAIN (<<x>> \o s) = 1..(Len(s) + 1)
         /\ (<<x>> \o s)[1] = x
         /\ \A k \in DOMAIN s : (<<x>> \o s)[k + 1] = s[k]
  <1>1. <<x>> \in Seq(A) /\ Len(<<x>>) = 1 /\ <<x>>[1] = x
    OBVIOUS
  <1>2. Len(s) \in Nat /\ DOMAIN s = 1..Len(s)
    OBVIOUS
  <1> DEFINE t == <<x>> \o s
  <1>3. /\ t \in Seq(A) /\ Len(t) = 1 + Len(s)
        /\ \A m \in 1..1 : t[m] = <<x>>[m]
        /\ \A m \in (1 + 1)..(1 + Len(s)) : t[m] = s[m - 1]
    BY <1>1, Joined
  <1> HIDE DEF t
  <1>4. DOMAIN t = 1..(Len(s) + 1) /\ Len(t) = Len(s) + 1
    BY <1>2, <1>3
  <1>5. \A k \in DOMAIN s : k + 1 \in (1 + 1)..(1 + Len(s)) /\ (k + 1) - 1 = k
    BY <1>2
  <1>6. \A k \in DOMAIN s : t[k + 1] = s[k]
    BY <1>3, <1>5
  <1>7. t[1] = x
    BY <1>1, <1>3
  <1> QED BY <1>2, <1>3, <1>4, <1>6, <1>7 DEF t

(* The job is in no lane.                                                    *)
Absent(q, j) == \A l \in Lanes : \A k \in DOMAIN q[l] : q[l][k] # j

(* The lanes with the job behind, or before, the others of its lane.         *)
Behind(q, j) == [q EXCEPT ![Lane(j)] = Append(@, j)]

(* A job joins at the back. *)
LEMMA PushedBack ==
  ASSUME NEW o, NEW q, Pairing(o, q), NEW j \in Jobs, Lane(j) \in Lanes,
         Absent(q, j),
         NEW o2, o2 = Append(o, Lane(j)),
         NEW q2, q2 = Behind(q, j)
  PROVE  StandFor(o2, q2, Append(Listed(o, q), j))
  <1> DEFINE p == Lane(j)
             n == Len(o)
  <1>1. o \in Seq(Lanes) /\ p \in Lanes /\ q \in [Lanes -> Seq(Jobs)]
    BY DEF Pairing
  <1>2. /\ o2 \in Seq(Lanes) /\ Len(o2) = n + 1 /\ n \in Nat /\ DOMAIN o = 1..n
        /\ DOMAIN o2 = 1..(n + 1) /\ (\A k \in DOMAIN o : o2[k] = o[k]) /\ o2[n + 1] = p
    BY <1>1, BackEntries
  <1>3. /\ q2 \in [Lanes -> Seq(Jobs)] /\ q2[p] = Append(q[p], j)
        /\ \A l \in Lanes : l # p => q2[l] = q[l]
    BY <1>1 DEF Behind
  <1>4. /\ Len(q2[p]) = Len(q[p]) + 1 /\ Len(q[p]) \in Nat /\ DOMAIN q[p] = 1..Len(q[p])
        /\ DOMAIN q2[p] = 1..(Len(q[p]) + 1)
        /\ \A k \in DOMAIN q[p] : q2[p][k] = q[p][k]
        /\ q2[p][Len(q[p]) + 1] = j
    BY <1>1, <1>3, BackEntries
  <1> HIDE DEF p, n
  <1>5. \A i \in DOMAIN o : i \in DOMAIN o2 /\ i # n + 1 /\ i <= n /\ i \in Nat
    BY <1>2
  <1>6. \A l \in Lanes : l # p => Of(o2, l) = Of(o, l)
    BY <1>2, <1>5 DEF Of
  <1>7. Of(o2, p) = Of(o, p) \cup {n + 1} /\ n + 1 \notin Of(o, p)
    BY <1>2, <1>5 DEF Of
  <1>8. \A l \in Lanes : Counted(Of(o, l)) /\ Counted(Of(o2, l)) /\ Cardinality(Of(o, l)) = Len(q[l])
    BY <1>1, <1>2, OfCounted DEF Pairing
  <1>9. Cardinality(Of(o2, p)) = Len(q2[p])
    <2>1. IsFiniteSet(Of(o, p)) /\ Cardinality(Of(o, p)) = Len(q[p])
      BY <1>1, <1>8 DEF Counted
    <2>2. Cardinality(Of(o, p) \cup {n + 1}) = Cardinality(Of(o, p)) + 1
      BY <2>1, <1>7, FS_AddElement
    <2> QED BY <1>4, <1>7, <2>1, <2>2
  <1>10. \A l \in Lanes : Cardinality(Of(o2, l)) = Len(q2[l])
    BY <1>3, <1>6, <1>8, <1>9
  <1>11. \A l \in Lanes : \A k \in DOMAIN q2[l] : Lane(q2[l][k]) = l
    <2>1. ASSUME NEW k \in DOMAIN q2[p] PROVE Lane(q2[p][k]) = p
      <3>1. k \in DOMAIN q[p] \/ k = Len(q[p]) + 1
        BY <1>4
      <3>2. \A m \in DOMAIN q[p] : Lane(q[p][m]) = p
        BY <1>1 DEF Pairing
      <3> QED BY <1>4, <3>1, <3>2 DEF p
    <2> QED BY <1>3, <2>1 DEF Pairing
  <1>12. \A l \in Lanes : \A i, k \in DOMAIN q2[l] : q2[l][i] = q2[l][k] => i = k
    <2>1. ASSUME NEW i \in DOMAIN q2[p], NEW k \in DOMAIN q2[p], q2[p][i] = q2[p][k] PROVE i = k
      <3>1. (i \in DOMAIN q[p] \/ i = Len(q[p]) + 1) /\ (k \in DOMAIN q[p] \/ k = Len(q[p]) + 1)
        BY <1>4
      <3>2. \A a, b \in DOMAIN q[p] : q[p][a] # j /\ (q[p][a] = q[p][b] => a = b)
        BY <1>1 DEF Pairing, Absent
      <3> QED BY <1>4, <2>1, <3>1, <3>2
    <2>2. ASSUME NEW l \in Lanes, l # p
          PROVE  \A i, k \in DOMAIN q2[l] : q2[l][i] = q2[l][k] => i = k
      BY <1>3, <2>2 DEF Pairing
    <2> QED BY <2>1, <2>2
  <1>13. Pairing(o2, q2)
    BY <1>2, <1>3, <1>10, <1>11, <1>12 DEF Pairing
  <1> DEFINE L == Listed(o, q)
             M == Listed(o2, q2)
             N == Append(L, j)
  <1>14. /\ L \in Seq(Jobs) /\ DOMAIN L = DOMAIN o /\ Len(L) = n
         /\ M \in Seq(Jobs) /\ DOMAIN M = DOMAIN o2 /\ Len(M) = n + 1
    BY <1>2, <1>13, ListedTyped DEF n
  <1>15. N \in Seq(Jobs) /\ Len(N) = n + 1 /\ (\A i \in DOMAIN o : N[i] = L[i]) /\ N[n + 1] = j
    <2> HIDE DEF L
    <2> QED BY <1>14, BackEntries
  <1>16. ASSUME NEW i \in DOMAIN o PROVE M[i] = N[i]
    <2>1. i \in DOMAIN o2 /\ o2[i] = o[i] /\ o[i] \in Lanes /\ i \in Nat /\ i <= n /\ n \in Nat
      BY <1>2, <1>5, ListedEntries
    <2>2. Rank(Of(o2, o[i]), i) = Rank(Of(o, o[i]), i)
      <3>1. CASE o[i] # p
        BY <1>6, <2>1, <3>1
      <3>2. CASE o[i] = p
        <4>1. {m \in Of(o2, p) : m <= i} = {m \in Of(o, p) : m <= i}
          <5>1. ~(n + 1 <= i)
            BY <2>1
          <5> QED BY <1>7, <5>1
        <4> QED BY <3>2, <4>1 DEF Rank
      <3> QED BY <3>1, <3>2
    <2> DEFINE r == Rank(Of(o, o[i]), i)
    <2>3. r \in DOMAIN q[o[i]] /\ L[i] = q[o[i]][r]
      BY ListedEntries
    <2>4. M[i] = q2[o2[i]][Rank(Of(o2, o2[i]), i)]
      BY <2>1 DEF Listed
    <2>5. M[i] = q2[o[i]][r]
      <3> HIDE DEF M
      <3> QED BY <2>1, <2>2, <2>4
    <2> HIDE DEF r, L, M
    <2>6. q2[o[i]][r] = q[o[i]][r]
      BY <1>3, <1>4, <2>1, <2>3
    <2> QED BY <1>15, <2>3, <2>5, <2>6
  <1>17. M[n + 1] = j
    <2>1. n + 1 \in DOMAIN o2 /\ o2[n + 1] = p
      BY <1>2
    <2>2. {m \in Of(o2, p) : m <= n + 1} = Of(o2, p)
      BY <1>2 DEF Of
    <2>3. Rank(Of(o2, p), n + 1) = Len(q[p]) + 1
      BY <1>4, <1>9, <2>2 DEF Rank
    <2>4. M[n + 1] = q2[o2[n + 1]][Rank(Of(o2, o2[n + 1]), n + 1)]
      BY <2>1 DEF Listed
    <2>5. M[n + 1] = q2[p][Rank(Of(o2, p), n + 1)]
      <3> HIDE DEF M
      <3> QED BY <2>1, <2>4
    <2> QED BY <1>4, <2>3, <2>5
  <1>18. M = N
    <2> HIDE DEF M, N
    <2>1. \A i \in DOMAIN M : i \in DOMAIN o \/ i = n + 1
      BY <1>2, <1>14
    <2>2. \A i \in DOMAIN M : M[i] = N[i]
      BY <1>15, <1>16, <1>17, <2>1
    <2> QED BY <1>14, <1>15, <2>2, SameEntries
  <1> QED BY <1>13, <1>18 DEF StandFor

(* The ranks of a set shifted by one, without and with a new first member. *)
LEMMA RankShifted ==
  ASSUME NEW E, Counted(E), 0 \notin E
  PROVE  LET G == {m + 1 : m \in E} IN
         /\ Cardinality(G) = Cardinality(E) /\ Cardinality(G \cup {1}) = Cardinality(E) + 1
         /\ \A n \in E : Rank(G, n + 1) = Rank(E, n) /\ Rank(G \cup {1}, n + 1) = Rank(E, n) + 1
         /\ Rank(G \cup {1}, 1) = 1
  <1> DEFINE G == {m + 1 : m \in E}
             f == [m \in E |-> m + 1]
  <1>1. \A m \in E : m \in Nat /\ m >= 1
    BY DEF Counted
  <1>2. f \in [E -> Nat] /\ \A m, n \in E : m < n => f[m] < f[n]
    BY <1>1
  <1>3. G = {f[m] : m \in E}
    OBVIOUS
  <1>4. Counted(G) /\ Cardinality(G) = Cardinality(E) /\ \A n \in E : Rank(G, f[n]) = Rank(E, n)
    <2> HIDE DEF f, G
    <2> QED BY <1>2, <1>3, RankMapped
  <1>5. \A n \in E : Rank(G, n + 1) = Rank(E, n)
    BY <1>4
  <1>6. \A k \in G : k \in Nat /\ k >= 2
    BY <1>1
  <1> HIDE DEF G, f
  <1>7. 1 \notin G /\ IsFiniteSet(G)
    BY <1>4, <1>6 DEF Counted
  <1>8. Cardinality(G \cup {1}) = Cardinality(G) + 1
    BY <1>7, FS_AddElement
  <1>9. ASSUME NEW n \in E PROVE Rank(G \cup {1}, n + 1) = Rank(E, n) + 1
    <2> DEFINE H == {k \in G : k <= n + 1}
    <2>1. {k \in G \cup {1} : k <= n + 1} = H \cup {1}
      BY <1>1
    <2>2. IsFiniteSet(H) /\ 1 \notin H
      BY <1>7, FS_Subset
    <2>3. Cardinality(H \cup {1}) = Cardinality(H) + 1
      <3> HIDE DEF H
      <3> QED BY <2>2, FS_AddElement
    <2>4. Cardinality(H) = Rank(E, n)
      BY <1>5 DEF Rank
    <2> QED BY <2>1, <2>3, <2>4 DEF Rank
  <1>10. Rank(G \cup {1}, 1) = 1
    <2>1. {k \in G \cup {1} : k <= 1} = {1}
      BY <1>6
    <2> QED BY <2>1, FS_Singleton DEF Rank
  <1> QED BY <1>4, <1>5, <1>8, <1>9, <1>10 DEF G

Before(q, j) == [q EXCEPT ![Lane(j)] = <<j>> \o @]

(* A job comes back to the front. *)
LEMMA PushedFront ==
  ASSUME NEW o, NEW q, Pairing(o, q), NEW j \in Jobs, Lane(j) \in Lanes,
         Absent(q, j),
         NEW o2, o2 = <<Lane(j)>> \o o,
         NEW q2, q2 = Before(q, j)
  PROVE  StandFor(o2, q2, <<j>> \o Listed(o, q))
  <1> DEFINE p == Lane(j)
             n == Len(o)
             G(l) == {m + 1 : m \in Of(o, l)}
  <1>1. o \in Seq(Lanes) /\ p \in Lanes /\ q \in [Lanes -> Seq(Jobs)]
    BY DEF Pairing
  <1>2. /\ o2 \in Seq(Lanes) /\ Len(o2) = n + 1 /\ n \in Nat /\ DOMAIN o = 1..n
        /\ DOMAIN o2 = 1..(n + 1) /\ o2[1] = p /\ \A k \in DOMAIN o : o2[k + 1] = o[k]
    BY <1>1, FrontEntries
  <1>3. /\ q2 \in [Lanes -> Seq(Jobs)] /\ q2[p] = <<j>> \o q[p]
        /\ \A l \in Lanes : l # p => q2[l] = q[l]
    BY <1>1 DEF Before
  <1>4. /\ Len(q2[p]) = Len(q[p]) + 1 /\ Len(q[p]) \in Nat /\ DOMAIN q[p] = 1..Len(q[p])
        /\ DOMAIN q2[p] = 1..(Len(q[p]) + 1) /\ q2[p][1] = j
        /\ \A k \in DOMAIN q[p] : q2[p][k + 1] = q[p][k]
    BY <1>1, <1>3, FrontEntries
  <1> HIDE DEF p, n
  <1>5. \A i \in DOMAIN o : i + 1 \in DOMAIN o2 /\ i + 1 # 1 /\ i \in Nat /\ i # 0
    BY <1>2
  <1>6. 1 \in DOMAIN o2 /\ \A i \in DOMAIN o2 : i # 1 => i - 1 \in DOMAIN o /\ (i - 1) + 1 = i
    BY <1>2
  <1>7. \A i \in DOMAIN o2 : i # 1 => \E m \in DOMAIN o : i = m + 1
    BY <1>6
  <1>8. \A l \in Lanes : l # p => Of(o2, l) = G(l)
    <2> SUFFICES ASSUME NEW l \in Lanes, l # p PROVE Of(o2, l) = G(l)
      OBVIOUS
    <2>1. \A i \in Of(o2, l) : i \in G(l)
      BY <1>2, <1>7 DEF Of
    <2>2. \A i \in G(l) : i \in Of(o2, l)
      BY <1>2, <1>5 DEF Of
    <2> QED BY <2>1, <2>2
  <1>9. Of(o2, p) = G(p) \cup {1}
    <2>1. \A i \in Of(o2, p) : i \in G(p) \cup {1}
      BY <1>2, <1>7 DEF Of
    <2>2. \A i \in G(p) : i \in Of(o2, p)
      BY <1>2, <1>5 DEF Of
    <2>3. 1 \in Of(o2, p)
      BY <1>2, <1>6 DEF Of
    <2> QED BY <2>1, <2>2, <2>3
  <1>10. \A l \in Lanes : Counted(Of(o, l)) /\ 0 \notin Of(o, l) /\ Cardinality(Of(o, l)) = Len(q[l])
    <2>1. \A l \in Lanes : 0 \notin Of(o, l)
      BY <1>5 DEF Of
    <2>2. \A l \in Lanes : Counted(Of(o, l))
      BY <1>1, OfCounted
    <2> QED BY <2>1, <2>2 DEF Pairing
  <1>11. \A l \in Lanes :
          /\ Cardinality(G(l)) = Len(q[l]) /\ Cardinality(G(l) \cup {1}) = Len(q[l]) + 1
          /\ \A m \in Of(o, l) : /\ Rank(G(l), m + 1) = Rank(Of(o, l), m)
                                 /\ Rank(G(l) \cup {1}, m + 1) = Rank(Of(o, l), m) + 1
          /\ Rank(G(l) \cup {1}, 1) = 1
    <2> SUFFICES ASSUME NEW l \in Lanes
                 PROVE  /\ Cardinality(G(l)) = Len(q[l]) /\ Cardinality(G(l) \cup {1}) = Len(q[l]) + 1
                        /\ \A m \in Of(o, l) : /\ Rank(G(l), m + 1) = Rank(Of(o, l), m)
                                               /\ Rank(G(l) \cup {1}, m + 1) = Rank(Of(o, l), m) + 1
                        /\ Rank(G(l) \cup {1}, 1) = 1
      OBVIOUS
    <2> DEFINE E == Of(o, l)
    <2>1. Counted(E) /\ 0 \notin E /\ Cardinality(E) = Len(q[l])
      BY <1>10
    <2> HIDE DEF E
    <2>2. LET H == {m + 1 : m \in E} IN
         /\ Cardinality(H) = Cardinality(E) /\ Cardinality(H \cup {1}) = Cardinality(E) + 1
         /\ \A m \in E : Rank(H, m + 1) = Rank(E, m) /\ Rank(H \cup {1}, m + 1) = Rank(E, m) + 1
         /\ Rank(H \cup {1}, 1) = 1
      BY <2>1, RankShifted
    <2> QED BY <2>1, <2>2 DEF E
  <1> HIDE DEF G
  <1>12. \A l \in Lanes : Cardinality(Of(o2, l)) = Len(q2[l])
    BY <1>3, <1>4, <1>8, <1>9, <1>11
  <1>13. \A k \in DOMAIN q2[p] : k = 1 \/ \E m \in DOMAIN q[p] : k = m + 1
    <2>1. \A k \in DOMAIN q2[p] : k # 1 => k - 1 \in DOMAIN q[p] /\ (k - 1) + 1 = k
      BY <1>4
    <2> QED BY <2>1
  <1>14. \A l \in Lanes : \A k \in DOMAIN q2[l] : Lane(q2[l][k]) = l
    <2>1. ASSUME NEW k \in DOMAIN q2[p] PROVE Lane(q2[p][k]) = p
      <3>1. \A m \in DOMAIN q[p] : Lane(q[p][m]) = p
        BY <1>1 DEF Pairing
      <3> QED BY <1>4, <1>13, <3>1 DEF p
    <2> QED BY <1>3, <2>1 DEF Pairing
  <1>15. \A l \in Lanes : \A i, k \in DOMAIN q2[l] : q2[l][i] = q2[l][k] => i = k
    <2>1. ASSUME NEW i \in DOMAIN q2[p], NEW k \in DOMAIN q2[p], q2[p][i] = q2[p][k] PROVE i = k
      <3>1. \A a, b \in DOMAIN q[p] : q[p][a] # j /\ (q[p][a] = q[p][b] => a = b)
        BY <1>1 DEF Pairing, Absent
      <3>2. ASSUME NEW a \in DOMAIN q[p], NEW b \in DOMAIN q[p],
                   q2[p][a + 1] = q2[p][b + 1]
            PROVE  a = b
        <4>1. q2[p][a + 1] = q[p][a] /\ q2[p][b + 1] = q[p][b]
          BY <1>4
        <4>2. q[p][a] = q[p][b]
          BY <3>2, <4>1
        <4> QED BY <3>1, <4>2
      <3>3. \A a \in DOMAIN q[p] : q2[p][a + 1] # j
        BY <1>4, <3>1
      <3>4. q2[p][1] = j
        BY <1>4
      <3>5. CASE i = 1
        BY <1>13, <2>1, <3>3, <3>4, <3>5
      <3>6. CASE k = 1
        BY <1>13, <2>1, <3>3, <3>4, <3>6
      <3>7. CASE i # 1 /\ k # 1
        <4>1. PICK a \in DOMAIN q[p] : i = a + 1
          BY <1>13, <3>7
        <4>2. PICK b \in DOMAIN q[p] : k = b + 1
          BY <1>13, <3>7
        <4> QED BY <2>1, <3>2, <4>1, <4>2
      <3> QED BY <3>5, <3>6, <3>7
    <2>2. ASSUME NEW l \in Lanes, l # p
          PROVE  \A i, k \in DOMAIN q2[l] : q2[l][i] = q2[l][k] => i = k
      BY <1>3, <2>2 DEF Pairing
    <2> QED BY <2>1, <2>2
  <1>16. Pairing(o2, q2)
    BY <1>2, <1>3, <1>12, <1>14, <1>15 DEF Pairing
  <1> DEFINE L == Listed(o, q)
             M == Listed(o2, q2)
             N == <<j>> \o L
  <1>17. /\ L \in Seq(Jobs) /\ DOMAIN L = DOMAIN o /\ Len(L) = n
         /\ M \in Seq(Jobs) /\ DOMAIN M = DOMAIN o2 /\ Len(M) = n + 1
    BY <1>2, <1>16, ListedTyped DEF n
  <1>18. N \in Seq(Jobs) /\ Len(N) = n + 1 /\ N[1] = j /\ \A i \in DOMAIN o : N[i + 1] = L[i]
    <2> HIDE DEF L
    <2> QED BY <1>17, FrontEntries
  <1>19. ASSUME NEW i \in DOMAIN o PROVE M[i + 1] = N[i + 1]
    <2>1. i + 1 \in DOMAIN o2 /\ o2[i + 1] = o[i] /\ o[i] \in Lanes /\ i \in Of(o, o[i])
      BY <1>2, <1>5, ListedEntries
    <2> DEFINE r == Rank(Of(o, o[i]), i)
    <2>2. r \in DOMAIN q[o[i]] /\ L[i] = q[o[i]][r]
      BY ListedEntries
    <2>3. M[i + 1] = q2[o2[i + 1]][Rank(Of(o2, o2[i + 1]), i + 1)]
      BY <2>1 DEF Listed
    <2> HIDE DEF L, M
    <2>4. q2[o[i]][Rank(Of(o2, o[i]), i + 1)] = q[o[i]][r]
      <3>1. CASE o[i] # p
        <4>1. Of(o2, o[i]) = G(o[i]) /\ q2[o[i]] = q[o[i]]
          BY <1>3, <1>8, <2>1, <3>1
        <4>2. Rank(Of(o2, o[i]), i + 1) = r
          BY <1>11, <2>1, <4>1
        <4> QED BY <4>1, <4>2
      <3>2. CASE o[i] = p
        <4>1. Of(o2, o[i]) = G(o[i]) \cup {1}
          BY <1>9, <3>2
        <4>2. Rank(Of(o2, o[i]), i + 1) = r + 1
          BY <1>11, <2>1, <4>1
        <4>3. q2[p][r + 1] = q[p][r]
          <5> HIDE DEF r
          <5> QED BY <1>4, <2>2, <3>2
        <4> QED BY <3>2, <4>2, <4>3
      <3> QED BY <3>1, <3>2
    <2>5. M[i + 1] = q[o[i]][r]
      <3> HIDE DEF r
      <3> QED BY <2>1, <2>3, <2>4
    <2> QED BY <1>18, <2>2, <2>5
  <1>20. M[1] = j
    <2>1. 1 \in DOMAIN o2 /\ o2[1] = p
      BY <1>2
    <2>2. Rank(Of(o2, p), 1) = 1
      BY <1>1, <1>9, <1>11
    <2>3. M[1] = q2[o2[1]][Rank(Of(o2, o2[1]), 1)]
      BY <2>1 DEF Listed
    <2> HIDE DEF M
    <2> QED BY <1>4, <2>1, <2>2, <2>3
  <1>21. M = N
    <2> HIDE DEF M, N
    <2>1. ASSUME NEW i \in DOMAIN M PROVE M[i] = N[i]
      <3>1. i \in DOMAIN o2
        BY <1>17
      <3>2. CASE i = 1
        BY <1>18, <1>20, <3>2
      <3>3. CASE i # 1
        <4>1. PICK m \in DOMAIN o : i = m + 1
          BY <1>7, <3>1, <3>3
        <4> QED BY <1>19, <4>1
      <3> QED BY <3>2, <3>3
    <2>2. M \in Seq(Jobs) /\ N \in Seq(Jobs) /\ Len(M) = Len(N)
      BY <1>17, <1>18
    <2> QED BY <2>1, <2>2, SameEntries
  <1> QED BY <1>16, <1>21 DEF StandFor

-----------------------------------------------------------------------------
(* The operations.                                                           *)

(* The inductive invariant: types, the pairing, every job in the deque of its lane, *)
(* and no job twice.                                                                *)
QueuesInv == Pairing(order, queue)

(* In a paired state Merged never takes its ELSE.                            *)
LEMMA MergedIsListed ==
  ASSUME NEW o, NEW q, Pairing(o, q)
  PROVE  [i \in DOMAIN o |-> IF Rank(Of(o, o[i]), i) <= Len(q[o[i]])
                             THEN q[o[i]][Rank(Of(o, o[i]), i)] ELSE "nobody"] = Listed(o, q)
  <1>1. ASSUME NEW i \in DOMAIN o PROVE Rank(Of(o, o[i]), i) <= Len(q[o[i]])
    <2> DEFINE r == Rank(Of(o, o[i]), i)
    <2>1. r \in DOMAIN q[o[i]] /\ o[i] \in Lanes
      BY ListedEntries
    <2>2. q[o[i]] \in Seq(Jobs)
      BY <2>1 DEF Pairing
    <2> HIDE DEF r
    <2>3. r <= Len(q[o[i]])
      BY <2>1, <2>2
    <2> QED BY <2>3 DEF r
  <1> QED BY <1>1 DEF Listed

(* Entries is Of for the line of the state.                                  *)
LEMMA EntriesOf ==
  ASSUME NEW l
  PROVE  Entries(l) = Of(order, l)
  BY DEF Entries, Of

(* So Merged is the list,                                                    *)
LEMMA MergedNow ==
  ASSUME QueuesInv
  PROVE  Merged = Listed(order, queue)
  <1>1. Merged = [i \in DOMAIN order |-> IF Rank(Of(order, order[i]), i) <= Len(queue[order[i]])
                             THEN queue[order[i]][Rank(Of(order, order[i]), i)] ELSE "nobody"]
    BY DEF Merged, Occurrence, Entries, At, Of
  <1> QED BY <1>1, MergedIsListed DEF QueuesInv

(* before a step and after it.                                               *)
LEMMA MergedNext ==
  ASSUME Pairing(order', queue')
  PROVE  Merged' = Listed(order', queue')
  <1>1. Merged' = [i \in DOMAIN order' |-> IF Rank(Of(order', order'[i]), i) <= Len(queue'[order'[i]])
                             THEN queue'[order'[i]][Rank(Of(order', order'[i]), i)] ELSE "nobody"]
    BY DEF Merged, Occurrence, Entries, At, Of
  <1> DEFINE o == order'
             q == queue'
  <1>2. Pairing(o, q)
    OBVIOUS
  <1>3. [i \in DOMAIN o |-> IF Rank(Of(o, o[i]), i) <= Len(q[o[i]])
                             THEN q[o[i]][Rank(Of(o, o[i]), i)] ELSE "nobody"] = Listed(o, q)
    <2> HIDE DEF o, q
    <2> QED BY <1>2, MergedIsListed
  <1> QED BY <1>1, <1>3

(* What a step that only takes jobs does. *)
LEMMA DropStep ==
  ASSUME QueuesInv, NEW D, order' = Kept(order, D), queue' \in [Lanes -> Seq(Jobs)],
         \A l \in Lanes : queue'[l] = Kept(queue[l], Ranks(order, l, D))
  PROVE  QueuesInv' /\ Merged' = Kept(Merged, D)
  <1>1. Pairing(order', queue') /\ Listed(order', queue') = Kept(Listed(order, queue), D)
    <2> DEFINE o2 == order'
               q2 == queue'
    <2>1. o2 = Kept(order, D) /\ q2 \in [Lanes -> Seq(Jobs)] /\ Pairing(order, queue)
      BY DEF QueuesInv
    <2>2. \A l \in Lanes : q2[l] = Kept(queue[l], Ranks(order, l, D))
      OBVIOUS
    <2> HIDE DEF o2, q2
    <2>3. Pairing(o2, q2) /\ Listed(o2, q2) = Kept(Listed(order, queue), D)
      BY <2>1, <2>2, Dropped
    <2> QED BY <2>3 DEF o2, q2
  <1> QED BY <1>1, MergedNow, MergedNext DEF QueuesInv

(* The entry of the k-th job of a lane. *)
LEMMA PlaceFound ==
  ASSUME QueuesInv, NEW l \in Lanes, NEW k \in DOMAIN queue[l]
  PROVE  /\ PlaceOf(l, k) \in DOMAIN order /\ order[PlaceOf(l, k)] = l
         /\ Rank(Of(order, l), PlaceOf(l, k)) = k
         /\ Merged[PlaceOf(l, k)] = queue[l][k]
  <1> DEFINE i == PlaceOf(l, k)
  <1>1. \E m \in DOMAIN order : order[m] = l /\ Rank(Of(order, l), m) = k
    BY ListedAll DEF QueuesInv
  <1>2. \E m \in DOMAIN order : order[m] = l /\ Occurrence(m) = k
    BY <1>1 DEF Occurrence, Entries, Of
  <1>3. i \in DOMAIN order /\ order[i] = l /\ Occurrence(i) = k
    BY <1>2 DEF PlaceOf
  <1> HIDE DEF i
  <1>4. Rank(Of(order, l), i) = k
    BY <1>3 DEF Occurrence, Entries, Of
  <1>5. Listed(order, queue)[i] = queue[l][k]
    BY <1>3, <1>4 DEF Listed
  <1> QED BY <1>3, <1>4, <1>5, MergedNow DEF i

(* One job leaves, and its own entry with it. *)
LEMMA RemoveStep ==
  ASSUME QueuesInv, NEW l \in Lanes, NEW k \in DOMAIN queue[l], RemoveNth(l, k)
  PROVE  QueuesInv' /\ Merged' = RemoveAt(Merged, PlaceOf(l, k))
  <1> DEFINE p == PlaceOf(l, k)
  <1>1. p \in DOMAIN order /\ order[p] = l /\ Rank(Of(order, l), p) = k
    BY PlaceFound
  <1>2. order \in Seq(Lanes) /\ queue \in [Lanes -> Seq(Jobs)]
    BY DEF QueuesInv, Pairing
  <1>3. order' = RemoveAt(order, p) /\ queue' = [queue EXCEPT ![l] = RemoveAt(queue[l], k)]
    BY DEF RemoveNth
  <1> HIDE DEF p
  <1>4. order' = Kept(order, {p})
    BY <1>1, <1>2, <1>3, KeptAllButOne
  <1>5. queue[l] \in Seq(Jobs)
    BY <1>2
  <1>6. RemoveAt(queue[l], k) = Kept(queue[l], {k}) /\ RemoveAt(queue[l], k) \in Seq(Jobs)
    BY <1>5, KeptAllButOne, RemoveAtEntries
  <1>7. queue' \in [Lanes -> Seq(Jobs)]
    BY <1>2, <1>3, <1>6
  <1>8. ASSUME NEW x \in Lanes PROVE queue'[x] = Kept(queue[x], Ranks(order, x, {p}))
    <2>1. CASE x = l
      <3>1. Ranks(order, l, {p}) = {k}
        <4>1. {p} \cap Of(order, l) = {p}
          BY <1>1 DEF Of
        <4> QED BY <1>1, <4>1 DEF Ranks
      <3>2. queue'[l] = RemoveAt(queue[l], k)
        BY <1>2, <1>3
      <3> QED BY <1>6, <2>1, <3>1, <3>2
    <2>2. CASE x # l
      <3>1. Ranks(order, x, {p}) = {}
        <4>1. {p} \cap Of(order, x) = {}
          BY <1>1, <2>2 DEF Of
        <4> QED BY <4>1 DEF Ranks
      <3>2. queue'[x] = queue[x] /\ queue[x] \in Seq(Jobs)
        BY <1>2, <1>3, <2>2
      <3> QED BY <3>1, <3>2, KeptNone
    <2> QED BY <2>1, <2>2
  <1>9. QueuesInv' /\ Merged' = Kept(Merged, {p})
    BY <1>4, <1>7, <1>8, DropStep
  <1>10. Merged \in Seq(Jobs) /\ p \in DOMAIN Merged
    BY <1>1, MergedNow, ListedTyped DEF QueuesInv
  <1>11. RemoveAt(Merged, p) = Kept(Merged, {p})
    BY <1>10, KeptAllButOne
  <1> QED BY <1>9, <1>11 DEF p

(* What the proofs about the operations need to know of Merged: each entry   *)
(* lists a job of its lane, and no job is listed twice.                      *)
LEMMA MergedFacts ==
  ASSUME QueuesInv
  PROVE  /\ Merged \in Seq(Jobs) /\ DOMAIN Merged = DOMAIN order
         /\ order \in Seq(Lanes) /\ queue \in [Lanes -> Seq(Jobs)]
         /\ \A i \in DOMAIN order :
              /\ i \in Nat /\ i >= 1
              /\ order[i] \in Lanes /\ i \in Of(order, order[i])
              /\ Merged[i] \in Jobs /\ Lane(Merged[i]) = order[i]
              /\ Rank(Of(order, order[i]), i) \in DOMAIN queue[order[i]]
              /\ Merged[i] = queue[order[i]][Rank(Of(order, order[i]), i)]
         /\ \A i, k \in DOMAIN order : Merged[i] = Merged[k] => i = k
  <1>1. Merged \in Seq(Jobs) /\ DOMAIN Merged = DOMAIN order
    BY MergedNow, ListedTyped DEF QueuesInv
  <1>2. order \in Seq(Lanes) /\ queue \in [Lanes -> Seq(Jobs)]
    BY DEF QueuesInv, Pairing
  <1>3. \A i \in DOMAIN order : i \in Nat /\ i >= 1
    BY <1>2
  <1>4. \A i \in DOMAIN order :
              /\ order[i] \in Lanes /\ i \in Of(order, order[i])
              /\ Merged[i] \in Jobs /\ Lane(Merged[i]) = order[i]
              /\ Rank(Of(order, order[i]), i) \in DOMAIN queue[order[i]]
              /\ Merged[i] = queue[order[i]][Rank(Of(order, order[i]), i)]
    BY MergedNow, ListedEntries DEF QueuesInv
  <1>5. \A i, k \in DOMAIN order : Merged[i] = Merged[k] => i = k
    BY MergedNow, ListedOnce DEF QueuesInv
  <1> QED BY <1>1, <1>2, <1>3, <1>4, <1>5

(* Within a lane, the entries come in the order of the jobs. *)
LEMMA LaneOrder ==
  ASSUME QueuesInv, NEW i \in DOMAIN order, NEW m \in DOMAIN order, order[i] = order[m],
         Rank(Of(order, order[i]), i) <= Rank(Of(order, order[i]), m)
  PROVE  i <= m
  <1> DEFINE E == Of(order, order[i])
  <1>1. i \in E /\ m \in E /\ i \in Nat /\ m \in Nat
    BY MergedFacts DEF Of
  <1>2. Counted(E)
    BY MergedFacts, OfCounted
  <1>3. Rank(E, i) <= Rank(E, m)
    OBVIOUS
  <1> HIDE DEF E
  <1>4. Rank(E, i) \in Nat /\ Rank(E, m) \in Nat
    BY <1>1, <1>2, RankTyped
  <1>5. m < i => Rank(E, m) < Rank(E, i)
    BY <1>1, <1>2, RankGrows
  <1> QED BY <1>1, <1>3, <1>4, <1>5

(* Taking the k-th job of a lane takes the oldest of S. *)
LEMMA TakeStep ==
  ASSUME QueuesInv, NEW l \in Lanes, NEW k \in DOMAIN queue[l], RemoveNth(l, k), NEW S,
         queue[l][k] \in S,
         \A m \in DOMAIN order : Merged[m] \in S => PlaceOf(l, k) <= m
  PROVE  Arrival!TakeFrom(S)
  <1> DEFINE p == PlaceOf(l, k)
  <1>1. p \in DOMAIN order /\ Merged[p] = queue[l][k]
    BY PlaceFound
  <1>2. Merged' = RemoveAt(Merged, p)
    BY RemoveStep
  <1>3. DOMAIN Merged = DOMAIN order
    BY MergedFacts
  <1> HIDE DEF p
  <1>4. p \in Arrival!Fits(S)
    BY <1>1, <1>3 DEF Arrival!Fits
  <1>5. \A m \in Arrival!Fits(S) : p <= m
    BY <1>3 DEF Arrival!Fits, p
  <1>6. Merged' = Arrival!RemoveAt(Merged, p)
    BY <1>2 DEF RemoveAt, Arrival!RemoveAt
  <1> QED BY <1>4, <1>5, <1>6 DEF Arrival!TakeFrom

(* The first job of a lane is the oldest of its lane. *)
LEMMA FirstOfLane ==
  ASSUME QueuesInv, NEW l \in Lanes, queue[l] # <<>>
  PROVE  /\ 1 \in DOMAIN queue[l] /\ PlaceOf(l, 1) \in DOMAIN order /\ order[PlaceOf(l, 1)] = l
         /\ \A m \in DOMAIN order : order[m] = l => PlaceOf(l, 1) <= m
  <1>1. queue[l] \in Seq(Jobs)
    BY MergedFacts
  <1>2. 1 \in DOMAIN queue[l] /\ DOMAIN queue[l] = 1..Len(queue[l]) /\ Len(queue[l]) \in Nat
    BY <1>1
  <1> DEFINE p == PlaceOf(l, 1)
  <1>3. p \in DOMAIN order /\ order[p] = l /\ Rank(Of(order, l), p) = 1
    BY <1>2, PlaceFound
  <1> HIDE DEF p
  <1>4. ASSUME NEW m \in DOMAIN order, order[m] = l PROVE p <= m
    <2>1. Rank(Of(order, l), m) \in DOMAIN queue[l]
      BY <1>4, MergedFacts
    <2>2. 1 <= Rank(Of(order, l), m)
      BY <1>2, <2>1
    <2> QED BY <1>3, <1>4, <2>2, LaneOrder
  <1> QED BY <1>2, <1>3, <1>4 DEF p

(* Popping the front of a lane preserves the invariant.                      *)
LEMMA PopInv ==
  ASSUME QueuesInv, NEW l \in Lanes, pop_front_job(l)
  PROVE  QueuesInv'
  <1>1. queue[l] # <<>> /\ RemoveNth(l, 1)
    BY DEF pop_front_job
  <1> QED BY <1>1, FirstOfLane, RemoveStep

(* What is listed in a lane. *)
LEMMA ListedInLane ==
  ASSUME QueuesInv, NEW l, NEW m \in DOMAIN order
  PROVE  Merged[m] \in Arrival!InLane(l) <=> order[m] = l
  BY MergedFacts DEF Arrival!InLane

(* pop_front_job takes the oldest job of the lane.                           *)
LEMMA PopTakesInLane ==
  ASSUME QueuesInv, NEW l \in Lanes, pop_front_job(l)
  PROVE  Arrival!TakeInLane(l) /\ \E j \in Jobs : Lane(j) = l
  <1>1. queue[l] # <<>> /\ RemoveNth(l, 1)
    BY DEF pop_front_job
  <1>2. 1 \in DOMAIN queue[l] /\ \A m \in DOMAIN order : order[m] = l => PlaceOf(l, 1) <= m
    BY <1>1, FirstOfLane
  <1>3. /\ PlaceOf(l, 1) \in DOMAIN order /\ order[PlaceOf(l, 1)] = l
        /\ Merged[PlaceOf(l, 1)] = queue[l][1]
    BY <1>2, PlaceFound
  <1>4. queue[l][1] \in Arrival!InLane(l)
    BY <1>3, ListedInLane
  <1>5. \A m \in DOMAIN order : Merged[m] \in Arrival!InLane(l) => PlaceOf(l, 1) <= m
    BY <1>2, ListedInLane
  <1>6. Arrival!TakeFrom(Arrival!InLane(l))
    BY <1>1, <1>2, <1>4, <1>5, TakeStep
  <1> QED BY <1>4, <1>6 DEF Arrival!TakeInLane, Arrival!InLane

(* The lanes that operations name.                                           *)
LEMMA LanesAre ==
  /\ "PureRead" \in Lanes /\ "Mutating" \in Lanes /\ "ProviderMetadata" \in Lanes
  /\ "CallLedger" \in Lanes
  BY DEF Lanes

(* Maintenance is admitted in strict arrival order.                          *)
LEMMA FrontTakesOldest ==
  ASSUME QueuesInv, PopFrontLane
  PROVE  Arrival!TakeOldest /\ QueuesInv'
  <1> DEFINE l == order[1]
  <1>1. order # <<>> /\ pop_front_job(l)
    BY DEF PopFrontLane
  <1>2. 1 \in DOMAIN order
    BY <1>1, MergedFacts
  <1>3. l \in Lanes
    BY <1>2, MergedFacts
  <1>4. queue[l] # <<>> /\ RemoveNth(l, 1)
    BY <1>1 DEF pop_front_job
  <1>5. 1 \in DOMAIN queue[l] /\ PlaceOf(l, 1) \in DOMAIN order /\ PlaceOf(l, 1) <= 1
    BY <1>2, <1>3, <1>4, FirstOfLane
  <1>6. \A m \in DOMAIN order : PlaceOf(l, 1) <= m
    BY <1>5, MergedFacts
  <1>7. queue[l][1] \in Jobs
    BY <1>3, <1>5, MergedFacts
  <1>8. Arrival!TakeFrom(Jobs)
    <2> HIDE DEF l
    <2> QED BY <1>3, <1>4, <1>5, <1>6, <1>7, TakeStep
  <1>9. QueuesInv'
    <2> HIDE DEF l
    <2> QED BY <1>1, <1>3, PopInv
  <1> QED BY <1>8, <1>9 DEF Arrival!TakeOldest

(* next_interactive_lane past the reads takes the oldest job that is neither a*)
(* provider's nor the ledger's.                                              *)
LEMMA InteractiveTakesOldest ==
  ASSUME QueuesInv, PopInteractive
  PROVE  Arrival!TakeOther /\ QueuesInv'
  <1>1. queue["PureRead"] = <<>>
    BY DEF PopInteractive
  <1>2. PICK i \in DOMAIN order : /\ order[i] \notin Skipped
                                  /\ \A k \in 1..(i - 1) : order[k] \in Skipped
                                  /\ pop_front_job(order[i])
    BY DEF PopInteractive
  <1> DEFINE l == order[i]
             S == Jobs \ (Arrival!InLane("ProviderMetadata") \cup Arrival!InLane("CallLedger"))
  <1>3. l \in Lanes /\ queue[l] # <<>> /\ RemoveNth(l, 1) /\ l \notin Skipped
    BY <1>2, MergedFacts DEF pop_front_job
  <1>4. \A m \in DOMAIN order : order[m] # "PureRead"
    BY <1>1, MergedFacts
  <1>5. \A m \in DOMAIN order : order[m] \notin Skipped => i <= m
    BY <1>2, MergedFacts
  <1>6. \A m \in DOMAIN order : Merged[m] \in S => order[m] \notin Skipped
    BY <1>4, ListedInLane DEF Skipped
  <1>7. 1 \in DOMAIN queue[l] /\ PlaceOf(l, 1) \in DOMAIN order /\ PlaceOf(l, 1) <= i
    <2> HIDE DEF l
    <2>1. order[i] = l
      BY DEF l
    <2> QED BY <1>3, <2>1, FirstOfLane
  <1>8. Merged[PlaceOf(l, 1)] = queue[l][1] /\ order[PlaceOf(l, 1)] = l
    <2> HIDE DEF l
    <2> QED BY <1>3, <1>7, PlaceFound
  <1>9. queue[l][1] \in S
    <2>1. l # "ProviderMetadata" /\ l # "CallLedger"
      BY <1>3 DEF Skipped
    <2>2. queue[l][1] \in Jobs
      BY <1>7, <1>8, MergedFacts
    <2> HIDE DEF l
    <2> QED BY <1>7, <1>8, <2>1, <2>2, ListedInLane
  <1>10. \A m \in DOMAIN order : Merged[m] \in S => PlaceOf(l, 1) <= m
    <2> HIDE DEF S, l
    <2>1. \A m \in DOMAIN order : Merged[m] \in S => i <= m
      BY <1>5, <1>6
    <2> QED BY <1>7, <2>1, MergedFacts
  <1>11. Arrival!TakeFrom(S)
    <2> HIDE DEF l, S
    <2> QED BY <1>3, <1>7, <1>9, <1>10, TakeStep
  <1>12. Arrival!Fits(Arrival!InLane("PureRead")) = {}
    BY <1>4, ListedInLane, MergedFacts DEF Arrival!Fits
  <1>13. QueuesInv'
    <2> HIDE DEF l
    <2>1. pop_front_job(l)
      BY <1>2 DEF l
    <2> QED BY <1>3, <2>1, PopInv
  <1> QED BY <1>11, <1>12, <1>13 DEF Arrival!TakeOther

(* remove_first_bind_job takes the oldest bind, since binds are all in one lane.*)
LEMMA BindTakesOldest ==
  ASSUME QueuesInv, remove_first_bind_job
  PROVE  Arrival!TakeBind /\ QueuesInv'
  <1> DEFINE q == queue["Mutating"]
             S == {j \in Jobs : IsBindJob(j)}
  <1>1. PICK k \in DOMAIN q : /\ Info[q[k]].bind
                              /\ \A i \in 1..(k - 1) : ~Info[q[i]].bind
                              /\ RemoveNth("Mutating", k)
    BY DEF remove_first_bind_job
  <1>2. q \in Seq(Jobs)
    BY MergedFacts, LanesAre
  <1>3. /\ PlaceOf("Mutating", k) \in DOMAIN order /\ order[PlaceOf("Mutating", k)] = "Mutating"
        /\ Rank(Of(order, "Mutating"), PlaceOf("Mutating", k)) = k
    BY LanesAre, PlaceFound
  <1>4. q[k] \in S
    BY <1>1, <1>2 DEF IsBindJob
  <1>5. ASSUME NEW m \in DOMAIN order, Merged[m] \in S PROVE PlaceOf("Mutating", k) <= m
    <2> DEFINE r == Rank(Of(order, "Mutating"), m)
    <2>1. Merged[m] \in Jobs /\ Info[Merged[m]].bind
      BY <1>5 DEF IsBindJob
    <2>2. order[m] = "Mutating"
      BY <2>1, MergedFacts, ClassQueuesAssumption DEF Lane
    <2>3. r \in DOMAIN q /\ Merged[m] = q[r]
      BY <2>2, MergedFacts
    <2> HIDE DEF r
    <2>4. k <= r
      BY <1>1, <1>2, <2>1, <2>3
    <2> QED BY <1>3, <2>2, <2>4, LaneOrder DEF r
  <1>6. Arrival!TakeFrom(S) /\ QueuesInv'
    <2> HIDE DEF S
    <2> QED BY <1>1, <1>4, <1>5, LanesAre, TakeStep, RemoveStep
  <1> QED BY <1>6 DEF Arrival!TakeBind

(* remove_cancellable takes the job it was asked for, and only that one.     *)
LEMMA CancelWithdraws ==
  ASSUME QueuesInv, NEW j \in Jobs, remove_cancellable(j)
  PROVE  Arrival!Withdraw(j) /\ QueuesInv'
  <1> DEFINE l == Lane(j)
  <1>1. l \in Lanes
    BY ClassQueuesAssumption DEF Lane
  <1>2. PICK k \in DOMAIN queue[l] : queue[l][k] = j /\ RemoveNth(l, k)
    BY DEF remove_cancellable
  <1> HIDE DEF l
  <1>3. PlaceOf(l, k) \in DOMAIN order /\ Merged[PlaceOf(l, k)] = j
    BY <1>1, <1>2, PlaceFound
  <1>4. \A m \in DOMAIN order : Merged[m] \in {j} => PlaceOf(l, k) <= m
    BY <1>3, MergedFacts
  <1>5. Arrival!TakeFrom({j}) /\ QueuesInv'
    BY <1>1, <1>2, <1>4, TakeStep, RemoveStep
  <1> QED BY <1>5 DEF Arrival!Withdraw

(* The abstract queue forgets what the concrete one dropped.                 *)
LEMMA ForgetStep ==
  ASSUME QueuesInv, NEW S, Merged' = Kept(Merged, Arrival!Fits(S))
  PROVE  Arrival!Forget(S)
  <1>1. ASSUME NEW T PROVE Arrival!Cardinality(T) = Cardinality(T)
    BY DEF Cardinality, Arrival!Cardinality
  <1>2. ASSUME NEW T, NEW n PROVE Arrival!Rank(T, n) = Rank(T, n)
    BY <1>1 DEF Rank, Arrival!Rank
  <1>3. ASSUME NEW T, NEW n PROVE Arrival!Nth(T, n) = Nth(T, n)
    BY <1>2 DEF Nth, Arrival!Nth
  <1>4. ASSUME NEW s, NEW D PROVE Arrival!Kept(s, D) = Kept(s, D)
    BY <1>1, <1>3 DEF Kept, Arrival!Kept
  <1> QED BY <1>4 DEF Arrival!Forget

(* Every place of a lane is the rank of an entry. *)
LEMMA AllRanked ==
  ASSUME QueuesInv, NEW l \in Lanes, NEW D, Of(order, l) \subseteq D
  PROVE  DOMAIN queue[l] \subseteq Ranks(order, l, D)
  <1> SUFFICES ASSUME NEW k \in DOMAIN queue[l] PROVE k \in Ranks(order, l, D)
    OBVIOUS
  <1>1. PICK i \in DOMAIN order : order[i] = l /\ Rank(Of(order, l), i) = k
    BY ListedAll DEF QueuesInv
  <1>2. i \in D \cap Of(order, l)
    BY <1>1 DEF Of
  <1> QED BY <1>1, <1>2 DEF Ranks

(* fail_queued_jobs and cancel_queued_jobs forget everything,                *)
LEMMA ClearForgets ==
  ASSUME QueuesInv, ClearAll
  PROVE  Arrival!Forget(Jobs) /\ QueuesInv'
  <1> DEFINE D == DOMAIN order
  <1>1. order' = <<>> /\ queue' = [l \in Lanes |-> <<>>]
    BY DEF ClearAll
  <1>2. order' = Kept(order, D)
    BY <1>1, KeptEmpty
  <1>3. queue' \in [Lanes -> Seq(Jobs)]
    BY <1>1
  <1>4. ASSUME NEW l \in Lanes PROVE queue'[l] = Kept(queue[l], Ranks(order, l, D))
    <2>1. Of(order, l) \subseteq D
      BY DEF Of
    <2>2. DOMAIN queue[l] \subseteq Ranks(order, l, D)
      <3> HIDE DEF D
      <3> QED BY <2>1, AllRanked
    <2>3. Kept(queue[l], Ranks(order, l, D)) = <<>>
      <3> HIDE DEF D
      <3> QED BY <2>2, KeptEmpty
    <2> QED BY <1>1, <2>3
  <1>5. QueuesInv' /\ Merged' = Kept(Merged, D)
    <2> HIDE DEF D
    <2> QED BY <1>2, <1>3, <1>4, DropStep
  <1>6. D = Arrival!Fits(Jobs)
    BY MergedFacts DEF Arrival!Fits
  <1> QED BY <1>5, <1>6, ForgetStep

(* cancel_queued_provider_jobs what its lane holds,                          *)
LEMMA ProviderForgets ==
  ASSUME QueuesInv, cancel_queued_provider_jobs
  PROVE  Arrival!Forget(Arrival!InLane("ProviderMetadata")) /\ QueuesInv'
  <1> DEFINE P == "ProviderMetadata"
             D == Of(order, P)
  <1>1. P \in Lanes
    BY LanesAre
  <1>2. order' = Kept(order, D) /\ queue' = [queue EXCEPT ![P] = <<>>]
    BY EntriesOf DEF cancel_queued_provider_jobs
  <1>3. queue \in [Lanes -> Seq(Jobs)]
    BY MergedFacts
  <1>4. <<>> \in Seq(Jobs)
    OBVIOUS
  <1>5. queue' \in [Lanes -> Seq(Jobs)]
    <2> HIDE DEF D
    <2> QED BY <1>2, <1>3, <1>4
  <1>6. ASSUME NEW l \in Lanes PROVE queue'[l] = Kept(queue[l], Ranks(order, l, D))
    <2>1. CASE l = P
      <3>1. DOMAIN queue[l] \subseteq Ranks(order, l, D)
        BY <2>1, AllRanked
      <3>2. Kept(queue[l], Ranks(order, l, D)) = <<>>
        <4> HIDE DEF D
        <4> QED BY <3>1, KeptEmpty
      <3> QED BY <1>1, <1>2, <1>3, <2>1, <3>2
    <2>2. CASE l # P
      <3>1. D \cap Of(order, l) = {}
        BY <2>2 DEF Of
      <3>2. Ranks(order, l, D) = {}
        BY <3>1 DEF Ranks
      <3>3. queue'[l] = queue[l] /\ queue[l] \in Seq(Jobs)
        BY <1>2, <1>3, <2>2
      <3> QED BY <3>2, <3>3, KeptNone
    <2> QED BY <2>1, <2>2
  <1>7. QueuesInv' /\ Merged' = Kept(Merged, D)
    <2> HIDE DEF D
    <2> QED BY <1>2, <1>5, <1>6, DropStep
  <1>8. D = Arrival!Fits(Arrival!InLane(P))
    BY ListedInLane, MergedFacts DEF Arrival!Fits, Of
  <1> QED BY <1>7, <1>8, ForgetStep

(* and remove_duplicate_maintenance_jobs the later ones of a key: the entries it*)
(* collects in one walk are those of the jobs that repeat a key.             *)
LEMMA DuplicatesForget ==
  ASSUME QueuesInv, remove_duplicate_maintenance_jobs
  PROVE  Arrival!Forget(Arrival!Repeated) /\ QueuesInv'
  <1> DEFINE D == Duplicates
  <1>1. order' = Kept(order, D)
    BY DEF remove_duplicate_maintenance_jobs
  <1>2. ASSUME NEW l \in Lanes
        PROVE  queue'[l] = Kept(queue[l], Ranks(order, l, D)) /\ queue'[l] \in Seq(Jobs)
    <2>1. queue'[l] = Kept(queue[l], {Occurrence(i) : i \in D \cap Entries(l)})
      BY DEF remove_duplicate_maintenance_jobs
    <2>2. {Occurrence(i) : i \in D \cap Entries(l)} = Ranks(order, l, D)
      <3>1. \A i \in D \cap Entries(l) : Occurrence(i) = Rank(Of(order, l), i)
        BY DEF Occurrence, Entries, Of
      <3>2. Entries(l) = Of(order, l)
        BY EntriesOf
      <3> HIDE DEF D
      <3> QED BY <3>1, <3>2 DEF Ranks
    <2>3. queue[l] \in Seq(Jobs)
      BY MergedFacts
    <2> QED BY <2>1, <2>2, <2>3, KeptEntries
  <1>3. queue' \in [Lanes -> Seq(Jobs)]
    <2>1. queue' = [l \in Lanes |-> queue'[l]]
      BY DEF remove_duplicate_maintenance_jobs
    <2> QED BY <1>2, <2>1
  <1> HIDE DEF D
  <1>4. QueuesInv' /\ Merged' = Kept(Merged, D)
    BY <1>1, <1>2, <1>3, DropStep
  <1>5. \A i \in DOMAIN order : At(i) = Merged[i]
    BY MergedFacts DEF At, Occurrence, Entries, Of
  <1>6. \A i \in DOMAIN order : i \in D <=>
          Key(Merged[i]) # "none" /\ \E k \in DOMAIN order : k < i /\ Key(Merged[k]) = Key(Merged[i])
    <2> SUFFICES ASSUME NEW i \in DOMAIN order
                 PROVE  i \in D <=> Key(Merged[i]) # "none" /\
                          \E k \in DOMAIN order : k < i /\ Key(Merged[k]) = Key(Merged[i])
      OBVIOUS
    <2>1. i \in D <=> Key(At(i)) # "none" /\ \E k \in 1..(i - 1) : Key(At(k)) = Key(At(i))
      BY DEF D, Duplicates
    <2>2. \A k : k \in 1..(i - 1) <=> k \in DOMAIN order /\ k < i
      BY MergedFacts
    <2> QED BY <1>5, <2>1, <2>2
  <1>7. \A i \in DOMAIN order : i \in Arrival!Fits(Arrival!Repeated) <=>
          Key(Merged[i]) # "none" /\ \E k \in DOMAIN order : k < i /\ Key(Merged[k]) = Key(Merged[i])
    <2> SUFFICES ASSUME NEW i \in DOMAIN order
                 PROVE  Merged[i] \in Arrival!Repeated <=> Key(Merged[i]) # "none" /\
                          \E k \in DOMAIN order : k < i /\ Key(Merged[k]) = Key(Merged[i])
      BY MergedFacts DEF Arrival!Fits
    <2>1. \A k : k \in Arrival!Fits({Merged[i]}) <=> k = i
      BY MergedFacts DEF Arrival!Fits
    <2>2. Merged[i] \in Arrival!Range(Merged)
      BY MergedFacts DEF Arrival!Range
    <2>3. DOMAIN Merged = DOMAIN order
      BY MergedFacts
    <2> QED BY <2>1, <2>2, <2>3 DEF Arrival!Repeated
  <1>8. D = Arrival!Fits(Arrival!Repeated)
    <2>1. D \subseteq DOMAIN order
      BY DEF D, Duplicates
    <2>2. Arrival!Fits(Arrival!Repeated) \subseteq DOMAIN order
      BY MergedFacts DEF Arrival!Fits
    <2> QED BY <1>6, <1>7, <2>1, <2>2
  <1> QED BY <1>4, <1>8, ForgetStep

(* A job that arrives is listed nowhere.                                     *)
LEMMA NewJob ==
  ASSUME QueuesInv, NEW j \in Jobs, Arrives(j)
  PROVE  /\ Lane(j) \in Lanes /\ Absent(queue, j)
         /\ j \in Jobs \ Arrival!Range(Merged)
  <1>1. Lane(j) \in Lanes
    BY ClassQueuesAssumption DEF Lane
  <1>2. \A l \in Lanes : \A k \in DOMAIN queue[l] : queue[l][k] # j
    BY DEF Arrives, Queued, Range
  <1>3. \A i \in DOMAIN order : Merged[i] # j
    BY <1>2, MergedFacts
  <1>4. j \notin Arrival!Range(Merged)
    BY <1>3, MergedFacts DEF Arrival!Range
  <1> QED BY <1>1, <1>2, <1>4 DEF Absent

(* push_job makes it the last of the list,                                   *)
LEMMA PushArrives ==
  ASSUME QueuesInv, NEW j \in Jobs, push_job(j)
  PROVE  Arrival!Arrive(j) /\ QueuesInv'
  <1>1. /\ Arrives(j) /\ order' = Append(order, Lane(j))
        /\ queue' = [queue EXCEPT ![Lane(j)] = Append(@, j)]
    BY DEF push_job
  <1>2. /\ Lane(j) \in Lanes /\ Absent(queue, j)
        /\ j \in Jobs \ Arrival!Range(Merged)
    BY <1>1, NewJob
  <1>3. Pairing(order', queue') /\ Listed(order', queue') = Append(Listed(order, queue), j)
    <2> DEFINE o2 == order'
               q2 == queue'
    <2>1. o2 = Append(order, Lane(j)) /\ q2 = Behind(queue, j)
      BY <1>1 DEF Behind
    <2>2. Pairing(order, queue)
      BY DEF QueuesInv
    <2> HIDE DEF o2, q2
    <2>3. StandFor(o2, q2, Append(Listed(order, queue), j))
      BY <1>2, <2>1, <2>2, PushedBack
    <2> QED BY <2>3 DEF o2, q2, StandFor
  <1>4. Merged' = Append(Merged, j)
    BY <1>3, MergedNow, MergedNext
  <1> QED BY <1>2, <1>3, <1>4 DEF Arrival!Arrive, QueuesInv

(* and push_front_job the first.                                             *)
LEMMA PushFrontComesBack ==
  ASSUME QueuesInv, NEW j \in Jobs, push_front_job(j)
  PROVE  Arrival!ComeBack(j) /\ QueuesInv'
  <1>1. /\ Arrives(j) /\ order' = <<Lane(j)>> \o order
        /\ queue' = [queue EXCEPT ![Lane(j)] = <<j>> \o @]
    BY DEF push_front_job
  <1>2. /\ Lane(j) \in Lanes /\ Absent(queue, j)
        /\ j \in Jobs \ Arrival!Range(Merged)
    BY <1>1, NewJob
  <1>3. Pairing(order', queue') /\ Listed(order', queue') = <<j>> \o Listed(order, queue)
    <2> DEFINE o2 == order'
               q2 == queue'
    <2>1. o2 = <<Lane(j)>> \o order /\ q2 = Before(queue, j)
      BY <1>1 DEF Before
    <2>2. Pairing(order, queue)
      BY DEF QueuesInv
    <2> HIDE DEF o2, q2
    <2>3. StandFor(o2, q2, <<j>> \o Listed(order, queue))
      BY <1>2, <2>1, <2>2, PushedFront
    <2> QED BY <2>3 DEF o2, q2, StandFor
  <1>4. Merged' = <<j>> \o Merged
    BY <1>3, MergedNow, MergedNext
  <1> QED BY <1>2, <1>3, <1>4 DEF Arrival!ComeBack, QueuesInv

(* The pair starts as an empty list.                                         *)
LEMMA QueuesStart == Init => QueuesInv /\ Arrival!Init
  <1> SUFFICES ASSUME Init PROVE QueuesInv /\ Arrival!Init
    OBVIOUS
  <1>1. order = <<>> /\ queue = [l \in Lanes |-> <<>>]
    BY DEF Init
  <1>2. \A l \in Lanes : Of(order, l) = {} /\ queue[l] = <<>>
    BY <1>1 DEF Of
  <1>3. \A l \in Lanes : Cardinality(Of(order, l)) = Len(queue[l])
    BY <1>2, FS_EmptySet
  <1>4. order \in Seq(Lanes) /\ queue \in [Lanes -> Seq(Jobs)]
    BY <1>1
  <1>5. \A l \in Lanes : DOMAIN queue[l] = {}
    BY <1>2
  <1>6. QueuesInv
    BY <1>3, <1>4, <1>5 DEF QueuesInv, Pairing
  <1>7. Merged \in Seq(Jobs) /\ Len(Merged) = 0
    BY <1>1, <1>6, MergedNow, ListedTyped DEF QueuesInv
  <1>8. Merged = <<>>
    BY <1>7
  <1> QED BY <1>6, <1>8 DEF Arrival!Init

(* Every operation preserves the invariant and is a step of the list.        *)
LEMMA QueuesStep == QueuesInv /\ [Next]_vars => QueuesInv' /\ [Arrival!Next]_Merged
  <1> SUFFICES ASSUME QueuesInv, [Next]_vars PROVE QueuesInv' /\ [Arrival!Next]_Merged
    OBVIOUS
  <1>1. CASE UNCHANGED vars
    <2>1. order' = order /\ queue' = queue
      BY <1>1 DEF vars
    <2>2. QueuesInv'
      BY <2>1 DEF QueuesInv
    <2>3. Merged' = Merged
      BY <2>1, <2>2, MergedNow, MergedNext DEF QueuesInv
    <2> QED BY <2>2, <2>3
  <1>2. CASE Operation
    <2>1. ASSUME NEW j \in Jobs, push_job(j) PROVE QueuesInv' /\ Arrival!Next
      BY <2>1, PushArrives DEF Arrival!Next
    <2>2. ASSUME NEW j \in Jobs, push_front_job(j) PROVE QueuesInv' /\ Arrival!Next
      BY <2>2, PushFrontComesBack DEF Arrival!Next
    <2>3. ASSUME NEW j \in Jobs, remove_cancellable(j) PROVE QueuesInv' /\ Arrival!Next
      BY <2>3, CancelWithdraws DEF Arrival!Next
    <2>4. ASSUME NEW l \in Lanes, pop_front_job(l) PROVE QueuesInv' /\ Arrival!Next
      <3>1. Arrival!TakeInLane(l) /\ QueuesInv'
        BY <2>4, PopInv, PopTakesInLane
      <3>2. PICK j \in Jobs : Lane(j) = l
        BY <2>4, PopTakesInLane
      <3>3. Arrival!TakeInLane(Lane(j))
        BY <3>1, <3>2
      <3> QED BY <3>1, <3>3 DEF Arrival!Next
    <2>5. CASE PopFrontLane
      BY <2>5, FrontTakesOldest DEF Arrival!Next
    <2>6. CASE PopStarvedWriter
      BY <2>4, <2>6, LanesAre DEF PopStarvedWriter
    <2>7. CASE PopRead
      BY <2>4, <2>7, LanesAre DEF PopRead
    <2>8. CASE PopInteractive
      BY <2>8, InteractiveTakesOldest DEF Arrival!Next
    <2>9. CASE PopReserved
      BY <2>4, <2>9, LanesAre DEF PopReserved
    <2>10. CASE remove_first_bind_job
      BY <2>10, BindTakesOldest DEF Arrival!Next
    <2>11. CASE remove_duplicate_maintenance_jobs
      BY <2>11, DuplicatesForget DEF Arrival!Next
    <2>12. CASE ClearAll
      BY <2>12, ClearForgets DEF Arrival!Next
    <2>13. CASE cancel_queued_provider_jobs
      BY <2>13, ProviderForgets DEF Arrival!Next
    <2> QED BY <1>2, <2>1, <2>2, <2>3, <2>5, <2>6, <2>7, <2>8, <2>9, <2>10, <2>11,
              <2>12, <2>13 DEF Operation
  <1> QED BY <1>1, <1>2 DEF Next

(* The invariant contains the property.                                      *)
LEMMA QueuesInvPaired == QueuesInv => Paired
  BY EntriesOf DEF QueuesInv, Pairing, Paired

(* `order' and the lanes stay paired: whatever is pushed, popped, withdrawn, *)
(* compacted and cancelled, has_queued_jobs and queued_count, which go by `order'*)
(* alone, count the jobs there are.                                          *)
THEOREM EntriesPaired == Spec => []Paired
  <1>1. Init => QueuesInv
    BY QueuesStart
  <1>2. QueuesInv /\ [Next]_vars => QueuesInv'
    BY QueuesStep
  <1> QED BY <1>1, <1>2, QueuesInvPaired, PTL DEF Spec

(* The pair of structures implements one list in arrival order: every operation*)
(* of ClassQueues is an operation of ArrivalQueue on the merged list.        *)
THEOREM ArrivalOrderKept == Spec => KeepsArrivalOrder
  <1>1. Init => QueuesInv /\ Arrival!Init
    BY QueuesStart
  <1>2. QueuesInv /\ [Next]_vars => QueuesInv' /\ [Arrival!Next]_Merged
    BY QueuesStep
  <1> QED BY <1>1, <1>2, PTL DEF Spec, KeepsArrivalOrder, Arrival!Spec

(* Every admission from the line takes the oldest job it may take, also after*)
(* binds went back to the front and jobs were withdrawn from the middle.     *)
THEOREM OldestAdmitted == Spec => AdmitsOldest
  <1>1. Init => QueuesInv
    BY QueuesStart
  <1>2. QueuesInv /\ [Next]_vars => QueuesInv'
    BY QueuesStep
  <1>3. QueuesInv /\ [Next]_vars =>
     [/\ PopFrontLane => Arrival!TakeOldest
      /\ PopRead => Arrival!TakeRead
      /\ PopInteractive => Arrival!TakeOther
      /\ PopStarvedWriter => Arrival!TakeInLane("Mutating")
      /\ remove_first_bind_job => Arrival!TakeBind]_vars
    <2> SUFFICES ASSUME QueuesInv
                 PROVE  /\ PopFrontLane => Arrival!TakeOldest
                        /\ PopRead => Arrival!TakeRead
                        /\ PopInteractive => Arrival!TakeOther
                        /\ PopStarvedWriter => Arrival!TakeInLane("Mutating")
                        /\ remove_first_bind_job => Arrival!TakeBind
      OBVIOUS
    <2>1. PopRead => Arrival!TakeRead
      BY PopTakesInLane, LanesAre DEF PopRead, Arrival!TakeRead, Arrival!TakeInLane
    <2>2. PopStarvedWriter => Arrival!TakeInLane("Mutating")
      BY PopTakesInLane, LanesAre DEF PopStarvedWriter
    <2> QED BY <2>1, <2>2, FrontTakesOldest, InteractiveTakesOldest, BindTakesOldest
  <1> QED BY <1>1, <1>2, <1>3, PTL DEF Spec, AdmitsOldest

-----------------------------------------------------------------------------
(* EffectiveConfig, which has no run: a configuration is any numbers.        *)
VARIABLES requested, deficit

Config == INSTANCE EffectiveConfig

(* The fields of a configuration are numbers. *)
LEMMA ConfigTyped ==
  ASSUME requested \in Config!ExecutorConfig
  PROVE  /\ requested.pool_size \in Nat /\ requested.read_cap \in Nat
         /\ requested.actor_cap \in Nat /\ requested.heavy_permits \in Nat
         /\ requested.drr_quantum \in Int
  BY DEF Config!ExecutorConfig

(* What effective() computes from them. *)
LEMMA CapsHold ==
  ASSUME requested \in Config!ExecutorConfig
  PROVE  /\ Config!CapsLeaveRoom /\ Config!Quantum \in Int /\ Config!Quantum >= 1
         /\ Config!DeficitCap \in Int /\ Config!DeficitCap >= 4
  <1>1. Config!PoolSize \in 2..8
    BY ConfigTyped DEF Config!PoolSize, Config!Clamp
  <1>2. Config!ActorCap \in Int /\ 1 <= Config!ActorCap /\ Config!ActorCap < Config!PoolSize
    BY <1>1, ConfigTyped DEF Config!ActorCap, Config!Smaller, Config!Larger
  <1>3. Config!ReadCap \in Int /\ 1 <= Config!ReadCap /\ Config!ReadCap <= Config!ActorCap
    BY <1>2, ConfigTyped DEF Config!ReadCap, Config!Smaller, Config!Larger
  <1>4. /\ Config!HeavyPermits \in Int /\ 1 <= Config!HeavyPermits
        /\ Config!HeavyPermits < Config!PoolSize
    BY <1>1, ConfigTyped DEF Config!HeavyPermits, Config!Smaller, Config!Larger
  <1>5. /\ 1 <= Config!InteractiveReserve
        /\ 1 <= Config!MaintenanceCap
        /\ Config!MaintenanceCap + Config!InteractiveReserve <= Config!PoolSize
    BY <1>1 DEF Config!InteractiveReserve, Config!MaintenanceCap, Config!Larger
  <1>6. Config!BindReserve + Config!ProviderReserve < Config!TotalWorkers
    BY <1>1 DEF Config!TotalWorkers, Config!BindReserve, Config!ProviderReserve
  <1>7. Config!Quantum \in Int /\ Config!Quantum >= 1
    BY ConfigTyped DEF Config!Quantum, Config!Larger
  <1>8. Config!DeficitCap \in Int /\ Config!DeficitCap >= 4
    BY <1>2 DEF Config!DeficitCap, Config!Larger
  <1> QED BY <1>2, <1>3, <1>4, <1>5, <1>6, <1>7, <1>8 DEF Config!CapsLeaveRoom

(* The invariant that both properties need: the configuration stays what it  *)
(* was, and the deficit between zero and its cap.                            *)
ConfigInv ==
  /\ requested \in Config!ExecutorConfig
  /\ deficit \in Int /\ 0 <= deficit /\ deficit <= Config!DeficitCap

(* Every visit preserves it. *)
LEMMA ConfigInvInductive == ConfigInv /\ [Config!Next]_(Config!vars) => ConfigInv'
  <1> SUFFICES ASSUME ConfigInv, [Config!Next]_(Config!vars) PROVE ConfigInv'
    OBVIOUS
  <1>1. /\ Config!Quantum \in Int /\ Config!Quantum >= 1
        /\ Config!DeficitCap \in Int /\ Config!DeficitCap >= 4
    BY CapsHold DEF ConfigInv
  <1>2. requested' = requested
    BY DEF Config!Next, Config!Visit, Config!VisitEmpty, Config!vars
  <1>3. Config!DeficitCap' = Config!DeficitCap
    BY <1>2 DEF Config!DeficitCap, Config!ActorCap, Config!PoolSize
  <1>4. deficit' \in Int /\ 0 <= deficit' /\ deficit' <= Config!DeficitCap
    BY <1>1 DEF Config!Next, Config!Visit, Config!VisitEmpty, Config!vars, ConfigInv,
                  Config!Credit, Config!Smaller, Config!JobCost
  <1> QED BY <1>2, <1>3, <1>4 DEF ConfigInv

(* For every requested configuration the caps of effective() leave room for  *)
(* one another.                                                              *)
THEOREM CapsAlwaysLeaveRoom == Config!Spec => []Config!CapsLeaveRoom
  <1>1. Config!Init => ConfigInv
    BY CapsHold DEF Config!Init, ConfigInv
  <1>2. ConfigInv => Config!CapsLeaveRoom
    BY CapsHold DEF ConfigInv
  <1> QED BY <1>1, <1>2, ConfigInvInductive, PTL DEF Config!Spec

(* For every requested configuration and every history of visits the round   *)
(* robin's deficit admits a queued job.                                      *)
THEOREM DeficitAlwaysAdmits == Config!Spec => []Config!DeficitNeverRefuses
  <1>1. Config!Init => ConfigInv
    BY CapsHold DEF Config!Init, ConfigInv
  <1>2. ConfigInv => Config!DeficitNeverRefuses
    BY CapsHold DEF ConfigInv, Config!DeficitNeverRefuses, Config!Credit,
                    Config!Smaller, Config!JobCost
  <1> QED BY <1>1, <1>2, ConfigInvInductive, PTL DEF Config!Spec
=============================================================================
