--------------------------- MODULE BackupStore_proofs --------------------------
(***************************************************************************)
(* Proofs about the backup store. Of the retention policy: what its loops   *)
(* delete, for every history and every settings. Of callers side by side:   *)
(* their directories stay their own, and no pass turns on what it protects. *)
(* Of a caller alone: it leaves no half copy, keeps a backup once it made    *)
(* one, and the one it restores. For any number of snapshots and folders.   *)
(***************************************************************************)
EXTENDS MCBackupStore, FiniteSetTheorems, SequenceTheorems, WellFoundedInduction, TLAPS

--------------------------------------------------------------------------------
(* Loops over a sequence, turn by turn.                                         *)

\* A loop's invariant, as the set of the turns at which it holds.
LEMMA EveryTurn ==
    ASSUME NEW n \in Nat, NEW S, 0 \in S, \A k \in 0..(n - 1) : k \in S => k + 1 \in S
    PROVE  \A k \in 0..n : k \in S
<1> DEFINE Less == OpToRel(<, Nat)
           Missed == {k \in 0..n : k \notin S}
<1> SUFFICES ASSUME Missed # {} PROVE FALSE OBVIOUS
<1>1. IsWellFoundedOn(Less, Nat) BY NatLessThanWellFounded
<1>2. Missed \subseteq Nat OBVIOUS
<1> HIDE DEF Less
<1>3. PICK k \in Missed : \A j \in Missed : <<j, k>> \notin Less BY <1>1, <1>2, WFMin
<1>4. k \in 1..n OBVIOUS
<1>5. k - 1 \in 0..(n - 1) /\ k - 1 + 1 = k BY <1>4
<1>6. k - 1 \in S => k \in S BY <1>5
<1>7. k - 1 \in Missed BY <1>5, <1>6
<1>8. <<k - 1, k>> \in Less BY <1>5 DEF Less, OpToRel
<1> QED BY <1>3, <1>7, <1>8

\* A member of a set of numbers that none exceeds is what Max picks.
LEMMA MaxIsGreatest ==
    ASSUME NEW S, S \subseteq Int, NEW m \in S, \A x \in S : x <= m
    PROVE  Max(S) = m
<1> DEFINE most == CHOOSE x \in S : \A y \in S : x >= y
<1>1. \A x \in S : m >= x OBVIOUS
<1>2. most \in S /\ \A y \in S : most >= y BY <1>1, Zenon
<1> HIDE DEF most
<1>3. most = m BY <1>2
<1> QED BY <1>3 DEF most, Max

\* The greatest of 1..k is k, and taking it away leaves 1..k-1.
LEMMA LastOfPrefix ==
    ASSUME NEW k \in Nat, k # 0
    PROVE  Max(1..k) = k /\ (1..k) \ {k} = 1..(k - 1) /\ 1..k # {}
<1>1. 1..k \subseteq Int /\ k \in 1..k /\ \A x \in 1..k : x <= k OBVIOUS
<1>2. Max(1..k) = k BY <1>1, MaxIsGreatest
<1>3. (1..k) \ {k} = 1..(k - 1) OBVIOUS
<1> QED BY <1>1, <1>2, <1>3

\* A non-empty set of numbers up to n has a greatest.
LEMMA MaxIsThere ==
    ASSUME NEW n \in Nat, NEW s \in SUBSET (1..n), s # {}
    PROVE  Max(s) \in s
<1> DEFINE Fine == {m \in 0..n : \A t \in SUBSET (1..m) :
                        t # {} => \E x \in t : \A y \in t : y <= x}
<1>1. 0 \in Fine
  <2>1. 1..0 = {} /\ 0 \in 0..n OBVIOUS
  <2> QED BY <2>1
<1>2. ASSUME NEW m \in 0..(n - 1), m \in Fine PROVE m + 1 \in Fine
  <2>1. ASSUME NEW t \in SUBSET (1..(m + 1)), t # {} PROVE \E x \in t : \A y \in t : y <= x
    <3>1. CASE m + 1 \in t BY <3>1
    <3>2. CASE m + 1 \notin t
      <4>1. t \in SUBSET (1..m) BY <3>2
      <4> QED BY <1>2, <2>1, <4>1
    <3> QED BY <3>1, <3>2
  <2>2. m + 1 \in 0..n OBVIOUS
  <2> QED BY <2>1, <2>2
<1> HIDE DEF Fine
<1>3. n \in Fine
  <2>1. \A m \in 0..n : m \in Fine BY <1>1, <1>2, EveryTurn
  <2> QED BY <2>1
<1>4. PICK x \in s : \A y \in s : y <= x BY <1>3 DEF Fine
<1>5. s \subseteq Int OBVIOUS
<1>6. Max(s) = x BY <1>4, <1>5, MaxIsGreatest
<1> QED BY <1>6

\* What is turned on the places of s, the last one last.
Turned(n, base, V, g) ==
    [s \in SUBSET (1..n) |-> IF s = {} THEN base ELSE V[<<g[s \ {Max(s)}], Max(s)>>]]

Turns(A, n)    == [A \X (1..n) -> A]
Outcomes(A, n) == [SUBSET (1..n) -> A]

\* A loop over a sequence is defined: it has an outcome after every set of places.
LEMMA LoopIsDefined ==
    ASSUME NEW A, NEW base \in A, NEW n \in Nat, NEW V \in Turns(A, n)
    PROVE  \E g \in Outcomes(A, n) : g = Turned(n, base, V, g)
<1> USE DEF Turns, Outcomes
<1> DEFINE Fine == {m \in 0..n : \E g \in [SUBSET (1..m) -> A] : g = Turned(m, base, V, g)}
<1>1. 0 \in Fine
  <2> DEFINE g == [s \in SUBSET (1..0) |-> base]
  <2>1. \A s \in SUBSET (1..0) : s = {} OBVIOUS
  <2>2. g \in [SUBSET (1..0) -> A] OBVIOUS
  <2>3. Turned(0, base, V, g) = [s \in SUBSET (1..0) |-> base] BY <2>1 DEF Turned
  <2>4. g = Turned(0, base, V, g) BY <2>3
  <2> QED BY <2>2, <2>4
<1>2. ASSUME NEW m \in 0..(n - 1), m \in Fine PROVE m + 1 \in Fine
  <2>1. PICK g \in [SUBSET (1..m) -> A] : g = Turned(m, base, V, g) BY <1>2
  <2> DEFINE h == [s \in SUBSET (1..(m + 1)) |->
                       IF m + 1 \in s THEN V[<<g[s \ {m + 1}], m + 1>>] ELSE g[s]]
  <2>2. \A s \in SUBSET (1..(m + 1)) : s \ {m + 1} \in SUBSET (1..m) OBVIOUS
  <2>3. \A s \in SUBSET (1..(m + 1)) : m + 1 \notin s => s \in SUBSET (1..m) OBVIOUS
  <2>4. h \in [SUBSET (1..(m + 1)) -> A]
    <3>1. m + 1 \in 1..n OBVIOUS
    <3> QED BY <2>2, <2>3, <3>1
  <2>5. ASSUME NEW s \in SUBSET (1..(m + 1))
        PROVE  h[s] = IF s = {} THEN base ELSE V[<<h[s \ {Max(s)}], Max(s)>>]
    <3>1. CASE m + 1 \in s
      <4>1. Max(s) = m + 1
        <5>1. s \subseteq Int /\ \A x \in s : x <= m + 1 OBVIOUS
        <5> QED BY <3>1, <5>1, MaxIsGreatest
      <4>2. s \ {m + 1} \in SUBSET (1..(m + 1)) /\ m + 1 \notin s \ {m + 1} OBVIOUS
      <4>3. h[s \ {m + 1}] = g[s \ {m + 1}] BY <4>2
      <4>4. h[s] = V[<<g[s \ {m + 1}], m + 1>>] BY <3>1
      <4> QED BY <3>1, <4>1, <4>3, <4>4
    <3>2. CASE m + 1 \notin s
      <4>1. s \in SUBSET (1..m) /\ h[s] = g[s] BY <2>3, <3>2
      <4>2. s \ {Max(s)} \in SUBSET (1..(m + 1)) /\ m + 1 \notin s \ {Max(s)} BY <3>2
      <4>3. h[s \ {Max(s)}] = g[s \ {Max(s)}] BY <4>2
      <4>4. g[s] = Turned(m, base, V, g)[s] BY <2>1
      <4>5. g[s] = IF s = {} THEN base ELSE V[<<g[s \ {Max(s)}], Max(s)>>]
        BY <4>1, <4>4 DEF Turned
      <4> QED BY <4>1, <4>3, <4>5
    <3> QED BY <3>1, <3>2
  <2>6. h = Turned(m + 1, base, V, h) BY <2>4, <2>5 DEF Turned
  <2>7. m + 1 \in 0..n OBVIOUS
  <2> HIDE DEF h
  <2> QED BY <2>4, <2>6, <2>7
<1> HIDE DEF Fine
<1>3. \A m \in 0..n : m \in Fine BY <1>1, <1>2, EveryTurn
<1>4. n \in 0..n OBVIOUS
<1> QED BY <1>3, <1>4 DEF Fine

\* The equation of a loop, as far as its outcomes are of the kind A.
Loops(A, base, n, V, iter) ==
    /\ iter[{}] = base
    /\ \A s \in SUBSET (1..n) :
           s # {} /\ iter[s \ {Max(s)}] \in A => iter[s] = V[<<iter[s \ {Max(s)}], Max(s)>>]

TurnByTurn(A, base, n, V, iter, h) ==
    /\ h \in [0..n -> A] /\ h[0] = base /\ h[n] = iter[1..n]
    /\ \A k \in 1..n : h[k] = V[<<h[k - 1], k>>]

\* Its outcome is reached turn by turn.
LEMMA LoopTurns ==
    ASSUME NEW A, NEW base \in A, NEW n \in Nat, NEW V \in Turns(A, n), NEW iter,
           Loops(A, base, n, V, iter)
    PROVE  \E h : TurnByTurn(A, base, n, V, iter, h)
<1> USE DEF Loops
<1> DEFINE h == [k \in 0..n |-> iter[1..k]]
           S == {k \in 0..n : h[k] \in A}
<1>1. h[0] = base
  <2>1. 1..0 = {} /\ 0 \in 0..n OBVIOUS
  <2> QED BY <2>1
<1>2. ASSUME NEW k \in 1..n, h[k - 1] \in A
      PROVE  h[k] = V[<<h[k - 1], k>>] /\ h[k] \in A
  <2>1. k \in Nat /\ k # 0 /\ 1..k \in SUBSET (1..n) /\ k \in 0..n /\ k - 1 \in 0..n OBVIOUS
  <2>2. Max(1..k) = k /\ (1..k) \ {k} = 1..(k - 1) /\ 1..k # {} BY <2>1, LastOfPrefix
  <2>3. h[k] = iter[1..k] /\ h[k - 1] = iter[1..(k - 1)] BY <2>1
  <2>4. iter[1..(k - 1)] \in A BY <1>2, <2>3
  <2> HIDE DEF h
  <2>5. iter[1..k] = V[<<iter[1..(k - 1)], k>>] BY <2>1, <2>2, <2>4
  <2>6. V[<<iter[1..(k - 1)], k>>] \in A
    <3>1. PICK a : a = iter[1..(k - 1)] OBVIOUS
    <3>2. <<a, k>> \in A \X (1..n) BY <2>4, <3>1
    <3>3. V[<<a, k>>] \in A BY <3>2 DEF Turns
    <3> QED BY <3>1, <3>3
  <2> QED BY <2>3, <2>5, <2>6
<1>3. 0 \in S BY <1>1
<1>4. ASSUME NEW k \in 0..(n - 1), k \in S PROVE k + 1 \in S
  <2>1. PICK j : j = k + 1 OBVIOUS
  <2>2. j \in 1..n /\ j \in 0..n /\ j - 1 = k BY <2>1
  <2>3. h[j - 1] \in A BY <1>4, <2>2
  <2> HIDE DEF h
  <2>4. h[j] \in A BY <1>2, <2>2, <2>3
  <2> QED BY <2>1, <2>2, <2>4
<1>5. DOMAIN h = 0..n /\ h = [k \in 0..n |-> h[k]] OBVIOUS
<1>6. h[n] = iter[1..n]
  <2>1. n \in 0..n OBVIOUS
  <2> QED BY <2>1
<1> HIDE DEF h
<1>7. \A k \in 0..n : h[k] \in A
  <2> HIDE DEF S
  <2>1. \A k \in 0..n : k \in S BY <1>3, <1>4, EveryTurn
  <2> QED BY <2>1 DEF S
<1>8. h \in [0..n -> A] BY <1>5, <1>7
<1>9. \A k \in 1..n : h[k] = V[<<h[k - 1], k>>]
  <2> TAKE k \in 1..n
  <2>1. k - 1 \in 0..n OBVIOUS
  <2> QED BY <1>2, <1>7, <2>1
<1> QED BY <1>1, <1>6, <1>8, <1>9 DEF TurnByTurn

--------------------------------------------------------------------------------
(* The size of some of the backups.                                             *)

Histories == Seq([born : Int, size : Nat, locked : BOOLEAN])

\* A history has a length, its places are numbered, and its entries are backups.
LEMMA HistoryFacts ==
    ASSUME NEW es \in Histories
    PROVE  /\ Len(es) \in Nat /\ Places(es) = 1..Len(es)
           /\ OldestFirst(es) = [i \in 1..Len(es) |-> i]
           /\ DOMAIN OldestFirst(es) = 1..Len(es)
           /\ \A i \in 1..Len(es) : /\ es[i].born \in Int /\ es[i].size \in Nat
                                    /\ es[i].locked \in BOOLEAN
<1>1. Len(es) \in Nat BY DEF Histories
<1>2. \A i \in 1..Len(es) : es[i] \in [born : Int, size : Nat, locked : BOOLEAN]
  BY ElementOfSeq DEF Histories
<1> QED BY <1>1, <1>2 DEF Places, OldestFirst

\* The sum, place by place.
Summed(es, P, h) ==
    /\ h \in [0..Len(es) -> Nat] /\ h[0] = 0
    /\ \A k \in 1..Len(es) : h[k] = IF k \in P THEN h[k - 1] + es[k].size ELSE h[k - 1]

\* TotalSize is that sum: the fold of the code, turn by turn.
LEMMA TotalSizeTurns ==
    ASSUME NEW es \in Histories, NEW P
    PROVE  \E h : Summed(es, P, h) /\ TotalSize(es, P) = h[Len(es)]
<1> DEFINE n == Len(es)
           V == [t \in Nat \X (1..n) |-> IF t[2] \in P THEN t[1] + es[t[2]].size ELSE t[1]]
           Iter(g) == [s \in SUBSET (1..n) |->
                          IF s = {} THEN 0
                          ELSE LET i == OldestFirst(es)[Max(s)]
                               IN  IF i \in P THEN g[s \ {Max(s)}] + es[i].size
                                   ELSE g[s \ {Max(s)}]]
           iter == CHOOSE g : g = Iter(g)
<1>1. n \in Nat /\ OldestFirst(es) = [i \in 1..n |-> i] /\ DOMAIN OldestFirst(es) = 1..n
      /\ \A i \in 1..n : es[i].size \in Nat
  BY HistoryFacts
<1>2. TotalSize(es, P) = iter[1..n]
  BY <1>1 DEF TotalSize, FoldLeft, MapThenFoldSet
<1>3. V \in [Nat \X (1..n) -> Nat] BY <1>1
<1>4. PICK g \in [SUBSET (1..n) -> Nat] : g = Turned(n, 0, V, g)
  <2>1. PICK A, zero : A = Nat /\ zero = 0 OBVIOUS
  <2>2. zero \in A /\ n \in Nat /\ V \in Turns(A, n) BY <1>1, <1>3, <2>1 DEF Turns
  <2> HIDE DEF V, n
  <2>3. \E g \in Outcomes(A, n) : g = Turned(n, zero, V, g) BY <2>2, LoopIsDefined, Zenon
  <2> QED BY <2>1, <2>3 DEF Outcomes
<1>5. g = Iter(g)
  <2>1. ASSUME NEW s \in SUBSET (1..n), s # {}
        PROVE  LET i == OldestFirst(es)[Max(s)]
               IN  V[<<g[s \ {Max(s)}], Max(s)>>] = IF i \in P THEN g[s \ {Max(s)}] + es[i].size
                                                   ELSE g[s \ {Max(s)}]
    <3>1. Max(s) \in 1..n BY <1>1, <2>1, MaxIsThere
    <3>2. OldestFirst(es)[Max(s)] = Max(s) BY <1>1, <3>1
    <3>3. g[s \ {Max(s)}] \in Nat OBVIOUS
    <3> QED BY <3>1, <3>2, <3>3
  <2> HIDE DEF V
  <2> QED BY <1>4, <2>1 DEF Turned
<1>6. iter = Iter(iter) BY <1>5
<1> HIDE DEF iter
<1>13. ASSUME NEW s \in SUBSET (1..n), s # {}, NEW i, i = OldestFirst(es)[Max(s)]
       PROVE  iter[s] = IF i \in P THEN iter[s \ {Max(s)}] + es[i].size ELSE iter[s \ {Max(s)}]
  BY <1>6, <1>13
<1>7. iter[{}] = 0
  <2>1. {} \in SUBSET (1..n) OBVIOUS
  <2> QED BY <1>6, <2>1
<1>8. ASSUME NEW s \in SUBSET (1..n), s # {}, iter[s \ {Max(s)}] \in Nat
      PROVE  iter[s] = V[<<iter[s \ {Max(s)}], Max(s)>>]
  <2>1. Max(s) \in 1..n BY <1>1, <1>8, MaxIsThere
  <2>2. OldestFirst(es)[Max(s)] = Max(s) BY <1>1, <2>1
  <2>3. iter[s] = IF Max(s) \in P THEN iter[s \ {Max(s)}] + es[Max(s)].size
                  ELSE iter[s \ {Max(s)}]
    BY <1>13, <1>8, <2>2
  <2> QED BY <1>8, <2>1, <2>3
<1>9. PICK h : TurnByTurn(Nat, 0, n, V, iter, h)
  <2>1. PICK A, zero : A = Nat /\ zero = 0 OBVIOUS
  <2>2. zero \in A /\ n \in Nat /\ V \in Turns(A, n) BY <1>1, <1>3, <2>1 DEF Turns
  <2> HIDE DEF V, n
  <2>3. Loops(A, zero, n, V, iter) BY <1>7, <1>8, <2>1 DEF Loops
  <2>4. \E h : TurnByTurn(A, zero, n, V, iter, h)
    BY <2>2, <2>3, LoopTurns, Zenon
  <2> QED BY <2>1, <2>4
<1>10. ASSUME NEW k \in 1..n
       PROVE  h[k] = IF k \in P THEN h[k - 1] + es[k].size ELSE h[k - 1]
  <2>1. k - 1 \in 0..n BY <1>1
  <2>2. h[k - 1] \in Nat /\ h[k] = V[<<h[k - 1], k>>]
    <3> HIDE DEF V
    <3> QED BY <1>9, <2>1 DEF TurnByTurn
  <2> QED BY <2>2
<1>11. h \in [0..n -> Nat] /\ h[0] = 0 /\ h[n] = iter[1..n] BY <1>9 DEF TurnByTurn
<1> HIDE DEF V
<1> QED BY <1>2, <1>10, <1>11 DEF Summed

\* Fewer backups are no larger.
LEMMA TotalSizeGrows ==
    ASSUME NEW es \in Histories, NEW P, NEW Q, \A k \in Places(es) : k \in P => k \in Q
    PROVE  /\ TotalSize(es, P) \in Nat /\ TotalSize(es, Q) \in Nat
           /\ TotalSize(es, P) <= TotalSize(es, Q)
<1> DEFINE n == Len(es)
<1>1. n \in Nat /\ Places(es) = 1..n /\ \A i \in 1..n : es[i].size \in Nat BY HistoryFacts
<1>2. PICK h : Summed(es, P, h) /\ TotalSize(es, P) = h[n] BY TotalSizeTurns
<1>3. PICK g : Summed(es, Q, g) /\ TotalSize(es, Q) = g[n] BY TotalSizeTurns
<1> DEFINE S == {k \in 0..n : h[k] <= g[k]}
<1>4. 0 \in S BY <1>1, <1>2, <1>3 DEF Summed
<1>5. ASSUME NEW k \in 0..(n - 1), k \in S PROVE k + 1 \in S
  <2>1. k + 1 \in 1..n /\ k + 1 \in 0..n /\ k + 1 - 1 = k /\ k \in 0..n BY <1>1
  <2>2. h[k] \in Nat /\ g[k] \in Nat /\ es[k + 1].size \in Nat BY <1>1, <1>2, <1>3,
     <2>1 DEF Summed
  <2>3. h[k + 1] = IF k + 1 \in P THEN h[k] + es[k + 1].size ELSE h[k]
    BY <1>2, <2>1 DEF Summed
  <2>4. g[k + 1] = IF k + 1 \in Q THEN g[k] + es[k + 1].size ELSE g[k]
    BY <1>3, <2>1 DEF Summed
  <2>5. k + 1 \in P => k + 1 \in Q BY <1>1, <2>1
  <2>6. h[k] <= g[k] BY <1>5
  <2>7. h[k + 1] <= g[k + 1] BY <2>2, <2>3, <2>4, <2>5, <2>6
  <2> QED BY <2>1, <2>7
<1> HIDE DEF S
<1>6. \A k \in 0..n : k \in S BY <1>1, <1>4, <1>5, EveryTurn
<1>7. n \in 0..n BY <1>1
<1>8. h[n] <= g[n] BY <1>6, <1>7 DEF S
<1>9. h[n] \in Nat /\ g[n] \in Nat BY <1>2, <1>3, <1>7 DEF Summed
<1> QED BY <1>2, <1>3, <1>8, <1>9

\* One backup more counts once.
LEMMA TotalSizeWith ==
    ASSUME NEW es \in Histories, NEW P, NEW i \in Places(es), i \notin P
    PROVE  TotalSize(es, P \union {i}) = TotalSize(es, P) + es[i].size
<1> DEFINE n == Len(es)
<1>1. n \in Nat /\ Places(es) = 1..n /\ \A k \in 1..n : es[k].size \in Nat BY HistoryFacts
<1>2. PICK h : Summed(es, P, h) /\ TotalSize(es, P) = h[n] BY TotalSizeTurns
<1>3. PICK g : Summed(es, P \union {i}, g) /\ TotalSize(es, P \union {i}) = g[n]
  BY TotalSizeTurns
<1> DEFINE S == {k \in 0..n : g[k] = IF k < i THEN h[k] ELSE h[k] + es[i].size}
<1>4. 0 \in S BY <1>1, <1>2, <1>3 DEF Summed
<1>5. ASSUME NEW k \in 0..(n - 1), k \in S PROVE k + 1 \in S
  <2>1. k + 1 \in 1..n /\ k + 1 \in 0..n /\ k + 1 - 1 = k /\ k \in 0..n /\ i \in Int BY <1>1
  <2>2. h[k] \in Nat /\ g[k] \in Nat /\ es[k + 1].size \in Nat /\ es[i].size \in Nat
    BY <1>1, <1>2, <1>3, <2>1 DEF Summed
  <2>3. h[k + 1] = IF k + 1 \in P THEN h[k] + es[k + 1].size ELSE h[k]
    BY <1>2, <2>1 DEF Summed
  <2>4. g[k + 1] = IF k + 1 \in P \/ k + 1 = i THEN g[k] + es[k + 1].size ELSE g[k]
    BY <1>3, <2>1 DEF Summed
  <2>5. g[k] = IF k < i THEN h[k] ELSE h[k] + es[i].size BY <1>5
  <2>6. CASE k + 1 = i
    <3>1. g[k + 1] = h[k] + es[k + 1].size /\ h[k + 1] = h[k] BY <2>1, <2>3, <2>4, <2>5, <2>6
    <3> QED BY <2>1, <2>6, <3>1
  <2>7. CASE k + 1 < i
    <3>1. g[k + 1] = h[k + 1] BY <2>1, <2>3, <2>4, <2>5, <2>7
    <3> QED BY <2>1, <2>7, <3>1
  <2>8. CASE k + 1 > i
    <3>1. g[k + 1] = h[k + 1] + es[i].size BY <2>1, <2>2, <2>3, <2>4, <2>5, <2>8
    <3> QED BY <2>1, <2>8, <3>1
  <2> QED BY <2>1, <2>6, <2>7, <2>8
<1> HIDE DEF S
<1>6. \A k \in 0..n : k \in S BY <1>1, <1>4, <1>5, EveryTurn
<1>7. n \in 0..n /\ ~(n < i) BY <1>1
<1>8. g[n] = h[n] + es[i].size BY <1>6, <1>7 DEF S
<1> QED BY <1>2, <1>3, <1>8

\* The sizes of an unfinished history.
LEMMA TotalSizeAppends ==
    ASSUME NEW es \in Histories, NEW e \in [born : Int, size : Nat, locked : BOOLEAN], NEW P
    PROVE  TotalSize(Append(es, e), P)
             = TotalSize(es, P) + IF Len(es) + 1 \in P THEN e.size ELSE 0
<1> DEFINE n == Len(es)
           more == Append(es, e)
<1>1. n \in Nat /\ Places(es) = 1..n /\ \A k \in 1..n : es[k].size \in Nat BY HistoryFacts
<1>2. more \in Histories /\ Len(more) = n + 1 /\ more[n + 1] = e
      /\ \A k \in 1..n : more[k] = es[k]
  BY AppendProperties DEF Histories
<1> HIDE DEF more
<1>3. PICK h : Summed(es, P, h) /\ TotalSize(es, P) = h[n] BY TotalSizeTurns
<1>4. PICK g : Summed(more, P, g) /\ TotalSize(more, P) = g[n + 1] BY <1>2, TotalSizeTurns
<1> DEFINE S == {k \in 0..n : g[k] = h[k]}
<1>5. 0 \in S BY <1>1, <1>3, <1>4 DEF Summed
<1>6. ASSUME NEW k \in 0..(n - 1), k \in S PROVE k + 1 \in S
  <2>1. k + 1 \in 1..n /\ k + 1 \in 1..(n + 1) /\ k + 1 \in 0..n /\ k + 1 - 1 = k BY <1>1
  <2>2. h[k + 1] = IF k + 1 \in P THEN h[k] + es[k + 1].size ELSE h[k]
    BY <1>3, <2>1 DEF Summed
  <2>3. g[k + 1] = IF k + 1 \in P THEN g[k] + more[k + 1].size ELSE g[k]
    BY <1>2, <1>4, <2>1 DEF Summed
  <2>4. g[k] = h[k] /\ more[k + 1] = es[k + 1] BY <1>2, <1>6, <2>1
  <2> QED BY <2>1, <2>2, <2>3, <2>4
<1> HIDE DEF S
<1>7. \A k \in 0..n : k \in S BY <1>1, <1>5, <1>6, EveryTurn
<1>8. g[n] = h[n] /\ h[n] \in Nat
  <2>1. n \in 0..n BY <1>1
  <2> QED BY <1>3, <1>7, <2>1 DEF S, Summed
<1>9. g[n + 1] = IF n + 1 \in P THEN g[n] + e.size ELSE g[n]
  <2>1. n + 1 \in 1..(n + 1) /\ n + 1 - 1 = n BY <1>1
  <2> QED BY <1>2, <1>4, <2>1 DEF Summed
<1>10. e.size \in Nat OBVIOUS
<1> QED BY <1>3, <1>4, <1>8, <1>9, <1>10 DEF more

--------------------------------------------------------------------------------
(* Smart thinning: from the newest place to the oldest.                         *)

\* The passes that go from the newest backup see place n + 1 - i in turn i.
LEMMA NewestOrder ==
    ASSUME NEW es \in Histories
    PROVE  /\ DOMAIN NewestFirst(es) = 1..Len(es)
           /\ \A k \in 1..Len(es) : /\ NewestFirst(es)[k] = Len(es) - k + 1
                                    /\ Len(es) - k + 1 \in 1..Len(es)
<1>1. Len(es) \in Nat /\ OldestFirst(es) = [i \in 1..Len(es) |-> i] BY HistoryFacts
<1>2. Len(OldestFirst(es)) = Len(es) BY <1>1
<1>3. NewestFirst(es) = [k \in 1..Len(es) |-> OldestFirst(es)[(Len(es) - k) + 1]]
  BY <1>2 DEF NewestFirst, Reverse
<1>4. \A k \in 1..Len(es) : Len(es) - k + 1 \in 1..Len(es) BY <1>1
<1> QED BY <1>1, <1>3, <1>4

Spot(es, now, i) == Bucket(es[i].born, now)

ThinVisit(es, now, acc, i) ==
    IF i \in acc.doomed \/ Spot(es, now, i) = Everything THEN acc
    ELSE IF Spot(es, now, i) \notin acc.seen
    THEN [acc EXCEPT !.seen = @ \union {Spot(es, now, i)}]
    ELSE IF es[i].locked THEN acc
    ELSE [acc EXCEPT !.doomed = @ \union {i}]

Thinnings(es, now) == [seen : SUBSET {Spot(es, now, i) : i \in Places(es)},
                       doomed : SUBSET Places(es)]

\* One visit of the thinning pass keeps its accumulator one.
LEMMA ThinVisitIsTyped ==
    ASSUME NEW es \in Histories, NEW now, NEW acc \in Thinnings(es, now), NEW i \in Places(es)
    PROVE  ThinVisit(es, now, acc, i) \in Thinnings(es, now)
BY DEF ThinVisit, Thinnings

ThinTurns(es, now, gone, h) ==
    /\ h \in [0..Len(es) -> Thinnings(es, now)] /\ h[0] = [seen |-> {}, doomed |-> gone]
    /\ \A k \in 1..Len(es) : h[k] = ThinVisit(es, now, h[k - 1], Len(es) - k + 1)

\* SmartThinning is the last of its visits.
LEMMA ThinningTurns ==
    ASSUME NEW es \in Histories, NEW now, NEW caps, caps.smart, NEW gone \in SUBSET Places(es)
    PROVE  \E h : ThinTurns(es, now, gone, h)
                  /\ SmartThinning(es, now, caps, gone) = h[Len(es)].doomed
<1> DEFINE n == Len(es)
           A == Thinnings(es, now)
           base == [seen |-> {}, doomed |-> gone]
           V == [t \in A \X (1..n) |-> ThinVisit(es, now, t[1], n - t[2] + 1)]
           Iter(g) == [s \in SUBSET (1..n) |->
                          IF s = {} THEN base
                          ELSE ThinVisit(es, now, g[s \ {Max(s)}], NewestFirst(es)[Max(s)])]
           iter == CHOOSE g : g = Iter(g)
<1>1. /\ n \in Nat /\ Places(es) = 1..n /\ DOMAIN NewestFirst(es) = 1..n
      /\ \A k \in 1..n : NewestFirst(es)[k] = n - k + 1 /\ n - k + 1 \in 1..n
  BY HistoryFacts, NewestOrder
<1>2. SmartThinning(es, now, caps, gone) = iter[1..n].doomed
  BY <1>1 DEF SmartThinning, FoldLeft, MapThenFoldSet, ThinVisit, Spot
<1>3. V \in [A \X (1..n) -> A] BY <1>1, ThinVisitIsTyped
<1>4. base \in A BY DEF Thinnings
<1> HIDE DEF A, base
<1>5. PICK g : g \in [SUBSET (1..n) -> A] /\ g = Turned(n, base, V, g)
  <2>1. n \in Nat /\ V \in Turns(A, n) BY <1>1, <1>3 DEF Turns
  <2> HIDE DEF V, n
  <2>2. \E g \in Outcomes(A, n) : g = Turned(n, base, V, g) BY <1>4, <2>1, LoopIsDefined, Zenon
  <2> QED BY <2>2 DEF Outcomes
<1>6. g = Iter(g)
  <2>1. ASSUME NEW s \in SUBSET (1..n), s # {}
        PROVE  V[<<g[s \ {Max(s)}], Max(s)>>]
                 = ThinVisit(es, now, g[s \ {Max(s)}], NewestFirst(es)[Max(s)])
    <3>1. Max(s) \in 1..n BY <1>1, <2>1, MaxIsThere
    <3>2. NewestFirst(es)[Max(s)] = n - Max(s) + 1 BY <1>1, <3>1
    <3>3. g[s \ {Max(s)}] \in A BY <1>5
    <3> QED BY <3>1, <3>2, <3>3
  <2> HIDE DEF V
  <2> QED BY <1>5, <2>1 DEF Turned
<1>7. iter = Iter(iter) BY <1>6
<1> HIDE DEF iter
<1>8. Loops(A, base, n, V, iter)
  <2>1. iter[{}] = base
    <3>1. {} \in SUBSET (1..n) OBVIOUS
    <3> QED BY <1>7, <3>1
  <2>2. ASSUME NEW s \in SUBSET (1..n), s # {}, iter[s \ {Max(s)}] \in A
        PROVE  iter[s] = V[<<iter[s \ {Max(s)}], Max(s)>>]
    <3>1. Max(s) \in 1..n BY <1>1, <2>2, MaxIsThere
    <3>2. NewestFirst(es)[Max(s)] = n - Max(s) + 1 BY <1>1, <3>1
    <3>3. iter[s] = ThinVisit(es, now, iter[s \ {Max(s)}], n - Max(s) + 1)
      BY <1>7, <2>2, <3>2
    <3> QED BY <2>2, <3>1, <3>3
  <2> QED BY <2>1, <2>2 DEF Loops
<1>9. PICK h : TurnByTurn(A, base, n, V, iter, h)
  <2>1. n \in Nat /\ V \in Turns(A, n) BY <1>1, <1>3 DEF Turns
  <2> HIDE DEF V, n
  <2> QED BY <1>4, <1>8, <2>1, LoopTurns, Zenon
<1>10. ASSUME NEW k \in 1..n PROVE h[k] = ThinVisit(es, now, h[k - 1], n - k + 1)
  <2>1. k - 1 \in 0..n BY <1>1
  <2>2. h[k - 1] \in A /\ h[k] = V[<<h[k - 1], k>>]
    <3> HIDE DEF V
    <3> QED BY <1>9, <2>1 DEF TurnByTurn
  <2> QED BY <2>2
<1> HIDE DEF V
<1>11. h \in [0..n -> A] /\ h[0] = base /\ h[n] = iter[1..n] BY <1>9 DEF TurnByTurn
<1> QED BY <1>2, <1>10, <1>11 DEF ThinTurns, A, base

\* The backups that share a bucket with a newer one that stays.
Crowded(es, now, gone) ==
    {i \in Places(es) : /\ ~es[i].locked /\ i \notin gone /\ Spot(es, now, i) # Everything
                        /\ \E j \in Places(es) : /\ j > i /\ j \notin gone
                                                 /\ Spot(es, now, j) = Spot(es, now, i)}

SeenFrom(es, now, gone, m) ==
    {Spot(es, now, j) : j \in {i \in Places(es) : /\ i > m /\ i \notin gone
                                                  /\ Spot(es, now, i) # Everything}}

\* It dooms whatever shares its bucket with a newer backup that stays.
LEMMA ThinningIs ==
    ASSUME NEW es \in Histories, NEW now, NEW caps, caps.smart, NEW gone \in SUBSET Places(es)
    PROVE  SmartThinning(es, now, caps, gone) = gone \union Crowded(es, now, gone)
<1> DEFINE n == Len(es)
           C == Crowded(es, now, gone)
<1>1. n \in Nat /\ Places(es) = 1..n /\ \A i \in 1..n : es[i].locked \in BOOLEAN
  BY HistoryFacts
<1>2. PICK h : ThinTurns(es, now, gone, h)
               /\ SmartThinning(es, now, caps, gone) = h[n].doomed
  BY ThinningTurns
<1> DEFINE S == {k \in 0..n : /\ h[k].doomed = gone \union {i \in C : i > n - k}
                              /\ h[k].seen = SeenFrom(es, now, gone, n - k)}
<1>3. 0 \in S
  <2>1. h[0].doomed = gone /\ h[0].seen = {} BY <1>2 DEF ThinTurns
  <2>2. {i \in C : i > n} = {} BY <1>1 DEF Crowded
  <2>3. SeenFrom(es, now, gone, n) = {} BY <1>1 DEF SeenFrom
  <2>4. n - 0 = n /\ 0 \in 0..n BY <1>1
  <2> HIDE DEF C, n
  <2> QED BY <2>1, <2>2, <2>3, <2>4
<1>4. ASSUME NEW k \in 0..(n - 1), k \in S PROVE k + 1 \in S
  <2>1. PICK i : i = n - k OBVIOUS
  <2>2. /\ k + 1 \in 1..n /\ k + 1 \in 0..n /\ k + 1 - 1 = k /\ k \in 0..n
        /\ n - (k + 1) + 1 = i /\ n - (k + 1) = i - 1 /\ i \in 1..n
    BY <1>1, <2>1
  <2>3. h[k + 1] = ThinVisit(es, now, h[k], i)
    <3>1. h[k + 1] = ThinVisit(es, now, h[k + 1 - 1], n - (k + 1) + 1) BY <1>2,
       <2>2 DEF ThinTurns
    <3> QED BY <2>2, <3>1
  <2>4. PICK acc \in Thinnings(es, now) : acc = h[k] BY <1>2, <2>2 DEF ThinTurns
  <2>5. /\ acc.doomed = gone \union {j \in C : j > i}
        /\ acc.seen = SeenFrom(es, now, gone, i)
    BY <1>4, <2>1, <2>4
  <2>6. C \subseteq 1..n BY <1>1 DEF Crowded
  <2>7. i \in acc.doomed <=> i \in gone BY <2>2, <2>5, <2>6
  <2>8. Spot(es, now, i) \in acc.seen <=>
            \E j \in Places(es) : /\ j > i /\ j \notin gone /\ Spot(es, now, j) # Everything
                                  /\ Spot(es, now, j) = Spot(es, now, i)
    BY <2>5 DEF SeenFrom
  <2>9. i \in C <=> /\ ~es[i].locked /\ i \notin gone /\ Spot(es, now, i) # Everything
                    /\ Spot(es, now, i) \in acc.seen
    BY <1>1, <2>2, <2>8 DEF Crowded
  <2>10. {j \in C : j > i - 1} = {j \in C : j > i} \union (IF i \in C THEN {i} ELSE {})
    BY <2>2, <2>6
  <2>11. SeenFrom(es, now, gone, i - 1) =
             acc.seen \union (IF i \notin gone /\ Spot(es, now, i) # Everything
                              THEN {Spot(es, now, i)} ELSE {})
    <3>1. \A j \in 1..n : j > i - 1 <=> j > i \/ j = i BY <2>2
    <3> QED BY <1>1, <2>2, <2>5, <3>1 DEF SeenFrom
  <2>12. acc = [seen |-> acc.seen, doomed |-> acc.doomed] BY <2>4 DEF Thinnings
  <2> HIDE DEF C, n
  <2>13. /\ ThinVisit(es, now, acc, i).doomed = gone \union {j \in C : j > i - 1}
         /\ ThinVisit(es, now, acc, i).seen = SeenFrom(es, now, gone, i - 1)
    <3>1. CASE i \in acc.doomed \/ Spot(es, now, i) = Everything
      <4>1. ThinVisit(es, now, acc, i) = acc BY <3>1 DEF ThinVisit
      <4>2. i \notin C BY <2>7, <2>9, <3>1
      <4> QED BY <2>5, <2>7, <2>10, <2>11, <3>1, <4>1, <4>2
    <3>2. CASE /\ ~(i \in acc.doomed \/ Spot(es, now, i) = Everything)
               /\ Spot(es, now, i) \notin acc.seen
      <4>1. ThinVisit(es, now, acc, i) =
                [seen |-> acc.seen \union {Spot(es, now, i)}, doomed |-> acc.doomed]
        BY <2>12, <3>2 DEF ThinVisit
      <4>2. i \notin C BY <2>9, <3>2
      <4> QED BY <2>5, <2>7, <2>10, <2>11, <3>2, <4>1, <4>2
    <3>3. CASE /\ ~(i \in acc.doomed \/ Spot(es, now, i) = Everything)
               /\ Spot(es, now, i) \in acc.seen /\ es[i].locked
      <4>1. ThinVisit(es, now, acc, i) = acc BY <3>3 DEF ThinVisit
      <4>2. i \notin C BY <2>9, <3>3
      <4> QED BY <2>5, <2>7, <2>10, <2>11, <3>3, <4>1, <4>2
    <3>4. CASE /\ ~(i \in acc.doomed \/ Spot(es, now, i) = Everything)
               /\ Spot(es, now, i) \in acc.seen /\ ~es[i].locked
      <4>1. ThinVisit(es, now, acc, i) = [seen |-> acc.seen, doomed |-> acc.doomed \union {i}]
        BY <2>12, <3>4 DEF ThinVisit
      <4>2. i \in C BY <2>7, <2>9, <3>4
      <4> QED BY <2>5, <2>7, <2>10, <2>11, <3>4, <4>1, <4>2
    <3> QED BY <3>1, <3>2, <3>3, <3>4
  <2> QED BY <2>2, <2>3, <2>4, <2>13
<1> HIDE DEF S
<1>5. \A k \in 0..n : k \in S BY <1>1, <1>3, <1>4, EveryTurn
<1>6. n \in 0..n BY <1>1
<1>7. h[n].doomed = gone \union {i \in C : i > n - n} BY <1>5, <1>6 DEF S
<1>8. {i \in C : i > n - n} = C BY <1>1 DEF Crowded
<1> QED BY <1>2, <1>7, <1>8
--------------------------------------------------------------------------------
(* The count cap: from the newest place to the oldest.                          *)

CountVisit(es, caps, acc, i) ==
    IF i \in acc.doomed THEN acc
    ELSE IF ~es[i].locked /\ acc.kept >= caps.maxCount
    THEN [acc EXCEPT !.doomed = @ \union {i}]
    ELSE [acc EXCEPT !.kept = @ + 1]

Counts(es) == [kept : Nat, doomed : SUBSET Places(es)]

\* One visit of the count pass keeps its accumulator one.
LEMMA CountVisitIsTyped ==
    ASSUME NEW es \in Histories, NEW caps, NEW acc \in Counts(es), NEW i \in Places(es)
    PROVE  CountVisit(es, caps, acc, i) \in Counts(es)
BY DEF CountVisit, Counts

CountsDown(es, caps, gone, h) ==
    /\ h \in [0..Len(es) -> Counts(es)] /\ h[0] = [kept |-> 0, doomed |-> gone]
    /\ \A k \in 1..Len(es) : h[k] = CountVisit(es, caps, h[k - 1], Len(es) - k + 1)

\* CountCap is the last of its visits.
LEMMA CountTurns ==
    ASSUME NEW es \in Histories, NEW caps, caps.maxCount \in Nat \ {0}, NEW gone \in SUBSET Places(es)
    PROVE  \E h : CountsDown(es, caps, gone, h)
                  /\ CountCap(es, caps, gone) = h[Len(es)].doomed
<1> DEFINE n == Len(es)
           A == Counts(es)
           base == [kept |-> 0, doomed |-> gone]
           V == [t \in A \X (1..n) |-> CountVisit(es, caps, t[1], n - t[2] + 1)]
           Iter(g) == [s \in SUBSET (1..n) |->
                          IF s = {} THEN base
                          ELSE CountVisit(es, caps, g[s \ {Max(s)}], NewestFirst(es)[Max(s)])]
           iter == CHOOSE g : g = Iter(g)
<1>1. /\ n \in Nat /\ Places(es) = 1..n /\ DOMAIN NewestFirst(es) = 1..n
      /\ \A k \in 1..n : NewestFirst(es)[k] = n - k + 1 /\ n - k + 1 \in 1..n
  BY HistoryFacts, NewestOrder
<1>2. CountCap(es, caps, gone) = iter[1..n].doomed
  BY <1>1 DEF CountCap, FoldLeft, MapThenFoldSet, CountVisit
<1>3. V \in [A \X (1..n) -> A] BY <1>1, CountVisitIsTyped
<1>4. base \in A BY DEF Counts
<1> HIDE DEF A, base
<1>5. PICK g : g \in [SUBSET (1..n) -> A] /\ g = Turned(n, base, V, g)
  <2>1. n \in Nat /\ V \in Turns(A, n) BY <1>1, <1>3 DEF Turns
  <2> HIDE DEF V, n
  <2>2. \E g \in Outcomes(A, n) : g = Turned(n, base, V, g) BY <1>4, <2>1, LoopIsDefined, Zenon
  <2> QED BY <2>2 DEF Outcomes
<1>6. g = Iter(g)
  <2>1. ASSUME NEW s \in SUBSET (1..n), s # {}
        PROVE  V[<<g[s \ {Max(s)}], Max(s)>>]
                 = CountVisit(es, caps, g[s \ {Max(s)}], NewestFirst(es)[Max(s)])
    <3>1. Max(s) \in 1..n BY <1>1, <2>1, MaxIsThere
    <3>2. NewestFirst(es)[Max(s)] = n - Max(s) + 1 BY <1>1, <3>1
    <3>3. g[s \ {Max(s)}] \in A BY <1>5
    <3> QED BY <3>1, <3>2, <3>3
  <2> HIDE DEF V
  <2> QED BY <1>5, <2>1 DEF Turned
<1>7. iter = Iter(iter) BY <1>6
<1> HIDE DEF iter
<1>8. Loops(A, base, n, V, iter)
  <2>1. iter[{}] = base
    <3>1. {} \in SUBSET (1..n) OBVIOUS
    <3> QED BY <1>7, <3>1
  <2>2. ASSUME NEW s \in SUBSET (1..n), s # {}, iter[s \ {Max(s)}] \in A
        PROVE  iter[s] = V[<<iter[s \ {Max(s)}], Max(s)>>]
    <3>1. Max(s) \in 1..n BY <1>1, <2>2, MaxIsThere
    <3>2. NewestFirst(es)[Max(s)] = n - Max(s) + 1 BY <1>1, <3>1
    <3>3. iter[s] = CountVisit(es, caps, iter[s \ {Max(s)}], n - Max(s) + 1)
      BY <1>7, <2>2, <3>2
    <3> QED BY <2>2, <3>1, <3>3
  <2> QED BY <2>1, <2>2 DEF Loops
<1>9. PICK h : TurnByTurn(A, base, n, V, iter, h)
  <2>1. n \in Nat /\ V \in Turns(A, n) BY <1>1, <1>3 DEF Turns
  <2> HIDE DEF V, n
  <2> QED BY <1>4, <1>8, <2>1, LoopTurns, Zenon
<1>10. ASSUME NEW k \in 1..n PROVE h[k] = CountVisit(es, caps, h[k - 1], n - k + 1)
  <2>1. k - 1 \in 0..n BY <1>1
  <2>2. h[k - 1] \in A /\ h[k] = V[<<h[k - 1], k>>]
    <3> HIDE DEF V
    <3> QED BY <1>9, <2>1 DEF TurnByTurn
  <2> QED BY <2>2
<1> HIDE DEF V
<1>11. h \in [0..n -> A] /\ h[0] = base /\ h[n] = iter[1..n] BY <1>9 DEF TurnByTurn
<1> QED BY <1>2, <1>10, <1>11 DEF CountsDown, A, base

--------------------------------------------------------------------------------
(* The storage limit: from the oldest place to the newest.                      *)

StorageVisit(es, caps, gone, acc, i) ==
    IF acc.size <= caps.limit \/ es[i].locked \/ i \in gone THEN acc
    ELSE [size |-> acc.size - es[i].size, doomed |-> acc.doomed \union {i}]

Sizings(es) == [size : Int, doomed : SUBSET Places(es)]

\* One visit of the storage pass keeps its accumulator one.
LEMMA StorageVisitIsTyped ==
    ASSUME NEW es \in Histories, NEW caps, NEW gone, NEW acc \in Sizings(es),
           NEW i \in Places(es)
    PROVE  StorageVisit(es, caps, gone, acc, i) \in Sizings(es)
BY HistoryFacts DEF StorageVisit, Sizings

StoresUp(es, caps, gone, h) ==
    /\ h \in [0..Len(es) -> Sizings(es)]
    /\ h[0] = [size |-> TotalSize(es, Places(es) \ gone), doomed |-> gone]
    /\ \A k \in 1..Len(es) : h[k] = StorageVisit(es, caps, gone, h[k - 1], k)

\* StorageCap is the last of its visits.
LEMMA StorageTurns ==
    ASSUME NEW es \in Histories, NEW caps, caps.limit \in Nat, NEW gone \in SUBSET Places(es)
    PROVE  \E h : StoresUp(es, caps, gone, h)
                  /\ StorageCap(es, caps, gone) = h[Len(es)]
<1> DEFINE n == Len(es)
           A == Sizings(es)
           base == [size |-> TotalSize(es, Places(es) \ gone), doomed |-> gone]
           V == [t \in A \X (1..n) |-> StorageVisit(es, caps, gone, t[1], t[2])]
           Iter(g) == [s \in SUBSET (1..n) |->
                          IF s = {} THEN base
                          ELSE StorageVisit(es, caps, gone, g[s \ {Max(s)}], OldestFirst(es)[Max(s)])]
           iter == CHOOSE g : g = Iter(g)
<1>1. /\ n \in Nat /\ Places(es) = 1..n /\ DOMAIN OldestFirst(es) = 1..n
      /\ \A k \in 1..n : OldestFirst(es)[k] = k
  BY HistoryFacts
<1>2. StorageCap(es, caps, gone) = iter[1..n]
  BY <1>1 DEF StorageCap, FoldLeft, MapThenFoldSet, StorageVisit
<1>3. V \in [A \X (1..n) -> A] BY <1>1, StorageVisitIsTyped
<1>4. base \in A BY TotalSizeGrows DEF Sizings
<1> HIDE DEF A, base
<1>5. PICK g : g \in [SUBSET (1..n) -> A] /\ g = Turned(n, base, V, g)
  <2>1. n \in Nat /\ V \in Turns(A, n) BY <1>1, <1>3 DEF Turns
  <2> HIDE DEF V, n
  <2>2. \E g \in Outcomes(A, n) : g = Turned(n, base, V, g) BY <1>4, <2>1, LoopIsDefined, Zenon
  <2> QED BY <2>2 DEF Outcomes
<1>6. g = Iter(g)
  <2>1. ASSUME NEW s \in SUBSET (1..n), s # {}
        PROVE  V[<<g[s \ {Max(s)}], Max(s)>>]
                 = StorageVisit(es, caps, gone, g[s \ {Max(s)}], OldestFirst(es)[Max(s)])
    <3>1. Max(s) \in 1..n BY <1>1, <2>1, MaxIsThere
    <3>2. OldestFirst(es)[Max(s)] = Max(s) BY <1>1, <3>1
    <3>3. g[s \ {Max(s)}] \in A BY <1>5
    <3> QED BY <3>1, <3>2, <3>3
  <2> HIDE DEF V
  <2> QED BY <1>5, <2>1 DEF Turned
<1>7. iter = Iter(iter) BY <1>6
<1> HIDE DEF iter
<1>8. Loops(A, base, n, V, iter)
  <2>1. iter[{}] = base
    <3>1. {} \in SUBSET (1..n) OBVIOUS
    <3> QED BY <1>7, <3>1
  <2>2. ASSUME NEW s \in SUBSET (1..n), s # {}, iter[s \ {Max(s)}] \in A
        PROVE  iter[s] = V[<<iter[s \ {Max(s)}], Max(s)>>]
    <3>1. Max(s) \in 1..n BY <1>1, <2>2, MaxIsThere
    <3>2. OldestFirst(es)[Max(s)] = Max(s) BY <1>1, <3>1
    <3>3. iter[s] = StorageVisit(es, caps, gone, iter[s \ {Max(s)}], Max(s))
      BY <1>7, <2>2, <3>2
    <3> QED BY <2>2, <3>1, <3>3
  <2> QED BY <2>1, <2>2 DEF Loops
<1>9. PICK h : TurnByTurn(A, base, n, V, iter, h)
  <2>1. n \in Nat /\ V \in Turns(A, n) BY <1>1, <1>3 DEF Turns
  <2> HIDE DEF V, n
  <2> QED BY <1>4, <1>8, <2>1, LoopTurns, Zenon
<1>10. ASSUME NEW k \in 1..n PROVE h[k] = StorageVisit(es, caps, gone, h[k - 1], k)
  <2>1. k - 1 \in 0..n BY <1>1
  <2>2. h[k - 1] \in A /\ h[k] = V[<<h[k - 1], k>>]
    <3> HIDE DEF V
    <3> QED BY <1>9, <2>1 DEF TurnByTurn
  <2> QED BY <2>2
<1> HIDE DEF V
<1>11. h \in [0..n -> A] /\ h[0] = base /\ h[n] = iter[1..n] BY <1>9 DEF TurnByTurn
<1> QED BY <1>2, <1>10, <1>11 DEF StoresUp, A, base


NewerStaying(es, gone, i) == {j \in Places(es) : j > i /\ j \notin gone}

\* The backups beyond the newest maxCount that stay.
Beyond(es, caps, gone) ==
    {i \in Places(es) : /\ ~es[i].locked /\ i \notin gone
                        /\ Cardinality(NewerStaying(es, gone, i)) >= caps.maxCount}

\* A backup that stays is one more in front of those that are older.
LEMMA StayingFacts ==
    ASSUME NEW es \in Histories, NEW gone, NEW i \in Places(es)
    PROVE  /\ Cardinality(NewerStaying(es, gone, i)) \in Nat
           /\ Cardinality(NewerStaying(es, gone, i - 1)) =
                  Cardinality(NewerStaying(es, gone, i)) + IF i \in gone THEN 0 ELSE 1
<1> DEFINE N == NewerStaying(es, gone, i)
<1>1. Len(es) \in Nat /\ Places(es) = 1..Len(es) BY HistoryFacts
<1>2. IsFiniteSet(1..Len(es)) BY <1>1, FS_Interval
<1>3. IsFiniteSet(N) /\ Cardinality(N) \in Nat
  BY <1>1, <1>2, FS_Subset, FS_CardinalityType DEF NewerStaying
<1>4. CASE i \in gone
  <2>1. NewerStaying(es, gone, i - 1) = N BY <1>1, <1>4 DEF NewerStaying
  <2> QED BY <1>3, <1>4, <2>1
<1>5. CASE i \notin gone
  <2>1. NewerStaying(es, gone, i - 1) = N \union {i} BY <1>1, <1>5 DEF NewerStaying
  <2>2. i \notin N BY <1>1 DEF NewerStaying
  <2>3. Cardinality(N \union {i}) = Cardinality(N) + 1 BY <1>3, <2>2, FS_AddElement
  <2> QED BY <1>3, <1>5, <2>1, <2>3
<1> QED BY <1>4, <1>5

\* It dooms what has the cap or more newer backups that stay.
LEMMA CountingIs ==
    ASSUME NEW es \in Histories, NEW caps, caps.maxCount \in Nat \ {0},
           NEW gone \in SUBSET Places(es)
    PROVE  CountCap(es, caps, gone) = gone \union Beyond(es, caps, gone)
<1> DEFINE n == Len(es)
           B == Beyond(es, caps, gone)
           max == caps.maxCount
           c(m) == Cardinality(NewerStaying(es, gone, m))
<1>1. n \in Nat /\ Places(es) = 1..n /\ \A i \in 1..n : es[i].locked \in BOOLEAN
  BY HistoryFacts
<1>2. PICK h : CountsDown(es, caps, gone, h) /\ CountCap(es, caps, gone) = h[n].doomed
  BY CountTurns
<1> DEFINE S == {k \in 0..n : /\ h[k].doomed = gone \union {i \in B : i > n - k}
                              /\ c(n - k) \in Nat
                              /\ h[k].kept <= c(n - k)
                              /\ h[k].kept < max => h[k].kept = c(n - k)}
<1>3. 0 \in S
  <2>1. h[0].doomed = gone /\ h[0].kept = 0 BY <1>2 DEF CountsDown
  <2>2. {i \in B : i > n} = {} BY <1>1 DEF Beyond
  <2>3. NewerStaying(es, gone, n) = {} BY <1>1 DEF NewerStaying
  <2>4. c(n) = 0 BY <2>3, FS_EmptySet
  <2>5. n - 0 = n /\ 0 \in 0..n BY <1>1
  <2> HIDE DEF B, n, c
  <2> QED BY <2>1, <2>2, <2>4, <2>5
<1>4. ASSUME NEW k \in 0..(n - 1), k \in S PROVE k + 1 \in S
  <2>1. PICK i : i = n - k OBVIOUS
  <2>2. /\ k + 1 \in 1..n /\ k + 1 \in 0..n /\ k + 1 - 1 = k /\ k \in 0..n
        /\ n - (k + 1) + 1 = i /\ n - (k + 1) = i - 1 /\ i \in 1..n
    BY <1>1, <2>1
  <2>3. h[k + 1] = CountVisit(es, caps, h[k], i)
    <3>1. h[k + 1] = CountVisit(es, caps, h[k + 1 - 1], n - (k + 1) + 1)
      BY <1>2, <2>2 DEF CountsDown
    <3> QED BY <2>2, <3>1
  <2>4. PICK acc \in Counts(es) : acc = h[k] BY <1>2, <2>2 DEF CountsDown
  <2>5. /\ acc.doomed = gone \union {j \in B : j > i}
        /\ c(i) \in Nat /\ acc.kept <= c(i)
        /\ acc.kept < max => acc.kept = c(i)
    BY <1>4, <2>1, <2>4
  <2>6. B \subseteq 1..n BY <1>1 DEF Beyond
  <2>7. i \in acc.doomed <=> i \in gone BY <2>2, <2>5, <2>6
  <2>8. c(i) \in Nat /\ c(i - 1) = c(i) + IF i \in gone THEN 0 ELSE 1
    BY <1>1, <2>2, StayingFacts
  <2>9. i \in B <=> ~es[i].locked /\ i \notin gone /\ c(i) >= max
    BY <1>1, <2>2 DEF Beyond
  <2>10. {j \in B : j > i - 1} = {j \in B : j > i} \union (IF i \in B THEN {i} ELSE {})
    BY <2>2, <2>6
  <2>11. acc = [kept |-> acc.kept, doomed |-> acc.doomed] /\ acc.kept \in Nat /\ max \in Nat
    BY <2>4 DEF Counts
  <2> HIDE DEF B, n, c
  <2>12. c(i) >= max <=> acc.kept >= max BY <2>5, <2>11
  <2>13. /\ CountVisit(es, caps, acc, i).doomed = gone \union {j \in B : j > i - 1}
         /\ c(i - 1) \in Nat
         /\ CountVisit(es, caps, acc, i).kept <= c(i - 1)
         /\ CountVisit(es, caps, acc, i).kept < max =>
                CountVisit(es, caps, acc, i).kept = c(i - 1)
    <3>1. CASE i \in acc.doomed
      <4>1. CountVisit(es, caps, acc, i) = acc BY <3>1 DEF CountVisit
      <4>2. i \notin B BY <2>7, <2>9, <3>1
      <4> QED BY <2>5, <2>7, <2>8, <2>10, <3>1, <4>1, <4>2
    <3>2. CASE i \notin acc.doomed /\ ~es[i].locked /\ acc.kept >= max
      <4>1. CountVisit(es, caps, acc, i) = [kept |-> acc.kept, doomed |-> acc.doomed \union {i}]
        BY <2>11, <3>2 DEF CountVisit
      <4>2. i \in B BY <2>7, <2>9, <2>12, <3>2
      <4>3. CountVisit(es, caps, acc, i).kept = acc.kept BY <4>1
      <4>4. CountVisit(es, caps, acc, i).doomed = gone \union {j \in B : j > i - 1}
        BY <2>5, <2>10, <4>1, <4>2
      <4>5. c(i - 1) = c(i) + 1 BY <2>7, <2>8, <3>2
      <4> QED BY <2>5, <2>11, <3>2, <4>3, <4>4, <4>5
    <3>3. CASE i \notin acc.doomed /\ ~(~es[i].locked /\ acc.kept >= max)
      <4>1. CountVisit(es, caps, acc, i) = [kept |-> acc.kept + 1, doomed |-> acc.doomed]
        BY <2>11, <3>3 DEF CountVisit
      <4>2. i \notin B BY <2>7, <2>9, <2>12, <3>3
      <4>3. CountVisit(es, caps, acc, i).kept = acc.kept + 1 BY <4>1
      <4>4. CountVisit(es, caps, acc, i).doomed = gone \union {j \in B : j > i - 1}
        BY <2>5, <2>10, <4>1, <4>2
      <4>5. c(i - 1) = c(i) + 1 BY <2>7, <2>8, <3>3
      <4> QED BY <2>5, <2>11, <3>3, <4>3, <4>4, <4>5
    <3> QED BY <3>1, <3>2, <3>3
  <2> QED BY <2>2, <2>3, <2>4, <2>13
<1> HIDE DEF S
<1>5. \A k \in 0..n : k \in S BY <1>1, <1>3, <1>4, EveryTurn
<1>6. n \in 0..n BY <1>1
<1>7. h[n].doomed = gone \union {i \in B : i > n - n} BY <1>5, <1>6 DEF S
<1>8. {i \in B : i > n - n} = B BY <1>1 DEF Beyond
<1> QED BY <1>2, <1>7, <1>8

\* The oldest that the limit has no room for.
Surplus(es, caps, gone) ==
    {i \in Places(es) :
        /\ ~es[i].locked /\ i \notin gone
        /\ TotalSize(es, Places(es) \ (gone \union {j \in Places(es) : ~es[j].locked /\ j < i}))
               > caps.limit}

\* It dooms, oldest first, what the limit has no room for; and where the rest is still
\* beyond the limit, all that is not locked.
LEMMA StoringIs ==
    ASSUME NEW es \in Histories, NEW caps, caps.limit \in Nat, NEW gone \in SUBSET Places(es)
    PROVE  LET O == Surplus(es, caps, gone)
               r == StorageCap(es, caps, gone)
           IN  /\ r.doomed = gone \union O
               /\ r.size = TotalSize(es, Places(es) \ (gone \union O))
               /\ r.size > caps.limit =>
                      O = {i \in Places(es) : ~es[i].locked /\ i \notin gone}
<1> DEFINE n == Len(es)
           O == Surplus(es, caps, gone)
           Size(P) == TotalSize(es, Places(es) \ P)
           Older(m) == {j \in Places(es) : ~es[j].locked /\ j < m}
<1>1. n \in Nat /\ Places(es) = 1..n
      /\ \A i \in 1..n : es[i].locked \in BOOLEAN /\ es[i].size \in Nat
  BY HistoryFacts
<1>2. PICK h : StoresUp(es, caps, gone, h) /\ StorageCap(es, caps, gone) = h[n]
  BY StorageTurns
<1> DEFINE S == {k \in 0..n : /\ h[k].doomed = gone \union {i \in O : i <= k}
                              /\ h[k].size = Size(h[k].doomed)
                              /\ h[k].size > caps.limit =>
                                     h[k].doomed = gone \union Older(k + 1)}
<1>3. 0 \in S
  <2>1. h[0].doomed = gone /\ h[0].size = Size(gone) BY <1>2 DEF StoresUp
  <2>2. {i \in O : i <= 0} = {} BY <1>1 DEF Surplus
  <2>3. Older(0 + 1) = {} BY <1>1
  <2>4. 0 \in 0..n BY <1>1
  <2> HIDE DEF O, n, Size, Older
  <2> QED BY <2>1, <2>2, <2>3, <2>4
<1>4. ASSUME NEW k \in 0..(n - 1), k \in S PROVE k + 1 \in S
  <2>1. PICK i : i = k + 1 OBVIOUS
  <2>2. i \in 1..n /\ i \in 0..n /\ i - 1 = k /\ k \in 0..n /\ i \in Int BY <1>1, <2>1
  <2>3. h[i] = StorageVisit(es, caps, gone, h[k], i) BY <1>2, <2>2 DEF StoresUp
  <2>4. PICK acc \in Sizings(es) : acc = h[k] BY <1>2, <2>2 DEF StoresUp
  <2>5. /\ acc.doomed = gone \union {j \in O : j <= k}
        /\ acc.size = Size(acc.doomed)
        /\ acc.size > caps.limit => acc.doomed = gone \union Older(i)
    BY <1>4, <2>1, <2>4
  <2>6. O \subseteq 1..n /\ \A j \in O : ~es[j].locked /\ j \notin gone
    BY <1>1 DEF Surplus
  <2>7. i \in acc.doomed <=> i \in gone BY <2>2, <2>5, <2>6
  <2>8. i \in O <=> ~es[i].locked /\ i \notin gone /\ Size(gone \union Older(i)) > caps.limit
    BY <1>1, <2>2 DEF Surplus
  <2>9. {j \in O : j <= i} = {j \in O : j <= k} \union (IF i \in O THEN {i} ELSE {})
    BY <2>2, <2>6
  <2>10. Older(i + 1) = Older(i) \union (IF es[i].locked THEN {} ELSE {i}) BY <1>1, <2>2
  <2>11. acc = [size |-> acc.size, doomed |-> acc.doomed] /\ acc.size \in Int
         /\ acc.doomed \in SUBSET Places(es)
    BY <2>4 DEF Sizings
  <2>12. acc.size <= caps.limit => ~(Size(gone \union Older(i)) > caps.limit)
    <3>1. acc.doomed \subseteq gone \union Older(i) BY <1>1, <2>2, <2>5, <2>6
    <3>2. PICK P, Q : /\ P = Places(es) \ (gone \union Older(i))
                      /\ Q = Places(es) \ acc.doomed
      OBVIOUS
    <3>3. \A j \in Places(es) : j \in P => j \in Q BY <3>1, <3>2
    <3>4. /\ TotalSize(es, P) \in Nat /\ TotalSize(es, Q) \in Nat
          /\ TotalSize(es, P) <= TotalSize(es, Q)
      BY <3>3, TotalSizeGrows
    <3>5. TotalSize(es, P) = Size(gone \union Older(i)) /\ TotalSize(es, Q) = acc.size
      BY <2>5, <3>2
    <3> HIDE DEF Size, Older
    <3> QED BY <3>4, <3>5
  <2>13. i \notin acc.doomed => Size(acc.doomed \union {i}) = acc.size - es[i].size
    <3> SUFFICES ASSUME i \notin acc.doomed
                 PROVE  Size(acc.doomed \union {i}) = acc.size - es[i].size
      OBVIOUS
    <3>1. PICK P : P = Places(es) \ (acc.doomed \union {i}) OBVIOUS
    <3>2. i \in Places(es) /\ i \notin P /\ Places(es) \ acc.doomed = P \union {i}
      BY <1>1, <2>2, <3>1
    <3>3. TotalSize(es, P \union {i}) = TotalSize(es, P) + es[i].size BY <3>2, TotalSizeWith
    <3>4. TotalSize(es, P) \in Nat BY TotalSizeGrows
    <3>5. TotalSize(es, P) = Size(acc.doomed \union {i}) BY <3>1
    <3>6. TotalSize(es, P \union {i}) = acc.size BY <2>5, <3>2
    <3>7. es[i].size \in Nat BY <1>1, <2>2
    <3> HIDE DEF Size
    <3> QED BY <3>3, <3>4, <3>5, <3>6, <3>7
  <2> HIDE DEF O, n, Size, Older
  <2>14. PICK new : new = StorageVisit(es, caps, gone, acc, i) OBVIOUS
  <2>15. /\ new.doomed = gone \union {j \in O : j <= i}
         /\ new.size = Size(new.doomed)
         /\ new.size > caps.limit => new.doomed = gone \union Older(i + 1)
    <3>1. CASE acc.size <= caps.limit \/ es[i].locked \/ i \in gone
      <4>1. new = acc BY <2>14, <3>1 DEF StorageVisit
      <4>2. i \notin O BY <2>8, <2>12, <3>1
      <4>3. new.size > caps.limit => es[i].locked \/ i \in gone BY <2>11, <3>1, <4>1
      <4> QED BY <2>5, <2>9, <2>10, <4>1, <4>2, <4>3
    <3>2. CASE ~(acc.size <= caps.limit \/ es[i].locked \/ i \in gone)
      <4>1. new = [size |-> acc.size - es[i].size, doomed |-> acc.doomed \union {i}]
        BY <2>14, <3>2 DEF StorageVisit
      <4>2. acc.size > caps.limit BY <2>11, <3>2
      <4>3. acc.doomed = gone \union Older(i) BY <2>5, <4>2
      <4>4. i \in O BY <2>5, <2>8, <3>2, <4>2, <4>3
      <4>5. new.size = Size(new.doomed) BY <2>7, <2>13, <3>2, <4>1
      <4> QED BY <2>5, <2>9, <2>10, <3>2, <4>1, <4>3, <4>4, <4>5
    <3> QED BY <3>1, <3>2
  <2> QED BY <2>1, <2>2, <2>3, <2>4, <2>14, <2>15
<1> HIDE DEF S
<1>5. \A k \in 0..n : k \in S BY <1>1, <1>3, <1>4, EveryTurn
<1>6. n \in 0..n BY <1>1
<1>7. /\ h[n].doomed = gone \union {i \in O : i <= n}
      /\ h[n].size = Size(h[n].doomed)
      /\ h[n].size > caps.limit => h[n].doomed = gone \union Older(n + 1)
  BY <1>5, <1>6 DEF S
<1>8. {i \in O : i <= n} = O /\ O \intersect gone = {} BY <1>1 DEF Surplus
<1>9. Older(n + 1) = {j \in Places(es) : ~es[j].locked} BY <1>1
<1>10. h[n].size > caps.limit => O = {i \in Places(es) : ~es[i].locked /\ i \notin gone}
  <2>1. \A i \in O : i \in Places(es) /\ ~es[i].locked /\ i \notin gone BY DEF Surplus
  <2> HIDE DEF O, Older
  <2> QED BY <1>7, <1>8, <1>9, <2>1
<1> HIDE DEF O, n, Size, Older
<1>11. h[n].doomed = gone \union O BY <1>7, <1>8
<1>12. h[n].size = Size(gone \union O) BY <1>7, <1>11
<1> QED BY <1>2, <1>10, <1>11, <1>12 DEF O, n, Size

--------------------------------------------------------------------------------
(* The pass as a whole.                                                         *)

RetentionSettings == [smart : BOOLEAN, maxCount : Nat, maxAgeDays : Nat, limit : Nat]

UnlockedPlaces(es) == {i \in Places(es) : ~es[i].locked}

\* What the first two passes and the first three delete, without their loops.
AfterThinning(es, now, caps) ==
    LET aged == AgeCap(es, now, caps)
    IN  aged \union (IF caps.smart THEN Crowded(es, now, aged) ELSE {})
AfterCount(es, now, caps) ==
    LET thinned == AfterThinning(es, now, caps)
    IN  thinned \union (IF caps.maxCount > 0 THEN Beyond(es, caps, thinned) ELSE {})

\* No pass dooms a locked backup.
LEMMA PassesSpareTheLocked ==
    ASSUME NEW es \in Histories, NEW now, NEW caps
    PROVE  /\ AgeCap(es, now, caps) \subseteq UnlockedPlaces(es)
           /\ AfterThinning(es, now, caps) \subseteq UnlockedPlaces(es)
           /\ AfterCount(es, now, caps) \subseteq UnlockedPlaces(es)
           /\ \A g : Surplus(es, caps, g) \subseteq UnlockedPlaces(es)
<1>1. AgeCap(es, now, caps) \subseteq UnlockedPlaces(es) BY DEF AgeCap, UnlockedPlaces
<1>2. \A g : /\ Crowded(es, now, g) \subseteq UnlockedPlaces(es)
             /\ Beyond(es, caps, g) \subseteq UnlockedPlaces(es)
             /\ Surplus(es, caps, g) \subseteq UnlockedPlaces(es)
  BY DEF Crowded, Beyond, Surplus, UnlockedPlaces
<1>3. AfterThinning(es, now, caps) \subseteq UnlockedPlaces(es)
  BY <1>1, <1>2 DEF AfterThinning
<1>4. AfterCount(es, now, caps) \subseteq UnlockedPlaces(es)
  BY <1>2, <1>3 DEF AfterCount
<1> QED BY <1>1, <1>2, <1>3, <1>4

\* A pass refuses exactly when the locked backups alone exceed the limit, and deletes
\* otherwise what its four caps say.
LEMMA RetentionIs ==
    ASSUME NEW es \in Histories, NEW now, NEW caps \in RetentionSettings
    PROVE  LET c == AfterCount(es, now, caps)
           IN  Retention(es, now, caps) =
                 IF TotalSize(es, Places(es) \ UnlockedPlaces(es)) > caps.limit
                 THEN [refused |-> TRUE, doomed |-> {}]
                 ELSE [refused |-> FALSE, doomed |-> c \union Surplus(es, caps, c)]
<1> DEFINE aged == AgeCap(es, now, caps)
           t == AfterThinning(es, now, caps)
           c == AfterCount(es, now, caps)
           O == Surplus(es, caps, c)
           stored == StorageCap(es, caps, c)
<1>1. caps.smart \in BOOLEAN /\ caps.maxCount \in Nat /\ caps.limit \in Nat
  BY DEF RetentionSettings
<1>2. /\ aged \subseteq UnlockedPlaces(es) /\ t \subseteq UnlockedPlaces(es)
      /\ c \subseteq UnlockedPlaces(es) /\ O \subseteq UnlockedPlaces(es)
  BY PassesSpareTheLocked
<1>3. UnlockedPlaces(es) \subseteq Places(es) BY DEF UnlockedPlaces
<1>4. SmartThinning(es, now, caps, aged) = t
  <2>1. CASE caps.smart
    <3>1. aged \in SUBSET Places(es) BY <1>2, <1>3
    <3>2. SmartThinning(es, now, caps, aged) = aged \union Crowded(es, now, aged)
      BY <2>1, <3>1, ThinningIs
    <3> QED BY <2>1, <3>2 DEF AfterThinning
  <2>2. CASE ~caps.smart BY <2>2 DEF SmartThinning, AfterThinning
  <2> QED BY <2>1, <2>2
<1>5. CountCap(es, caps, t) = c
  <2>1. CASE caps.maxCount > 0
    <3>1. t \in SUBSET Places(es) /\ caps.maxCount \in Nat \ {0} BY <1>1, <1>2, <1>3, <2>1
    <3>2. CountCap(es, caps, t) = t \union Beyond(es, caps, t) BY <3>1, CountingIs
    <3> QED BY <2>1, <3>2 DEF AfterCount
  <2>2. CASE ~(caps.maxCount > 0) BY <2>2 DEF CountCap, AfterCount
  <2> QED BY <2>1, <2>2
<1>6. Retention(es, now, caps) = IF stored.size > caps.limit
                                 THEN [refused |-> TRUE, doomed |-> {}]
                                 ELSE [refused |-> FALSE, doomed |-> stored.doomed]
  BY <1>4, <1>5 DEF Retention
<1>7. /\ stored.doomed = c \union O
      /\ stored.size = TotalSize(es, Places(es) \ (c \union O))
      /\ stored.size > caps.limit =>
             O = {i \in Places(es) : ~es[i].locked /\ i \notin c}
  <2>1. c \in SUBSET Places(es) BY <1>2, <1>3
  <2> QED BY <1>1, <2>1, StoringIs
<1> HIDE DEF aged, t, c, O, stored
<1>8. /\ TotalSize(es, Places(es) \ UnlockedPlaces(es)) \in Nat /\ stored.size \in Nat
      /\ TotalSize(es, Places(es) \ UnlockedPlaces(es)) <= stored.size
  <2>1. PICK P, Q : P = Places(es) \ UnlockedPlaces(es) /\ Q = Places(es) \ (c \union O) OBVIOUS
  <2>2. \A k \in Places(es) : k \in P => k \in Q BY <1>2, <2>1
  <2>3. /\ TotalSize(es, P) \in Nat /\ TotalSize(es, Q) \in Nat
        /\ TotalSize(es, P) <= TotalSize(es, Q)
    BY <2>2, TotalSizeGrows
  <2> QED BY <1>7, <2>1, <2>3
<1>9. stored.size > caps.limit =>
          stored.size = TotalSize(es, Places(es) \ UnlockedPlaces(es))
  <2> SUFFICES ASSUME stored.size > caps.limit
               PROVE  Places(es) \ (c \union O) = Places(es) \ UnlockedPlaces(es)
    BY <1>7
  <2>1. c \union O = UnlockedPlaces(es) BY <1>2, <1>7 DEF UnlockedPlaces
  <2> QED BY <2>1
<1>10. stored.size > caps.limit <=> TotalSize(es, Places(es) \ UnlockedPlaces(es)) > caps.limit
  BY <1>1, <1>8, <1>9
<1> QED BY <1>6, <1>7, <1>10 DEF c, O

\* Nor do the four together.
LEMMA RetentionSparesTheLocked ==
    ASSUME NEW es \in Histories, NEW now, NEW caps \in RetentionSettings
    PROVE  Retention(es, now, caps).doomed \subseteq UnlockedPlaces(es)
<1>1. PICK c, O : c = AfterCount(es, now, caps) /\ O = Surplus(es, caps, c) OBVIOUS
<1>2. c \subseteq UnlockedPlaces(es) /\ O \subseteq UnlockedPlaces(es)
  BY <1>1, PassesSpareTheLocked
<1>3. \/ Retention(es, now, caps) = [refused |-> TRUE, doomed |-> {}]
      \/ Retention(es, now, caps) = [refused |-> FALSE, doomed |-> c \union O]
  BY <1>1, RetentionIs
<1> QED BY <1>2, <1>3

\* A snapshot that was let in, protected by the pass that follows it, is no reason to
\* refuse.
LEMMA FittingIsNotRefused ==
    ASSUME NEW es \in Histories, NEW now \in Int, NEW caps \in RetentionSettings,
           NEW size \in Nat, BackupFits(es, size, caps)
    PROVE  ~Retention(Append(es, [born |-> now, size |-> size, locked |-> TRUE]),
                      now, caps).refused
<1>1. PICK e \in [born : Int, size : Nat, locked : BOOLEAN] :
          e = [born |-> now, size |-> size, locked |-> TRUE]
  OBVIOUS
<1>2. PICK more : more = Append(es, e) OBVIOUS
<1>3. Len(es) \in Nat /\ Places(es) = 1..Len(es) BY HistoryFacts
<1>4. more \in Histories /\ Len(more) = Len(es) + 1 /\ more[Len(es) + 1] = e
      /\ \A k \in 1..Len(es) : more[k] = es[k]
  BY <1>2, <1>3, AppendProperties DEF Histories
<1>5. Places(more) = 1..(Len(es) + 1) BY <1>4 DEF Places
<1>6. PICK P : P = Places(more) \ UnlockedPlaces(more) OBVIOUS
<1>7. PICK Q : Q = {i \in Places(es) : es[i].locked} OBVIOUS
<1>8. \A k \in Places(es) : k \in P <=> k \in Q
  <2>1. \A k \in Places(es) : k \in Places(more) /\ more[k] = es[k] BY <1>3, <1>4, <1>5
  <2> QED BY <1>6, <1>7, <2>1 DEF UnlockedPlaces
<1>9. /\ TotalSize(es, P) \in Nat /\ TotalSize(es, Q) \in Nat
      /\ TotalSize(es, P) <= TotalSize(es, Q)
  BY <1>8, TotalSizeGrows
<1>10. TotalSize(more, P) = TotalSize(es, P) + IF Len(es) + 1 \in P THEN e.size ELSE 0
  BY <1>2, TotalSizeAppends
<1>11. caps.limit \in Nat /\ TotalSize(es, Q) + size <= caps.limit
  BY <1>7 DEF BackupFits, RetentionSettings
<1>12. e.size = size BY <1>1
<1>13. ~(TotalSize(more, P) > caps.limit) BY <1>9, <1>10, <1>11, <1>12
<1>14. ~Retention(more, now, caps).refused BY <1>4, <1>6, <1>13, RetentionIs
<1> QED BY <1>1, <1>2, <1>14

--------------------------------------------------------------------------------
(* The directory in the order of its snapshots.                                 *)

\* What InOrder says: a sequence of the members of s, each once, from the smallest up.
Ordered(s, places) ==
    /\ Len(places) = Cardinality(s) /\ DOMAIN places = 1..Len(places)
    /\ \A i \in 1..Len(places) : places[i] \in s
    /\ \A b \in s : \E i \in 1..Len(places) : places[i] = b
    /\ \A i, j \in 1..Len(places) : i < j => places[i] < places[j]

\* InOrder lists a finite set of numbers in ascending order.
LEMMA InOrderIsOrdered ==
    ASSUME NEW s \in SUBSET Nat, IsFiniteSet(s)
    PROVE  Ordered(s, InOrder(s)) /\ Cardinality(s) \in Nat
<1> DEFINE n == Cardinality(s)
           Below(b) == {a \in s : a < b}
           rank == [b \in s |-> Cardinality(Below(b))]
<1>1. n \in Nat /\ IsFiniteSet(s) /\ \A b \in s : b \in Nat BY FS_CardinalityType
<1>2. ASSUME NEW b \in s
      PROVE  /\ IsFiniteSet(Below(b)) /\ rank[b] = Cardinality(Below(b))
             /\ rank[b] \in 0..(n - 1)
  <2>1. Below(b) \in SUBSET s /\ b \notin Below(b) BY <1>1
  <2>2. IsFiniteSet(Below(b)) /\ Cardinality(Below(b)) <= n
        /\ (n = Cardinality(Below(b)) => s = Below(b))
    <3>1. PICK B : B = Below(b) OBVIOUS
    <3>2. B \in SUBSET s BY <2>1, <3>1
    <3>3. IsFiniteSet(B) /\ Cardinality(B) <= Cardinality(s)
          /\ (Cardinality(s) = Cardinality(B) => s = B)
      BY <1>1, <3>2, FS_Subset
    <3> QED BY <3>1, <3>3
  <2>3. Cardinality(Below(b)) \in Nat /\ Cardinality(Below(b)) # n
    BY <2>1, <2>2, FS_CardinalityType
  <2>4. rank[b] = Cardinality(Below(b)) OBVIOUS
  <2> HIDE DEF rank, Below, n
  <2> QED BY <1>1, <2>2, <2>3, <2>4
<1>3. ASSUME NEW a \in s, NEW b \in s, a < b PROVE rank[a] < rank[b]
  <2>1. Below(a) \union {a} \in SUBSET Below(b) /\ a \notin Below(a)
    <3>1. /\ a \in Nat /\ b \in Nat
          /\ \A x \in s : x \in Nat /\ (x < a => x < b) /\ ~(a < a) BY <1>1, <1>3
    <3>2. \A x \in Below(a) : x \in Below(b) BY <3>1
    <3>3. a \in Below(b) /\ a \notin Below(a) BY <1>3, <3>1
    <3> HIDE DEF Below
    <3> QED BY <3>2, <3>3
  <2>2. Cardinality(Below(a) \union {a}) = Cardinality(Below(a)) + 1
    BY <1>2, <2>1, FS_AddElement
  <2>3. Cardinality(Below(a) \union {a}) <= Cardinality(Below(b)) BY <1>2, <2>1, FS_Subset
  <2>4. /\ rank[a] = Cardinality(Below(a)) /\ rank[a] \in 0..(n - 1)
        /\ rank[b] = Cardinality(Below(b)) /\ rank[b] \in 0..(n - 1)
    BY <1>2
  <2> HIDE DEF rank, Below
  <2> QED BY <1>1, <2>2, <2>3, <2>4
<1>4. \A a, b \in s : rank[a] = rank[b] => a = b
  <2> SUFFICES ASSUME NEW a \in s, NEW b \in s, a # b PROVE rank[a] # rank[b] OBVIOUS
  <2>1. a < b \/ b < a BY <1>1
  <2>2. rank[a] \in 0..(n - 1) /\ rank[b] \in 0..(n - 1) BY <1>2
  <2>3. rank[a] < rank[b] \/ rank[b] < rank[a] BY <1>3, <2>1
  <2> HIDE DEF rank, n
  <2> QED BY <1>1, <2>2, <2>3
<1>5. \A k \in 0..(n - 1) : \E b \in s : rank[b] = k
  <2>1. rank = [b \in s |-> rank[b]] OBVIOUS
  <2>2. IsFiniteSet(0..(n - 1)) /\ Cardinality(0..(n - 1)) = n
    <3> HIDE DEF n
    <3>1. 0 \in Int /\ n - 1 \in Int BY <1>1
    <3> QED BY <1>1, <3>1, FS_Interval
  <2> HIDE DEF rank
  <2>3. rank \in [s -> 0..(n - 1)] BY <1>2, <2>1
  <2>4. rank \in Injection(s, 0..(n - 1)) BY <1>4, <2>3 DEF Injection, IsInjective
  <2>5. rank \in Surjection(s, 0..(n - 1)) BY <2>2, <2>4, FS_Injection
  <2> QED BY <2>5 DEF Surjection
<1> DEFINE places == InOrder(s)
<1>6. /\ DOMAIN places = 1..n
      /\ \A i \in 1..n : places[i] = CHOOSE b \in s : Cardinality(Below(b)) = i - 1
  BY DEF InOrder
<1>7. Len(places) = n
  <2> HIDE DEF places, n
  <2> QED BY <1>1, <1>6
<1>8. ASSUME NEW i \in 1..n PROVE places[i] \in s /\ rank[places[i]] = i - 1
  <2>1. i - 1 \in 0..(n - 1) BY <1>1
  <2>2. PICK b \in s : rank[b] = i - 1 BY <1>5, <2>1
  <2>3. Cardinality(Below(b)) = i - 1 BY <1>2, <2>2
  <2>4. places[i] \in s /\ Cardinality(Below(places[i])) = i - 1
    <3> HIDE DEF places, Below
    <3> QED BY <1>6, <2>3
  <2> QED BY <1>2, <2>4
<1> HIDE DEF places, rank, Below, n
<1>9. ASSUME NEW b \in s PROVE \E i \in 1..n : places[i] = b
  <2>1. PICK i \in 1..n : i - 1 = rank[b]
    <3>1. rank[b] \in 0..(n - 1) BY <1>2
    <3>2. rank[b] + 1 \in 1..n /\ rank[b] + 1 - 1 = rank[b] BY <1>1, <3>1
    <3> QED BY <3>1, <3>2
  <2>2. places[i] \in s /\ rank[places[i]] = rank[b] BY <1>8, <2>1
  <2>3. places[i] = b BY <1>4, <2>2
  <2> QED BY <2>3
<1>10. ASSUME NEW i \in 1..n, NEW j \in 1..n, i < j PROVE places[i] < places[j]
  <2>1. places[i] \in s /\ rank[places[i]] = i - 1 BY <1>8
  <2>2. places[j] \in s /\ rank[places[j]] = j - 1 BY <1>8
  <2>3. places[i] \in Nat /\ places[j] \in Nat BY <1>1, <2>1, <2>2
  <2>4. places[i] # places[j] BY <1>1, <1>10, <2>1, <2>2
  <2>5. CASE places[j] < places[i]
    <3>1. rank[places[j]] < rank[places[i]] BY <1>3, <2>1, <2>2, <2>5
    <3> QED BY <1>1, <1>10, <2>1, <2>2, <3>1
  <2> QED BY <2>3, <2>4, <2>5
<1> QED BY <1>1, <1>6, <1>7, <1>8, <1>9, <1>10 DEF Ordered, places, n

--------------------------------------------------------------------------------
(* The policy by itself: MCRetention says each cap without a loop.              *)

\* MCRetention's operators are those of RetentionPolicy.
LEMMA PolicyIsTheSame ==
    ASSUME NEW es, NEW now, NEW caps
    PROVE  /\ Policy!Retention(es, now, caps) = Retention(es, now, caps)
           /\ \A P : Policy!TotalSize(es, P) = TotalSize(es, P)
           /\ \A size : Policy!BackupFits(es, size, caps) <=> BackupFits(es, size, caps)
<1>1. \A P : Policy!TotalSize(es, P) = TotalSize(es, P)
  BY DEF Policy!TotalSize, TotalSize, Policy!FoldLeft, FoldLeft, Policy!MapThenFoldSet,
         MapThenFoldSet, Policy!Max, Max, Policy!OldestFirst, OldestFirst, Policy!Places, Places
<1>2. \A g : Policy!SmartThinning(es, now, caps, g) = SmartThinning(es, now, caps, g)
  BY DEF Policy!SmartThinning, SmartThinning, Policy!FoldLeft, FoldLeft, Policy!MapThenFoldSet,
         MapThenFoldSet, Policy!Max, Max, Policy!OldestFirst, OldestFirst, Policy!Places, Places,
         Policy!NewestFirst, NewestFirst, Policy!Reverse, Reverse, Policy!Bucket, Bucket,
         Policy!Everything, Everything, Policy!KeepAllHours, KeepAllHours, Policy!DailyDays,
         DailyDays, Policy!WeeklyDays, WeeklyDays
<1>3. \A g : Policy!CountCap(es, caps, g) = CountCap(es, caps, g)
  BY DEF Policy!CountCap, CountCap, Policy!FoldLeft, FoldLeft, Policy!MapThenFoldSet,
         MapThenFoldSet, Policy!Max, Max, Policy!OldestFirst, OldestFirst, Policy!Places, Places,
         Policy!NewestFirst, NewestFirst, Policy!Reverse, Reverse
<1>4. \A g : Policy!StorageCap(es, caps, g) = StorageCap(es, caps, g)
  BY DEF Policy!StorageCap, StorageCap, Policy!TotalSize, TotalSize, Policy!FoldLeft, FoldLeft,
         Policy!MapThenFoldSet, MapThenFoldSet, Policy!Max, Max, Policy!OldestFirst, OldestFirst,
         Policy!Places, Places
<1>5. Policy!AgeCap(es, now, caps) = AgeCap(es, now, caps)
  BY DEF Policy!AgeCap, AgeCap, Policy!Places, Places
<1>6. Policy!Retention(es, now, caps) = Retention(es, now, caps)
  BY <1>2, <1>3, <1>4, <1>5, Zenon DEF Policy!Retention, Retention
<1>7. \A size : Policy!BackupFits(es, size, caps) <=> BackupFits(es, size, caps)
  BY <1>1, Zenon DEF Policy!BackupFits, BackupFits, Policy!Places, Places
<1> QED BY <1>1, <1>6, <1>7

PolicyInv ==
    /\ backups \in Seq([born : Births, size : Sizes, locked : BOOLEAN])
    /\ conf \in Policy!Settings

\* Its histories and settings are such as the lemmas speak of.
LEMMA PolicyTyped ==
    ASSUME PolicyInv
    PROVE  backups \in Histories /\ conf \in RetentionSettings
<1>1. [born : Births, size : Sizes, locked : BOOLEAN]
        \subseteq [born : Int, size : Nat, locked : BOOLEAN]
  BY PolicyAssumption
<1>2. Seq([born : Births, size : Sizes, locked : BOOLEAN])
        \subseteq Seq([born : Int, size : Nat, locked : BOOLEAN])
  <2>1. PICK A, B : /\ A = [born : Births, size : Sizes, locked : BOOLEAN]
                    /\ B = [born : Int, size : Nat, locked : BOOLEAN]
    OBVIOUS
  <2>2. A \subseteq B BY <1>1, <2>1
  <2>3. ASSUME NEW s \in Seq(A) PROVE s \in Seq(B)
    <3>1. Len(s) \in Nat /\ s \in [1..Len(s) -> A] BY LenProperties
    <3>2. s \in [1..Len(s) -> B] BY <2>2, <3>1
    <3> QED BY <3>1, <3>2, SeqDef
  <2> QED BY <2>1, <2>3
<1>3. conf \in RetentionSettings
  BY PolicyAssumption DEF PolicyInv, Policy!Settings, RetentionSettings
<1> QED BY <1>2, <1>3 DEF PolicyInv, Histories

\* What MCRetention says of each cap is what the passes leave.
LEMMA CapsAreSaid ==
    ASSUME PolicyInv
    PROVE  /\ Policy!Capped = AfterCount(backups, Now, conf)
           /\ Policy!Overflow = Surplus(backups, conf, Policy!Capped)
           /\ Policy!Unlocked = UnlockedPlaces(backups)
           /\ Policy!Places(backups) = Places(backups)
<1> DEFINE es == backups
           aged == AgeCap(es, Now, conf)
           t == AfterThinning(es, Now, conf)
<1>1. es \in Histories /\ conf \in RetentionSettings BY PolicyTyped
<1>2. /\ Places(es) = 1..Len(es) /\ Len(es) \in Nat
      /\ \A i \in Places(es) : es[i].born \in Int /\ es[i].locked \in BOOLEAN
  BY <1>1, HistoryFacts
<1>3. /\ conf.smart \in BOOLEAN /\ conf.maxCount \in Nat /\ conf.maxAgeDays \in Nat
      /\ conf.limit \in Nat /\ Now \in Int
  BY <1>1, PolicyAssumption DEF RetentionSettings
<1>4. Policy!Places(es) = Places(es) BY DEF Policy!Places, Places
<1>5. Policy!Unlocked = UnlockedPlaces(es) BY <1>4 DEF Policy!Unlocked, UnlockedPlaces
<1>6. Policy!TooOld = aged
  <2>1. \A a, b, d \in Int : a - b > d <=> b < a - d OBVIOUS
  <2>2. 24 * conf.maxAgeDays \in Int BY <1>3
  <2>3. \A i \in Places(es) : Now - es[i].born > 24 * conf.maxAgeDays
                                <=> es[i].born < Now - 24 * conf.maxAgeDays
    BY <1>2, <1>3, <2>1, <2>2, Zenon
  <2> QED BY <1>5, <2>3 DEF Policy!TooOld, AgeCap, UnlockedPlaces
<1>7. \A i \in Places(es) : Policy!Bucket(es[i].born, Now) = Spot(es, Now, i)
  BY DEF Spot, Policy!Bucket, Bucket, Policy!Everything, Everything, Policy!KeepAllHours,
         KeepAllHours, Policy!DailyDays, DailyDays, Policy!WeeklyDays, WeeklyDays
<1>8. Policy!Everything = Everything BY DEF Policy!Everything, Everything
<1>9. Policy!TooOld \union Policy!Thinned = t
  <2>1. CASE conf.smart
    <3>1. aged \union Policy!Thinned = aged \union Crowded(es, Now, aged)
      <4>1. \A i : i \in Policy!Thinned /\ i \notin aged <=> i \in Crowded(es, Now, aged)
        BY <1>4, <1>5, <1>6, <1>7, <1>8, <2>1
           DEF Policy!Thinned, Policy!Newer, Crowded, UnlockedPlaces
      <4> HIDE DEF aged
      <4> QED BY <4>1
    <3> QED BY <1>6, <2>1, <3>1 DEF AfterThinning
  <2>2. CASE ~conf.smart BY <1>6, <2>2 DEF Policy!Thinned, AfterThinning
  <2> QED BY <2>1, <2>2
<1>10. \A P : Policy!Cardinality(P) = Cardinality(P) BY DEF Policy!Cardinality, Cardinality
<1>11. \A i \in Places(es) :
          Policy!Newer(i) \ (Policy!TooOld \union Policy!Thinned) = NewerStaying(es, t, i)
  <2>1. \A i, j : j \in Policy!Newer(i) \ (Policy!TooOld \union Policy!Thinned)
                    <=> j \in NewerStaying(es, t, i)
    BY <1>4, <1>9 DEF Policy!Newer, NewerStaying
  <2> HIDE DEF t
  <2> QED BY <2>1
<1>12. Policy!Capped = AfterCount(es, Now, conf)
  <2>1. CASE conf.maxCount > 0
    <3>1. \A i : i \in Policy!Uncounted /\ i \notin t <=> i \in Beyond(es, conf, t)
      BY <1>5, <1>10, <1>11, <2>1 DEF Policy!Uncounted, Beyond, UnlockedPlaces
    <3>2. t \union Policy!Uncounted = t \union Beyond(es, conf, t)
      <4> HIDE DEF t
      <4> QED BY <3>1
    <3> QED BY <1>9, <2>1, <3>2 DEF Policy!Capped, AfterCount
  <2>2. CASE ~(conf.maxCount > 0)
    <3>1. Policy!Uncounted = {} BY <2>2 DEF Policy!Uncounted
    <3> QED BY <1>9, <2>2, <3>1 DEF Policy!Capped, AfterCount
  <2> QED BY <2>1, <2>2
<1>13. Policy!Overflow = Surplus(es, conf, Policy!Capped)
  <2>1. PICK c : c = Policy!Capped OBVIOUS
  <2>2. Policy!Unlocked \subseteq Places(es) BY <1>5 DEF UnlockedPlaces
  <2>3. ASSUME NEW i \in Places(es)
        PROVE  Policy!Places(es) \ (c \union {j \in Policy!Unlocked \ c : j < i})
                 = Places(es) \ (c \union {j \in Places(es) : ~es[j].locked /\ j < i})
    BY <1>4, <1>5 DEF UnlockedPlaces
  <2>4. \A P : Policy!TotalSize(es, P) = TotalSize(es, P) BY PolicyIsTheSame
  <2>5. \A i : i \in Policy!Overflow <=> i \in Surplus(es, conf, c)
    BY <1>5, <2>1, <2>3, <2>4 DEF Policy!Overflow, Surplus, UnlockedPlaces
  <2>6. PICK A, B : A = Policy!Overflow /\ B = Surplus(es, conf, c) OBVIOUS
  <2>7. A = B
    <3>1. A \subseteq Places(es) /\ B \subseteq Places(es)
      BY <2>2, <2>6 DEF Policy!Overflow, Surplus
    <3> QED BY <2>5, <2>6, <3>1
  <2> QED BY <2>1, <2>6, <2>7
<1> QED BY <1>4, <1>5, <1>12, <1>13

\* So the passes delete what the settings say, and keep what was let in.
LEMMA PolicyHolds == ASSUME PolicyInv PROVE RetentionDoesWhatItSays
<1>1. backups \in Histories /\ conf \in RetentionSettings BY PolicyTyped
<1>2. PICK c, O : c = AfterCount(backups, Now, conf) /\ O = Surplus(backups, conf, c) OBVIOUS
<1>3. Policy!Capped = c /\ Policy!Overflow = O BY <1>2, CapsAreSaid
<1>4. PICK P : P = Places(backups) \ UnlockedPlaces(backups) OBVIOUS
<1>5. Policy!Places(backups) \ Policy!Unlocked = P BY <1>4, CapsAreSaid
<1>6. Policy!TotalSize(backups, P) = TotalSize(backups, P) BY PolicyIsTheSame
<1>7. Retention(backups, Now, conf) =
        IF TotalSize(backups, P) > conf.limit
        THEN [refused |-> TRUE, doomed |-> {}]
        ELSE [refused |-> FALSE, doomed |-> c \union O]
  BY <1>1, <1>2, <1>4, RetentionIs
<1>8. Policy!Result = Retention(backups, Now, conf) BY PolicyIsTheSame DEF Policy!Result
<1>9. Policy!DeletesWhatSettingsSay
  BY <1>3, <1>5, <1>6, <1>7, <1>8 DEF Policy!DeletesWhatSettingsSay
<1>10. ASSUME NEW size \in Sizes, Policy!BackupFits(backups, size, conf)
       PROVE  ~Policy!Retention(Append(backups, [born |-> Now, size |-> size, locked |-> TRUE]),
                                Now, conf).refused
  <2>1. size \in Nat /\ Now \in Int BY PolicyAssumption
  <2>2. BackupFits(backups, size, conf) BY <1>10, PolicyIsTheSame
  <2>3. PICK more : more = Append(backups, [born |-> Now, size |-> size, locked |-> TRUE])
    OBVIOUS
  <2>4. ~Retention(more, Now, conf).refused BY <1>1, <2>1, <2>2, <2>3, FittingIsNotRefused
  <2>5. Policy!Retention(more, Now, conf) = Retention(more, Now, conf) BY PolicyIsTheSame
  <2> QED BY <2>3, <2>4, <2>5
<1>11. Policy!FittingSnapshotIsKept BY <1>10 DEF Policy!FittingSnapshotIsKept
<1> QED BY <1>9, <1>11 DEF RetentionDoesWhatItSays

\* Whatever the history of a server's backups, its settings and the hour: the four
\* loops of enforce_backup_retention delete what the settings say and nothing else,
\* refuse only where the locked backups alone exceed the limit, and do not throw out
\* again the snapshot ensure_backup_fits let in.
THEOREM RetentionKeepsItsWord == StoreSpec => []RetentionDoesWhatItSays
<1>1. StoreInit => PolicyInv
  BY DEF StoreInit, Policy!Init, PolicyInv
<1>2. PolicyInv /\ [StoreNext]_<<part, vars, policyVars>> => PolicyInv'
  <2> SUFFICES ASSUME PolicyInv, [StoreNext]_<<part, vars, policyVars>> PROVE PolicyInv'
    OBVIOUS
  <2>1. CASE UNCHANGED policyVars BY <2>1 DEF policyVars, PolicyInv, Policy!Settings
  <2>2. CASE Policy!AddBackup
    BY <2>2, AppendProperties DEF Policy!AddBackup, PolicyInv, Policy!Settings
  <2> QED BY <2>1, <2>2 DEF StoreNext, policyVars
<1>3. PolicyInv => RetentionDoesWhatItSays BY PolicyHolds
<1> QED BY <1>1, <1>2, <1>3, PTL DEF StoreSpec

--------------------------------------------------------------------------------
(* What a pass over the directory sees, and whom it spares.                     *)

Readable ==
    /\ onDisk \in SUBSET Nat /\ IsFiniteSet(onDisk)
    /\ \A b \in onDisk : IsFiniteSet(content[b]) /\ noted[b] \in Nat

\* The size a pass goes by.
SizeSeen(b) == IF meta[b] = "none" THEN Cardinality(content[b]) ELSE noted[b]

\* collect_backup_entries lists the directory, each backup with its size and its lock.
LEMMA EntriesAre ==
    ASSUME Readable, NEW p
    PROVE  /\ Entries(p) \in Histories
           /\ Places(Entries(p)) = 1..Len(InOrder(onDisk))
           /\ \A i \in 1..Len(InOrder(onDisk)) :
                 /\ InOrder(onDisk)[i] \in onDisk
                 /\ Entries(p)[i].size = SizeSeen(InOrder(onDisk)[i])
                 /\ Entries(p)[i].locked <=> \/ InOrder(onDisk)[i] \in p
                                             \/ meta[InOrder(onDisk)[i]] = "locked"
<1>1. PICK places : places = InOrder(onDisk) OBVIOUS
<1>2. Ordered(onDisk, places) /\ Cardinality(onDisk) \in Nat
  BY <1>1, InOrderIsOrdered DEF Readable
<1>3. Len(places) \in Nat /\ \A i \in 1..Len(places) : places[i] \in onDisk
  BY <1>2 DEF Ordered
<1>4. \A i \in 1..Len(places) : SizeSeen(places[i]) \in Nat /\ places[i] \in Int
  <2>1. \A b \in onDisk : Cardinality(content[b]) \in Nat BY FS_CardinalityType DEF Readable
  <2>2. \A b \in onDisk : SizeSeen(b) \in Nat /\ b \in Int BY <2>1 DEF Readable, SizeSeen
  <2> QED BY <1>3, <2>2
<1> DEFINE L(i) == places[i] \in p \/ meta[places[i]] = "locked"
           E == [born : Int, size : Nat, locked : BOOLEAN]
           e(i) == [born |-> places[i], size |-> SizeSeen(places[i]), locked |-> L(i)]
<1>5. Entries(p) = [i \in 1..Len(places) |-> e(i)] BY <1>1 DEF Entries, SizeSeen
<1>6. \A i \in 1..Len(places) : L(i) \in BOOLEAN OBVIOUS
<1>7. \A i \in 1..Len(places) : e(i) \in E /\ e(i).size = SizeSeen(places[i])
                                /\ e(i).locked = L(i)
  <2> HIDE DEF L
  <2> QED BY <1>4, <1>6
<1> HIDE DEF e
<1>8. Entries(p) \in Seq(E)
  <2>1. Entries(p) \in [1..Len(places) -> E] BY <1>5, <1>7
  <2> HIDE DEF E
  <2> QED BY <1>3, <2>1, SeqDef
<1>9. Len(Entries(p)) = Len(places)
  <2>1. DOMAIN Entries(p) = 1..Len(places) BY <1>5
  <2>2. Len(Entries(p)) \in Nat /\ DOMAIN Entries(p) = 1..Len(Entries(p)) BY <1>8, LenProperties
  <2> QED BY <1>3, <2>1, <2>2
<1>10. \A i \in 1..Len(places) : /\ Entries(p)[i].size = SizeSeen(places[i])
                                 /\ Entries(p)[i].locked <=> L(i)
  <2>1. \A i \in 1..Len(places) : Entries(p)[i] = e(i) BY <1>5
  <2> HIDE DEF L
  <2> QED BY <1>7, <2>1, Zenon
<1> QED BY <1>1, <1>3, <1>8, <1>9, <1>10 DEF Places, Histories

\* Whatever the settings, a pass dooms what is there, not locked and not protected.
LEMMA PassSpares ==
    ASSUME Readable, NEW p, NEW now, NEW caps \in RetentionSettings,
           NEW i \in Retention(Entries(p), now, caps).doomed
    PROVE  /\ InOrder(onDisk)[i] \in onDisk /\ InOrder(onDisk)[i] \notin p
           /\ meta[InOrder(onDisk)[i]] # "locked"
           /\ i \in 1..Len(InOrder(onDisk))
<1>1. Entries(p) \in Histories BY EntriesAre
<1>2. i \in UnlockedPlaces(Entries(p)) BY <1>1, RetentionSparesTheLocked
<1>3. i \in Places(Entries(p)) /\ ~Entries(p)[i].locked BY <1>2 DEF UnlockedPlaces
<1>4. i \in 1..Len(InOrder(onDisk)) BY <1>3, EntriesAre
<1> QED BY <1>3, <1>4, EntriesAre

--------------------------------------------------------------------------------
(* Callers side by side.                                                        *)

\* Snapshot directories are created under new numbers, each by its own caller.
Numbered ==
    /\ lastSnap \in 0..MaxSnap
    /\ mine \in [Callers -> 0..MaxSnap]
    /\ \A c \in Callers : mine[c] <= lastSnap

OwnInv == Numbered /\ OwnDirectory

\* A caller that returns gives up its directory, one at work keeps it, and only
\* CreateDir takes one.
LEMMA OwnDirectoriesKept == ASSUME OwnInv, [Next]_vars PROVE OwnInv'
<1>1. ASSUME lastSnap' = lastSnap, mine' \in [Callers -> 0..MaxSnap],
             \A c \in Callers : mine'[c] \in {mine[c], 0}
      PROVE  OwnInv'
    BY <1>1, StoreAssumption DEF OwnInv, Numbered, OwnDirectory
<1>2. CASE UNCHANGED <<lastSnap, mine>> BY <1>1, <1>2 DEF OwnInv, Numbered
<1>3. ASSUME NEW c \in Callers, Returns(c), lastSnap' = lastSnap PROVE OwnInv'
    BY <1>1, <1>3, StoreAssumption DEF Returns, OwnInv, Numbered
<1>4. ASSUME NEW c \in Callers, SnapshotStep(c) PROVE OwnInv'
    <2>1. CASE CreateDir(c)
        <3>1. /\ lastSnap \in Nat /\ lastSnap' = lastSnap + 1 /\ lastSnap' \in 0..MaxSnap
              /\ mine' = [mine EXCEPT ![c] = lastSnap + 1]
            BY <2>1, StoreAssumption DEF CreateDir, OwnInv, Numbered
        <3>2. \A d \in Callers : mine[d] \in Nat /\ mine[d] <= lastSnap
            BY StoreAssumption DEF OwnInv, Numbered
        <3>3. Numbered' BY <3>1, <3>2 DEF OwnInv, Numbered
        <3>4. OwnDirectory' BY <3>1, <3>2 DEF OwnInv, Numbered, OwnDirectory
        <3>5. QED BY <3>3, <3>4 DEF OwnInv
    <2>2. CASE CopyFails(c) \/ Refuses(c) \/ SettingsUnread(c) \/ Undoes(c)
        BY <1>3, <2>2 DEF CopyFails, Refuses, SettingsUnread, Undoes, Discards, Removed,
           NotRemoved
    <2>3. CASE SnapshotDone(c) BY <1>2, <1>3, <2>3 DEF SnapshotDone
    <2>4. CASE BeginSnapshot(c) \/ CopyPiece(c) \/ WriteMetadata(c) \/ ApplyRetention(c)
               \/ Scans(c) \/ DeletesOne(c) \/ DeleteFails(c)
        BY <1>2, <2>4 DEF BeginSnapshot, CopyPiece, WriteMetadata, ApplyRetention, Scans,
           DeletesOne, DeleteFails, Removed, NotRemoved, store
    <2>5. QED BY <1>4, <2>1, <2>2, <2>3, <2>4 DEF SnapshotStep
<1>5. ASSUME NEW c \in Callers, RestoreStep(c) PROVE OwnInv'
    BY <1>2, <1>3, <1>5 DEF RestoreStep, BeginRestore, RestorePiece, RestoreReturns, store
<1>6. CASE UserDeletes \/ UserLocks \/ UNCHANGED vars
    BY <1>2, <1>6 DEF UserDeletes, UserLocks, Removed, callerVars, store, vars
<1>7. CASE Crash BY <1>1, <1>7, StoreAssumption DEF Crash
<1>8. QED BY <1>4, <1>5, <1>6, <1>7 DEF Next

\* What a caller is about: the directory it copies into, the pass it carries out.
AtWork ==
    \A c \in Callers : /\ pc[c] = "copy" => mine[c] # 0
                       /\ pc[c] # "delete" => doomed[c] = {}

SharedInv == StoreTypeOK /\ SparesItsOwn /\ OwnInv /\ AtWork

\* Its directory is finite, and so is each backup.
LEMMA TypedIsReadable == ASSUME StoreTypeOK PROVE Readable
<1>1. MaxSnap \in Nat /\ Pieces \in Nat BY StoreAssumption
<1>2. onDisk \subseteq 1..MaxSnap BY DEF StoreTypeOK, Snaps
<1>3. IsFiniteSet(1..MaxSnap) /\ IsFiniteSet(1..Pieces) BY <1>1, FS_Interval
<1>4. IsFiniteSet(onDisk) BY <1>2, <1>3, FS_Subset
<1>5. \A b \in onDisk : content[b] \in SUBSET (1..Pieces) /\ noted[b] \in Nat
  BY <1>1 DEF StoreTypeOK
<1>6. \A b \in onDisk : IsFiniteSet(content[b]) /\ noted[b] \in Nat BY <1>3, <1>5, FS_Subset
<1> QED BY <1>1, <1>2, <1>4, <1>6 DEF Readable

\* No backup is larger than all the folders there are.
LEMMA SizesAreSmall ==
    ASSUME StoreTypeOK, NEW b \in Snaps PROVE Cardinality(content[b]) \in 0..Pieces
<1>1. Pieces \in Nat BY StoreAssumption
<1>2. PICK C : C = content[b] OBVIOUS
<1>3. C \in SUBSET (1..Pieces) BY <1>2 DEF StoreTypeOK
<1>4. IsFiniteSet(1..Pieces) /\ Cardinality(1..Pieces) = Pieces BY <1>1, FS_Interval
<1>5. Cardinality(C) <= Pieces /\ Cardinality(C) \in Nat
  BY <1>3, <1>4, FS_Subset, FS_CardinalityType
<1> QED BY <1>1, <1>2, <1>5

\* A step that gives up directories or none, and whose caller keeps out of copying.
LEMMA RemovedKeepsTypes ==
    ASSUME StoreTypeOK, NEW s, Removed(s), pc' \in [Callers -> Stages],
           mine' \in [Callers -> 0..MaxSnap], copied' \in [Callers -> 0..Pieces],
           source' \in [Callers -> 0..MaxSnap], doomed' \in [Callers -> SUBSET Snaps]
    PROVE  StoreTypeOK'
<1>1. 0 \in 0..Pieces BY StoreAssumption
<1>2. noted' \in [Snaps -> 0..Pieces] BY <1>1 DEF StoreTypeOK, Removed
<1> QED BY <1>2 DEF StoreTypeOK, Removed

\* A directory that could not be removed.
LEMMA NotRemovedKeepsTypes ==
    ASSUME StoreTypeOK, NEW b, NotRemoved(b), pc' \in [Callers -> Stages],
           mine' \in [Callers -> 0..MaxSnap], copied' \in [Callers -> 0..Pieces],
           source' \in [Callers -> 0..MaxSnap], doomed' \in [Callers -> SUBSET Snaps]
    PROVE  StoreTypeOK'
<1>1. PICK left \in SUBSET content[b], m \in {meta[b], "none"} :
          /\ content' = [content EXCEPT ![b] = left] /\ meta' = [meta EXCEPT ![b] = m]
          /\ noted' = [noted EXCEPT ![b] = IF m = "none" THEN 0 ELSE noted[b]]
          /\ torn' = (torn \/ left # 1..Pieces \/ m = "none")
  BY DEF NotRemoved
<1>2. b \in Snaps /\ b \in onDisk /\ UNCHANGED <<onDisk, lastSnap, told, crashed>>
  BY DEF NotRemoved, StoreTypeOK
<1>3. 0 \in 0..Pieces BY StoreAssumption
<1>4. content' \in [Snaps -> SUBSET (1..Pieces)]
  <2>1. left \in SUBSET (1..Pieces) BY <1>1, <1>2 DEF StoreTypeOK
  <2> QED BY <1>1, <2>1 DEF StoreTypeOK
<1>5. meta' \in [Snaps -> {"none", "unlocked", "locked"}] BY <1>1, <1>2 DEF StoreTypeOK
<1>6. noted' \in [Snaps -> 0..Pieces] BY <1>1, <1>2, <1>3 DEF StoreTypeOK
<1>7. \A a \in Snaps : meta'[a] = "none" => noted'[a] = 0 BY <1>1, <1>2 DEF StoreTypeOK
<1>8. \A a \in Snaps \ onDisk' : content'[a] = {} /\ meta'[a] = "none"
  BY <1>1, <1>2 DEF StoreTypeOK
<1>9. torn' \in BOOLEAN BY <1>1 DEF StoreTypeOK
<1> QED BY <1>2, <1>4, <1>5, <1>6, <1>7, <1>8, <1>9 DEF StoreTypeOK

\* A caller that returns has nothing of its own and nothing to delete.
LEMMA ReturnsIsTyped ==
    ASSUME SharedInv, NEW c \in Callers, Returns(c)
    PROVE  /\ pc' \in [Callers -> Stages] /\ mine' \in [Callers -> 0..MaxSnap]
           /\ copied' \in [Callers -> 0..Pieces] /\ source' \in [Callers -> 0..MaxSnap]
           /\ doomed' \in [Callers -> SUBSET Snaps]
           /\ SparesItsOwn' /\ AtWork'
<1>1. 0 \in 0..MaxSnap /\ 0 \in 0..Pieces /\ "idle" \in Stages BY StoreAssumption DEF Stages
<1>2. /\ pc' = [pc EXCEPT ![c] = "idle"] /\ mine' = [mine EXCEPT ![c] = 0]
      /\ copied' = [copied EXCEPT ![c] = 0] /\ source' = [source EXCEPT ![c] = 0]
      /\ doomed' = [doomed EXCEPT ![c] = {}]
  BY DEF Returns
<1>3. SparesItsOwn' BY <1>2 DEF SharedInv, StoreTypeOK, SparesItsOwn, Protected
<1>4. AtWork' BY <1>2 DEF SharedInv, StoreTypeOK, AtWork
<1> QED BY <1>1, <1>2, <1>3, <1>4 DEF SharedInv, StoreTypeOK

\* What a caller's pass decides on spares what it is there for.
LEMMA ScansSpares ==
    ASSUME SharedInv, NEW c \in Callers, Scans(c)
    PROVE  doomed'[c] \subseteq onDisk /\ doomed'[c] \intersect Protected(c) = {}
<1>1. Conf \in RetentionSettings BY StoreAssumption DEF Conf, RetentionSettings
<1>2. Readable BY TypedIsReadable DEF SharedInv
<1>3. PICK g : g = Retention(Entries(Protected(c)), MaxSnap, Conf).doomed OBVIOUS
<1>4. doomed' = [doomed EXCEPT ![c] = {InOrder(onDisk)[i] : i \in g}]
  BY <1>3 DEF Scans, Pass
<1>5. \A i \in g : InOrder(onDisk)[i] \in onDisk /\ InOrder(onDisk)[i] \notin Protected(c)
  BY <1>1, <1>2, <1>3, PassSpares
<1>6. doomed'[c] = {InOrder(onDisk)[i] : i \in g} BY <1>4 DEF SharedInv, StoreTypeOK
<1> QED BY <1>5, <1>6

\* Every step of a snapshot keeps them out of each other's way...
LEMMA SharedSnapshotStep ==
    ASSUME SharedInv, NEW c \in Callers, SnapshotStep(c), OwnInv' PROVE SharedInv'
<1>1. SparesItsOwn /\ StoreTypeOK /\ AtWork /\ OwnInv BY DEF SharedInv
<1>2. ASSUME Discards(c) PROVE SharedInv'
  BY <1>1, <1>2, RemovedKeepsTypes, NotRemovedKeepsTypes, ReturnsIsTyped DEF Discards, SharedInv
<1>3. ASSUME NEW stage \in Stages \ {"copy"}, Goto(c, stage), UNCHANGED doomed,
             stage = "delete" \/ doomed[c] = {},
             UNCHANGED <<onDisk, content, lastSnap, mine, source>>,
             {told', crashed', torn'} \subseteq BOOLEAN,
             copied' \in [Callers -> 0..Pieces],
             UNCHANGED <<meta, noted, torn>>
      PROVE  SharedInv'
  <2>1. pc' = [pc EXCEPT ![c] = stage] BY <1>3 DEF Goto
  <2>2. StoreTypeOK' BY <1>1, <1>3, <2>1 DEF StoreTypeOK
  <2>3. AtWork' BY <1>1, <1>3, <2>1 DEF StoreTypeOK, AtWork
  <2>4. SparesItsOwn' BY <1>1, <1>3 DEF SparesItsOwn, Protected
  <2> QED BY <2>2, <2>3, <2>4 DEF SharedInv
<1>4. CASE BeginSnapshot(c) \/ ApplyRetention(c)
  <2>1. doomed[c] = {}
    BY <1>1, <1>4 DEF BeginSnapshot, ApplyRetention, AtWork
  <2> QED BY <1>1, <1>3, <1>4, <2>1 DEF BeginSnapshot, ApplyRetention, store, Stages,
     StoreTypeOK
<1>5. CASE CreateDir(c)
  <2>1. /\ pc[c] = "create" /\ lastSnap' = lastSnap + 1 /\ onDisk' = onDisk \union {lastSnap + 1}
        /\ mine' = [mine EXCEPT ![c] = lastSnap + 1] /\ pc' = [pc EXCEPT ![c] = "copy"]
        /\ UNCHANGED <<content, meta, noted, told, crashed, torn, copied, source, doomed>>
    BY <1>5 DEF CreateDir, Goto
  <2>2. lastSnap + 1 \in Snaps /\ lastSnap + 1 \in 0..MaxSnap /\ lastSnap + 1 # 0
    BY <1>1, <1>5, StoreAssumption DEF CreateDir, StoreTypeOK, Snaps
  <2>3. doomed[c] = {} BY <1>1, <2>1 DEF AtWork
  <2>4. "copy" \in Stages BY DEF Stages
  <2>5. StoreTypeOK' BY <1>1, <2>1, <2>2, <2>4 DEF StoreTypeOK
  <2>6. AtWork' BY <1>1, <2>1, <2>2, <2>3 DEF AtWork, StoreTypeOK
  <2>7. SparesItsOwn' BY <1>1, <2>1, <2>3 DEF SparesItsOwn, Protected, StoreTypeOK
  <2> QED BY <2>5, <2>6, <2>7 DEF SharedInv
<1>6. CASE CopyPiece(c)
  <2>1. /\ pc[c] = "copy" /\ copied[c] < Pieces /\ onDisk' = onDisk \union {mine[c]}
        /\ copied' = [copied EXCEPT ![c] = copied[c] + 1]
        /\ content' = [content EXCEPT ![mine[c]] = content[mine[c]] \union {copied[c] + 1}]
        /\ UNCHANGED <<meta, noted, lastSnap, told, crashed, torn, pc, mine, source, doomed>>
    BY <1>6 DEF CopyPiece
  <2>2. mine[c] \in Snaps
    BY <1>1, <2>1, StoreAssumption DEF AtWork, StoreTypeOK, Snaps
  <2>3. copied[c] + 1 \in 1..Pieces /\ copied[c] + 1 \in 0..Pieces
    BY <1>1, <2>1, StoreAssumption DEF StoreTypeOK
  <2>4. content' \in [Snaps -> SUBSET (1..Pieces)]
    <3>1. content[mine[c]] \union {copied[c] + 1} \in SUBSET (1..Pieces)
      BY <1>1, <2>2, <2>3 DEF StoreTypeOK
    <3> QED BY <1>1, <2>1, <3>1 DEF StoreTypeOK
  <2>5. copied' \in [Callers -> 0..Pieces] BY <1>1, <2>1, <2>3 DEF StoreTypeOK
  <2>6. \A b \in Snaps : b \notin onDisk' => content'[b] = {} /\ meta'[b] = "none"
    BY <1>1, <2>1, <2>2 DEF StoreTypeOK
  <2>7. StoreTypeOK' BY <1>1, <2>1, <2>2, <2>4, <2>5, <2>6 DEF StoreTypeOK
  <2>8. AtWork' BY <1>1, <2>1 DEF AtWork
  <2>9. SparesItsOwn' BY <1>1, <2>1 DEF SparesItsOwn, Protected
  <2> QED BY <2>7, <2>8, <2>9 DEF SharedInv
<1>7. CASE CopyFails(c) \/ Refuses(c) \/ SettingsUnread(c) \/ Undoes(c)
  BY <1>2, <1>7 DEF CopyFails, Refuses, SettingsUnread, Undoes
<1>8. CASE WriteMetadata(c)
  <2>1. /\ pc[c] = "copy" /\ mine[c] \in onDisk
        /\ meta' = [meta EXCEPT ![mine[c]] = "unlocked"]
        /\ copied' = [copied EXCEPT ![c] = 0] /\ pc' = [pc EXCEPT ![c] = "retain"]
        /\ noted' = [noted EXCEPT ![mine[c]] = Cardinality(content[mine[c]])]
        /\ UNCHANGED <<onDisk, content, lastSnap, told, crashed, torn, mine, source, doomed>>
    BY <1>8 DEF WriteMetadata, Goto
  <2>2. 0 \in 0..Pieces /\ "retain" \in Stages BY StoreAssumption DEF Stages
  <2>3. StoreTypeOK'
    <3>1. mine[c] \in Snaps /\ Cardinality(content[mine[c]]) \in 0..Pieces
      BY <1>1, <2>1, SizesAreSmall DEF StoreTypeOK
    <3>2. noted' \in [Snaps -> 0..Pieces] BY <1>1, <2>1, <3>1 DEF StoreTypeOK
    <3> QED BY <1>1, <2>1, <2>2, <3>1, <3>2 DEF StoreTypeOK
  <2>4. AtWork' BY <1>1, <2>1 DEF AtWork, StoreTypeOK
  <2>5. SparesItsOwn' BY <1>1, <2>1 DEF SparesItsOwn, Protected
  <2> QED BY <2>3, <2>4, <2>5 DEF SharedInv
<1>9. CASE Scans(c)
  <2>1. /\ pc[c] = "retain" /\ pc' = [pc EXCEPT ![c] = "delete"]
        /\ UNCHANGED <<store, mine, copied, source>>
        /\ \A d \in Callers : d # c => doomed'[d] = doomed[d]
        /\ \E s : doomed' = [doomed EXCEPT ![c] = s]
    BY <1>1, <1>9 DEF Scans, Goto, StoreTypeOK
  <2>2. doomed'[c] \subseteq onDisk /\ doomed'[c] \intersect Protected(c) = {}
    BY <1>9, ScansSpares
  <2>3. "delete" \in Stages BY DEF Stages
  <2>4. doomed' \in [Callers -> SUBSET Snaps] BY <1>1, <2>1, <2>2 DEF StoreTypeOK
  <2>5. StoreTypeOK' BY <1>1, <2>1, <2>3, <2>4 DEF StoreTypeOK, store
  <2>6. AtWork' BY <1>1, <2>1 DEF AtWork, StoreTypeOK
  <2>7. SparesItsOwn' BY <1>1, <2>1, <2>2 DEF SparesItsOwn, Protected
  <2> QED BY <2>5, <2>6, <2>7 DEF SharedInv
<1>10. CASE DeletesOne(c)
  <2>1. PICK b \in doomed[c] \intersect onDisk :
            Removed({b}) /\ doomed' = [doomed EXCEPT ![c] = doomed[c] \ {b}]
    BY <1>10 DEF DeletesOne
  <2>2. pc[c] = "delete" /\ UNCHANGED <<pc, mine, copied, source>> BY <1>10 DEF DeletesOne
  <2>3. doomed' \in [Callers -> SUBSET Snaps] BY <1>1, <2>1 DEF StoreTypeOK
  <2>4. StoreTypeOK'
    BY <1>1, <2>1, <2>2, <2>3, RemovedKeepsTypes DEF StoreTypeOK
  <2>5. AtWork' BY <1>1, <2>1, <2>2 DEF AtWork, StoreTypeOK
  <2>6. SparesItsOwn' BY <1>1, <2>1, <2>2 DEF SparesItsOwn, Protected, StoreTypeOK
  <2> QED BY <2>4, <2>5, <2>6 DEF SharedInv
<1>11. CASE DeleteFails(c)
  <2>1. /\ pc[c] = "delete" /\ doomed' = [doomed EXCEPT ![c] = {}]
        /\ pc' = [pc EXCEPT ![c] = "undo"] /\ UNCHANGED <<mine, copied, source>>
    BY <1>11 DEF DeleteFails, Goto
  <2>2. "undo" \in Stages BY DEF Stages
  <2>3. StoreTypeOK'
    <3>1. /\ pc' \in [Callers -> Stages] /\ doomed' \in [Callers -> SUBSET Snaps]
          /\ mine' \in [Callers -> 0..MaxSnap] /\ copied' \in [Callers -> 0..Pieces]
          /\ source' \in [Callers -> 0..MaxSnap]
      BY <1>1, <2>1, <2>2 DEF StoreTypeOK
    <3>2. CASE UNCHANGED store BY <1>1, <3>1, <3>2 DEF StoreTypeOK, store
    <3>3. CASE \E b \in doomed[c] : NotRemoved(b)
      BY <1>1, <3>1, <3>3, NotRemovedKeepsTypes
    <3> QED BY <1>11, <3>2, <3>3 DEF DeleteFails
  <2>4. AtWork' BY <1>1, <2>1 DEF AtWork, StoreTypeOK
  <2>5. SparesItsOwn' BY <1>1, <2>1 DEF SparesItsOwn, Protected, StoreTypeOK
  <2> QED BY <2>3, <2>4, <2>5 DEF SharedInv
<1>12. CASE SnapshotDone(c)
  <2>1. /\ pc[c] = "delete" /\ doomed[c] = {} /\ {told', crashed', torn'} \subseteq BOOLEAN
        /\ UNCHANGED <<onDisk, content, meta, noted, lastSnap, crashed, torn>>
    BY <1>1, <1>12 DEF SnapshotDone, StoreTypeOK
  <2>2. CASE source[c] = 0
    <3>1. Returns(c) BY <1>12, <2>2 DEF SnapshotDone
    <3>2. StoreTypeOK' BY <1>1, <2>1, <3>1, ReturnsIsTyped DEF StoreTypeOK
    <3> QED BY <3>1, <3>2, ReturnsIsTyped DEF SharedInv
  <2>3. CASE source[c] # 0
    <3>1. Goto(c, "restore") /\ UNCHANGED <<mine, copied, source, doomed>>
      BY <1>12, <2>3 DEF SnapshotDone
    <3> QED BY <1>1, <1>3, <2>1, <3>1 DEF Stages, StoreTypeOK
  <2> QED BY <2>2, <2>3
<1> QED
  BY <1>4, <1>5, <1>6, <1>7, <1>8, <1>9, <1>10, <1>11, <1>12
     DEF SnapshotStep

\* ...and so does every other step.
LEMMA SharedStep == ASSUME SharedInv, [Next]_vars PROVE SharedInv'
<1>1. OwnInv' BY OwnDirectoriesKept DEF SharedInv
<1>2. SparesItsOwn /\ StoreTypeOK /\ AtWork /\ OwnInv BY DEF SharedInv
<1>3. ASSUME NEW c \in Callers, BeginRestore(c) PROVE SharedInv'
  <2>1. PICK b \in onDisk : source' = [source EXCEPT ![c] = b] BY <1>3 DEF BeginRestore
  <2>2. pc[c] = "idle" /\ pc' = [pc EXCEPT ![c] = "create"]
        /\ UNCHANGED <<store, mine, copied, doomed>>
    BY <1>3 DEF BeginRestore, Goto
  <2>3. b \in 0..MaxSnap /\ "create" \in Stages
    BY <1>2, StoreAssumption DEF StoreTypeOK, Snaps, Stages
  <2>4. StoreTypeOK' BY <1>2, <2>1, <2>2, <2>3 DEF StoreTypeOK, store
  <2>5. AtWork' BY <1>2, <2>2 DEF AtWork, StoreTypeOK
  <2>6. doomed[c] = {} BY <1>2, <2>2 DEF AtWork
  <2>7. SparesItsOwn' BY <1>2, <2>1, <2>2, <2>6 DEF SparesItsOwn, Protected, StoreTypeOK
  <2> QED BY <1>1, <2>4, <2>5, <2>7 DEF SharedInv
<1>4. ASSUME NEW c \in Callers, RestorePiece(c) PROVE SharedInv'
  <2>1. /\ copied[c] < Pieces /\ copied' = [copied EXCEPT ![c] = copied[c] + 1]
        /\ UNCHANGED <<store, pc, mine, source, doomed>>
    BY <1>4 DEF RestorePiece
  <2>2. copied[c] + 1 \in 0..Pieces BY <1>2, <2>1, StoreAssumption DEF StoreTypeOK
  <2>3. StoreTypeOK' BY <1>2, <2>1, <2>2 DEF StoreTypeOK, store
  <2> QED BY <1>1, <1>2, <2>1, <2>3 DEF SharedInv, AtWork, SparesItsOwn, Protected
<1>5. ASSUME NEW c \in Callers, RestoreReturns(c) PROVE SharedInv'
  <2>1. Returns(c) /\ UNCHANGED store BY <1>5 DEF RestoreReturns
  <2>2. StoreTypeOK' BY <1>2, <2>1, ReturnsIsTyped DEF StoreTypeOK, store
  <2> QED BY <1>1, <2>1, <2>2, ReturnsIsTyped DEF SharedInv
<1>6. CASE UserDeletes
  <2>1. PICK b \in onDisk : Removed({b}) BY <1>6 DEF UserDeletes
  <2>2. UNCHANGED callerVars BY <1>6 DEF UserDeletes
  <2>3. StoreTypeOK' BY <1>2, <2>1, <2>2, RemovedKeepsTypes DEF StoreTypeOK, callerVars
  <2> QED BY <1>1, <1>2, <2>2, <2>3 DEF SharedInv, AtWork, SparesItsOwn, Protected, callerVars
<1>7. CASE UserLocks
  <2>1. PICK b \in onDisk, to \in {"locked", "unlocked"} :
            /\ meta' = [meta EXCEPT ![b] = to]
            /\ noted' = IF meta[b] # "none" THEN noted
                        ELSE [noted EXCEPT ![b] = Cardinality(content[b])]
    BY <1>7 DEF UserLocks
  <2>2. UNCHANGED <<onDisk, content, lastSnap, told, crashed, torn, callerVars>>
    BY <1>7 DEF UserLocks
  <2>3. StoreTypeOK'
    <3>1. b \in Snaps /\ Cardinality(content[b]) \in 0..Pieces
      BY <1>2, SizesAreSmall DEF StoreTypeOK
    <3>2. noted' \in [Snaps -> 0..Pieces] BY <1>2, <2>1, <3>1 DEF StoreTypeOK
    <3> QED BY <1>2, <2>1, <2>2, <3>1, <3>2 DEF StoreTypeOK, callerVars
  <2> QED BY <1>1, <1>2, <2>2, <2>3 DEF SharedInv, AtWork, SparesItsOwn, Protected, callerVars
<1>8. CASE Crash
  <2>1. /\ pc' = [c \in Callers |-> "idle"] /\ mine' = [c \in Callers |-> 0]
        /\ copied' = [c \in Callers |-> 0] /\ source' = [c \in Callers |-> 0]
        /\ doomed' = [c \in Callers |-> {}] /\ crashed' = TRUE
        /\ UNCHANGED <<onDisk, content, meta, noted, lastSnap, told, torn>>
    BY <1>8 DEF Crash
  <2>2. 0 \in 0..MaxSnap /\ 0 \in 0..Pieces /\ "idle" \in Stages BY StoreAssumption DEF Stages
  <2>3. StoreTypeOK' BY <1>2, <2>1, <2>2 DEF StoreTypeOK
  <2> QED BY <1>1, <2>1, <2>3 DEF SharedInv, AtWork, SparesItsOwn
<1>9. CASE UNCHANGED vars
  BY <1>1, <1>2, <1>9
     DEF vars, store, callerVars, SharedInv, StoreTypeOK, AtWork, SparesItsOwn, Protected
<1> QED
  BY <1>1, <1>3, <1>4, <1>5, <1>6, <1>7, <1>8, <1>9, SharedSnapshotStep DEF Next, RestoreStep

\* They start out of it.
LEMMA SharedStart == ASSUME Init PROVE SharedInv
<1>1. 0 \in 0..MaxSnap /\ 0 \in 0..Pieces /\ "idle" \in Stages /\ lastSnap <= lastSnap
  BY StoreAssumption DEF Stages, Init
<1> QED
  BY <1>1 DEF Init, SharedInv, StoreTypeOK, SparesItsOwn, Protected, OwnInv, Numbered,
     OwnDirectory, AtWork

\* However many callers, however close together they start, with crashes and a user
\* who deletes and locks backups meanwhile: each copies into a directory of its own,
\* and no pass of retention turns on the snapshot it follows or the backup about to
\* be restored.
THEOREM DirectoriesStayOwn == Spec => [](OwnDirectory /\ SparesItsOwn)
<1>1. Init => SharedInv BY SharedStart
<1>2. SharedInv /\ [Next]_vars => SharedInv' BY SharedStep
<1>3. SharedInv => OwnDirectory /\ SparesItsOwn BY DEF SharedInv, OwnInv
<1> QED BY <1>1, <1>2, <1>3, PTL DEF Spec

\* The same of the callers that MCBackupStore composes with the rest.
THEOREM CallersKeepOutOfEachOthersWay == StoreSpec => []SharedOwnDirectory
<1> DEFINE I == part = "shared" => SharedInv
<1>1. StoreInit => I BY SharedStart DEF StoreInit
<1>2. I /\ [StoreNext]_<<part, vars, policyVars>> => I'
  <2> SUFFICES ASSUME I, [StoreNext]_<<part, vars, policyVars>>, part' = "shared"
               PROVE  SharedInv'
    OBVIOUS
  <2>1. part = "shared" BY DEF StoreNext
  <2>2. [Next]_vars BY <2>1 DEF StoreNext
  <2> QED BY <2>1, <2>2, SharedStep
<1>3. I => SharedOwnDirectory BY DEF SharedInv, OwnInv, SharedOwnDirectory
<1> QED BY <1>1, <1>2, <1>3, PTL DEF StoreSpec

--------------------------------------------------------------------------------
(* One caller alone, whom nothing but the end of mserve disturbs.               *)

\* The operators of the instance are those of the module.
LEMMA AloneIsTheSame ==
    /\ \A s : Alone!Cardinality(s) = Cardinality(s)
    /\ \A s : Alone!InOrder(s) = InOrder(s)
    /\ \A p : Alone!Entries(p) = Entries(p)
    /\ \A es, now, caps : Alone!Retention(es, now, caps) = Retention(es, now, caps)
    /\ \A es, size, caps : Alone!BackupFits(es, size, caps) => size <= caps.limit
<1>1. \A s : Alone!Cardinality(s) = Cardinality(s) BY DEF Alone!Cardinality, Cardinality
<1>2. \A s : Alone!InOrder(s) = InOrder(s)
  BY DEF Alone!InOrder, InOrder, Alone!Cardinality, Cardinality
<1>3. \A p : Alone!Entries(p) = Entries(p) BY <1>1, <1>2, Zenon DEF Alone!Entries, Entries
<1>4. \A es, now, caps, g : Alone!SmartThinning(es, now, caps, g) = SmartThinning(es, now, caps, g)
  BY DEF Alone!SmartThinning, SmartThinning, Alone!FoldLeft, FoldLeft, Alone!MapThenFoldSet,
         MapThenFoldSet, Alone!Max, Max, Alone!OldestFirst, OldestFirst, Alone!Places, Places,
         Alone!NewestFirst, NewestFirst, Alone!Reverse, Reverse, Alone!Bucket, Bucket,
         Alone!Everything, Everything, Alone!KeepAllHours, KeepAllHours, Alone!DailyDays,
         DailyDays, Alone!WeeklyDays, WeeklyDays
<1>5. \A es, caps, g : Alone!CountCap(es, caps, g) = CountCap(es, caps, g)
  BY DEF Alone!CountCap, CountCap, Alone!FoldLeft, FoldLeft, Alone!MapThenFoldSet,
         MapThenFoldSet, Alone!Max, Max, Alone!OldestFirst, OldestFirst, Alone!Places, Places,
         Alone!NewestFirst, NewestFirst, Alone!Reverse, Reverse
<1>6. \A es, caps, g : Alone!StorageCap(es, caps, g) = StorageCap(es, caps, g)
  BY DEF Alone!StorageCap, StorageCap, Alone!TotalSize, TotalSize, Alone!FoldLeft, FoldLeft,
         Alone!MapThenFoldSet, MapThenFoldSet, Alone!Max, Max, Alone!OldestFirst, OldestFirst,
         Alone!Places, Places
<1>7. \A es, now, caps : Alone!AgeCap(es, now, caps) = AgeCap(es, now, caps)
  BY DEF Alone!AgeCap, AgeCap, Alone!Places, Places
<1>8. \A es, now, caps : Alone!Retention(es, now, caps) = Retention(es, now, caps)
  BY <1>4, <1>5, <1>6, <1>7, Zenon DEF Alone!Retention, Retention
<1>9. \A es, size, caps : Alone!BackupFits(es, size, caps) => size <= caps.limit
  BY DEF Alone!BackupFits
<1> QED BY <1>1, <1>2, <1>3, <1>8, <1>9

\* No backups take no room.
LEMMA TotalSizeOfNone == ASSUME NEW es \in Histories PROVE TotalSize(es, {}) = 0
<1> DEFINE n == Len(es)
<1>1. n \in Nat BY HistoryFacts
<1>2. PICK h : Summed(es, {}, h) /\ TotalSize(es, {}) = h[n] BY TotalSizeTurns
<1> DEFINE S == {k \in 0..n : h[k] = 0}
<1>3. 0 \in S BY <1>1, <1>2 DEF Summed
<1>4. ASSUME NEW k \in 0..(n - 1), k \in S PROVE k + 1 \in S
  <2>1. k + 1 \in 1..n /\ k + 1 \in 0..n /\ k + 1 - 1 = k BY <1>1
  <2> QED BY <1>2, <1>4, <2>1 DEF Summed
<1> HIDE DEF S
<1>5. \A k \in 0..n : k \in S BY <1>1, <1>3, <1>4, EveryTurn
<1> QED BY <1>1, <1>2, <1>5 DEF S

\* The settings a caller alone works under, and what they spare whoever they doom:
\* the newest backup, where none is locked and each of them fits.
LoneCaps == [smart |-> FALSE, maxCount |-> MaxCount, maxAgeDays |-> 0, limit |-> LoneLimit]

\* A pass under these settings leaves the newest backup, where none is locked and it fits.
LEMMA NewestIsKept ==
    ASSUME NEW es \in Histories, NEW n \in Nat \ {0}, n = Len(es), NEW now,
           \A i \in 1..n : ~es[i].locked, es[n].size <= LoneLimit
    PROVE  n \notin Retention(es, now, LoneCaps).doomed
<1>1. /\ LoneCaps \in RetentionSettings /\ LoneCaps.smart = FALSE /\ LoneCaps.maxAgeDays = 0
      /\ LoneCaps.maxCount = MaxCount /\ LoneCaps.limit = LoneLimit
      /\ MaxCount \in Nat /\ LoneLimit \in Nat
  BY StoreAssumption, LoneAssumption DEF LoneCaps, RetentionSettings
<1>2. Places(es) = 1..n /\ n \in Places(es) /\ \A i \in 1..n : es[i].size \in Nat
  BY HistoryFacts
<1>3. PICK c, O : c = AfterCount(es, now, LoneCaps) /\ O = Surplus(es, LoneCaps, c) OBVIOUS
<1>4. AfterThinning(es, now, LoneCaps) = {} BY <1>1 DEF AfterThinning, AgeCap
<1>5. n \notin c
  <2>1. NewerStaying(es, {}, n) = {} BY <1>2 DEF NewerStaying
  <2>2. Cardinality(NewerStaying(es, {}, n)) = 0 BY <2>1, FS_EmptySet
  <2>3. MaxCount > 0 => n \notin Beyond(es, LoneCaps, {}) BY <1>1, <2>2 DEF Beyond
  <2> QED BY <1>1, <1>3, <1>4, <2>3 DEF AfterCount
<1>6. n \notin O
  <2>1. PICK P : P = Places(es) \ (c \union {j \in Places(es) : ~es[j].locked /\ j < n}) OBVIOUS
  <2>2. \A k \in Places(es) : k \in P <=> k \in {n} BY <1>2, <1>5, <2>1
  <2>3. TotalSize(es, P) \in Nat /\ TotalSize(es, {n}) \in Nat
        /\ TotalSize(es, P) <= TotalSize(es, {n})
    BY <2>2, TotalSizeGrows
  <2>4. TotalSize(es, {} \union {n}) = TotalSize(es, {}) + es[n].size BY <1>2, TotalSizeWith
  <2>5. TotalSize(es, {}) = 0 BY TotalSizeOfNone
  <2>6. {} \union {n} = {n} OBVIOUS
  <2>7. TotalSize(es, {n}) = es[n].size BY <1>2, <2>4, <2>5, <2>6
  <2>8. ~(TotalSize(es, P) > LoneCaps.limit) BY <1>1, <1>2, <2>3, <2>7
  <2> QED BY <1>3, <2>1, <2>8 DEF Surplus
<1>7. \/ Retention(es, now, LoneCaps) = [refused |-> TRUE, doomed |-> {}]
      \/ Retention(es, now, LoneCaps) = [refused |-> FALSE, doomed |-> c \union O]
  BY <1>1, <1>3, RetentionIs
<1> QED BY <1>5, <1>6, <1>7

--------------------------------------------------------------------------------
(* What holds of a caller alone, whatever it is at.                             *)

\* No backup is locked, none is newer than the last that was made, and none is made
\* that the limit has no room for.
LoneShape ==
    /\ Alone!StoreTypeOK
    /\ onDisk \subseteq 1..lastSnap
    /\ \A b \in 1..LoneSnaps : meta[b] # "locked"
    /\ lastSnap > 0 \/ pc[TheOne] = "create" => Pieces <= LoneLimit

\* Its snapshot is as far as it has copied, carries no metadata until it is finished,
\* and is there until it is given up. So is the backup it restores, which is another.
LoneStage ==
    /\ mine[TheOne] \in 0..lastSnap
    /\ pc[TheOne] = "copy" => /\ mine[TheOne] \in onDisk
                              /\ content[mine[TheOne]] = 1..copied[TheOne]
                              /\ meta[mine[TheOne]] = "none"
    /\ pc[TheOne] \in {"idle", "create"} => mine[TheOne] = 0
    /\ pc[TheOne] \notin {"copy", "restore"} => copied[TheOne] = 0
    /\ mine[TheOne] # 0 => mine[TheOne] \in onDisk
    /\ source[TheOne] # 0 => source[TheOne] \in onDisk
    /\ pc[TheOne] = "idle" => source[TheOne] = 0
    /\ pc[TheOne] = "restore" => source[TheOne] # 0

\* What its pass has still to delete is there, and neither of those.
LoneDoomed ==
    /\ pc[TheOne] # "delete" => doomed[TheOne] = {}
    /\ doomed[TheOne] \subseteq onDisk
    /\ mine[TheOne] \notin doomed[TheOne] /\ source[TheOne] \notin doomed[TheOne]

\* Unless mserve ended, or a removal stopped halfway, a directory without metadata is
\* the one it copies into.
LoneDirectories ==
    /\ Alone!NoDebris /\ Alone!FinishedUntorn
    /\ ~crashed /\ ~torn =>
          \A b \in onDisk : meta[b] # "none" \/ (pc[TheOne] = "copy" /\ mine[TheOne] = b)

\* Once a backup was made there is one no pass deletes, and which is not the snapshot
\* under way, that may still be given up.
LoneKept ==
    told /\ ~crashed /\ ~torn =>
        \E b \in onDisk \ doomed[TheOne] :
            pc[TheOne] \in {"copy", "retain", "undo"} => mine[TheOne] # b

LoneInv == LoneShape /\ LoneStage /\ LoneDoomed /\ LoneDirectories /\ LoneKept

\* The types of a caller alone, in the terms of the instance.
LEMMA LoneTypes ==
    ASSUME Alone!StoreTypeOK
    PROVE  /\ onDisk \subseteq 1..LoneSnaps /\ lastSnap \in 0..LoneSnaps
           /\ content \in [1..LoneSnaps -> SUBSET (1..Pieces)]
           /\ meta \in [1..LoneSnaps -> {"none", "unlocked", "locked"}]
           /\ noted \in [1..LoneSnaps -> 0..Pieces]
           /\ {told, crashed, torn} \subseteq BOOLEAN
           /\ pc \in [{TheOne} -> Alone!Stages] /\ mine \in [{TheOne} -> 0..LoneSnaps]
           /\ copied \in [{TheOne} -> 0..Pieces] /\ source \in [{TheOne} -> 0..LoneSnaps]
           /\ doomed \in [{TheOne} -> SUBSET (1..LoneSnaps)]
           /\ \A b \in 1..LoneSnaps : b \notin onDisk => content[b] = {} /\ meta[b] = "none"
           /\ \A b \in 1..LoneSnaps : Cardinality(content[b]) \in 0..Pieces
           /\ \A b \in 1..LoneSnaps : meta[b] = "none" => noted[b] = 0
           /\ LoneSnaps \in Nat \ {0} /\ LoneLimit \in Nat \ {0} /\ Pieces \in Nat \ {0}
           /\ Readable
<1>1. LoneSnaps \in Nat \ {0} /\ LoneLimit \in Nat \ {0} /\ Pieces \in Nat \ {0}
  BY StoreAssumption, LoneAssumption
<1>2. onDisk \subseteq 1..LoneSnaps BY DEF Alone!StoreTypeOK, Alone!Snaps
<1>3. IsFiniteSet(1..LoneSnaps) /\ IsFiniteSet(1..Pieces) BY <1>1, FS_Interval
<1>4. IsFiniteSet(onDisk) BY <1>2, <1>3, FS_Subset
<1>5. /\ \A b \in 1..LoneSnaps : content[b] \in SUBSET (1..Pieces)
      /\ noted \in [1..LoneSnaps -> 0..Pieces]
  BY DEF Alone!StoreTypeOK, Alone!Snaps
<1>6. \A b \in onDisk : IsFiniteSet(content[b]) /\ noted[b] \in Nat
  BY <1>1, <1>2, <1>3, <1>5, FS_Subset
<1>7. Readable BY <1>1, <1>2, <1>4, <1>6 DEF Readable
<1>8. ASSUME NEW b \in 1..LoneSnaps PROVE Cardinality(content[b]) \in 0..Pieces
  <2>1. PICK C \in SUBSET (1..Pieces) : C = content[b] BY <1>5
  <2>2. Cardinality(1..Pieces) = Pieces BY <1>1, FS_Interval
  <2>3. Cardinality(C) <= Pieces /\ Cardinality(C) \in Nat
    BY <1>3, <2>1, <2>2, FS_Subset, FS_CardinalityType
  <2> QED BY <1>1, <2>1, <2>3
<1> QED BY <1>1, <1>7, <1>8 DEF Alone!StoreTypeOK, Alone!Snaps

\* The caller's own values after a step, and after one with which it returns.
LEMMA LoneReturns ==
    ASSUME LoneInv, Alone!Returns(TheOne)
    PROVE  /\ pc'[TheOne] = "idle" /\ mine'[TheOne] = 0 /\ copied'[TheOne] = 0
           /\ source'[TheOne] = 0 /\ doomed'[TheOne] = {}
           /\ pc' \in [{TheOne} -> Alone!Stages] /\ mine' \in [{TheOne} -> 0..LoneSnaps]
           /\ copied' \in [{TheOne} -> 0..Pieces] /\ source' \in [{TheOne} -> 0..LoneSnaps]
           /\ doomed' \in [{TheOne} -> SUBSET (1..LoneSnaps)]
<1>1. Alone!StoreTypeOK BY DEF LoneInv, LoneShape
<1>2. 0 \in 0..LoneSnaps /\ 0 \in 0..Pieces /\ "idle" \in Alone!Stages
  BY <1>1, LoneTypes DEF Alone!Stages
<1> QED BY <1>1, <1>2, LoneTypes DEF Alone!Returns

\* A step that leaves the directories alone, of a caller that copies into none.
LEMMA LoneSteady ==
    ASSUME LoneInv, UNCHANGED <<onDisk, content, meta, lastSnap, torn>>, crashed => crashed',
           pc[TheOne] # "copy" \/ crashed'
    PROVE  LoneDirectories'
<1>1. onDisk \subseteq 1..LoneSnaps BY LoneTypes DEF LoneInv, LoneShape
<1>2. \A b \in 1..LoneSnaps : Alone!Whole(b)' = Alone!Whole(b) BY DEF Alone!Whole
<1>3. Alone!NoDebris' BY <1>1, <1>2 DEF LoneInv, LoneDirectories, Alone!NoDebris
<1>4. Alone!FinishedUntorn'
  BY <1>1, <1>2 DEF LoneInv, LoneDirectories, Alone!FinishedUntorn, Alone!FinishedMeansWhole
<1> QED BY <1>3, <1>4 DEF LoneInv, LoneDirectories

\* A step that removes directories, the one that is being copied among them.
LEMMA LoneRemoves ==
    ASSUME LoneInv, NEW s, Alone!Removed(s),
           pc[TheOne] = "copy" => mine[TheOne] \in s,
           pc' \in [{TheOne} -> Alone!Stages], mine' \in [{TheOne} -> 0..LoneSnaps],
           copied' \in [{TheOne} -> 0..Pieces], source' \in [{TheOne} -> 0..LoneSnaps],
           doomed' \in [{TheOne} -> SUBSET (1..LoneSnaps)],
           pc'[TheOne] # "create"
    PROVE  /\ LoneDirectories' /\ LoneShape'
           /\ onDisk' = onDisk \ s /\ UNCHANGED <<lastSnap, told, crashed, torn>>
<1>1. /\ onDisk' = onDisk \ s /\ UNCHANGED <<lastSnap, told, crashed, torn>>
      /\ content' = [b \in 1..LoneSnaps |-> IF b \in s THEN {} ELSE content[b]]
      /\ meta' = [b \in 1..LoneSnaps |-> IF b \in s THEN "none" ELSE meta[b]]
      /\ noted' = [b \in 1..LoneSnaps |-> IF b \in s THEN 0 ELSE noted[b]]
  BY DEF Alone!Removed, Alone!Snaps
<1>2. /\ onDisk \subseteq 1..LoneSnaps /\ Alone!StoreTypeOK /\ onDisk \subseteq 1..lastSnap
      /\ \A b \in 1..LoneSnaps : meta[b] # "locked"
      /\ lastSnap > 0 \/ pc[TheOne] = "create" => Pieces <= LoneLimit
  BY LoneTypes DEF LoneInv, LoneShape
<1>3. Alone!StoreTypeOK'
  <2>1. 0 \in 0..Pieces BY StoreAssumption
  <2>2. noted' \in [1..LoneSnaps -> 0..Pieces]
    BY <1>1, <1>2, <2>1 DEF Alone!StoreTypeOK, Alone!Snaps
  <2> QED BY <1>1, <1>2, <2>2 DEF Alone!StoreTypeOK, Alone!Snaps
<1>4. LoneShape' BY <1>1, <1>2, <1>3 DEF LoneShape
<1>5. \A b \in onDisk' : /\ b \in onDisk /\ meta'[b] = meta[b]
                         /\ Alone!Whole(b) => Alone!Whole(b)'
  BY <1>1, <1>2 DEF Alone!Whole
<1>6. \A b \in onDisk' : ~(pc[TheOne] = "copy" /\ mine[TheOne] = b) BY <1>1
<1>7. Alone!NoDebris' BY <1>1, <1>5, <1>6 DEF LoneInv, LoneDirectories, Alone!NoDebris
<1>8. Alone!FinishedUntorn'
  BY <1>1, <1>5 DEF LoneInv, LoneDirectories, Alone!FinishedUntorn, Alone!FinishedMeansWhole
<1>9. ~crashed' /\ ~torn' => \A b \in onDisk' : meta'[b] # "none"
  BY <1>1, <1>5, <1>6 DEF LoneInv, LoneDirectories
<1> QED BY <1>1, <1>4, <1>7, <1>8, <1>9 DEF LoneDirectories

\* A directory that could not be removed, of a caller that goes on or has returned: as
\* long as no removal stops halfway, it is the whole backup it was.
LEMMA LoneStaysThere ==
    ASSUME LoneInv, NEW d, Alone!NotRemoved(d),
           pc[TheOne] = "copy" => mine[TheOne] = d,
           pc' \in [{TheOne} -> Alone!Stages], mine' \in [{TheOne} -> 0..LoneSnaps],
           copied' \in [{TheOne} -> 0..Pieces], source' \in [{TheOne} -> 0..LoneSnaps],
           doomed' \in [{TheOne} -> SUBSET (1..LoneSnaps)],
           pc'[TheOne] # "create"
    PROVE  /\ LoneDirectories' /\ LoneShape'
           /\ d \in onDisk /\ UNCHANGED <<onDisk, lastSnap, told, crashed>>
           /\ ~torn' => UNCHANGED <<content, meta, torn>> /\ pc[TheOne] # "copy"
<1>1. PICK left \in SUBSET content[d], m \in {meta[d], "none"} :
          /\ content' = [content EXCEPT ![d] = left] /\ meta' = [meta EXCEPT ![d] = m]
          /\ noted' = [noted EXCEPT ![d] = IF m = "none" THEN 0 ELSE noted[d]]
          /\ torn' = (torn \/ left # 1..Pieces \/ m = "none")
  BY DEF Alone!NotRemoved
<1>2. d \in onDisk /\ UNCHANGED <<onDisk, lastSnap, told, crashed>> BY DEF Alone!NotRemoved
<1>3. /\ onDisk \subseteq 1..LoneSnaps /\ Alone!StoreTypeOK /\ onDisk \subseteq 1..lastSnap
      /\ \A b \in 1..LoneSnaps : meta[b] # "locked"
      /\ lastSnap > 0 \/ pc[TheOne] = "create" => Pieces <= LoneLimit
      /\ content \in [1..LoneSnaps -> SUBSET (1..Pieces)]
      /\ meta \in [1..LoneSnaps -> {"none", "unlocked", "locked"}]
      /\ noted \in [1..LoneSnaps -> 0..Pieces] /\ torn \in BOOLEAN
      /\ \A b \in 1..LoneSnaps : meta[b] = "none" => noted[b] = 0
      /\ \A b \in 1..LoneSnaps : b \notin onDisk => content[b] = {} /\ meta[b] = "none"
  BY LoneTypes DEF LoneInv, LoneShape
<1>4. d \in 1..LoneSnaps BY <1>2, <1>3
<1>5. Alone!StoreTypeOK'
  <2>1. 0 \in 0..Pieces BY StoreAssumption
  <2>2. content' \in [1..LoneSnaps -> SUBSET (1..Pieces)]
    <3>1. left \in SUBSET (1..Pieces) BY <1>1, <1>3, <1>4
    <3> QED BY <1>1, <1>3, <3>1
  <2>3. meta' \in [1..LoneSnaps -> {"none", "unlocked", "locked"}] BY <1>1, <1>3, <1>4
  <2>4. noted' \in [1..LoneSnaps -> 0..Pieces] BY <1>1, <1>3, <1>4, <2>1
  <2>5. \A b \in 1..LoneSnaps : meta'[b] = "none" => noted'[b] = 0 BY <1>1, <1>3, <1>4
  <2>6. \A b \in 1..LoneSnaps : b \notin onDisk' => content'[b] = {} /\ meta'[b] = "none"
    BY <1>1, <1>2, <1>3
  <2>7. torn' \in BOOLEAN BY <1>1
  <2> QED BY <1>2, <1>3, <2>2, <2>3, <2>4, <2>5, <2>6, <2>7 DEF Alone!StoreTypeOK, Alone!Snaps
<1>6. \A b \in 1..LoneSnaps : meta'[b] # "locked" BY <1>1, <1>3, <1>4
<1>7. LoneShape' BY <1>2, <1>3, <1>5, <1>6 DEF LoneShape
<1>8. ASSUME ~torn' PROVE UNCHANGED <<content, meta, torn>> /\ pc[TheOne] # "copy"
  <2>1. ~torn /\ left = 1..Pieces /\ m # "none" BY <1>1, <1>8
  <2>2. m = meta[d] /\ meta[d] # "none" BY <1>1, <2>1
  <2>3. content[d] = 1..Pieces BY <1>1, <1>3, <1>4, <2>1
  <2>4. content' = content /\ meta' = meta
    <3>1. content' = [content EXCEPT ![d] = content[d]] /\ meta' = [meta EXCEPT ![d] = meta[d]]
      BY <1>1, <2>1, <2>2, <2>3
    <3> QED BY <1>3, <1>4, <3>1
  <2>5. pc[TheOne] # "copy" BY <2>2 DEF LoneInv, LoneStage
  <2>6. torn = FALSE BY <1>3, <2>1
  <2>7. torn' \in BOOLEAN BY <1>1
  <2>8. torn' = FALSE BY <1>8, <2>7
  <2> QED BY <2>4, <2>5, <2>6, <2>8
<1>9. LoneDirectories'
  <2>1. CASE torn'
    BY <2>1 DEF LoneDirectories, Alone!NoDebris, Alone!FinishedUntorn, Alone!FinishedMeansWhole
  <2>2. CASE ~torn' BY <1>2, <1>8, <2>2, LoneSteady
  <2> QED BY <2>1, <2>2
<1> QED BY <1>2, <1>7, <1>8, <1>9

\* What a caller's pass dooms is there, and not what it is there for; and it leaves one.
LEMMA LoneScans ==
    ASSUME LoneInv, Alone!Scans(TheOne)
    PROVE  /\ doomed'[TheOne] \subseteq onDisk
           /\ doomed' \in [{TheOne} -> SUBSET (1..LoneSnaps)]
           /\ mine[TheOne] \notin doomed'[TheOne] /\ source[TheOne] \notin doomed'[TheOne]
           /\ onDisk # {} => \E b \in onDisk : b \notin doomed'[TheOne]
<1>1. /\ Readable /\ onDisk \subseteq 1..LoneSnaps /\ LoneSnaps \in Nat /\ Pieces \in Nat
      /\ doomed \in [{TheOne} -> SUBSET (1..LoneSnaps)]
      /\ content \in [1..LoneSnaps -> SUBSET (1..Pieces)] /\ lastSnap \in Nat
  BY LoneTypes DEF LoneInv, LoneShape
<1>2. LoneCaps \in RetentionSettings
  BY StoreAssumption, LoneAssumption DEF LoneCaps, RetentionSettings
<1>3. PICK places, es, p, g : /\ places = InOrder(onDisk) /\ p = Alone!Protected(TheOne)
                              /\ es = Entries(p)
                              /\ g = Retention(es, LoneSnaps, LoneCaps).doomed
  OBVIOUS
<1>4. Alone!Pass(p) = Retention(es, LoneSnaps, LoneCaps) /\ Alone!InOrder(onDisk) = places
  BY <1>3, AloneIsTheSame, Zenon DEF Alone!Pass, Alone!Conf, LoneCaps
<1>5. doomed' = [doomed EXCEPT ![TheOne] = {places[i] : i \in g}]
  BY <1>3, <1>4 DEF Alone!Scans
<1>6. doomed'[TheOne] = {places[i] : i \in g} BY <1>1, <1>5
<1>7. \A i \in g : places[i] \in onDisk /\ places[i] \notin p /\ i \in 1..Len(places)
  BY <1>1, <1>2, <1>3, PassSpares
<1>8. 0 \notin onDisk BY <1>1
<1>9. mine[TheOne] \notin doomed'[TheOne] /\ source[TheOne] \notin doomed'[TheOne]
  BY <1>3, <1>6, <1>7, <1>8 DEF Alone!Protected
<1>10. ASSUME onDisk # {} PROVE \E b \in onDisk : b \notin doomed'[TheOne]
  <2>1. CASE mine[TheOne] # 0 BY <1>9, <2>1 DEF LoneInv, LoneStage
  <2>2. CASE source[TheOne] # 0 BY <1>9, <2>2 DEF LoneInv, LoneStage
  <2>3. CASE mine[TheOne] = 0 /\ source[TheOne] = 0
    <3>1. p = {} BY <1>3, <2>3 DEF Alone!Protected
    <3>2. Ordered(onDisk, places) /\ Cardinality(onDisk) \in Nat
      BY <1>1, <1>3, InOrderIsOrdered DEF Readable
    <3>3. PICK n : n = Len(places) OBVIOUS
    <3>4. /\ n \in Nat \ {0} /\ places[n] \in onDisk
          /\ \A i, j \in 1..n : i < j => places[i] < places[j]
      <4>1. n \in Nat BY <3>2, <3>3 DEF Ordered
      <4>2. PICK b \in onDisk : TRUE BY <1>10
      <4>3. \E i \in 1..n : places[i] = b BY <3>2, <3>3 DEF Ordered
      <4> QED BY <3>2, <3>3, <4>1, <4>3 DEF Ordered
    <3>5. es \in Histories /\ Places(es) = 1..n BY <1>1, <1>3, <3>3, EntriesAre
    <3>6. n = Len(es) BY <3>4, <3>5, HistoryFacts
    <3>7. \A i \in 1..n : /\ places[i] \in onDisk
                          /\ es[i].size = SizeSeen(places[i])
                          /\ es[i].locked <=> places[i] \in p \/ meta[places[i]] = "locked"
      BY <1>1, <1>3, <3>3, EntriesAre
    <3>8. \A i \in 1..n : ~es[i].locked
      BY <1>1, <3>1, <3>7 DEF LoneInv, LoneShape
    <3>9. es[n].size <= LoneLimit
      <4>1. PICK b \in onDisk : b = places[n] BY <3>4
      <4>2. b \in 1..LoneSnaps BY <1>1
      <4>3. /\ Cardinality(content[b]) \in 0..Pieces /\ noted[b] \in 0..Pieces
            /\ Pieces \in Nat
        BY <4>2, LoneTypes DEF LoneInv, LoneShape
      <4>4. SizeSeen(b) \in 0..Pieces BY <4>3 DEF SizeSeen
      <4>5. lastSnap > 0 BY <1>1 DEF LoneInv, LoneShape
      <4>6. Pieces <= LoneLimit /\ LoneLimit \in Nat
        BY <4>5, LoneAssumption DEF LoneInv, LoneShape
      <4>7. es[n].size = SizeSeen(b) BY <3>4, <3>7, <4>1
      <4> QED BY <4>3, <4>4, <4>6, <4>7
    <3>10. n \notin g BY <1>3, <3>4, <3>5, <3>6, <3>8, <3>9, NewestIsKept
    <3>11. \A i \in g : places[i] # places[n]
      <4>1. \A i \in g : i \in 1..n /\ i < n BY <1>7, <3>3, <3>4, <3>10
      <4>2. \A b \in onDisk : b \in Nat BY <1>1
      <4>3. \A i \in 1..n : places[i] \in onDisk BY <3>7
      <4>4. \A i \in 1..n : places[i] \in Nat BY <4>2, <4>3, Zenon
      <4> QED BY <3>4, <4>1, <4>4
    <3> QED BY <1>6, <3>4, <3>11
  <2> QED BY <2>1, <2>2, <2>3
<1>11. doomed'[TheOne] \subseteq onDisk BY <1>6, <1>7
<1>12. doomed' \in [{TheOne} -> SUBSET (1..LoneSnaps)] BY <1>1, <1>5, <1>6, <1>11
<1> QED BY <1>9, <1>10, <1>11, <1>12

--------------------------------------------------------------------------------
(* Step by step.                                                                *)

\* A step with which the caller returns, and gives up what it was making if it was.
LEMMA LoneGivesUp ==
    ASSUME LoneInv, Alone!Returns(TheOne),
           \/ /\ Alone!Removed({mine[TheOne]} \ {0}) \/ Alone!NotRemoved(mine[TheOne])
              /\ pc[TheOne] \in {"create", "copy", "retain", "undo"}
           \/ /\ UNCHANGED <<onDisk, content, meta, noted, lastSnap, crashed, torn>>
              /\ pc[TheOne] \in {"delete", "restore"} /\ doomed[TheOne] = {}
              /\ told' \in BOOLEAN /\ (told' => told \/ mine[TheOne] # 0)
    PROVE  LoneInv'
<1>1. /\ pc'[TheOne] = "idle" /\ mine'[TheOne] = 0 /\ copied'[TheOne] = 0
      /\ source'[TheOne] = 0 /\ doomed'[TheOne] = {}
      /\ pc' \in [{TheOne} -> Alone!Stages] /\ mine' \in [{TheOne} -> 0..LoneSnaps]
      /\ copied' \in [{TheOne} -> 0..Pieces] /\ source' \in [{TheOne} -> 0..LoneSnaps]
      /\ doomed' \in [{TheOne} -> SUBSET (1..LoneSnaps)]
  BY LoneReturns
<1>2. /\ Alone!StoreTypeOK /\ onDisk \subseteq 1..lastSnap
      /\ \A b \in 1..LoneSnaps : meta[b] # "locked"
      /\ lastSnap > 0 \/ pc[TheOne] = "create" => Pieces <= LoneLimit
      /\ lastSnap \in Nat
  BY LoneTypes DEF LoneInv, LoneShape
<1>3. CASE Alone!Removed({mine[TheOne]} \ {0})
           /\ pc[TheOne] \in {"create", "copy", "retain", "undo"}
  <2>1. pc[TheOne] = "copy" => mine[TheOne] \in {mine[TheOne]} \ {0}
    BY <1>2 DEF LoneInv, LoneStage
  <2>2. PICK s : s = {mine[TheOne]} \ {0} OBVIOUS
  <2>3. /\ LoneDirectories' /\ LoneShape'
        /\ onDisk' = onDisk \ s /\ UNCHANGED <<lastSnap, told, crashed, torn>>
    BY <1>1, <1>3, <2>1, <2>2, LoneRemoves
  <2>4. LoneStage' BY <1>1, <1>2, <2>3 DEF LoneStage
  <2>5. LoneDoomed'
    <3>1. 0 \notin doomed'[TheOne] /\ doomed'[TheOne] \subseteq onDisk' BY <1>1
    <3> QED BY <1>1, <3>1 DEF LoneDoomed
  <2>6. LoneKept'
    <3> SUFFICES ASSUME told', ~crashed', ~torn'
                 PROVE  \E b \in onDisk' \ doomed'[TheOne] : TRUE
      BY <1>1 DEF LoneKept
    <3>1. PICK b \in onDisk \ doomed[TheOne] :
              pc[TheOne] \in {"copy", "retain", "undo"} => mine[TheOne] # b
      BY <2>3 DEF LoneInv, LoneKept
    <3>2. b \notin s
      BY <1>2, <1>3, <2>2, <3>1 DEF LoneInv, LoneStage
    <3> QED BY <1>1, <2>3, <3>1, <3>2
  <2> QED BY <2>3, <2>4, <2>5, <2>6 DEF LoneInv
<1>4. CASE Alone!NotRemoved(mine[TheOne])
           /\ pc[TheOne] \in {"create", "copy", "retain", "undo"}
  <2>1. /\ LoneDirectories' /\ LoneShape' /\ UNCHANGED <<onDisk, lastSnap, told, crashed>>
        /\ ~torn' => UNCHANGED <<content, meta, torn>>
    BY <1>1, <1>4, LoneStaysThere
  <2>2. LoneStage' BY <1>1, <1>2, <2>1 DEF LoneStage
  <2>3. LoneDoomed'
    <3>1. 0 \notin doomed'[TheOne] /\ doomed'[TheOne] \subseteq onDisk' BY <1>1
    <3> QED BY <1>1, <3>1 DEF LoneDoomed
  <2>4. LoneKept'
    <3> SUFFICES ASSUME told', ~crashed', ~torn' PROVE \E b \in onDisk : TRUE
      BY <1>1, <2>1 DEF LoneKept
    <3> QED BY <2>1 DEF LoneInv, LoneKept
  <2> QED BY <2>1, <2>2, <2>3, <2>4 DEF LoneInv
<1>5. CASE /\ UNCHANGED <<onDisk, content, meta, noted, lastSnap, crashed, torn>>
           /\ pc[TheOne] \in {"delete", "restore"} /\ doomed[TheOne] = {}
           /\ told' \in BOOLEAN /\ (told' => told \/ mine[TheOne] # 0)
  <2>1. LoneDirectories' BY <1>5, LoneSteady
  <2>2. Alone!StoreTypeOK' BY <1>1, <1>2, <1>5 DEF Alone!StoreTypeOK, Alone!Snaps
  <2>3. LoneShape' BY <1>1, <1>2, <1>5, <2>2 DEF LoneShape
  <2>4. LoneStage' BY <1>1, <1>2, <1>5 DEF LoneStage
  <2>5. LoneDoomed'
    <3>1. 0 \notin doomed'[TheOne] /\ doomed'[TheOne] \subseteq onDisk' BY <1>1
    <3> QED BY <1>1, <3>1 DEF LoneDoomed
  <2>6. LoneKept'
    <3> SUFFICES ASSUME told', ~crashed', ~torn' PROVE \E b \in onDisk : TRUE
      BY <1>1, <1>5 DEF LoneKept
    <3>1. CASE mine[TheOne] # 0 BY <3>1 DEF LoneInv, LoneStage
    <3>2. CASE told BY <1>5, <3>2 DEF LoneInv, LoneKept
    <3> QED BY <1>5, <3>1, <3>2
  <2> QED BY <2>1, <2>3, <2>4, <2>5, <2>6 DEF LoneInv
<1> QED BY <1>3, <1>4, <1>5

\* A snapshot is begun, for itself or before a restore, or a pass by itself.
LEMMA LoneBegins ==
    ASSUME LoneInv, \/ Alone!BeginSnapshot(TheOne) \/ Alone!BeginRestore(TheOne)
                    \/ Alone!ApplyRetention(TheOne)
    PROVE  LoneInv'
<1>1. PICK stage \in {"create", "retain"} : pc' = [pc EXCEPT ![TheOne] = stage]
  BY DEF Alone!BeginSnapshot, Alone!BeginRestore, Alone!ApplyRetention, Alone!Goto
<1>2. /\ pc[TheOne] = "idle"
      /\ UNCHANGED <<onDisk, content, meta, noted, lastSnap, told, crashed, torn>>
      /\ UNCHANGED <<mine, copied, doomed>>
  BY DEF Alone!BeginSnapshot, Alone!BeginRestore, Alone!ApplyRetention, Alone!store
<1>3. /\ Alone!StoreTypeOK /\ onDisk \subseteq 1..lastSnap
      /\ \A b \in 1..LoneSnaps : meta[b] # "locked"
      /\ lastSnap > 0 \/ pc[TheOne] = "create" => Pieces <= LoneLimit
      /\ onDisk \subseteq 1..LoneSnaps /\ source \in [{TheOne} -> 0..LoneSnaps]
      /\ pc \in [{TheOne} -> Alone!Stages]
  BY LoneTypes DEF LoneInv, LoneShape
<1>4. pc'[TheOne] = stage /\ pc' \in [{TheOne} -> Alone!Stages] BY <1>1, <1>3 DEF Alone!Stages
<1>5. /\ source' \in [{TheOne} -> 0..LoneSnaps]
      /\ source'[TheOne] # 0 => source'[TheOne] \in onDisk
  <2>1. CASE UNCHANGED source
    BY <1>3, <2>1 DEF LoneInv, LoneStage
  <2>2. CASE Alone!BeginRestore(TheOne)
    <3>1. PICK b \in onDisk : source' = [source EXCEPT ![TheOne] = b]
      BY <2>2 DEF Alone!BeginRestore
    <3> QED BY <1>3, <3>1
  <2> QED BY <2>1, <2>2 DEF Alone!BeginSnapshot, Alone!ApplyRetention
<1>6. stage = "create" => Pieces <= LoneLimit
  <2>1. CASE Alone!ApplyRetention(TheOne)
    <3>1. pc' = [pc EXCEPT ![TheOne] = "retain"]
      BY <2>1 DEF Alone!ApplyRetention, Alone!Goto
    <3> QED BY <1>3, <1>4, <3>1
  <2>2. CASE Alone!BeginSnapshot(TheOne) \/ Alone!BeginRestore(TheOne)
    <3>1. \E es : Alone!BackupFits(es, Pieces, Alone!Conf)
      BY <2>2 DEF Alone!BeginSnapshot, Alone!BeginRestore
    <3>2. Pieces <= Alone!Conf.limit BY <3>1, AloneIsTheSame
    <3> QED BY <3>2 DEF Alone!Conf
  <2> QED BY <2>1, <2>2
<1>7. LoneDirectories' BY <1>2, LoneSteady
<1>8. Alone!StoreTypeOK' BY <1>2, <1>3, <1>4, <1>5 DEF Alone!StoreTypeOK
<1>9. LoneShape' BY <1>2, <1>3, <1>4, <1>6, <1>8 DEF LoneShape
<1>10. LoneStage' BY <1>2, <1>4, <1>5 DEF LoneInv, LoneStage
<1>11. LoneDoomed' BY <1>2, <1>4 DEF LoneInv, LoneStage, LoneDoomed
<1>12. LoneKept'
  <2>1. mine[TheOne] = 0 /\ 0 \notin onDisk BY <1>2, <1>3 DEF LoneInv, LoneStage
  <2> QED BY <1>2, <1>4, <2>1 DEF LoneInv, LoneKept
<1> QED BY <1>7, <1>9, <1>10, <1>11, <1>12 DEF LoneInv

\* The snapshot's directory is new, and empty.
LEMMA LoneCreates == ASSUME LoneInv, Alone!CreateDir(TheOne) PROVE LoneInv'
<1>1. /\ pc[TheOne] = "create" /\ lastSnap < LoneSnaps /\ lastSnap' = lastSnap + 1
      /\ onDisk' = onDisk \union {lastSnap + 1}
      /\ mine' = [mine EXCEPT ![TheOne] = lastSnap + 1]
      /\ pc' = [pc EXCEPT ![TheOne] = "copy"]
      /\ UNCHANGED <<content, meta, noted, told, crashed, torn, copied, source, doomed>>
  BY DEF Alone!CreateDir, Alone!Goto
<1>2. /\ Alone!StoreTypeOK /\ onDisk \subseteq 1..lastSnap /\ lastSnap \in 0..LoneSnaps
      /\ \A b \in 1..LoneSnaps : meta[b] # "locked"
      /\ Pieces <= LoneLimit /\ LoneSnaps \in Nat
      /\ onDisk \subseteq 1..LoneSnaps /\ mine \in [{TheOne} -> 0..LoneSnaps]
      /\ pc \in [{TheOne} -> Alone!Stages]
      /\ \A b \in 1..LoneSnaps : b \notin onDisk => content[b] = {} /\ meta[b] = "none"
  BY <1>1, LoneTypes DEF LoneInv, LoneShape
<1>3. PICK n \in 1..LoneSnaps : n = lastSnap + 1 /\ n \notin onDisk /\ n # 0 BY <1>1, <1>2
<1>4. /\ content[n] = {} /\ meta[n] = "none" /\ copied[TheOne] = 0 /\ 1..0 = {}
      /\ mine[TheOne] = 0 /\ doomed[TheOne] = {}
  BY <1>1, <1>2, <1>3 DEF LoneInv, LoneStage, LoneDoomed
<1>5. mine'[TheOne] = n /\ pc'[TheOne] = "copy" BY <1>1, <1>2, <1>3
<1>6. Alone!StoreTypeOK'
  <2>1. n \in 0..LoneSnaps /\ "copy" \in Alone!Stages BY <1>2 DEF Alone!Stages
  <2>2. mine' = [mine EXCEPT ![TheOne] = n] BY <1>1, <1>3
  <2>3. mine' \in [{TheOne} -> 0..LoneSnaps] BY <1>2, <2>1, <2>2
  <2>4. pc' \in [{TheOne} -> Alone!Stages] BY <1>1, <1>2, <2>1
  <2>5. lastSnap' \in 0..LoneSnaps /\ onDisk' \subseteq 1..LoneSnaps BY <1>1, <1>2, <1>3, <2>1
  <2> QED BY <1>1, <1>2, <2>3, <2>4, <2>5 DEF Alone!StoreTypeOK, Alone!Snaps
<1>7. LoneShape'
  <2>1. onDisk' \subseteq 1..lastSnap' BY <1>1, <1>2
  <2> QED BY <1>1, <1>2, <1>6, <2>1 DEF LoneShape
<1>8. LoneStage'
  <2>1. /\ n \in 0..lastSnap' /\ n \in onDisk' /\ content'[n] = 1..copied'[TheOne]
        /\ meta'[n] = "none"
    BY <1>1, <1>2, <1>3, <1>4
  <2> QED BY <1>1, <1>5, <2>1 DEF LoneInv, LoneStage
<1>9. LoneDoomed' BY <1>1, <1>4, <1>5 DEF LoneDoomed
<1>10. LoneDirectories'
  <2>1. \A b \in onDisk : b # n /\ b \in onDisk' /\ (Alone!Whole(b) => Alone!Whole(b)')
    BY <1>1, <1>3 DEF Alone!Whole
  <2>2. \A b \in onDisk' : b \in onDisk \/ b = n BY <1>1, <1>3
  <2>3. Alone!NoDebris'
    BY <1>1, <1>5, <2>1, <2>2 DEF LoneInv, LoneDirectories, Alone!NoDebris
  <2>4. Alone!FinishedUntorn'
    BY <1>1, <1>4, <2>1, <2>2 DEF LoneInv, LoneDirectories, Alone!FinishedUntorn,
       Alone!FinishedMeansWhole
  <2> QED BY <1>1, <1>5, <2>2, <2>3, <2>4 DEF LoneInv, LoneDirectories
<1>11. LoneKept'
  <2> SUFFICES ASSUME told', ~crashed', ~torn'
               PROVE  \E b \in onDisk' \ doomed'[TheOne] : n # b
    BY <1>5 DEF LoneKept
  <2>1. PICK b \in onDisk : TRUE BY <1>1 DEF LoneInv, LoneKept
  <2> QED BY <1>1, <1>3, <1>4, <2>1
<1> QED BY <1>7, <1>8, <1>9, <1>10, <1>11 DEF LoneInv

\* Each folder copied is the next.
LEMMA LoneCopies == ASSUME LoneInv, Alone!CopyPiece(TheOne) PROVE LoneInv'
<1>1. PICK m : m = mine[TheOne] OBVIOUS
<1>2. /\ pc[TheOne] = "copy" /\ copied[TheOne] < Pieces /\ onDisk' = onDisk \union {m}
      /\ copied' = [copied EXCEPT ![TheOne] = copied[TheOne] + 1]
      /\ content' = [content EXCEPT ![m] = content[m] \union {copied[TheOne] + 1}]
      /\ UNCHANGED <<meta, noted, lastSnap, told, crashed, torn, pc, mine, source, doomed>>
  BY <1>1 DEF Alone!CopyPiece
<1>3. m \in onDisk /\ content[m] = 1..copied[TheOne] /\ meta[m] = "none"
  BY <1>1, <1>2 DEF LoneInv, LoneStage
<1>4. /\ Alone!StoreTypeOK /\ onDisk \subseteq 1..LoneSnaps /\ Pieces \in Nat
      /\ content \in [1..LoneSnaps -> SUBSET (1..Pieces)]
      /\ copied \in [{TheOne} -> 0..Pieces]
      /\ \A b \in 1..LoneSnaps : b \notin onDisk => content[b] = {} /\ meta[b] = "none"
  BY LoneTypes DEF LoneInv, LoneShape
<1>5. onDisk' = onDisk /\ m \in 1..LoneSnaps BY <1>2, <1>3, <1>4
<1>6. /\ copied[TheOne] + 1 \in 1..Pieces /\ copied'[TheOne] = copied[TheOne] + 1
      /\ copied' \in [{TheOne} -> 0..Pieces]
  BY <1>2, <1>4
<1>7. content'[m] = 1..copied'[TheOne]
  <2>1. 1..(copied[TheOne] + 1) = (1..copied[TheOne]) \union {copied[TheOne] + 1} BY <1>4
  <2> QED BY <1>2, <1>3, <1>4, <1>5, <1>6, <2>1
<1>8. content' \in [1..LoneSnaps -> SUBSET (1..Pieces)]
  <2>1. content[m] \union {copied[TheOne] + 1} \in SUBSET (1..Pieces) BY <1>4, <1>5, <1>6
  <2> QED BY <1>2, <1>4, <2>1
<1>9. \A b \in 1..LoneSnaps : b # m => content'[b] = content[b] BY <1>2, <1>4
<1>10. Alone!StoreTypeOK'
  <2>1. \A b \in 1..LoneSnaps : b \notin onDisk' => content'[b] = {} /\ meta'[b] = "none"
    BY <1>2, <1>3, <1>4, <1>5, <1>9
  <2> QED BY <1>2, <1>4, <1>5, <1>6, <1>8, <2>1 DEF Alone!StoreTypeOK, Alone!Snaps
<1>11. LoneShape' BY <1>2, <1>5, <1>10 DEF LoneInv, LoneShape
<1>12. LoneStage' BY <1>1, <1>2, <1>3, <1>5, <1>7 DEF LoneInv, LoneStage
<1>13. LoneDoomed' BY <1>2, <1>5 DEF LoneInv, LoneDoomed
<1>14. \A b \in onDisk : b # m => (Alone!Whole(b) => Alone!Whole(b)')
  BY <1>4, <1>5, <1>9 DEF Alone!Whole
<1>15. Alone!NoDebris'
  BY <1>1, <1>2, <1>5, <1>14 DEF LoneInv, LoneDirectories, Alone!NoDebris
<1>16. Alone!FinishedUntorn'
  BY <1>2, <1>3, <1>5, <1>14 DEF LoneInv, LoneDirectories, Alone!FinishedUntorn,
     Alone!FinishedMeansWhole
<1>17. LoneDirectories' BY <1>2, <1>5, <1>15, <1>16 DEF LoneInv, LoneDirectories
<1>18. LoneKept' BY <1>2, <1>5 DEF LoneInv, LoneKept
<1> QED BY <1>11, <1>12, <1>13, <1>17, <1>18 DEF LoneInv

\* Metadata is written when the last folder is copied.
LEMMA LoneFinishes == ASSUME LoneInv, Alone!WriteMetadata(TheOne) PROVE LoneInv'
<1>1. PICK m : m = mine[TheOne] OBVIOUS
<1>2. /\ pc[TheOne] = "copy" /\ copied[TheOne] = Pieces
      /\ meta' = [meta EXCEPT ![m] = "unlocked"]
      /\ noted' = [noted EXCEPT ![m] = Cardinality(content[m])]
      /\ copied' = [copied EXCEPT ![TheOne] = 0] /\ pc' = [pc EXCEPT ![TheOne] = "retain"]
      /\ UNCHANGED <<onDisk, content, lastSnap, told, crashed, torn, mine, source, doomed>>
  BY <1>1, AloneIsTheSame DEF Alone!WriteMetadata, Alone!Goto
<1>3. m \in onDisk /\ content[m] = 1..copied[TheOne] BY <1>1, <1>2 DEF LoneInv, LoneStage
<1>4. /\ Alone!StoreTypeOK /\ onDisk \subseteq 1..LoneSnaps /\ Pieces \in Nat
      /\ \A b \in 1..LoneSnaps : meta[b] # "locked"
      /\ lastSnap > 0 \/ pc[TheOne] = "create" => Pieces <= LoneLimit
      /\ meta \in [1..LoneSnaps -> {"none", "unlocked", "locked"}]
      /\ copied \in [{TheOne} -> 0..Pieces] /\ pc \in [{TheOne} -> Alone!Stages]
      /\ \A b \in 1..LoneSnaps : b \notin onDisk => content[b] = {} /\ meta[b] = "none"
  BY LoneTypes DEF LoneInv, LoneShape
<1>5. /\ pc'[TheOne] = "retain" /\ pc' \in [{TheOne} -> Alone!Stages]
      /\ copied'[TheOne] = 0 /\ copied' \in [{TheOne} -> 0..Pieces]
  BY <1>2, <1>4 DEF Alone!Stages
<1>6. /\ m \in 1..LoneSnaps /\ meta'[m] = "unlocked"
      /\ meta' \in [1..LoneSnaps -> {"none", "unlocked", "locked"}]
      /\ \A b \in 1..LoneSnaps : b # m => meta'[b] = meta[b]
  BY <1>2, <1>3, <1>4
<1>7. Alone!StoreTypeOK'
  <2>1. \A b \in 1..LoneSnaps : b \notin onDisk' => content'[b] = {} /\ meta'[b] = "none"
    BY <1>2, <1>3, <1>4, <1>6
  <2>2. Cardinality(content[m]) \in 0..Pieces
    BY <1>6, LoneTypes DEF LoneInv, LoneShape
  <2>3. /\ noted \in [1..LoneSnaps -> 0..Pieces]
        /\ \A b \in 1..LoneSnaps : meta[b] = "none" => noted[b] = 0
    BY LoneTypes DEF LoneInv, LoneShape
  <2>4. noted' \in [1..LoneSnaps -> 0..Pieces] BY <1>2, <1>6, <2>2, <2>3
  <2>5. \A b \in 1..LoneSnaps : meta'[b] = "none" => noted'[b] = 0
    BY <1>2, <1>6, <2>3
  <2> QED BY <1>2, <1>4, <1>5, <1>6, <2>1, <2>4, <2>5 DEF Alone!StoreTypeOK, Alone!Snaps
<1>8. LoneShape' BY <1>2, <1>4, <1>5, <1>6, <1>7 DEF LoneInv, LoneShape
<1>9. LoneStage' BY <1>1, <1>2, <1>5 DEF LoneInv, LoneStage
<1>10. LoneDoomed' BY <1>2, <1>5 DEF LoneInv, LoneDoomed
<1>11. \A b \in onDisk : Alone!Whole(b)' = Alone!Whole(b) BY <1>2 DEF Alone!Whole
<1>12. Alone!Whole(m) BY <1>2, <1>3 DEF Alone!Whole
<1>13. Alone!NoDebris'
  BY <1>1, <1>2, <1>11, <1>12 DEF LoneInv, LoneDirectories, Alone!NoDebris
<1>14. Alone!FinishedUntorn'
  BY <1>2, <1>4, <1>6, <1>11, <1>12 DEF LoneInv, LoneDirectories, Alone!FinishedUntorn,
     Alone!FinishedMeansWhole
<1>15. ~crashed' /\ ~torn' => \A b \in onDisk' : meta'[b] # "none"
  BY <1>1, <1>2, <1>4, <1>6 DEF LoneInv, LoneDirectories
<1>16. LoneDirectories' BY <1>13, <1>14, <1>15 DEF LoneDirectories
<1>17. LoneKept' BY <1>2, <1>5 DEF LoneInv, LoneKept
<1> QED BY <1>8, <1>9, <1>10, <1>16, <1>17 DEF LoneInv

\* A pass looks and decides.
LEMMA LoneLooks == ASSUME LoneInv, Alone!Scans(TheOne) PROVE LoneInv'
<1>1. /\ pc[TheOne] = "retain" /\ pc' = [pc EXCEPT ![TheOne] = "delete"]
      /\ UNCHANGED <<onDisk, content, meta, noted, lastSnap, told, crashed, torn>>
      /\ UNCHANGED <<mine, copied, source>>
  BY DEF Alone!Scans, Alone!Goto, Alone!store
<1>2. /\ Alone!StoreTypeOK /\ pc \in [{TheOne} -> Alone!Stages]
  BY LoneTypes DEF LoneInv, LoneShape
<1>3. pc'[TheOne] = "delete" /\ pc' \in [{TheOne} -> Alone!Stages]
  BY <1>1, <1>2 DEF Alone!Stages
<1>4. /\ doomed'[TheOne] \subseteq onDisk /\ doomed' \in [{TheOne} -> SUBSET (1..LoneSnaps)]
      /\ mine[TheOne] \notin doomed'[TheOne] /\ source[TheOne] \notin doomed'[TheOne]
      /\ onDisk # {} => \E b \in onDisk : b \notin doomed'[TheOne]
  BY LoneScans
<1>5. LoneDirectories' BY <1>1, LoneSteady
<1>6. Alone!StoreTypeOK' BY <1>1, <1>2, <1>3, <1>4 DEF Alone!StoreTypeOK, Alone!Snaps
<1>7. LoneShape' BY <1>1, <1>3, <1>6 DEF LoneInv, LoneShape
<1>8. LoneStage' BY <1>1, <1>3 DEF LoneInv, LoneStage
<1>9. LoneDoomed' BY <1>1, <1>3, <1>4 DEF LoneDoomed
<1>10. LoneKept'
  <2> SUFFICES ASSUME told', ~crashed', ~torn' PROVE \E b \in onDisk : b \notin doomed'[TheOne]
    BY <1>1, <1>3 DEF LoneKept
  <2>1. onDisk # {} BY <1>1 DEF LoneInv, LoneKept
  <2> QED BY <1>4, <2>1
<1> QED BY <1>5, <1>7, <1>8, <1>9, <1>10 DEF LoneInv

\* It deletes what it decided on.
LEMMA LoneDeletes == ASSUME LoneInv, Alone!DeletesOne(TheOne) PROVE LoneInv'
<1>1. PICK b \in doomed[TheOne] \intersect onDisk :
          Alone!Removed({b}) /\ doomed' = [doomed EXCEPT ![TheOne] = doomed[TheOne] \ {b}]
  BY DEF Alone!DeletesOne
<1>2. pc[TheOne] = "delete" /\ UNCHANGED <<pc, mine, copied, source>> BY DEF Alone!DeletesOne
<1>3. /\ pc \in [{TheOne} -> Alone!Stages] /\ mine \in [{TheOne} -> 0..LoneSnaps]
      /\ copied \in [{TheOne} -> 0..Pieces] /\ source \in [{TheOne} -> 0..LoneSnaps]
      /\ doomed \in [{TheOne} -> SUBSET (1..LoneSnaps)]
  BY LoneTypes DEF LoneInv, LoneShape
<1>4. /\ doomed' \in [{TheOne} -> SUBSET (1..LoneSnaps)]
      /\ doomed'[TheOne] = doomed[TheOne] \ {b}
  BY <1>1, <1>3
<1>5. /\ LoneDirectories' /\ LoneShape'
      /\ onDisk' = onDisk \ {b} /\ UNCHANGED <<lastSnap, told, crashed, torn>>
  BY <1>1, <1>2, <1>3, <1>4, LoneRemoves
<1>6. LoneStage' BY <1>1, <1>2, <1>5 DEF LoneInv, LoneStage, LoneDoomed
<1>7. LoneDoomed' BY <1>2, <1>4, <1>5 DEF LoneInv, LoneDoomed
<1>8. LoneKept' BY <1>1, <1>2, <1>4, <1>5 DEF LoneInv, LoneKept
<1> QED BY <1>5, <1>6, <1>7, <1>8 DEF LoneInv

\* Or one of them cannot be deleted, nobody else having done it: it is still there.
LEMMA LoneDeleteFails == ASSUME LoneInv, Alone!DeleteFails(TheOne) PROVE LoneInv'
<1>1. PICK d \in doomed[TheOne] : Alone!NotRemoved(d)
  BY DEF Alone!DeleteFails, LoneInv, LoneDoomed
<1>2. /\ pc[TheOne] = "delete" /\ UNCHANGED <<mine, copied, source>>
      /\ doomed' = [doomed EXCEPT ![TheOne] = {}] /\ pc' = [pc EXCEPT ![TheOne] = "undo"]
  BY DEF Alone!DeleteFails, Alone!Goto
<1>3. /\ pc \in [{TheOne} -> Alone!Stages] /\ mine \in [{TheOne} -> 0..LoneSnaps]
      /\ copied \in [{TheOne} -> 0..Pieces] /\ source \in [{TheOne} -> 0..LoneSnaps]
      /\ doomed \in [{TheOne} -> SUBSET (1..LoneSnaps)] /\ onDisk \subseteq 1..LoneSnaps
  BY LoneTypes DEF LoneInv, LoneShape
<1>4. /\ pc' \in [{TheOne} -> Alone!Stages] /\ pc'[TheOne] = "undo"
      /\ doomed' \in [{TheOne} -> SUBSET (1..LoneSnaps)] /\ doomed'[TheOne] = {}
  BY <1>2, <1>3 DEF Alone!Stages
<1>5. /\ LoneDirectories' /\ LoneShape'
      /\ d \in onDisk /\ UNCHANGED <<onDisk, lastSnap, told, crashed>>
      /\ ~torn' => UNCHANGED <<content, meta, torn>>
  BY <1>1, <1>2, <1>3, <1>4, LoneStaysThere
<1>6. LoneStage' BY <1>2, <1>4, <1>5 DEF LoneInv, LoneStage
<1>7. LoneDoomed' BY <1>3, <1>4, <1>5 DEF LoneDoomed
<1>8. LoneKept'
  <2>1. mine[TheOne] # d BY <1>1 DEF LoneInv, LoneDoomed
  <2> QED BY <1>2, <1>4, <1>5, <2>1 DEF LoneKept
<1> QED BY <1>5, <1>6, <1>7, <1>8 DEF LoneInv

\* The rest: the restore begins, copies back, or mserve ends.
LEMMA LoneRestores ==
    ASSUME LoneInv, \/ Alone!SnapshotDone(TheOne) /\ source[TheOne] # 0
                    \/ Alone!RestorePiece(TheOne)
    PROVE  LoneInv'
<1>1. /\ Alone!StoreTypeOK /\ pc \in [{TheOne} -> Alone!Stages]
      /\ copied \in [{TheOne} -> 0..Pieces] /\ {told, crashed, torn} \subseteq BOOLEAN
      /\ Pieces \in Nat /\ onDisk \subseteq 1..LoneSnaps
  BY LoneTypes DEF LoneInv, LoneShape
<1>2. /\ pc[TheOne] \in {"delete", "restore"} /\ doomed[TheOne] = {}
      /\ UNCHANGED <<onDisk, content, meta, noted, lastSnap, crashed, torn, mine, source, doomed>>
      /\ told' \in BOOLEAN /\ (told' => told \/ mine[TheOne] # 0)
      /\ pc'[TheOne] = "restore" /\ pc' \in [{TheOne} -> Alone!Stages]
      /\ copied' \in [{TheOne} -> 0..Pieces] /\ source[TheOne] # 0
  <2>1. CASE Alone!SnapshotDone(TheOne) /\ source[TheOne] # 0
    <3>1. /\ pc[TheOne] = "delete" /\ doomed[TheOne] = {}
          /\ pc' = [pc EXCEPT ![TheOne] = "restore"]
          /\ UNCHANGED <<onDisk, content, meta, noted, lastSnap, crashed, torn, mine, copied, source, doomed>>
          /\ told' = (told \/ mine[TheOne] # 0)
      BY <2>1 DEF Alone!SnapshotDone, Alone!Goto
    <3> QED BY <1>1, <2>1, <3>1 DEF Alone!Stages
  <2>2. CASE Alone!RestorePiece(TheOne)
    <3>1. /\ pc[TheOne] = "restore" /\ copied[TheOne] < Pieces
          /\ copied' = [copied EXCEPT ![TheOne] = copied[TheOne] + 1]
          /\ UNCHANGED <<onDisk, content, meta, noted, lastSnap, told, crashed, torn, pc, mine, source, doomed>>
      BY <2>2 DEF Alone!RestorePiece, Alone!store
    <3>2. copied' \in [{TheOne} -> 0..Pieces] BY <1>1, <3>1
    <3>3. doomed[TheOne] = {} /\ source[TheOne] # 0
      BY <3>1 DEF LoneInv, LoneStage, LoneDoomed
    <3> QED BY <1>1, <3>1, <3>2, <3>3
  <2> QED BY <2>1, <2>2
<1>3. LoneDirectories' BY <1>2, LoneSteady
<1>4. Alone!StoreTypeOK' BY <1>1, <1>2 DEF Alone!StoreTypeOK, Alone!Snaps
<1>5. LoneShape' BY <1>2, <1>4 DEF LoneInv, LoneShape
<1>6. LoneStage' BY <1>2 DEF LoneInv, LoneStage
<1>7. LoneDoomed' BY <1>2 DEF LoneInv, LoneDoomed
<1>8. LoneKept'
  <2> SUFFICES ASSUME told', ~crashed', ~torn' PROVE \E b \in onDisk : TRUE
    BY <1>2 DEF LoneKept
  <2>1. CASE mine[TheOne] # 0 BY <2>1 DEF LoneInv, LoneStage
  <2>2. CASE told BY <1>2, <2>2 DEF LoneInv, LoneKept
  <2> QED BY <1>2, <2>1, <2>2
<1> QED BY <1>3, <1>5, <1>6, <1>7, <1>8 DEF LoneInv

\* mserve ends: what is on disk stays, and the caller is at nothing.
LEMMA LoneIsCutOff == ASSUME LoneInv, Alone!Crash PROVE LoneInv'
<1>1. /\ pc' = [c \in {TheOne} |-> "idle"] /\ mine' = [c \in {TheOne} |-> 0]
      /\ copied' = [c \in {TheOne} |-> 0] /\ source' = [c \in {TheOne} |-> 0]
      /\ doomed' = [c \in {TheOne} |-> {}] /\ crashed' = TRUE
      /\ UNCHANGED <<onDisk, content, meta, noted, lastSnap, told, torn>>
  BY DEF Alone!Crash
<1>2. /\ Alone!StoreTypeOK /\ LoneSnaps \in Nat /\ Pieces \in Nat /\ lastSnap \in Nat
  BY LoneTypes DEF LoneInv, LoneShape
<1>3. 0 \in 0..LoneSnaps /\ 0 \in 0..Pieces /\ "idle" \in Alone!Stages /\ 0 \in 0..lastSnap
  BY <1>2 DEF Alone!Stages
<1>4. LoneDirectories' BY <1>1, LoneSteady
<1>5. Alone!StoreTypeOK' BY <1>1, <1>2, <1>3 DEF Alone!StoreTypeOK
<1>6. LoneShape' BY <1>1, <1>5 DEF LoneInv, LoneShape
<1>7. LoneStage' BY <1>1, <1>3 DEF LoneStage
<1>8. LoneDoomed' BY <1>1 DEF LoneDoomed
<1>9. LoneKept' BY <1>1 DEF LoneKept
<1> QED BY <1>4, <1>6, <1>7, <1>8, <1>9 DEF LoneInv

\* Every step of a caller alone keeps its invariant.
LEMMA LoneStep == ASSUME LoneInv, [Alone!Next]_(Alone!vars) PROVE LoneInv'
<1>1. CASE UNCHANGED Alone!vars
  BY <1>1 DEF Alone!vars, Alone!store, Alone!callerVars, LoneInv, LoneShape, LoneStage,
     LoneDoomed, LoneDirectories, LoneKept, Alone!StoreTypeOK, Alone!NoDebris,
     Alone!FinishedUntorn, Alone!FinishedMeansWhole, Alone!Whole
<1>2. CASE \/ Alone!CopyFails(TheOne) \/ Alone!Refuses(TheOne)
           \/ Alone!SettingsUnread(TheOne) \/ Alone!Undoes(TheOne)
           \/ Alone!RestoreReturns(TheOne)
           \/ Alone!SnapshotDone(TheOne) /\ source[TheOne] = 0
  <2>1. Alone!RestoreReturns(TheOne) => doomed[TheOne] = {}
    BY DEF Alone!RestoreReturns, LoneInv, LoneDoomed
  <2>2. told \in BOOLEAN BY LoneTypes DEF LoneInv, LoneShape
  <2>3. CASE Alone!CopyFails(TheOne) \/ Alone!Refuses(TheOne) \/ Alone!SettingsUnread(TheOne)
                \/ Alone!Undoes(TheOne)
    BY <2>3, LoneGivesUp DEF Alone!CopyFails, Alone!Refuses, Alone!SettingsUnread,
       Alone!Undoes, Alone!Discards
  <2>4. CASE Alone!RestoreReturns(TheOne)
    BY <2>1, <2>2, <2>4, LoneGivesUp
       DEF Alone!RestoreReturns, Alone!store, LoneInv, LoneDoomed
  <2>5. CASE Alone!SnapshotDone(TheOne) /\ source[TheOne] = 0
    <3>1. told' \in BOOLEAN /\ (told' => told \/ mine[TheOne] # 0)
      BY <2>2, <2>5 DEF Alone!SnapshotDone
    <3> QED BY <2>5, <3>1, LoneGivesUp DEF Alone!SnapshotDone
  <2> QED BY <1>2, <2>3, <2>4, <2>5
<1>3. ~Alone!UserDeletes /\ ~Alone!UserLocks BY DEF Alone!UserDeletes, Alone!UserLocks
<1>4. Alone!Next => \/ Alone!SnapshotStep(TheOne) \/ Alone!RestoreStep(TheOne) \/ Alone!Crash
  BY <1>3 DEF Alone!Next
<1> QED
  BY <1>1, <1>2, <1>4, LoneBegins, LoneCreates, LoneCopies, LoneFinishes, LoneLooks,
     LoneDeletes, LoneDeleteFails, LoneRestores, LoneIsCutOff
     DEF Alone!SnapshotStep, Alone!RestoreStep

\* It holds of an empty directory.
LEMMA LoneStart == ASSUME Alone!Init PROVE LoneInv
<1>1. /\ onDisk = {} /\ lastSnap = 0 /\ told = FALSE /\ crashed = FALSE
      /\ torn = FALSE /\ noted = [b \in 1..LoneSnaps |-> 0]
      /\ content = [b \in 1..LoneSnaps |-> {}] /\ meta = [b \in 1..LoneSnaps |-> "none"]
      /\ pc = [c \in {TheOne} |-> "idle"] /\ mine = [c \in {TheOne} |-> 0]
      /\ copied = [c \in {TheOne} |-> 0] /\ source = [c \in {TheOne} |-> 0]
      /\ doomed = [c \in {TheOne} |-> {}]
  BY DEF Alone!Init, Alone!Snaps
<1>2. /\ 0 \in 0..LoneSnaps /\ 0 \in 0..Pieces /\ "idle" \in Alone!Stages /\ 0 \in 0..0
  BY StoreAssumption, LoneAssumption DEF Alone!Stages
<1>3. Alone!StoreTypeOK BY <1>1, <1>2 DEF Alone!StoreTypeOK, Alone!Snaps
<1>4. LoneShape BY <1>1, <1>3 DEF LoneShape
<1>5. LoneStage BY <1>1, <1>2 DEF LoneStage
<1>6. LoneDoomed BY <1>1 DEF LoneDoomed
<1>7. LoneDirectories
  BY <1>1 DEF LoneDirectories, Alone!NoDebris, Alone!FinishedUntorn, Alone!FinishedMeansWhole
<1>8. LoneKept BY <1>1 DEF LoneKept
<1> QED BY <1>4, <1>5, <1>6, <1>7, <1>8 DEF LoneInv

\* The invariant says what is promised.
LEMMA LoneKeepsItsWord ==
    ASSUME LoneInv
    PROVE  /\ Alone!NoDebris /\ Alone!FinishedUntorn
           /\ Alone!KeepsABackupUncut /\ Alone!SourceStays
<1>1. Alone!KeepsABackupUncut
  <2> SUFFICES ASSUME ~crashed, ~torn, told PROVE Alone!HasBackup
    BY DEF Alone!KeepsABackupUncut, Alone!KeepsABackup
  <2>1. PICK b \in onDisk : pc[TheOne] = "copy" => mine[TheOne] # b BY DEF LoneInv, LoneKept
  <2>2. Alone!Whole(b) /\ meta[b] # "none"
    BY <2>1 DEF LoneInv, LoneDirectories, Alone!FinishedUntorn, Alone!FinishedMeansWhole
  <2>3. b \in Alone!Snaps BY <2>1, LoneTypes DEF LoneInv, LoneShape, Alone!Snaps
  <2> QED BY <2>2, <2>3 DEF Alone!HasBackup
<1>2. Alone!SourceStays BY DEF LoneInv, LoneStage, Alone!SourceStays
<1> QED BY <1>1, <1>2 DEF LoneInv, LoneDirectories

\* It holds throughout.
LEMMA LoneThroughout == StoreSpec => [](part = "alone" => LoneInv)
<1> DEFINE I == part = "alone" => LoneInv
<1>1. StoreInit => I BY LoneStart DEF StoreInit
<1>2. I /\ [StoreNext]_<<part, vars, policyVars>> => I'
  <2> SUFFICES ASSUME I, [StoreNext]_<<part, vars, policyVars>>, part' = "alone"
               PROVE  LoneInv'
    OBVIOUS
  <2>1. part = "alone" BY DEF StoreNext
  <2>2. UNCHANGED vars => UNCHANGED Alone!vars
    BY DEF vars, store, callerVars, Alone!vars, Alone!store, Alone!callerVars
  <2>3. [Alone!Next]_(Alone!vars) BY <2>1, <2>2 DEF StoreNext
  <2> QED BY <2>1, <2>3, LoneStep
<1> QED BY <1>1, <1>2, PTL DEF StoreSpec

\* A caller alone, that nothing but the end of mserve disturbs, leaves no half copy
\* behind it, and none ever carries the metadata of a finished backup.
THEOREM LoneCallerLeavesNoDebris == StoreSpec => []LoneBackupsAreWhole
<1>1. (part = "alone" => LoneInv) => LoneBackupsAreWhole
  BY LoneKeepsItsWord DEF LoneBackupsAreWhole
<1> QED BY <1>1, LoneThroughout, PTL

\* Once it made a backup, a caller alone never leaves the server without one, however
\* often a copy fails, a pass refuses or its settings have it delete; and what it
\* restores is there until it is restored.
THEOREM LoneCallerKeepsABackup == StoreSpec => []LoneKeepsABackup
<1>1. (part = "alone" => LoneInv) => LoneKeepsABackup
  BY LoneKeepsItsWord DEF LoneKeepsABackup
<1> QED BY <1>1, LoneThroughout, PTL

\* A caller alone keeps both promises: its backups are whole, and there is one.
THEOREM LoneCallerIsTrue == StoreSpec => []LoneCallerKeepsItsWord
<1>1. LoneBackupsAreWhole /\ LoneKeepsABackup => LoneCallerKeepsItsWord
  BY DEF LoneCallerKeepsItsWord
<1> QED BY <1>1, LoneCallerLeavesNoDebris, LoneCallerKeepsABackup, PTL
================================================================================
