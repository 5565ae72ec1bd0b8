------------------------ MODULE KnowledgeLedger_proofs ------------------------
(***************************************************************************)
(* Proofs about KnowledgeLedger: types, that a fact is in force once, that  *)
(* the ledger is a book, that a retired run leaves its knowledge on record, *)
(* for any number of workers, runs and imports, any finite number of facts, *)
(* and any number of attempts to commit.                                   *)
(***************************************************************************)
EXTENDS KnowledgeLedger, FiniteSetTheorems, SequenceTheorems, WellFoundedInduction, TLAPS

-----------------------------------------------------------------------------
(* SetToSeq lists each element of a finite set once. *)
LEMMA Listed ==
  ASSUME NEW S, IsFiniteSet(S)
  PROVE  /\ SetToSeq(S) \in Seq(S)
         /\ \A i, j \in DOMAIN SetToSeq(S) : SetToSeq(S)[i] = SetToSeq(S)[j] => i = j
         /\ \A s \in S : \E i \in DOMAIN SetToSeq(S) : SetToSeq(S)[i] = s
<1>1. PICK n \in Nat : ExistsBijection(1..n, S)
  BY FS_NatBijection
<1>2. n = Cardinality(S)
  BY <1>1, FS_CountingElements
<1>3. PICK b \in Bijection(1..n, S) : TRUE
  BY <1>1 DEF ExistsBijection
<1>4. b \in [1..n -> S] /\ IsInjective(b)
  BY <1>3 DEF Bijection, Injection
<1>5. SetToSeq(S) \in [1..n -> S] /\ IsInjective(SetToSeq(S))
  BY <1>2, <1>4 DEF SetToSeq
<1>6. SetToSeq(S) \in Seq(S)
  BY <1>5, SeqDef
<1>7. ASSUME NEW s \in S, \A i \in 1..n : SetToSeq(S)[i] # s PROVE FALSE
  <2>1. IsFiniteSet(S \ {s}) /\ Cardinality(S \ {s}) = n - 1
    BY <1>2, FS_RemoveElement
  <2>2. IsFiniteSet(1..n) /\ Cardinality(1..n) = n
    BY FS_Interval
  <2>3. SetToSeq(S) \in [1..n -> S \ {s}]
    BY <1>5, <1>7
  <2> QED
    BY <1>5, <2>1, <2>2, <2>3, FS_PigeonHole DEF IsInjective
<1> QED
  BY <1>5, <1>6, <1>7 DEF IsInjective

-----------------------------------------------------------------------------
(* Min of numbers, and RemoveFirst of a sequence that has each element once. *)
Once(s) == \A i, j \in DOMAIN s : s[i] = s[j] => i = j
Among(s, e) == \E i \in DOMAIN s : s[i] = e

LEMMA LessIsWellFounded == IsWellFoundedOn({p \in Nat \X Nat : p[1] < p[2]}, Nat)
BY NatLessThanWellFounded DEF OpToRel

LEMMA Least ==
  ASSUME NEW S \in SUBSET Nat, S # {}
  PROVE  Min(S) \in S
<1> DEFINE R == {p \in Nat \X Nat : p[1] < p[2]}
<1>1. IsWellFoundedOn(R, Nat)
  BY LessIsWellFounded
<1>2. PICK n \in S : \A m \in S : ~(<<m, n>> \in R)
  <2> HIDE DEF R
  <2> QED BY <1>1, WFMin
<1>3. \A m \in S : ~(m < n)
  BY <1>2
<1>4. Min(S) = CHOOSE x \in S : \A y \in S : x <= y
  BY Zenon DEF Min
<1>5. \E x \in S : \A y \in S : x <= y
  BY <1>3
<1> HIDE DEF R
<1> QED BY <1>4, <1>5, Zenon

(* RemoveFirst takes an element out of a sequence that has it once. *)
LEMMA Removed ==
  ASSUME NEW S, NEW s \in Seq(S), Once(s), NEW e
  PROVE  LET t == RemoveFirst(s, e)
         IN  t \in Seq(S) /\ Once(t) /\ \A x : Among(t, x) <=> Among(s, x) /\ x # e
<1> DEFINE n == Len(s)
           I == {i \in 1..n : s[i] = e}
<1>1. n \in Nat /\ DOMAIN s = 1..n /\ \A i \in 1..n : s[i] \in S
  BY LenProperties, ElementOfSeq
<1>2. CASE I = {}
  <2>1. RemoveFirst(s, e) = s
    BY <1>2 DEF RemoveFirst
  <2>2. ~Among(s, e)
    BY <1>1, <1>2 DEF Among
  <2> QED
    BY <2>1, <2>2
<1>3. CASE I # {}
  <2> DEFINE k == Min(I)
             t == RemoveAt(s, k)
  <2>1. k \in 1..n /\ s[k] = e
    <3>1. I \in SUBSET Nat
      OBVIOUS
    <3>2. Min(I) \in I
      <4> HIDE DEF I
      <4> QED BY <1>3, <3>1, Least
    <3> QED BY <3>2
  <2>2. RemoveFirst(s, e) = t
    BY <1>3 DEF RemoveFirst, SelectInSeq
  <2> HIDE DEF k
  <2>3. /\ SubSeq(s, 1, k - 1) \in Seq(S) /\ Len(SubSeq(s, 1, k - 1)) = k - 1
        /\ \A i \in 1..(k - 1) : SubSeq(s, 1, k - 1)[i] = s[i]
    <3>1. /\ 1 \in 1..(n + 1) /\ k - 1 \in 0..n /\ (k - 1) - 1 + 1 = k - 1
          /\ \A i \in 1..(k - 1) : 1 + i - 1 = i
      BY <1>1, <2>1
    <3> QED
      BY <1>1, <2>1, <3>1, SubSeqProperties
  <2>4. /\ SubSeq(s, k + 1, n) \in Seq(S) /\ Len(SubSeq(s, k + 1, n)) = n - k
        /\ \A i \in 1..(n - k) : SubSeq(s, k + 1, n)[i] = s[k + i]
    <3> HIDE DEF n
    <3> DEFINE c == k + 1
               d == n
    <3>1. c \in Int /\ d \in Int /\ c = k + 1 /\ d = n
      BY <1>1, <2>1
    <3> HIDE DEF c, d
    <3>2. \A i \in c..d : s[i] \in S
      BY <1>1, <2>1, <3>1
    <3>3. /\ SubSeq(s, c, d) \in Seq(S)
          /\ Len(SubSeq(s, c, d)) = IF c <= d THEN d - c + 1 ELSE 0
          /\ \A i \in 1..(d - c + 1) : SubSeq(s, c, d)[i] = s[c + i - 1]
      BY <3>1, <3>2, SubSeqProperties
    <3>4. d - c + 1 = n - k /\ (~(c <= d) => n - k = 0)
      BY <1>1, <2>1, <3>1
    <3>5. Len(SubSeq(s, c, d)) = n - k
      BY <3>3, <3>4
    <3>6. ASSUME NEW i \in 1..(n - k) PROVE SubSeq(s, c, d)[i] = s[k + i]
      <4>1. c + i - 1 = k + i
        BY <1>1, <2>1, <3>1
      <4> QED
        BY <3>3, <3>4, <4>1
    <3> QED
      BY <3>1, <3>3, <3>5, <3>6
  <2>5. /\ t \in Seq(S) /\ DOMAIN t = 1..(n - 1)
        /\ \A i \in 1..(n - 1) : t[i] = s[IF i < k THEN i ELSE i + 1]
    <3> DEFINE a == SubSeq(s, 1, k - 1)
               b == SubSeq(s, k + 1, n)
    <3>1. t = a \o b
      BY DEF RemoveAt
    <3> HIDE DEF a, b, t
    <3>2. /\ t \in Seq(S) /\ Len(t) = (k - 1) + (n - k)
          /\ \A i \in 1..((k - 1) + (n - k)) :
               t[i] = IF i <= k - 1 THEN a[i] ELSE b[i - (k - 1)]
      <4>1. a \in Seq(S) /\ b \in Seq(S) /\ Len(a) = k - 1 /\ Len(b) = n - k
        BY <2>3, <2>4 DEF a, b
      <4> QED
        BY <3>1, <4>1, ConcatProperties
    <3>3. (k - 1) + (n - k) = n - 1
      BY <1>1, <2>1
    <3>4. DOMAIN t = 1..(n - 1)
      BY <3>2, <3>3, LenProperties
    <3>5. ASSUME NEW i \in 1..(n - 1) PROVE t[i] = s[IF i < k THEN i ELSE i + 1]
      <4>1. CASE i < k
        <5>1. i \in 1..(k - 1) /\ i <= k - 1
          BY <4>1, <2>1, <1>1
        <5> QED
          BY <2>3, <3>2, <3>3, <4>1, <5>1 DEF a
      <4>2. CASE ~(i < k)
        <5>1. i - (k - 1) \in 1..(n - k) /\ ~(i <= k - 1) /\ k + (i - (k - 1)) = i + 1
          BY <4>2, <2>1, <1>1
        <5>2. t[i] = b[i - (k - 1)]
          BY <3>2, <3>3, <5>1
        <5>3. b[i - (k - 1)] = s[k + (i - (k - 1))]
          BY <2>4, <5>1 DEF b
        <5> QED
          BY <4>2, <5>1, <5>2, <5>3
      <4> QED
        BY <4>1, <4>2
    <3> QED
      BY <3>2, <3>4, <3>5
  <2> HIDE DEF t
  <2>6. Once(t)
    <3> SUFFICES ASSUME NEW i \in 1..(n - 1), NEW j \in 1..(n - 1), t[i] = t[j]
                 PROVE  i = j
      BY <2>5 DEF Once
    <3> DEFINE u == IF i < k THEN i ELSE i + 1
               v == IF j < k THEN j ELSE j + 1
    <3>1. u \in 1..n /\ v \in 1..n
      BY <1>1, <2>1
    <3>2. u = v
      BY <1>1, <2>5, <3>1 DEF Once
    <3> QED
      BY <1>1, <2>1, <3>2
  <2>7. ASSUME NEW x, Among(t, x) PROVE Among(s, x) /\ x # e
    <3>1. PICK i \in 1..(n - 1) : t[i] = x
      BY <2>5, <2>7 DEF Among
    <3> DEFINE u == IF i < k THEN i ELSE i + 1
    <3>2. u \in 1..n /\ u # k
      BY <1>1, <2>1
    <3>3. s[u] = x
      BY <2>5, <3>1
    <3>4. x # e
      BY <1>1, <2>1, <3>2, <3>3 DEF Once
    <3> QED
      BY <1>1, <3>2, <3>3, <3>4 DEF Among
  <2>8. ASSUME NEW x, Among(s, x), x # e PROVE Among(t, x)
    <3>1. PICK i \in 1..n : s[i] = x
      BY <1>1, <2>8 DEF Among
    <3>2. i # k
      BY <2>1, <2>8, <3>1
    <3> DEFINE u == IF i < k THEN i ELSE i - 1
    <3>3. u \in 1..(n - 1) /\ (IF u < k THEN u ELSE u + 1) = i
      BY <1>1, <2>1, <3>2
    <3>4. t[u] = x
      BY <2>5, <3>1, <3>3
    <3> QED
      BY <2>5, <3>3, <3>4 DEF Among
  <2> QED
    BY <2>2, <2>5, <2>6, <2>7, <2>8
<1> QED
  BY <1>2, <1>3
-----------------------------------------------------------------------------
(* The ledger only grows: what a transaction makes of it.                      *)
Row == [fact : Fact, imported : BOOLEAN, superseded : BOOLEAN, revision : Nat]
TablesInv == revision \in Nat /\ records \in Seq(Row)
OnRecord == {records[i].fact : i \in DOMAIN records}

Carried(i, renewed) ==
  /\ records'[i].fact = records[i].fact
  /\ records'[i].revision \in {records[i].revision, revision + 1}
  /\ ~records'[i].superseded => ~records[i].superseded \/ i \in renewed

LEMMA Appended ==
  ASSUME TablesInv, NEW facts \in SUBSET Fact, NEW imported \in BOOLEAN, NEW superseded,
         NEW renewed, Enter(facts, imported, superseded, renewed)
  PROVE  LET L == SetToSeq(facts)
             n == Len(records)
             k == Len(L)
         IN  /\ n \in Nat /\ DOMAIN records = 1..n /\ \A i \in 1..n : records[i] \in Row
             /\ k \in Nat /\ DOMAIN L = 1..k /\ \A i \in 1..k : L[i] \in facts
             /\ \A i, j \in DOMAIN L : L[i] = L[j] => i = j
             /\ \A f \in facts : \E i \in DOMAIN L : L[i] = f
             /\ records' \in Seq(Row) /\ Len(records') = n + k
             /\ DOMAIN records' = 1..(n + k)
             /\ \A i \in 1..n : i \in 1..(n + k) /\ Carried(i, renewed)
             /\ \A i \in 1..k :
                  /\ n + i \in 1..(n + k)
                  /\ records'[n + i].fact = L[i] /\ ~records'[n + i].superseded
                  /\ records'[n + i].revision = revision + 1
             /\ revision \in Nat /\ revision' = revision + 1
<1> DEFINE L == SetToSeq(facts)
           n == Len(records)
           k == Len(L)
           old == [i \in DOMAIN records |-> Rewritten(i, superseded, renewed)]
           new == [i \in DOMAIN L |->
                     [fact |-> L[i], imported |-> imported, superseded |-> FALSE,
                      revision |-> revision + 1]]
<1>1. IsFiniteSet(facts)
  BY FS_Subset, LedgerAssumption
<1>2. /\ L \in Seq(facts)
      /\ \A i, j \in DOMAIN L : L[i] = L[j] => i = j
      /\ \A f \in facts : \E i \in DOMAIN L : L[i] = f
  BY <1>1, Listed
<1>3. /\ k \in Nat /\ DOMAIN L = 1..k /\ \A i \in 1..k : L[i] \in facts
      /\ n \in Nat /\ DOMAIN records = 1..n /\ \A i \in 1..n : records[i] \in Row
      /\ revision \in Nat
  <2> HIDE DEF L
  <2> QED
    BY <1>2, LenProperties, ElementOfSeq DEF TablesInv
<1> HIDE DEF L
<1>4. /\ old \in Seq(Row) /\ Len(old) = n
      /\ \A i \in 1..n :
           /\ old[i].fact = records[i].fact
           /\ old[i].revision \in {records[i].revision, revision + 1}
           /\ ~old[i].superseded => ~records[i].superseded \/ i \in renewed
  <2>1. ASSUME NEW i \in 1..n
        PROVE  /\ old[i] \in Row /\ old[i].fact = records[i].fact
               /\ old[i].revision \in {records[i].revision, revision + 1}
               /\ ~old[i].superseded => ~records[i].superseded \/ i \in renewed
    <3>1. old[i] = Rewritten(i, superseded, renewed)
      BY <1>3
    <3> HIDE DEF old
    <3>2. CASE i \in renewed
      <4>1. PICK b \in BOOLEAN : b = (i \in superseded)
        <5>1. CASE i \in superseded
          BY <5>1
        <5>2. CASE i \notin superseded
          <6>1. FALSE = (i \in superseded)
            BY <5>2
          <6> QED
            BY <6>1, Zenon
        <5> QED
          BY <5>1, <5>2
      <4>2. old[i] = [records[i] EXCEPT !.superseded = b, !.revision = revision + 1]
        BY <3>1, <3>2, <4>1 DEF Rewritten
      <4>3. records[i] \in Row /\ revision + 1 \in Nat
        BY <1>3
      <4>4. /\ [records[i] EXCEPT !.superseded = b, !.revision = revision + 1] \in Row
            /\ [records[i] EXCEPT !.superseded = b, !.revision = revision + 1].fact
                 = records[i].fact
            /\ [records[i] EXCEPT !.superseded = b, !.revision = revision + 1].revision
                 = revision + 1
        BY <4>3 DEF Row
      <4> QED
        BY <3>2, <4>2, <4>4
    <3>3. CASE i \notin renewed
      <4>1. records[i].superseded \in BOOLEAN
        BY <1>3 DEF Row
      <4>2. PICK b \in BOOLEAN : b = (records[i].superseded \/ i \in superseded)
        BY <4>1
      <4>3. old[i] = [records[i] EXCEPT !.superseded = b]
        BY <3>1, <3>3, <4>2 DEF Rewritten
      <4>4. /\ [records[i] EXCEPT !.superseded = b] \in Row
            /\ [records[i] EXCEPT !.superseded = b].fact = records[i].fact
            /\ [records[i] EXCEPT !.superseded = b].revision = records[i].revision
            /\ [records[i] EXCEPT !.superseded = b].superseded = b
        BY <1>3 DEF Row
      <4>5. ~b => ~records[i].superseded
        BY <4>1, <4>2
      <4> QED
        BY <4>3, <4>4, <4>5
    <3> QED
      BY <3>2, <3>3
  <2>2. old \in [1..n -> Row]
    BY <1>3, <2>1
  <2> HIDE DEF old
  <2> QED
    BY <1>3, <2>1, <2>2, SeqDef, LenProperties
<1>5. /\ new \in Seq(Row) /\ Len(new) = k
      /\ \A i \in 1..k :
           new[i].fact = L[i] /\ ~new[i].superseded /\ new[i].revision = revision + 1
  <2>1. /\ new \in [1..k -> Row]
        /\ \A i \in 1..k :
             new[i].fact = L[i] /\ ~new[i].superseded /\ new[i].revision = revision + 1
    BY <1>3 DEF Row
  <2> HIDE DEF new
  <2> QED
    BY <1>3, <2>1, SeqDef, LenProperties
<1>6. records' = old \o new /\ revision' = revision + 1
  BY DEF Enter, L
<1> HIDE DEF old, new, n, k
<1>7. /\ records' \in Seq(Row) /\ Len(records') = n + k
      /\ \A i \in 1..(n + k) : records'[i] = IF i <= n THEN old[i] ELSE new[i - n]
  <2>1. old \in Seq(Row) /\ new \in Seq(Row) /\ Len(old) = n /\ Len(new) = k
    BY <1>4, <1>5
  <2> QED
    BY <1>6, <2>1, ConcatProperties
<1>8. DOMAIN records' = 1..(n + k)
  BY <1>7, LenProperties
<1>9. ASSUME NEW i \in 1..n
      PROVE  i \in 1..(n + k) /\ Carried(i, renewed)
  <2>1. i \in 1..(n + k) /\ i <= n
    BY <1>3
  <2> QED
    BY <1>4, <1>7, <2>1 DEF Carried
<1>10. ASSUME NEW i \in 1..k
       PROVE  /\ n + i \in 1..(n + k)
              /\ records'[n + i].fact = L[i] /\ ~records'[n + i].superseded
              /\ records'[n + i].revision = revision + 1
  <2>1. n + i \in 1..(n + k) /\ ~(n + i <= n) /\ (n + i) - n = i
    BY <1>3
  <2>2. records'[n + i] = new[i]
    BY <1>7, <2>1
  <2> QED
    BY <1>5, <2>1, <2>2
<1> QED
  BY <1>2, <1>3, <1>6, <1>7, <1>8, <1>9, <1>10 DEF L, n, k

(* Nothing is opened twice: what is added, and what is renewed and was not in     *)
(* force, is of facts none in force has, and such a renewal comes alone.       *)
Opens(facts, renewed) ==
  /\ \A f \in facts : ~Known(f)
  /\ \A i \in renewed \ Held : /\ i \in DOMAIN records /\ ~Known(records[i].fact)
                               /\ facts = {} /\ renewed = {i}

LEMMA Entered ==
  ASSUME TablesInv, NEW facts \in SUBSET Fact, NEW imported \in BOOLEAN, NEW superseded,
         NEW renewed, Enter(facts, imported, superseded, renewed)
  PROVE  /\ TablesInv'
         /\ OnRecord \cup facts \subseteq OnRecord'
         /\ Opens(facts, renewed) =>
              /\ OneRecordPerFact => OneRecordPerFact'
              /\ \A i \in Held' : i \in Held \/ ~Known(records'[i].fact)
         /\ \A i \in DOMAIN records' :
              \/ records'[i].revision = revision + 1
              \/ i \in DOMAIN records /\ records'[i].revision = records[i].revision
<1> DEFINE L == SetToSeq(facts)
           n == Len(records)
           k == Len(L)
<1>1. /\ n \in Nat /\ DOMAIN records = 1..n
      /\ k \in Nat /\ DOMAIN L = 1..k /\ \A i \in 1..k : L[i] \in facts
      /\ \A i, j \in DOMAIN L : L[i] = L[j] => i = j
      /\ \A f \in facts : \E i \in DOMAIN L : L[i] = f
  BY Appended
<1>2. /\ records' \in Seq(Row) /\ DOMAIN records' = 1..(n + k)
      /\ revision \in Nat /\ revision' = revision + 1
  BY Appended
<1>3. \A i \in 1..n : /\ i \in 1..(n + k) /\ records'[i].fact = records[i].fact
                      /\ records'[i].revision \in {records[i].revision, revision + 1}
                      /\ InForce(i)' => InForce(i) \/ i \in renewed
  <2>1. \A i \in 1..n : i \in 1..(n + k) /\ Carried(i, renewed)
    BY Appended
  <2> HIDE DEF L, n, k
  <2> QED
    BY <2>1 DEF Carried, InForce
<1>4. \A i \in 1..k : /\ n + i \in 1..(n + k) /\ records'[n + i].fact = L[i]
                      /\ records'[n + i].revision = revision + 1
  BY Appended
<1> HIDE DEF L, n, k
<1>5. OnRecord \cup facts \subseteq OnRecord'
  <2>1. ASSUME NEW i \in 1..n PROVE records[i].fact \in OnRecord'
    BY <1>2, <1>3 DEF OnRecord
  <2>2. ASSUME NEW i \in 1..k PROVE L[i] \in OnRecord'
    BY <1>2, <1>4 DEF OnRecord
  <2>3. \A f \in facts : \E i \in 1..k : L[i] = f
    BY <1>1
  <2>4. OnRecord = {records[i].fact : i \in 1..n}
    BY <1>1 DEF OnRecord
  <2> QED
    BY <2>1, <2>2, <2>3, <2>4
<1>6. ASSUME Opens(facts, renewed), NEW i \in Held', i \notin Held
      PROVE  \/ i \in renewed
             \/ i \notin 1..n /\ i - n \in 1..k /\ i = n + (i - n) /\ records'[i].fact \in facts
  <2>1. i \in 1..(n + k) /\ InForce(i)'
    BY <1>2 DEF Held
  <2>2. CASE i \in 1..n
    BY <1>1, <1>3, <1>6, <2>1, <2>2 DEF Held
  <2>3. CASE i \notin 1..n
    <3>1. i - n \in 1..k /\ i = n + (i - n)
      BY <1>1, <2>1, <2>3
    <3>2. records'[n + (i - n)].fact = L[i - n]
      BY <1>4, <3>1
    <3> QED
      BY <1>1, <2>3, <3>1, <3>2
  <2> QED
    BY <2>2, <2>3
<1>7. ASSUME Opens(facts, renewed), NEW i \in Held'
      PROVE  i \in Held \/ ~Known(records'[i].fact)
  <2>1. ASSUME i \in renewed, i \notin Held PROVE ~Known(records'[i].fact)
    BY <1>1, <1>3, <1>7, <2>1 DEF Opens
  <2> QED
    BY <1>6, <1>7, <2>1 DEF Opens
<1>8. ASSUME Opens(facts, renewed), NEW i \in Held', NEW j \in Held', i \in Held,
             records'[i].fact = records'[j].fact
      PROVE  j \in Held
  <2>1. i \in 1..n /\ InForce(i)
    BY <1>1, <1>8 DEF Held
  <2>2. Known(records'[i].fact)
    BY <1>1, <1>3, <2>1 DEF Known
  <2> QED
    BY <1>7, <1>8, <2>2
<1>9. ASSUME OneRecordPerFact, Opens(facts, renewed), NEW i \in Held', NEW j \in Held',
             records'[i].fact = records'[j].fact
      PROVE  i = j
  <2>1. CASE i \in Held \/ j \in Held
    <3>1. i \in Held /\ j \in Held
      BY <1>8, <1>9, <2>1
    <3> QED
      BY <1>1, <1>3, <1>9, <3>1 DEF OneRecordPerFact, Held
  <2>2. CASE i \notin Held /\ j \notin Held
    <3>1. CASE i \in renewed \/ j \in renewed
      BY <1>6, <1>9, <2>2, <3>1 DEF Opens
    <3>2. CASE i \notin renewed /\ j \notin renewed
      <4>1. /\ i - n \in 1..k /\ i = n + (i - n)
            /\ j - n \in 1..k /\ j = n + (j - n)
        BY <1>6, <1>9, <2>2, <3>2
      <4>2. L[i - n] = L[j - n]
        BY <1>4, <1>9, <4>1
      <4>3. i - n = j - n
        BY <1>1, <4>1, <4>2
      <4> QED
        BY <4>1, <4>3
    <3> QED
      BY <3>1, <3>2
  <2> QED
    BY <2>1, <2>2
<1>10. TablesInv'
  BY <1>2 DEF TablesInv
<1>11. ASSUME NEW i \in DOMAIN records'
       PROVE  \/ records'[i].revision = revision + 1
              \/ i \in DOMAIN records /\ records'[i].revision = records[i].revision
  <2>1. CASE i \in 1..n
    BY <1>1, <1>3, <2>1
  <2>2. CASE i \notin 1..n
    <3>1. i - n \in 1..k /\ n + (i - n) = i
      BY <1>1, <1>2, <2>2
    <3> QED
      BY <1>4, <3>1
  <2> QED
    BY <2>1, <2>2
<1> QED
  BY <1>5, <1>7, <1>9, <1>10, <1>11 DEF OneRecordPerFact

LEMMA HeldAreNumbers == TablesInv => DOMAIN records \subseteq Nat /\ Held \subseteq Nat
BY LenProperties DEF TablesInv, Held

(* Every step leaves the tables alone or is such a transaction. *)
Transaction ==
  \E facts \in SUBSET Fact, imported \in BOOLEAN, superseded \in SUBSET Nat,
    renewed \in SUBSET Nat :
      Enter(facts, imported, superseded, renewed) /\ Opens(facts, renewed)

LEMMA Tables ==
  ASSUME TablesInv, [Next]_vars
  PROVE  UNCHANGED <<revision, records>> \/ Transaction
<1>1. ASSUME NEW r, Transact(r)
      PROVE  UNCHANGED <<revision, records>> \/ Transaction
  <2>1. Fresh(r) \in SUBSET Fact /\ Opens(Fresh(r), {})
    BY DEF Fresh, Verified, Opens
  <2>2. Enter(Fresh(r), FALSE, Targets(r), {}) \/ UNCHANGED <<revision, records>>
    BY <1>1 DEF Transact, tables
  <2>3. Targets(r) \in SUBSET Nat
    BY HeldAreNumbers DEF Targets, Ended
  <2> QED
    BY <2>1, <2>2, <2>3 DEF Transaction
<1>2. CASE Import
  <2>1. PICK superseded \in {{}} \cup {{i} : i \in Held} :
          \/ \E f \in Fact : Enter(IF Known(f) THEN {} ELSE {f}, TRUE, superseded,
                                 {i \in Held : records[i].fact = f})
          \/ \E i \in Revivable : Enter({}, TRUE, superseded, {i})
    BY <1>2 DEF Import
  <2>2. superseded \in SUBSET Nat
    BY HeldAreNumbers
  <2>3. ASSUME NEW f \in Fact, Enter(IF Known(f) THEN {} ELSE {f}, TRUE, superseded,
                                      {i \in Held : records[i].fact = f})
        PROVE  Transaction
    <3> DEFINE facts == IF Known(f) THEN {} ELSE {f}
               renewed == {i \in Held : records[i].fact = f}
    <3>1. facts \in SUBSET Fact /\ Opens(facts, renewed)
      BY DEF Opens
    <3>2. renewed \in SUBSET Nat
      BY HeldAreNumbers
    <3>3. Enter(facts, TRUE, superseded, renewed)
      BY <2>3
    <3> HIDE DEF facts, renewed
    <3> QED
      BY <2>2, <3>1, <3>2, <3>3 DEF Transaction
  <2>4. ASSUME NEW i \in Revivable, Enter({}, TRUE, superseded, {i})
        PROVE  Transaction
    <3>1. {i} \in SUBSET Nat /\ Opens({}, {i})
      BY HeldAreNumbers DEF Revivable, Opens
    <3> QED
      BY <2>2, <2>4, <3>1 DEF Transaction
  <2> QED
    BY <2>1, <2>3, <2>4
<1>3. CASE UNCHANGED vars
  BY <1>3 DEF vars, tables
<1>4. ASSUME NEW r \in Run, Start(r) \/ Retire(r) PROVE UNCHANGED <<revision, records>>
  BY <1>4 DEF Start, Retire, tables
<1>5. ASSUME NEW w \in Worker, NEW r \in Run, Observe(w, r) \/ Finalize(w, r)
      PROVE  UNCHANGED <<revision, records>>
  BY <1>5 DEF Observe, Finalize, Begin, tables
<1>6. ASSUME NEW w \in Worker,
             Review(w) \/ Decide(w) \/ Miss(w) \/ Record(w) \/ PickDeferred(w) \/
             Receipt(w) \/ Leave(w)
      PROVE  UNCHANGED <<revision, records>>
  BY <1>6 DEF Review, Decide, Miss, Record, PickDeferred, Receipt, Leave, tables
<1>7. ASSUME NEW w \in Worker, Commit(w) \/ Recover(w)
      PROVE  Transact(Mine(w)) \/ Transact(job[w].other) \/ UNCHANGED <<revision, records>>
  BY <1>7 DEF Commit, Recover, tables
<1> QED
  BY <1>1, <1>2, <1>3, <1>4, <1>5, <1>6, <1>7 DEF Next, Step

LEMMA TablesStep ==
  ASSUME TablesInv, [Next]_vars
  PROVE  /\ TablesInv' /\ OnRecord \subseteq OnRecord'
         /\ OneRecordPerFact => OneRecordPerFact'
<1>1. CASE UNCHANGED <<revision, records>>
  BY <1>1 DEF TablesInv, OnRecord, OneRecordPerFact, Held, InForce
<1> QED
  BY <1>1, Tables, Entered DEF Transaction

LEMMA TablesInit == Init => TablesInv /\ OneRecordPerFact
  BY EmptySeq DEF Init, TablesInv, OneRecordPerFact, Held

(* A fact is in force once, whichever way commits, recoveries and imports cross. *)
THEOREM OneRecordHolds == Spec => []OneRecordPerFact
<1>1. TablesInv /\ OneRecordPerFact /\ [Next]_vars => (TablesInv /\ OneRecordPerFact)'
  BY TablesStep
<1> QED
  BY <1>1, TablesInit, PTL DEF Spec

-----------------------------------------------------------------------------
(* The ledger is a book that is only written on, see KnowledgeBook. *)
LEMMA FactsAreListed == TablesInv => Facts \in Seq(Fact)
<1> SUFFICES ASSUME TablesInv PROVE Facts \in Seq(Fact)
  OBVIOUS
<1>1. Len(records) \in Nat /\ DOMAIN records = 1..Len(records)
  BY LenProperties DEF TablesInv
<1>2. Facts \in [1..Len(records) -> Fact]
  <2>1. \A i \in 1..Len(records) : records[i] \in Row
    BY <1>1, ElementOfSeq DEF TablesInv
  <2>2. \A i \in 1..Len(records) : records[i].fact \in Fact
    BY <2>1 DEF Row
  <2> QED
    BY <1>1, <2>2 DEF Facts
<1> QED
  BY <1>1, <1>2, SeqDef, LenProperties

(* A commit, a recovery and an import are publications. *)
LEMMA Published ==
  ASSUME TablesInv, OneRecordPerFact, Transaction
  PROVE  Book!Publish
<1>1. PICK facts \in SUBSET Fact, imported \in BOOLEAN, superseded \in SUBSET Nat,
          renewed \in SUBSET Nat :
        Enter(facts, imported, superseded, renewed) /\ Opens(facts, renewed)
  BY DEF Transaction
<1> DEFINE n == Len(records)
           k == Len(SetToSeq(facts))
<1>2. /\ n \in Nat /\ DOMAIN records = 1..n
      /\ k \in Nat /\ DOMAIN records' = 1..(n + k)
      /\ revision' = revision + 1
  BY <1>1, Appended
<1>3. /\ \A i \in 1..n : i \in 1..(n + k) /\ records'[i].fact = records[i].fact
      /\ \A i \in 1..k : ~records'[n + i].superseded
  <2>1. \A i \in 1..n : i \in 1..(n + k) /\ Carried(i, renewed)
    BY <1>1, Appended
  <2>2. \A i \in 1..k : ~records'[n + i].superseded
    BY <1>1, Appended
  <2> HIDE DEF n, k
  <2> QED
    BY <2>1, <2>2 DEF Carried
<1>4. /\ TablesInv' /\ OneRecordPerFact'
      /\ \A i \in Held' : i \in Held \/ ~Known(records'[i].fact)
  BY <1>1, Entered
<1> HIDE DEF n, k
<1>5. Facts' \in Seq(Fact)
  <2>1. TablesInv' => (Facts \in Seq(Fact))'
    BY FactsAreListed, PTL
  <2> QED
    BY <1>4, <2>1
<1>6. /\ DOMAIN Facts = 1..n /\ DOMAIN Facts' = 1..(n + k) /\ 1..n \subseteq 1..(n + k)
      /\ Facts = [i \in 1..n |-> records[i].fact]
      /\ \A i \in 1..n : Facts'[i] = Facts[i] /\ Facts[i] = records[i].fact
      /\ \A i \in 1..(n + k) : Facts'[i] = records'[i].fact
  BY <1>2, <1>3 DEF Facts
<1>7. Book!Restrict(Facts', DOMAIN Facts) = Facts
  BY <1>6 DEF Book!Restrict
<1>8. Book!InForce = Held /\ Book!InForce' = Held'
  <2>1. Book!InForce = Held
    BY DEF Book!InForce, Facts, Over, Held, InForce
  <2>2. Book!InForce' = Held'
    BY DEF Book!InForce, Facts, Over, Held, InForce
  <2> QED
    BY <2>1, <2>2
<1>9. Over' \subseteq DOMAIN Facts
  <2>1. \A i \in 1..(n + k) : i \in 1..n \/ (i - n \in 1..k /\ n + (i - n) = i)
    BY <1>2
  <2>2. \A i \in 1..(n + k) : i \in 1..n \/ ~records'[i].superseded
    BY <1>3, <2>1
  <2> QED
    BY <1>2, <1>6, <2>2 DEF Over
<1>10. Held \subseteq 1..n /\ Held' \subseteq 1..(n + k)
  BY <1>2 DEF Held
<1>11. Book!IsInjective(Book!Restrict(Facts', Held' \ Held))
  BY <1>4, <1>6, <1>10 DEF OneRecordPerFact, Book!IsInjective, Book!Restrict
<1>12. \A i \in Held, j \in Held' \ Held : Facts[i] # Facts'[j]
  BY <1>2, <1>4, <1>6, <1>10 DEF Known, Held
<1> QED
  BY <1>2, <1>5, <1>6, <1>7, <1>8, <1>9, <1>11, <1>12 DEF Book!Publish

(* Whatever commits on stale revisions, recovers for others, imports, retires or *)
(* dies: to its readers the ledger is a book.                                  *)
THEOREM LedgerRefinesBook == Spec => LedgerIsABook
<1>1. Init => Book!Init
  BY DEF Init, Book!Init, Facts, Over
<1>2. ASSUME TablesInv, OneRecordPerFact, [Next]_vars PROVE [Book!Publish]_Book!vars
  <2>1. CASE UNCHANGED <<revision, records>>
    BY <2>1 DEF Book!vars, Facts, Over
  <2> QED
    BY <1>2, <2>1, Tables, Published
<1>3. TablesInv /\ OneRecordPerFact /\ [Next]_vars => (TablesInv /\ OneRecordPerFact)'
  BY TablesStep
<1> QED
  BY <1>1, <1>2, <1>3, TablesInit, PTL DEF Spec, Book!Spec, LedgerIsABook

-----------------------------------------------------------------------------
(* The rows of runs and workers have their fields. *)
Locals == {"at", "kind", "run", "other", "expected", "attempt", "said", "after"}
Columns == {"at", "start", "target", "finalization", "said"}
JobShaped(j) == DOMAIN j = Locals /\ j = [x \in Locals |-> j[x]]
RunShaped(q) == DOMAIN q = Columns /\ q = [x \in Columns |-> q[x]]

Shaped ==
  /\ job = [w \in Worker |-> job[w]] /\ \A w \in Worker : JobShaped(job[w])
  /\ run = [r \in Run |-> run[r]] /\ \A r \in Run : RunShaped(run[r])
  /\ candidate = [r \in Run |-> candidate[r]]
  /\ receipt = [r \in Run |-> receipt[r]]

LEMMA IdleShaped == JobShaped(Idle) /\ Idle.at = "idle"
BY DEF Idle, JobShaped, Locals

LEMMA Becoming ==
  ASSUME Shaped, NEW w \in Worker, NEW j, JobShaped(j), Become(w, j)
  PROVE  /\ \A v \in Worker : job'[v] = IF v = w THEN j ELSE job[v]
         /\ job' = [v \in Worker |-> job'[v]] /\ \A v \in Worker : JobShaped(job'[v])
<1>1. job' = [v \in Worker |-> IF v = w THEN j ELSE job[v]]
  BY DEF Shaped, Become
<1>2. \A v \in Worker : job'[v] = IF v = w THEN j ELSE job[v]
  BY <1>1
<1>3. job' = [v \in Worker |-> job'[v]]
  BY <1>1, <1>2
<1> QED
  BY <1>2, <1>3 DEF Shaped

(* A worker goes on, with some of its locals changed. *)
LEMMA ChangedAt ==
  ASSUME NEW j, JobShaped(j), NEW at
  PROVE  LET k == [j EXCEPT !.at = at]
         IN  JobShaped(k) /\ k.at = at
BY DEF JobShaped, Locals

LEMMA ChangedSaid ==
  ASSUME NEW j, JobShaped(j), NEW at, NEW said
  PROVE  LET k == [j EXCEPT !.at = at, !.said = said]
         IN  JobShaped(k) /\ k.at = at
BY DEF JobShaped, Locals

LEMMA ChangedOther ==
  ASSUME NEW j, JobShaped(j), NEW at, NEW other
  PROVE  LET k == [j EXCEPT !.at = at, !.other = other]
         IN  JobShaped(k) /\ k.at = at
BY DEF JobShaped, Locals

LEMMA ChangedAfter ==
  ASSUME NEW j, JobShaped(j), NEW at, NEW said, NEW after
  PROVE  LET k == [j EXCEPT !.at = at, !.said = said, !.after = after]
         IN  JobShaped(k) /\ k.at = at /\ k.other = j.other
BY DEF JobShaped, Locals

LEMMA ChangedAttempt ==
  ASSUME NEW j, JobShaped(j), NEW at, NEW attempt, NEW expected
  PROVE  LET k == [j EXCEPT !.at = at, !.attempt = attempt, !.expected = expected]
         IN  JobShaped(k) /\ k.at = at
BY DEF JobShaped, Locals

LEMMA ChangedExpected ==
  ASSUME NEW j, JobShaped(j), NEW expected, NEW attempt
  PROVE  LET k == [j EXCEPT !.expected = expected, !.attempt = attempt]
         IN  JobShaped(k) /\ k.at = j.at
BY DEF JobShaped, Locals

-----------------------------------------------------------------------------
(* Every step keeps the shapes. *)
LEMMA RowChanged ==
  ASSUME Shaped, NEW r, NEW q, RunShaped(q), run' = [run EXCEPT ![r] = q]
  PROVE  /\ \A s \in Run : run'[s] = IF s = r THEN q ELSE run[s]
         /\ run' = [s \in Run |-> run'[s]] /\ \A s \in Run : RunShaped(run'[s])
<1>1. run' = [s \in Run |-> IF s = r THEN q ELSE run[s]]
  BY DEF Shaped
<1>2. \A s \in Run : run'[s] = IF s = r THEN q ELSE run[s]
  BY <1>1
<1>3. run' = [s \in Run |-> run'[s]]
  BY <1>1, <1>2
<1> QED
  BY <1>2, <1>3 DEF Shaped

LEMMA CandidateChanged ==
  ASSUME Shaped, NEW r, NEW c, candidate' = [candidate EXCEPT ![r] = c]
  PROVE  /\ \A s \in Run : candidate'[s] = IF s = r THEN c ELSE candidate[s]
         /\ candidate' = [s \in Run |-> candidate'[s]]
<1>1. candidate' = [s \in Run |-> IF s = r THEN c ELSE candidate[s]]
  BY DEF Shaped
<1> QED
  BY <1>1

LEMMA ReceiptChanged ==
  ASSUME Shaped, NEW r, NEW c, receipt' = [receipt EXCEPT ![r] = c]
  PROVE  /\ \A s \in Run : receipt'[s] = IF s = r THEN c ELSE receipt[s]
         /\ receipt' = [s \in Run |-> receipt'[s]]
<1>1. receipt' = [s \in Run |-> IF s = r THEN c ELSE receipt[s]]
  BY DEF Shaped
<1> QED
  BY <1>1

-----------------------------------------------------------------------------
(* Most steps are steady: nothing more is verified, no receipt settles a run    *)
(* whose receipt is not being written anyway, and nobody begins to write one.   *)
Receipting(r) == \E w \in Worker : job[w].at = "receipting" /\ job[w].other = r
Steady ==
  /\ \A r \in Run :
       /\ Verified(r)' \subseteq Verified(r)
       /\ receipt'[r].status \in Settling => receipt[r].status \in Settling \/ Receipting(r)
  /\ \A w \in Worker : job'[w].at = "receipting" => job'[w] = job[w]

(* Runs are retired by Retire. *)
Lasting == \A r \in Run : run'[r].at = "retired" => run[r].at = "retired"

LEMMA RunSteps ==
  ASSUME Shaped, NEW r \in Run, Start(r) \/ Retire(r)
  PROVE  Shaped' /\ Steady /\ \A q \in Run : run'[q].at = "retired" =>
                               run[q].at = "retired" \/ (q = r /\ Retire(r))
<1>1. CASE Start(r)
  <2>1. PICK target : run' = [run EXCEPT ![r] =
          [NoRun EXCEPT !.at = "open", !.start = revision, !.target = target]]
    BY <1>1 DEF Start
  <2> DEFINE q == [NoRun EXCEPT !.at = "open", !.start = revision, !.target = target]
  <2>2. RunShaped(q) /\ q.at = "open"
    BY DEF NoRun, RunShaped, Columns
  <2>3. /\ \A s \in Run : run'[s] = IF s = r THEN q ELSE run[s]
        /\ run' = [s \in Run |-> run'[s]] /\ \A s \in Run : RunShaped(run'[s])
    <3> HIDE DEF q
    <3> QED
      BY <2>1, <2>2, RowChanged DEF q
  <2>4. job' = job /\ candidate' = candidate /\ receipt' = receipt
    BY <1>1 DEF Start
  <2>5. Shaped'
    BY <2>3, <2>4 DEF Shaped
  <2>6. Steady
    BY <2>4 DEF Steady, Verified
  <2> HIDE DEF q
  <2> QED
    BY <2>2, <2>3, <2>5, <2>6
<1>2. CASE Retire(r)
  <2> DEFINE q == [NoRun EXCEPT !.at = "retired"]
  <2>2. RunShaped(q) /\ q.at = "retired"
    BY DEF NoRun, RunShaped, Columns
  <2>3. /\ \A s \in Run : run'[s] = IF s = r THEN q ELSE run[s]
        /\ run' = [s \in Run |-> run'[s]] /\ \A s \in Run : RunShaped(run'[s])
    <3>1. run' = [run EXCEPT ![r] = q]
      BY <1>2 DEF Retire
    <3> HIDE DEF q
    <3> QED
      BY <2>2, <3>1, RowChanged
  <2>4. /\ job' = job
        /\ candidate' = [candidate EXCEPT ![r] = NoCandidates]
        /\ receipt' = [receipt EXCEPT ![r] = NoReceipt]
    BY <1>2 DEF Retire
  <2>5. Shaped'
    BY <2>3, <2>4, CandidateChanged, ReceiptChanged DEF Shaped
  <2>6. Steady
    <3>1. \A s \in Run : Verified(s)' \subseteq Verified(s)
      BY <2>4, CandidateChanged DEF Verified, NoCandidates
    <3>2. NoReceipt.status \notin Settling
      BY DEF NoReceipt, Settling
    <3>3. \A s \in Run : receipt'[s].status \in Settling => receipt[s].status \in Settling
      BY <2>4, <3>2, ReceiptChanged
    <3> QED
      BY <2>4, <3>1, <3>3 DEF Steady
  <2> HIDE DEF q
  <2> QED
    BY <1>2, <2>2, <2>3, <2>5, <2>6
<1> QED
  BY <1>1, <1>2

(* The steps that leave rows and receipts alone. *)
LEMMA Beginning ==
  ASSUME Shaped, NEW w \in Worker, NEW r \in Run, Observe(w, r) \/ Finalize(w, r)
  PROVE  Shaped' /\ Steady /\ Lasting
<1>1. PICK kind : Become(w, [Idle EXCEPT !.at = "reviewing", !.kind = kind, !.run = r])
  BY DEF Observe, Finalize, Begin
<1> DEFINE j == [Idle EXCEPT !.at = "reviewing", !.kind = kind, !.run = r]
<1>2. JobShaped(j) /\ j.at = "reviewing"
  BY DEF Idle, JobShaped, Locals
<1>3. /\ \A v \in Worker : job'[v] = IF v = w THEN j ELSE job[v]
      /\ job' = [v \in Worker |-> job'[v]] /\ \A v \in Worker : JobShaped(job'[v])
  <2> HIDE DEF j
  <2> QED
    BY <1>1, <1>2, Becoming DEF j
<1>4. Submit(r) \/ candidate' = candidate
  BY DEF Observe, Finalize
<1>5. /\ \A q \in Run : Verified(q)' \subseteq Verified(q)
      /\ candidate' = [q \in Run |-> candidate'[q]]
  <2>1. CASE Submit(r)
    <3>1. /\ \A q \in Run : candidate'[q] =
               IF q = r THEN [f \in Fact |-> IF f \in Observed[r] THEN "pending"
                                             ELSE candidate[r][f]]
               ELSE candidate[q]
          /\ candidate' = [q \in Run |-> candidate'[q]]
      BY <2>1, CandidateChanged DEF Submit
    <3> QED
      BY <3>1 DEF Verified
  <2> QED
    BY <1>4, <2>1 DEF Verified, Shaped
<1>6. run' = run /\ receipt' = receipt
  BY DEF Observe, Finalize, Begin
<1>7. Shaped'
  BY <1>3, <1>5, <1>6 DEF Shaped
<1> HIDE DEF j
<1> QED
  BY <1>2, <1>3, <1>5, <1>6, <1>7 DEF Steady, Lasting

LEMMA Onward ==
  ASSUME Shaped, NEW w \in Worker, NEW j, JobShaped(j), j.at # "receipting", Become(w, j),
         candidate' = candidate, run' = [r \in Run |-> run'[r]],
         \A r \in Run : RunShaped(run'[r]), receipt' = [r \in Run |-> receipt'[r]],
         \A r \in Run : receipt'[r].status \in Settling =>
                        receipt[r].status \in Settling \/ Receipting(r)
  PROVE  Shaped' /\ Steady
<1>1. /\ \A v \in Worker : job'[v] = IF v = w THEN j ELSE job[v]
      /\ job' = [v \in Worker |-> job'[v]] /\ \A v \in Worker : JobShaped(job'[v])
  BY Becoming
<1>2. Shaped'
  BY <1>1 DEF Shaped
<1> QED
  BY <1>1, <1>2 DEF Steady, Verified

LEMMA Unwritten ==
  ASSUME Shaped, UNCHANGED <<run, receipt>>
  PROVE  /\ run' = [r \in Run |-> run'[r]] /\ \A r \in Run : RunShaped(run'[r])
         /\ receipt' = [r \in Run |-> receipt'[r]]
         /\ \A r \in Run : receipt'[r].status \in Settling =>
                            receipt[r].status \in Settling \/ Receipting(r)
         /\ Lasting
  BY DEF Shaped, Lasting

LEMMA Written ==
  ASSUME Shaped, UNCHANGED run, NEW q, NEW status, NEW after, NEW retry,
         WriteReceipt(q, status, after, retry), status \in Settling => Receipting(q)
  PROVE  /\ run' = [r \in Run |-> run'[r]] /\ \A r \in Run : RunShaped(run'[r])
         /\ receipt' = [r \in Run |-> receipt'[r]]
         /\ \A r \in Run : receipt'[r].status \in Settling =>
                            receipt[r].status \in Settling \/ Receipting(r)
         /\ Lasting
<1> DEFINE c == [status |-> status, revision |-> after, retry |-> retry]
<1>1. c.status = status
  OBVIOUS
<1>2. receipt' = [receipt EXCEPT ![q] = c]
  BY DEF WriteReceipt
<1> HIDE DEF c
<1>3. /\ \A s \in Run : receipt'[s] = IF s = q THEN c ELSE receipt[s]
      /\ receipt' = [s \in Run |-> receipt'[s]]
  BY <1>2, ReceiptChanged
<1> QED
  BY <1>1, <1>3 DEF Shaped, Lasting

LEMMA SayShaped ==
  ASSUME Shaped, NEW w \in Worker, NEW said, Say(w, said)
  PROVE  \E j : JobShaped(j) /\ j.at # "receipting" /\ Become(w, j)
<1> DEFINE j == [job[w] EXCEPT !.at = "recording", !.said = said]
<1>1. JobShaped(j) /\ j.at = "recording"
  BY ChangedSaid DEF Shaped
<1>2. Become(w, j)
  BY DEF Say
<1> HIDE DEF j
<1> QED
  BY <1>1, <1>2

LEMMA Deciding ==
  ASSUME Shaped, NEW w \in Worker, Decide(w)
  PROVE  Shaped' /\ Steady /\ Lasting
<1> DEFINE r == Mine(w)
           j == [job[w] EXCEPT !.at = "committing", !.attempt = 1, !.expected = run[r].start]
<1>1. candidate' = candidate /\ run' = run
  BY DEF Decide
<1>2. CASE WriteReceipt(r, "deferred", run[r].start, FALSE) /\ Say(w, "deferred")
  BY <1>1, <1>2, SayShaped, Written, Onward DEF Settling
<1>3. CASE Say(w, receipt[r].status) /\ receipt' = receipt
  BY <1>1, <1>3, SayShaped, Unwritten, Onward
<1>4. CASE Become(w, j) /\ receipt' = receipt
  <2>1. JobShaped(j) /\ j.at = "committing"
    <3>1. JobShaped(job[w])
      BY DEF Shaped
    <3> QED
      BY <3>1 DEF JobShaped, Locals
  <2> HIDE DEF j
  <2> QED
    BY <1>1, <1>4, <2>1, Unwritten, Onward
<1> QED
  BY <1>2, <1>3, <1>4 DEF Decide

LEMMA Missing ==
  ASSUME Shaped, NEW w \in Worker, Miss(w)
  PROVE  Shaped' /\ Steady /\ Lasting
<1> DEFINE r == Mine(w)
           j == [job[w] EXCEPT !.expected = revision, !.attempt = @ + 1]
<1>1. candidate' = candidate /\ run' = run /\ job[w].at = "committing"
  BY DEF Miss, At
<1>2. CASE WriteReceipt(r, "deferred", job[w].expected, TRUE) /\ Say(w, "deferred")
  BY <1>1, <1>2, SayShaped, Written, Onward DEF Settling
<1>3. CASE Say(w, "failed") /\ receipt' = receipt
  BY <1>1, <1>3, SayShaped, Unwritten, Onward
<1>4. CASE Become(w, j) /\ receipt' = receipt
  <2>1. j = [job[w] EXCEPT !.expected = revision, !.attempt = job[w].attempt + 1]
    BY DEF Shaped, JobShaped, Locals
  <2>2. JobShaped(job[w])
    BY DEF Shaped
  <2> HIDE DEF j
  <2>3. JobShaped(j) /\ j.at = job[w].at
    BY <2>1, <2>2, ChangedExpected, Zenon
  <2>4. JobShaped(j) /\ j.at = "committing"
    BY <1>1, <2>3
  <2> QED
    BY <1>1, <1>4, <2>4, Unwritten, Onward
<1> QED
  BY <1>2, <1>3, <1>4 DEF Miss

LEMMA Recording ==
  ASSUME Shaped, NEW w \in Worker, Record(w)
  PROVE  Shaped' /\ Steady /\ Lasting
<1> DEFINE r == Mine(w)
           j == [job[w] EXCEPT !.at = "choosing"]
<1>1. JobShaped(j) /\ j.at = "choosing"
  BY ChangedAt DEF Shaped
<1>2. Become(w, j) /\ candidate' = candidate /\ receipt' = receipt
  BY DEF Record
<1>3. PICK status : run' = [run EXCEPT ![r].said = job[w].said, ![r].finalization = status]
  BY DEF Record
<1>4. ASSUME NEW s \in Run
      PROVE  RunShaped(run'[s]) /\ run'[s].at = run[s].at
  BY <1>3 DEF Shaped, RunShaped, Columns
<1>5. run' = [s \in Run |-> run'[s]]
  <2>1. DOMAIN run = Run
    BY DEF Shaped
  <2> QED
    BY <1>3, <2>1
<1> HIDE DEF j
<1> QED
  BY <1>1, <1>2, <1>4, <1>5, Onward DEF Shaped, Lasting

LEMMA Picking ==
  ASSUME Shaped, NEW w \in Worker, PickDeferred(w)
  PROVE  Shaped' /\ Steady /\ Lasting
<1>1. candidate' = candidate /\ run' = run /\ receipt' = receipt
  BY DEF PickDeferred, rows
<1>2. PICK j : JobShaped(j) /\ j.at # "receipting" /\ Become(w, j)
  <2>1. CASE Become(w, Idle)
    BY <2>1, IdleShaped
  <2>2. CASE Become(w, [job[w] EXCEPT !.at = "recovering", !.other = Oldest(Mine(w))])
    <3> DEFINE j == [job[w] EXCEPT !.at = "recovering", !.other = Oldest(Mine(w))]
    <3>1. JobShaped(j) /\ j.at = "recovering"
      BY ChangedOther DEF Shaped
    <3> HIDE DEF j
    <3> QED
      BY <2>2, <3>1 DEF j
  <2> QED
    BY <2>1, <2>2 DEF PickDeferred
<1> QED
  BY <1>1, <1>2, Unwritten, Onward

LEMMA Leaving ==
  ASSUME Shaped, NEW w \in Worker, Leave(w)
  PROVE  Shaped' /\ Steady /\ Lasting
  BY IdleShaped, Unwritten, Onward DEF Leave, rows

LEMMA ReceiptGiven ==
  ASSUME Shaped, NEW w \in Worker, Receipt(w)
  PROVE  Shaped' /\ Steady /\ Lasting
<1>1. Receipting(job[w].other)
  BY DEF Receipt, At, Receipting
<1>2. /\ WriteReceipt(job[w].other, job[w].said, job[w].after, FALSE)
      /\ Become(w, Idle) /\ candidate' = candidate /\ run' = run
  BY DEF Receipt
<1> QED
  BY <1>1, <1>2, IdleShaped, Written, Onward

-----------------------------------------------------------------------------
(* Where a receipt settles a run, or is about to be written so by a recovery,   *)
(* what was verified in that run is on record; unless it is disturbed.          *)
Kept ==
  /\ Crossed \subseteq disturbed
  /\ \A r \in Run : r \notin disturbed /\ (receipt[r].status \in Settling \/ Receipting(r)) =>
                     Verified(r) \subseteq OnRecord

(* A step that retires a run finds its receipt settling it. *)
Leaves == \A r \in Run : run[r].at = "open" /\ run'[r].at = "retired" =>
                          receipt[r].status \in Settling

LEMMA SteadyKeeps ==
  ASSUME Kept, Steady, OnRecord \subseteq OnRecord', disturbed \cup Crossed' \subseteq disturbed'
  PROVE  Kept'
<1> SUFFICES ASSUME NEW r \in Run, r \notin disturbed',
                    receipt'[r].status \in Settling \/ Receipting(r)'
             PROVE  Verified(r)' \subseteq OnRecord'
  BY DEF Kept
<1>1. Receipting(r)' => Receipting(r)
  BY DEF Steady, Receipting
<1>2. receipt[r].status \in Settling \/ Receipting(r)
  BY <1>1 DEF Steady
<1>3. Verified(r) \subseteq OnRecord
  BY <1>2 DEF Kept
<1>4. Verified(r)' \subseteq Verified(r)
  BY DEF Steady, Verified
<1> QED
  BY <1>3, <1>4

(* A review of a run that is settled, or whose recovery is under way, disturbs it. *)
LEMMA Reviewing ==
  ASSUME Shaped, Kept, NEW w \in Worker, Review(w), OnRecord \subseteq OnRecord',
         disturbed \cup Crossed' \cup {r \in Again : run'[r].at = "open"} \subseteq disturbed'
  PROVE  Shaped' /\ Kept' /\ Lasting
<1> DEFINE r == Mine(w)
           j == IF job[w].kind = "observe" THEN Idle ELSE [job[w] EXCEPT !.at = "deciding"]
<1>1. job[w].at = "reviewing" /\ Alive(w) /\ run' = run /\ receipt' = receipt
  BY DEF Review, At
<1>2. JobShaped(j) /\ j.at # "receipting"
  <2>1. JobShaped(job[w])
    BY DEF Shaped
  <2> QED
    BY <2>1, IdleShaped, ChangedAt
<1>3. Become(w, j)
  BY DEF Review
<1>4. PICK c : candidate' = [candidate EXCEPT ![r] = c]
  BY DEF Review
<1> HIDE DEF j
<1>5. /\ \A v \in Worker : job'[v] = IF v = w THEN j ELSE job[v]
      /\ job' = [v \in Worker |-> job'[v]] /\ \A v \in Worker : JobShaped(job'[v])
  BY <1>2, <1>3, Becoming
<1>6. /\ \A s \in Run : candidate'[s] = IF s = r THEN c ELSE candidate[s]
      /\ candidate' = [s \in Run |-> candidate'[s]]
  BY <1>4, CandidateChanged
<1>7. Shaped' /\ Lasting
  BY <1>1, <1>5, <1>6 DEF Shaped, Lasting
<1>8. ASSUME NEW q \in Run, q \notin disturbed',
             receipt'[q].status \in Settling \/ Receipting(q)'
      PROVE  Verified(q)' \subseteq OnRecord'
  <2>1. Receipting(q) \/ receipt[q].status \in Settling
    BY <1>1, <1>2, <1>5, <1>8 DEF Receipting
  <2>2. Verified(q) \subseteq OnRecord
    BY <1>8, <2>1 DEF Kept
  <2>3. CASE candidate'[q] = candidate[q]
    BY <2>2, <2>3 DEF Verified
  <2>4. CASE candidate'[q] # candidate[q]
    <3>1. q = r
      BY <1>6, <2>4
    <3>2. q \in Touched(w) /\ run[q].at = "open"
      BY <1>1, <3>1, LedgerAssumption DEF Touched, Alive, Mine
    <3>3. CASE receipt[q].status \in Settling
      BY <1>1, <1>8, <2>4, <3>2, <3>3 DEF Again
    <3>4. CASE Receipting(q)
      <4>1. PICK v \in Worker : job[v].at = "receipting" /\ job[v].other = q
        BY <3>4 DEF Receipting
      <4>2. v # w /\ q \in Touched(v)
        BY <1>1, <4>1, LedgerAssumption DEF Touched
      <4>3. q \in Crossed
        BY <3>2, <4>2 DEF Crossed
      <4> QED
        BY <1>8, <4>3 DEF Kept
    <3> QED
      BY <2>1, <3>3, <3>4
  <2> QED
    BY <2>3, <2>4
<1> QED
  BY <1>7, <1>8 DEF Kept

-----------------------------------------------------------------------------
(* A transaction puts on record what was verified in its run. *)
LEMMA Transacted ==
  ASSUME TablesInv, Shaped, NEW r, Transact(r), candidate' = candidate
  PROVE  /\ Verified(r)' \subseteq OnRecord' /\ OnRecord \subseteq OnRecord'
         /\ \A q \in Run : q # r => receipt'[q] = receipt[q]
         /\ receipt' = [q \in Run |-> receipt'[q]]
<1>1. Verified(r)' = Verified(r)
  BY DEF Verified
<1>2. Verified(r) \subseteq OnRecord \cup Fresh(r)
  BY DEF Fresh, Known, OnRecord
<1>3. OnRecord \cup Fresh(r) \subseteq OnRecord'
  <2>1. CASE Enter(Fresh(r), FALSE, Targets(r), {})
    <3>1. Fresh(r) \in SUBSET Fact
      BY DEF Fresh, Verified
    <3> QED
      BY <2>1, <3>1, Entered
  <2>2. CASE ~Changes(r) /\ UNCHANGED tables
    <3>1. Fresh(r) = {}
      BY <2>2 DEF Changes
    <3>2. OnRecord' = OnRecord
      BY <2>2 DEF tables, OnRecord
    <3> QED
      BY <3>1, <3>2
  <2> QED
    BY <2>1, <2>2 DEF Transact
<1>4. \E c : receipt' = [receipt EXCEPT ![r] = c]
  BY DEF Transact, WriteReceipt
<1>5. /\ \A q \in Run : q # r => receipt'[q] = receipt[q]
      /\ receipt' = [q \in Run |-> receipt'[q]]
  BY <1>4, ReceiptChanged
<1> QED
  BY <1>1, <1>2, <1>3, <1>5

LEMMA PutOnRecord ==
  ASSUME TablesInv, Shaped, Kept, NEW w \in Worker, NEW r, Transact(r),
         NEW j, JobShaped(j), j.at = "receipting" => j.other = r, Become(w, j),
         UNCHANGED <<run, candidate>>, disturbed \cup Crossed' \subseteq disturbed'
  PROVE  Shaped' /\ Kept' /\ Lasting
<1>1. /\ \A v \in Worker : job'[v] = IF v = w THEN j ELSE job[v]
      /\ job' = [v \in Worker |-> job'[v]] /\ \A v \in Worker : JobShaped(job'[v])
  BY Becoming
<1>2. /\ Verified(r)' \subseteq OnRecord' /\ OnRecord \subseteq OnRecord'
      /\ \A q \in Run : q # r => receipt'[q] = receipt[q]
      /\ receipt' = [q \in Run |-> receipt'[q]]
  BY Transacted
<1>3. Shaped' /\ Lasting
  BY <1>1, <1>2 DEF Shaped, Lasting
<1>4. ASSUME NEW q \in Run, q # r, q \notin disturbed',
             receipt'[q].status \in Settling \/ Receipting(q)'
      PROVE  Verified(q)' \subseteq OnRecord'
  <2>1. Receipting(q)' => Receipting(q)
    BY <1>1, <1>4 DEF Receipting
  <2>2. Verified(q) \subseteq OnRecord
    BY <1>2, <1>4, <2>1 DEF Kept
  <2>3. Verified(q)' = Verified(q)
    BY DEF Verified
  <2> QED
    BY <1>2, <2>2, <2>3
<1> QED
  BY <1>2, <1>3, <1>4 DEF Kept

LEMMA Committing ==
  ASSUME TablesInv, Shaped, Kept, NEW w \in Worker, Commit(w),
         disturbed \cup Crossed' \subseteq disturbed'
  PROVE  Shaped' /\ Kept' /\ Lasting
<1>1. Transact(Mine(w)) /\ UNCHANGED <<run, candidate>> /\ \E said : Say(w, said)
  BY DEF Commit
<1>2. \E j : JobShaped(j) /\ j.at # "receipting" /\ Become(w, j)
  BY <1>1, SayShaped
<1> QED
  BY <1>1, <1>2, PutOnRecord

LEMMA Recovering ==
  ASSUME TablesInv, Shaped, Kept, NEW w \in Worker, Recover(w),
         disturbed \cup Crossed' \subseteq disturbed', OnRecord \subseteq OnRecord'
  PROVE  Shaped' /\ Kept' /\ Lasting
<1> DEFINE r == job[w].other
           j == [job[w] EXCEPT !.at = "receipting", !.said = Result(r), !.after = revision']
<1>1. UNCHANGED <<run, candidate>>
  BY DEF Recover
<1>2. CASE Transact(r) /\ Become(w, j)
  <2>1. JobShaped(job[w])
    BY DEF Shaped
  <2>2. JobShaped(j) /\ j.other = r
    BY <2>1 DEF JobShaped, Locals
  <2> HIDE DEF j
  <2> QED
    BY <1>1, <1>2, <2>2, PutOnRecord
<1>3. CASE Become(w, Idle) /\ receipt' = receipt
  BY <1>1, <1>3, IdleShaped, Unwritten, Onward, SteadyKeeps
<1> QED
  BY <1>2, <1>3 DEF Recover

-----------------------------------------------------------------------------
LEMMA KeptStep ==
  ASSUME TablesInv, Shaped, Kept, [Next]_vars
  PROVE  Shaped' /\ Kept' /\ Leaves
<1>1. OnRecord \subseteq OnRecord'
  BY TablesStep
<1>2. CASE UNCHANGED vars
  BY <1>2 DEF vars, rows, tables, Shaped, Kept, Leaves, Crossed, Touched, Receipting,
              Verified, OnRecord
<1>3. CASE Next
  <2>1. /\ disturbed \cup Crossed' \subseteq disturbed'
        /\ {r \in Again : run'[r].at = "open"} \subseteq disturbed'
    BY <1>3 DEF Next
  <2>2. CASE Import
    <3>1. UNCHANGED rows /\ job' = job
      BY <2>2 DEF Import
    <3>2. Shaped' /\ Steady /\ Leaves
      BY <3>1 DEF rows, Shaped, Steady, Verified, Leaves
    <3> QED
      BY <1>1, <2>1, <3>2, SteadyKeeps
  <2>3. ASSUME NEW r \in Run, Start(r) \/ Retire(r) PROVE Shaped' /\ Kept' /\ Leaves
    <3>1. Shaped' /\ Steady /\ \A q \in Run : run'[q].at = "retired" =>
                                  run[q].at = "retired" \/ (q = r /\ Retire(r))
      BY <2>3, RunSteps
    <3>2. Retire(r) => receipt[r].status \in Settling
      BY DEF Retire, Settled
    <3>3. Leaves
      BY <3>1, <3>2 DEF Leaves
    <3> QED
      BY <1>1, <2>1, <3>1, <3>3, SteadyKeeps
  <2>4. Lasting => Leaves
    BY DEF Lasting, Leaves
  <2>5. ASSUME NEW w \in Worker,
               \/ \E r \in Run : Observe(w, r) \/ Finalize(w, r)
               \/ Decide(w) \/ Miss(w) \/ Record(w) \/ PickDeferred(w)
               \/ Receipt(w) \/ Leave(w)
        PROVE  Shaped' /\ Kept' /\ Leaves
    <3>1. Shaped' /\ Steady /\ Lasting
      BY <2>5, Beginning, Deciding, Missing, Recording, Picking, ReceiptGiven, Leaving
    <3> QED
      BY <1>1, <2>1, <2>4, <3>1, SteadyKeeps
  <2>6. ASSUME NEW w \in Worker, Review(w) \/ Commit(w) \/ Recover(w)
        PROVE  Shaped' /\ Kept' /\ Leaves
    BY <1>1, <2>1, <2>4, <2>6, Reviewing, Committing, Recovering
  <2> QED
    BY <1>3, <2>2, <2>3, <2>5, <2>6 DEF Next, Step
<1> QED
  BY <1>2, <1>3

LEMMA KeptInit == Init => Shaped /\ Kept
<1> SUFFICES ASSUME Init PROVE Shaped /\ Kept
  OBVIOUS
<1>1. Shaped
  BY IdleShaped DEF Init, Shaped, NoRun, RunShaped, Columns
<1>2. Crossed = {}
  BY DEF Init, Crossed, Touched, Idle
<1>3. \A r \in Run : receipt[r].status \notin Settling /\ ~Receipting(r)
  BY DEF Init, NoReceipt, Settling, Receipting, Idle
<1> QED
  BY <1>1, <1>2, <1>3 DEF Kept

(* Ephemeral work, persistent knowledge: when the rows of a run are deleted,    *)
(* what was verified in it is on record, unless it was disturbed.               *)
THEOREM RetiredKeepsHolds == Spec => RetiredKeepsKnowledge
<1> DEFINE Inv == TablesInv /\ Shaped /\ Kept
           Keeps == \A r \in Run :
             run[r].at = "open" /\ run'[r].at = "retired" /\ r \notin disturbed =>
               Verified(r) \subseteq {records[i].fact : i \in DOMAIN records}
<1>1. Init => Inv
  BY TablesInit, KeptInit
<1>2. Inv /\ [Next]_vars => Inv' /\ Leaves
  BY TablesStep, KeptStep
<1>3. Inv /\ [Next]_vars => Keeps
  BY <1>2 DEF Kept, Leaves, OnRecord
<1>4. Inv /\ [Next]_vars => Inv' /\ [Keeps]_vars
  BY <1>2, <1>3
<1> HIDE DEF Inv, Keeps
<1>5. Spec => [][Keeps]_vars
  BY <1>1, <1>4, PTL DEF Spec
<1> QED
  BY <1>5 DEF RetiredKeepsKnowledge, Keeps

-----------------------------------------------------------------------------
(* Types.  What the tables say of each other: revisions of records and starts    *)
(* of runs are of the past, a receipt has its place in `written', and a worker  *)
(* works for a run.                                                            *)
Numbered ==
  /\ 1 <= revision
  /\ \A i \in DOMAIN records : records[i].revision \in 2..revision
  /\ ledger \subseteq Run \X (2..revision)
  /\ \A r \in Run : run[r].at = "open" => run[r].start \in 1..revision

Reviewed ==
  /\ candidate \in [Run -> [Fact -> {"none", "pending", "verified", "rejected"}]]
  /\ review \in [Run -> {"none", "passed", "waiting", "failed"}]

Receipts ==
  /\ written \in Seq(Run) /\ Once(written)
  /\ \A r \in Run : /\ receipt[r].status \in Settling \cup {"none", "deferred"}
                    /\ receipt[r].status # "none" <=> Among(written, r)

Works(j) ==
  /\ j.at # "idle" => j.run \in Run
  /\ j.at \in {"recovering", "receipting"} => j.other \in Run
  /\ j.at = "receipting" => j.said \in Settling
Working == \A w \in Worker : Works(job[w])

TypeInv == Shaped /\ TablesInv /\ Numbered /\ Reviewed /\ Receipts /\ Working

(* A receipt is written, and one is deleted. *)
LEMMA Stored ==
  ASSUME Shaped, Receipts, NEW r \in Run, NEW status \in Settling \cup {"deferred"},
         NEW after, NEW retry, WriteReceipt(r, status, after, retry)
  PROVE  Receipts'
<1> DEFINE t == RemoveFirst(written, r)
           c == [status |-> status, revision |-> after, retry |-> retry]
<1>1. /\ t \in Seq(Run) /\ Once(t)
      /\ \A x : Among(t, x) <=> Among(written, x) /\ x # r
  BY Removed DEF Receipts
<1>2. written' = Append(t, r) /\ receipt' = [receipt EXCEPT ![r] = c] /\ c.status = status
  BY DEF WriteReceipt
<1> HIDE DEF t, c
<1>3. /\ written' \in Seq(Run) /\ Len(t) \in Nat /\ DOMAIN t = 1..Len(t)
      /\ DOMAIN written' = 1..(Len(t) + 1)
      /\ \A i \in 1..Len(t) : written'[i] = t[i]
      /\ written'[Len(t) + 1] = r
  <2>1. /\ written' \in Seq(Run) /\ Len(written') = Len(t) + 1
        /\ \A i \in 1..Len(t) : written'[i] = t[i]
        /\ written'[Len(t) + 1] = r
    BY <1>1, <1>2, AppendProperties
  <2>2. Len(t) \in Nat /\ DOMAIN t = 1..Len(t) /\ DOMAIN written' = 1..(Len(t) + 1)
    BY <1>1, <2>1, LenProperties
  <2> QED
    BY <2>1, <2>2
<1>4. \A i \in DOMAIN written' : (i \in 1..Len(t) /\ written'[i] = t[i]) \/
                                 (i = Len(t) + 1 /\ written'[i] = r)
  BY <1>3
<1>5. \A i \in 1..Len(t) : t[i] # r
  BY <1>1, <1>3 DEF Among
<1>6. Once(written)'
  BY <1>1, <1>3, <1>4, <1>5 DEF Once
<1>7. \A x : Among(written, x)' <=> Among(t, x) \/ x = r
  <2>1. \A x : Among(written, x)' => Among(t, x) \/ x = r
    BY <1>3, <1>4 DEF Among
  <2>2. \A x : Among(t, x) => Among(written, x)'
    BY <1>3 DEF Among
  <2>3. Among(written, r)'
    BY <1>3 DEF Among
  <2> QED
    BY <2>1, <2>2, <2>3
<1>8. \A q \in Run : receipt'[q] = IF q = r THEN c ELSE receipt[q]
  BY <1>2, ReceiptChanged
<1>9. status # "none" /\ status \in Settling \cup {"none", "deferred"}
  BY DEF Settling
<1> QED
  BY <1>1, <1>2, <1>3, <1>6, <1>7, <1>8, <1>9 DEF Receipts

LEMMA Erased ==
  ASSUME Shaped, Receipts, NEW r \in Run, Retire(r)
  PROVE  Receipts'
<1>1. /\ written' \in Seq(Run) /\ Once(written)'
      /\ \A x : Among(written, x)' <=> Among(written, x) /\ x # r
  <2> DEFINE t == RemoveFirst(written, r)
  <2>1. t \in Seq(Run) /\ Once(t) /\ \A x : Among(t, x) <=> Among(written, x) /\ x # r
    BY Removed DEF Receipts
  <2>2. written' = t
    BY DEF Retire
  <2> HIDE DEF t
  <2> QED
    BY <2>1, <2>2 DEF Once, Among
<1>2. \A q \in Run : receipt'[q] = IF q = r THEN NoReceipt ELSE receipt[q]
  BY ReceiptChanged DEF Retire
<1>3. NoReceipt.status = "none"
  BY DEF NoReceipt
<1> QED
  BY <1>1, <1>2, <1>3 DEF Receipts

LEMMA ReceiptsStep ==
  ASSUME TypeInv, Next
  PROVE  Receipts'
<1> USE DEF TypeInv
<1>1. CASE UNCHANGED <<receipt, written>>
  BY <1>1 DEF Receipts, Once, Among
<1>2. ASSUME NEW r \in Run, Retire(r) PROVE Receipts'
  BY <1>2, Erased
<1>3. ASSUME NEW r \in Run, Transact(r) PROVE Receipts'
  <2>1. \E status \in Settling : \E after : WriteReceipt(r, status, after, FALSE)
    BY <1>3 DEF Transact, Settling
  <2> QED
    BY <2>1, Stored
<1>4. ASSUME NEW w \in Worker, ~(UNCHANGED <<receipt, written>>),
             Decide(w) \/ Miss(w) \/ Commit(w) \/ Recover(w) \/ Receipt(w)
      PROVE  Receipts'
  <2>1. /\ job[w].at # "idle" => Mine(w) \in Run
        /\ job[w].at \in {"recovering", "receipting"} => job[w].other \in Run
        /\ job[w].at = "receipting" => job[w].said \in Settling
    BY DEF Working, Works, Mine
  <2>2. CASE Decide(w) \/ Miss(w)
    <3>1. Mine(w) \in Run
      BY <2>1, <2>2 DEF Decide, Miss, At
    <3>2. \E after, retry : WriteReceipt(Mine(w), "deferred", after, retry)
      BY <1>4, <2>2 DEF Decide, Miss
    <3> QED
      BY <3>1, <3>2, Stored
  <2>3. CASE Commit(w)
    BY <1>3, <2>1, <2>3 DEF Commit, At
  <2>4. CASE Recover(w)
    <3>1. job[w].other \in Run
      BY <2>1, <2>4 DEF Recover, At
    <3>2. Transact(job[w].other)
      BY <1>4, <2>4 DEF Recover
    <3> QED
      BY <1>3, <3>1, <3>2
  <2>5. CASE Receipt(w)
    <3>1. job[w].other \in Run /\ job[w].said \in Settling
      BY <2>1, <2>5 DEF Receipt, At
    <3> QED
      BY <2>5, <3>1, Stored DEF Receipt
  <2> QED
    BY <1>4, <2>2, <2>3, <2>4, <2>5
<1>5. ASSUME NEW w \in Worker,
             \/ \E r \in Run : Observe(w, r) \/ Finalize(w, r)
             \/ Review(w) \/ Record(w) \/ PickDeferred(w) \/ Leave(w)
      PROVE  UNCHANGED <<receipt, written>>
  BY <1>5 DEF Observe, Finalize, Begin, Review, Record, PickDeferred, Leave, rows
<1>6. ASSUME NEW r \in Run, Import \/ Start(r) PROVE UNCHANGED <<receipt, written>>
  BY <1>6 DEF Import, Start, rows
<1>7. Import => UNCHANGED <<receipt, written>>
  BY DEF Import, rows
<1> QED
  BY <1>1, <1>2, <1>4, <1>5, <1>6, <1>7 DEF Next, Step

-----------------------------------------------------------------------------
(* A revision is entered, in the name of a run or by the user. *)
LEMMA Renumbered ==
  ASSUME TablesInv, Numbered, NEW facts \in SUBSET Fact, NEW imported \in BOOLEAN,
         NEW superseded, NEW renewed, Enter(facts, imported, superseded, renewed), run' = run,
         ledger' \subseteq ledger \cup (Run \X {revision + 1})
  PROVE  Numbered'
<1>1. revision' = revision + 1 /\ revision \in Nat
  BY DEF Enter, TablesInv
<1>2. \A i \in DOMAIN records' :
        \/ records'[i].revision = revision + 1
        \/ i \in DOMAIN records /\ records'[i].revision = records[i].revision
  BY Entered
<1>3. \A i \in DOMAIN records' : records'[i].revision \in 2..(revision + 1)
  BY <1>1, <1>2 DEF Numbered
<1>4. ledger' \subseteq Run \X (2..(revision + 1))
  <2>1. 2..revision \subseteq 2..(revision + 1) /\ revision + 1 \in 2..(revision + 1)
    BY <1>1 DEF Numbered
  <2> QED
    BY <2>1 DEF Numbered
<1>5. \A r \in Run : run'[r].at = "open" => run'[r].start \in 1..(revision + 1)
  BY <1>1 DEF Numbered
<1> QED
  BY <1>1, <1>3, <1>4, <1>5 DEF Numbered

LEMMA NumberedStep ==
  ASSUME TypeInv, Next
  PROVE  Numbered'
<1> USE DEF TypeInv
<1>1. CASE UNCHANGED <<tables, run>>
  BY <1>1 DEF Numbered, tables
<1>2. CASE Import
  <2>1. ledger' = ledger /\ run' = run
    BY <1>2 DEF Import, rows
  <2>2. UNCHANGED <<revision, records>> \/ Transaction
    BY <1>2, Tables DEF Next, Step
  <2>3. ASSUME NEW facts \in SUBSET Fact, NEW imported \in BOOLEAN, NEW superseded \in SUBSET Nat,
               NEW renewed \in SUBSET Nat, Enter(facts, imported, superseded, renewed)
        PROVE  Numbered'
    BY <2>1, <2>3, Renumbered
  <2> QED
    BY <1>1, <2>1, <2>2, <2>3 DEF Transaction, tables
<1>3. ASSUME NEW r \in Run, Transact(r), run' = run PROVE Numbered'
  <2>1. CASE UNCHANGED tables
    BY <1>1, <1>3, <2>1
  <2>2. CASE Enter(Fresh(r), FALSE, Targets(r), {}) /\ ledger' = ledger \cup {<<r, revision + 1>>}
    <3>1. Fresh(r) \in SUBSET Fact /\ FALSE \in BOOLEAN
      BY DEF Fresh, Verified
    <3>2. ledger' \subseteq ledger \cup (Run \X {revision + 1})
      BY <2>2
    <3> QED
      BY <1>3, <2>2, <3>1, <3>2, Renumbered
  <2> QED
    BY <1>3, <2>1, <2>2 DEF Transact
<1>4. ASSUME NEW w \in Worker, Commit(w) \/ Recover(w) PROVE Numbered'
  <2>1. CASE Commit(w)
    <3>1. Mine(w) \in Run
      BY <2>1 DEF Commit, At, Working, Works, Mine
    <3> QED
      BY <1>3, <2>1, <3>1 DEF Commit
  <2>2. CASE Recover(w)
    <3>1. job[w].other \in Run
      BY <2>2 DEF Recover, At, Working, Works
    <3> QED
      BY <1>1, <1>3, <2>2, <3>1 DEF Recover
  <2> QED
    BY <1>4, <2>1, <2>2
<1>5. ASSUME NEW r \in Run, Start(r) \/ Retire(r) PROVE Numbered'
  <2>1. PICK q : /\ run' = [run EXCEPT ![r] = q] /\ UNCHANGED tables
                 /\ q.at = "open" => q.start = revision
    <3>1. CASE Start(r)
      <4>1. PICK target : run' = [run EXCEPT ![r] =
              [NoRun EXCEPT !.at = "open", !.start = revision, !.target = target]]
        BY <3>1 DEF Start
      <4> DEFINE q == [NoRun EXCEPT !.at = "open", !.start = revision, !.target = target]
      <4>2. q.start = revision
        BY DEF NoRun
      <4>3. UNCHANGED tables
        BY <3>1 DEF Start
      <4> HIDE DEF q
      <4> QED
        BY <4>1, <4>2, <4>3 DEF q
    <3>2. CASE Retire(r)
      <4> DEFINE q == [NoRun EXCEPT !.at = "retired"]
      <4>1. q.at = "retired"
        BY DEF NoRun
      <4>2. run' = [run EXCEPT ![r] = q] /\ UNCHANGED tables
        BY <3>2 DEF Retire
      <4> HIDE DEF q
      <4> QED
        BY <4>1, <4>2
    <3> QED
      BY <1>5, <3>1, <3>2
  <2>2. \A s \in Run : run'[s] = IF s = r THEN q ELSE run[s]
    BY <2>1 DEF Shaped
  <2>3. revision \in 1..revision
    BY DEF Numbered, TablesInv
  <2> QED
    BY <2>1, <2>2, <2>3 DEF Numbered, tables
<1>6. ASSUME NEW w \in Worker, Record(w) PROVE Numbered'
  <2>1. PICK status : run' = [run EXCEPT ![Mine(w)].said = job[w].said,
                                         ![Mine(w)].finalization = status]
    BY <1>6 DEF Record
  <2>2. ASSUME NEW s \in Run PROVE run'[s].at = run[s].at /\ run'[s].start = run[s].start
    BY <2>1 DEF Shaped, RunShaped, Columns
  <2>3. UNCHANGED tables
    BY <1>6 DEF Record
  <2> QED
    BY <2>2, <2>3 DEF Numbered, tables
<1>7. ASSUME NEW w \in Worker,
             \/ \E r \in Run : Observe(w, r) \/ Finalize(w, r)
             \/ Review(w) \/ Decide(w) \/ Miss(w) \/ PickDeferred(w) \/ Receipt(w) \/ Leave(w)
      PROVE  UNCHANGED <<tables, run>>
  BY <1>7 DEF Observe, Finalize, Begin, Review, Decide, Miss, PickDeferred, Receipt, Leave, rows
<1> QED
  BY <1>1, <1>2, <1>4, <1>5, <1>6, <1>7 DEF Next, Step

-----------------------------------------------------------------------------
(* Candidates and reviews. *)
LEMMA ReviewedStep ==
  ASSUME TypeInv, Next
  PROVE  Reviewed'
<1> USE DEF TypeInv
<1>1. CASE UNCHANGED <<candidate, review>>
  BY <1>1 DEF Reviewed
<1>2. ASSUME NEW r \in Run, Submit(r), UNCHANGED review PROVE Reviewed'
  BY <1>2 DEF Reviewed, Submit
<1>3. ASSUME NEW r \in Run, Retire(r) PROVE Reviewed'
  BY <1>3 DEF Reviewed, Retire, NoCandidates
<1>4. ASSUME NEW w \in Worker, Review(w) PROVE Reviewed'
  <2> DEFINE r == Mine(w)
  <2>1. r \in Run
    BY <1>4 DEF Review, At, Working, Works, Mine
  <2>2. PICK verdict \in Verdicts(r) :
          /\ candidate' = [candidate EXCEPT ![r] =
               [f \in Fact |-> IF f \in DOMAIN verdict THEN verdict[f] ELSE "none"]]
          /\ review' = [review EXCEPT ![r] = Outcome(verdict)]
    BY <1>4 DEF Review
  <2>3. \A f \in DOMAIN verdict : verdict[f] \in {"verified", "rejected", "pending"}
    BY <2>2 DEF Verdicts
  <2>4. Outcome(verdict) \in {"failed", "waiting", "passed"}
    <3> DEFINE A == DOMAIN verdict # {} /\ \A f \in DOMAIN verdict : verdict[f] = "rejected"
               B == \E f \in DOMAIN verdict : verdict[f] = "pending"
    <3>1. Outcome(verdict) = CASE A -> "failed" [] B -> "waiting" [] OTHER -> "passed"
      BY DEF Outcome
    <3>2. ~(A /\ B)
      OBVIOUS
    <3> HIDE DEF A, B
    <3> QED
      BY <3>1, <3>2
  <2>5. [f \in Fact |-> IF f \in DOMAIN verdict THEN verdict[f] ELSE "none"]
          \in [Fact -> {"none", "pending", "verified", "rejected"}]
    BY <2>3
  <2> QED
    BY <2>1, <2>2, <2>4, <2>5 DEF Reviewed
<1>5. ASSUME NEW w \in Worker, NEW r \in Run, Observe(w, r) \/ Finalize(w, r)
      PROVE  Reviewed'
  <2>1. UNCHANGED review /\ (Submit(r) \/ UNCHANGED candidate)
    BY <1>5 DEF Observe, Finalize, Begin
  <2> QED
    BY <1>1, <1>2, <2>1
<1>6. ASSUME NEW w \in Worker,
             \/ Decide(w) \/ Miss(w) \/ Commit(w) \/ Record(w) \/ PickDeferred(w)
             \/ Recover(w) \/ Receipt(w) \/ Leave(w)
      PROVE  UNCHANGED <<candidate, review>>
  BY <1>6 DEF Decide, Miss, Commit, Record, PickDeferred, Recover, Receipt, Leave, rows
<1>7. Import => UNCHANGED <<candidate, review>>
  BY DEF Import, rows
<1>8. \A r \in Run : Start(r) => UNCHANGED <<candidate, review>>
  BY DEF Start
<1> QED
  BY <1>1, <1>3, <1>4, <1>5, <1>6, <1>7, <1>8 DEF Next, Step

-----------------------------------------------------------------------------
(* The runs workers work for. *)
LEMMA IdleWorks == Works(Idle)
BY DEF Works, Idle

LEMMA GoesOn ==
  ASSUME NEW j, JobShaped(j), Works(j), j.at # "idle", NEW said, NEW attempt, NEW expected,
         NEW at \in {"deciding", "committing", "recording", "choosing"}
  PROVE  /\ Works([j EXCEPT !.at = at])
         /\ Works([j EXCEPT !.at = at, !.said = said])
         /\ Works([j EXCEPT !.at = at, !.attempt = attempt, !.expected = expected])
BY DEF JobShaped, Locals, Works

LEMMA WorkingStep ==
  ASSUME TypeInv, Next
  PROVE  Working'
<1> USE DEF TypeInv
<1>1. CASE job' = job
  BY <1>1 DEF Working
<1>2. ASSUME NEW w \in Worker, NEW j, Works(j), Become(w, j) PROVE Working'
  <2>1. \A v \in Worker : job'[v] = IF v = w THEN j ELSE job[v]
    BY <1>2 DEF Shaped, Become
  <2> QED
    BY <1>2, <2>1 DEF Working
<1>3. ASSUME NEW w \in Worker, NEW r \in Run, Observe(w, r) \/ Finalize(w, r)
      PROVE  Working'
  <2>1. PICK kind : Become(w, [Idle EXCEPT !.at = "reviewing", !.kind = kind, !.run = r])
    BY <1>3 DEF Observe, Finalize, Begin
  <2> DEFINE j == [Idle EXCEPT !.at = "reviewing", !.kind = kind, !.run = r]
  <2>2. Works(j)
    BY DEF Works, Idle
  <2> HIDE DEF j
  <2> QED
    BY <1>2, <2>1, <2>2 DEF j
<1>4. ASSUME NEW w \in Worker, ~At(w, "idle"), NEW said, Say(w, said) PROVE Working'
  <2> DEFINE j == [job[w] EXCEPT !.at = "recording", !.said = said]
  <2>1. Works(j) /\ Become(w, j)
    BY <1>4, GoesOn DEF Shaped, Working, At, Say
  <2> HIDE DEF j
  <2> QED
    BY <1>2, <2>1
<1>5. ASSUME NEW w \in Worker, Review(w) \/ Record(w) PROVE Working'
  <2>1. PICK at \in {"deciding", "choosing"} :
          Become(w, Idle) \/ Become(w, [job[w] EXCEPT !.at = at])
    BY <1>5 DEF Review, Record
  <2> DEFINE j == [job[w] EXCEPT !.at = at]
  <2>2. Works(j)
    BY <1>5, GoesOn DEF Review, Record, At, Shaped, Working
  <2> HIDE DEF j
  <2> QED
    BY <1>2, <2>1, <2>2, IdleWorks DEF j
<1>6. ASSUME NEW w \in Worker, Decide(w) PROVE Working'
  <2> DEFINE j == [job[w] EXCEPT !.at = "committing", !.attempt = 1,
                                 !.expected = run[Mine(w)].start]
  <2>1. ~At(w, "idle") /\ ((\E said : Say(w, said)) \/ Become(w, j))
    BY <1>6 DEF Decide, At
  <2>2. Works(j)
    BY <2>1, GoesOn DEF Shaped, Working, At
  <2> HIDE DEF j
  <2> QED
    BY <1>2, <1>4, <2>1, <2>2
<1>7. ASSUME NEW w \in Worker, Miss(w) PROVE Working'
  <2> DEFINE j == [job[w] EXCEPT !.expected = revision, !.attempt = @ + 1]
  <2>1. ~At(w, "idle") /\ ((\E said : Say(w, said)) \/ Become(w, j))
    BY <1>7 DEF Miss, At
  <2>2. Works(j)
    BY DEF Works, Working, Shaped, JobShaped, Locals
  <2> HIDE DEF j
  <2> QED
    BY <1>2, <1>4, <2>1, <2>2
<1>8. ASSUME NEW w \in Worker, Commit(w) PROVE Working'
  BY <1>4, <1>8 DEF Commit, At
<1>9. ASSUME NEW w \in Worker, PickDeferred(w) PROVE Working'
  <2> DEFINE j == [job[w] EXCEPT !.at = "recovering", !.other = Oldest(Mine(w))]
  <2>1. CASE Become(w, Idle)
    BY <1>2, <2>1, IdleWorks
  <2>2. CASE Become(w, j) /\ Waiting(Mine(w)) # {}
    <3>1. Oldest(Mine(w)) \in Run
      <4>1. Waiting(Mine(w)) \subseteq DOMAIN written
        BY DEF Waiting
      <4>2. \A i \in DOMAIN written : i \in Nat /\ written[i] \in Run
        BY LenProperties, ElementOfSeq DEF Receipts
      <4>3. Min(Waiting(Mine(w))) \in Waiting(Mine(w))
        BY <2>2, <4>1, <4>2, Least
      <4> QED
        BY <4>1, <4>2, <4>3 DEF Oldest
    <3>2. Works(j)
      BY <1>9, <3>1 DEF Works, Working, Shaped, JobShaped, Locals, PickDeferred, At
    <3> HIDE DEF j
    <3> QED
      BY <1>2, <2>2, <3>2
  <2> QED
    BY <1>9, <2>1, <2>2 DEF PickDeferred
<1>10. ASSUME NEW w \in Worker, Recover(w) PROVE Working'
  <2> DEFINE j == [job[w] EXCEPT !.at = "receipting", !.said = Result(job[w].other),
                                 !.after = revision']
  <2>1. Result(job[w].other) \in Settling
    BY DEF Result, Settling
  <2>2. Works(j)
    BY <1>10, <2>1 DEF Works, Working, Shaped, JobShaped, Locals, Recover, At
  <2>3. Become(w, Idle) \/ Become(w, j)
    BY <1>10 DEF Recover
  <2> HIDE DEF j
  <2> QED
    BY <1>2, <2>2, <2>3, IdleWorks
<1>11. ASSUME NEW w \in Worker, Receipt(w) \/ Leave(w) PROVE Working'
  BY <1>2, <1>11, IdleWorks DEF Receipt, Leave
<1>12. Import => job' = job
  BY DEF Import
<1>13. \A r \in Run : Start(r) \/ Retire(r) => job' = job
  BY DEF Start, Retire
<1> QED
  BY <1>1, <1>3, <1>5, <1>6, <1>7, <1>8, <1>9, <1>10, <1>11, <1>12, <1>13 DEF Next, Step

-----------------------------------------------------------------------------
LEMMA TypeInit == Init => TypeInv
<1> SUFFICES ASSUME Init PROVE TypeInv
  OBVIOUS
<1>1. Shaped /\ TablesInv
  BY TablesInit, KeptInit
<1>2. Numbered
  BY DEF Init, Numbered, NoRun
<1>3. Reviewed
  BY DEF Init, Reviewed, NoCandidates
<1>4. Receipts
  BY EmptySeq DEF Init, Receipts, Once, Among, NoReceipt
<1>5. Working
  BY IdleWorks DEF Init, Working
<1> QED
  BY <1>1, <1>2, <1>3, <1>4, <1>5 DEF TypeInv

(* Records, ledger and runs name revisions there have been, candidates and reviews *)
(* have their statuses, and a run is listed by time exactly when it has a receipt. *)
(* That rows and workers keep their fields is shown on the way to KeptStep.       *)
THEOREM KnowledgeTypeHolds == Spec => []KnowledgeTypeOK
<1> DEFINE Inv == TypeInv /\ Kept
<1>1. Init => Inv
  BY TypeInit, KeptInit
<1>2. Inv /\ [Next]_vars => Inv'
  <2> SUFFICES ASSUME Inv, [Next]_vars PROVE Inv'
    OBVIOUS
  <2>1. Shaped' /\ Kept' /\ TablesInv'
    BY KeptStep, TablesStep DEF TypeInv
  <2>2. CASE Next
    BY <2>1, <2>2, ReceiptsStep, NumberedStep, ReviewedStep, WorkingStep DEF TypeInv
  <2>3. CASE UNCHANGED vars
    <3>1. Numbered' /\ Reviewed' /\ Receipts' /\ Working'
      BY <2>3 DEF TypeInv, vars, tables, rows, Numbered, Reviewed, Receipts, Once, Among, Working
    <3> QED
      BY <2>1, <3>1 DEF TypeInv
  <2> QED
    BY <2>2, <2>3
<1>3. Inv => KnowledgeTypeOK
  <2> SUFFICES ASSUME Inv PROVE KnowledgeTypeOK
    OBVIOUS
  <2>1. \A i \in DOMAIN records : records[i] \in Row
    BY LenProperties, ElementOfSeq DEF TypeInv, TablesInv
  <2>2. \A i \in DOMAIN records : /\ records[i].fact \in Fact
                                  /\ records[i].imported \in BOOLEAN
                                  /\ records[i].superseded \in BOOLEAN
    BY <2>1 DEF Row
  <2> QED
    BY <2>2 DEF TypeInv, Numbered, Reviewed, Receipts, Among, KnowledgeTypeOK
<1> HIDE DEF Inv
<1> QED
  BY <1>1, <1>2, <1>3, PTL DEF Spec

=============================================================================
