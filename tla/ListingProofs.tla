---------------------------- MODULE ListingProofs ----------------------------
(***************************************************************************)
(* Proofs about Listing, for every set of ids, rows, texts and events and  *)
(* every page size: the two kinds of stores answer alike, and who turns    *)
(* the pages of a list misses nothing.                                     *)
(***************************************************************************)
EXTENDS Listing, FiniteSetTheorems, SequenceTheorems, TLAPS

----------------------------------------------------------------------------
(* Numbers in their order *)

\* How many members of S are before x: SQLite's row number, from 0.
Rank(S, x) == Cardinality({y \in S : y < x})

Increasing(s) == \A i, j \in DOMAIN s : i < j => s[i] < s[j]

Finite(S) == S \subseteq Nat /\ IsFiniteSet(S)

\* An enumeration of S in its order.
Enumerates(s, n, S) == s \in [1..n -> S] /\ Increasing(s) /\ \A x \in S : \E i \in 1..n : s[i] = x

LEMMA RankGrows ==
  ASSUME NEW S, Finite(S), NEW x \in S
  PROVE  /\ Rank(S, x) \in 0..(Cardinality(S) - 1) /\ Cardinality(S) \in Nat \ {0}
         /\ \A y \in S : x < y => Rank(S, x) < Rank(S, y)
  <1>1. Cardinality(S) \in Nat /\ Cardinality(S \ {x}) = Cardinality(S) - 1
        /\ IsFiniteSet(S \ {x}) /\ Cardinality(S \ {x}) \in Nat
    BY FS_CardinalityType, FS_RemoveElement DEF Finite
  <1>2. \A T : T \subseteq S => IsFiniteSet(T) /\ Cardinality(T) \in Nat
    BY FS_Subset, FS_CardinalityType DEF Finite
  <1>3. Rank(S, x) \in 0..(Cardinality(S) - 1)
    <2>1. {y \in S : y < x} \subseteq S \ {x}
      BY DEF Finite
    <2>2. Cardinality({y \in S : y < x}) <= Cardinality(S \ {x})
      BY <1>1, <2>1, FS_Subset
    <2>3. Cardinality({y \in S : y < x}) \in Nat
      BY <1>2
    <2>4. QED
      BY <1>1, <2>2, <2>3 DEF Rank
  <1>4. ASSUME NEW y \in S, x < y PROVE Rank(S, x) < Rank(S, y)
    <2> DEFINE A == {z \in S : z < x}
               B == {z \in S : z < y}
    <2>1. A \subseteq B \ {x} /\ x \in B /\ x \notin A
      <3>1. x \in Nat /\ y \in Nat /\ \A z \in S : z \in Nat
        BY DEF Finite
      <3>2. \A z \in S : z < x => z < y /\ z # x
        BY <1>4, <3>1
      <3>3. x \in B /\ x \notin A
        BY <1>4, <3>1
      <3>4. QED
        BY <3>2, <3>3
    <2>2. IsFiniteSet(A) /\ IsFiniteSet(B) /\ Cardinality(A) \in Nat /\ Cardinality(B) \in Nat
      BY <1>2
    <2> HIDE DEF A, B
    <2>3. Cardinality(B \ {x}) = Cardinality(B) - 1 /\ IsFiniteSet(B \ {x})
      BY <2>1, <2>2, FS_RemoveElement
    <2>4. Cardinality(A) <= Cardinality(B \ {x})
      BY <2>1, <2>3, FS_Subset
    <2>5. QED
      BY <2>2, <2>3, <2>4 DEF Rank, A, B
  <1>5. QED
    BY <1>1, <1>3, <1>4

LEMMA RankNames ==
  ASSUME NEW S, Finite(S), NEW x \in S, NEW y \in S, Rank(S, x) = Rank(S, y)
  PROVE  x = y
  <1>1. x \in Nat /\ y \in Nat
    BY DEF Finite
  <1>2. /\ Rank(S, x) \in 0..(Cardinality(S) - 1)
        /\ x < y => Rank(S, x) < Rank(S, y)
        /\ y < x => Rank(S, y) < Rank(S, x)
        /\ Cardinality(S) \in Nat
    BY RankGrows
  <1>3. QED
    BY <1>1, <1>2

\* An enumeration has the member of rank i - 1 in place i.
LEMMA EnumerationRanks ==
  ASSUME NEW S, Finite(S), NEW n \in Nat, NEW s, Enumerates(s, n, S)
  PROVE  /\ n = Cardinality(S)
         /\ \A i \in 1..n : Rank(S, s[i]) = i - 1
  <1>1. s \in [1..n -> S] /\ Increasing(s) /\ DOMAIN s = 1..n
        /\ \A x \in S : \E i \in 1..n : s[i] = x
    BY DEF Enumerates
  <1>2. \A i, j \in 1..n : s[i] \in Nat /\ (i < j => s[i] < s[j])
    BY <1>1 DEF Increasing, Finite
  <1>3. \A i, j \in 1..n : s[i] = s[j] => i = j
    BY <1>2
  <1>4. n = Cardinality(S)
    <2>1. s \in Bijection(1..n, S)
      BY <1>1, <1>3 DEF Bijection, Injection, Surjection, IsInjective
    <2>2. QED
      BY <2>1, FS_CountingElements DEF ExistsBijection
  <1>5. ASSUME NEW i \in 1..n PROVE Rank(S, s[i]) = i - 1
    <2> DEFINE T == {y \in S : y < s[i]}
               t == [k \in 1..(i - 1) |-> s[k]]
    <2>1. i - 1 \in Nat /\ 1..(i - 1) \subseteq 1..n
      OBVIOUS
    <2>2. \A k \in 1..(i - 1) : s[k] \in T
      BY <1>1, <1>2
    <2>3. \A y \in T : \E k \in 1..(i - 1) : s[k] = y
      <3>1. SUFFICES ASSUME NEW y \in T PROVE \E k \in 1..(i - 1) : s[k] = y
        OBVIOUS
      <3>2. PICK k \in 1..n : s[k] = y
        BY <1>1
      <3>3. k < i
        BY <1>2, <3>2
      <3>4. QED
        BY <3>2, <3>3
    <2>4. t \in Bijection(1..(i - 1), T)
      BY <1>3, <2>1, <2>2, <2>3 DEF Bijection, Injection, Surjection, IsInjective
    <2>5. Cardinality(T) = i - 1
      BY <2>1, <2>4, FS_CountingElements DEF ExistsBijection
    <2>6. QED
      BY <2>5 DEF Rank
  <1>6. QED
    BY <1>4, <1>5

LEMMA EnumerationsAgree ==
  ASSUME NEW S, Finite(S), NEW n \in Nat, NEW s, Enumerates(s, n, S),
         NEW m \in Nat, NEW t, Enumerates(t, m, S)
  PROVE  s = t
  <1>1. /\ n = Cardinality(S) /\ m = Cardinality(S)
        /\ \A i \in 1..n : Rank(S, s[i]) = i - 1 /\ Rank(S, t[i]) = i - 1
    BY EnumerationRanks
  <1>2. s \in [1..n -> S] /\ t \in [1..n -> S]
    BY <1>1 DEF Enumerates
  <1>3. \A i \in 1..n : s[i] = t[i]
    BY <1>1, <1>2, RankNames
  <1>4. QED
    BY <1>2, <1>3

LEMMA Ordered ==
  ASSUME NEW S, Finite(S)
  PROVE  Enumerates(InOrder(S), Cardinality(S), S) /\ Cardinality(S) \in Nat
  <1> DEFINE n == Cardinality(S)
             f == [x \in S |-> Rank(S, x) + 1]
             s == [i \in 1..n |-> CHOOSE x \in S : Rank(S, x) + 1 = i]
  <1>1. n \in Nat
    BY FS_CardinalityType DEF Finite
  <1>2. f \in Injection(S, 1..n)
    <2>1. \A x \in S : Rank(S, x) + 1 \in 1..n
      BY <1>1, RankGrows
    <2>2. \A x, y \in S : Rank(S, x) + 1 = Rank(S, y) + 1 => x = y
      <3>1. \A x \in S : Rank(S, x) \in Int
        BY RankGrows
      <3>2. QED
        BY <3>1, RankNames
    <2>3. QED
      BY <2>1, <2>2 DEF Injection, IsInjective
  <1>3. f \in Surjection(S, 1..n)
    <2>1. IsFiniteSet(1..n) /\ Cardinality(1..n) = n
      BY <1>1, FS_Interval
    <2>2. QED
      BY <1>2, <2>1, FS_Injection
  <1>4. \A i \in 1..n : \E x \in S : Rank(S, x) + 1 = i
    BY <1>3 DEF Surjection
  <1>5. \A i \in 1..n : s[i] \in S /\ Rank(S, s[i]) + 1 = i
    BY <1>4
  <1>6. ASSUME NEW i \in 1..n, NEW j \in 1..n, i < j PROVE s[i] < s[j]
    <2>1. s[i] \in S /\ s[j] \in S /\ s[i] \in Nat /\ s[j] \in Nat
      BY <1>5 DEF Finite
    <2>2. Rank(S, s[i]) + 1 = i /\ Rank(S, s[j]) + 1 = j
      BY <1>5
    <2>3. Rank(S, s[i]) \in Int /\ Rank(S, s[j]) \in Int
      BY <2>1, RankGrows
    <2>4. s[j] < s[i] => Rank(S, s[j]) < Rank(S, s[i])
      BY <2>1, RankGrows
    <2>5. s[i] # s[j]
      <3> HIDE DEF s
      <3>1. SUFFICES ASSUME s[i] = s[j] PROVE FALSE
        OBVIOUS
      <3>2. Rank(S, s[i]) = Rank(S, s[j])
        BY <3>1
      <3>3. i = j
        BY <2>2, <3>2
      <3>4. QED
        BY <1>6, <3>3
    <2> HIDE DEF s
    <2>6. QED
      BY <1>6, <2>1, <2>2, <2>3, <2>4, <2>5
  <1>7. s \in [1..n -> S] /\ Increasing(s)
    <2>1. s \in [1..n -> S] /\ DOMAIN s = 1..n
      BY <1>5
    <2> HIDE DEF s
    <2>2. QED
      BY <1>6, <2>1 DEF Increasing
  <1>8. \E t \in [1..n -> S] : \A i, j \in DOMAIN t : i < j => t[i] < t[j]
    BY <1>7 DEF Increasing
  <1>9. /\ InOrder(S) \in [1..n -> S]
        /\ \A i, j \in DOMAIN InOrder(S) : i < j => InOrder(S)[i] < InOrder(S)[j]
    BY <1>8 DEF InOrder
  <1>10. \A x \in S : \E i \in 1..n : InOrder(S)[i] = x
    <2> DEFINE t == InOrder(S)
    <2>1. t \in [1..n -> S] /\ \A i, j \in 1..n : t[i] \in Nat /\ (i < j => t[i] < t[j])
      BY <1>9 DEF Finite
    <2> HIDE DEF t
    <2>2. t \in Injection(1..n, S)
      BY <2>1 DEF Injection, IsInjective
    <2>3. IsFiniteSet(S) /\ Cardinality(1..n) = n
      BY <1>1, FS_Interval DEF Finite
    <2>4. t \in Surjection(1..n, S)
      BY <2>2, <2>3, FS_Injection
    <2>5. QED
      BY <2>4 DEF Surjection, t
  <1>11. QED
    BY <1>1, <1>9, <1>10 DEF Enumerates, Increasing

\* Whatever enumerates a set is its members in order.
LEMMA OnlyOrder ==
  ASSUME NEW S, Finite(S), NEW n \in Nat, NEW s, Enumerates(s, n, S)
  PROVE  s = InOrder(S)
  BY Ordered, EnumerationsAgree

----------------------------------------------------------------------------
(* Slices *)

LEMMA SliceShape ==
  ASSUME NEW T, NEW s \in Seq(T), NEW limit \in Nat, NEW offset \in Nat
  PROVE  /\ Slice(s, limit, offset) \in Seq(T)
         /\ Len(Slice(s, limit, offset)) =
              IF Len(s) <= offset THEN 0
              ELSE IF offset + limit < Len(s) THEN limit ELSE Len(s) - offset
         /\ \A i \in 1..Len(Slice(s, limit, offset)) :
              offset + i \in 1..Len(s) /\ Slice(s, limit, offset)[i] = s[offset + i]
  <1> DEFINE n == IF offset + limit < Len(s) THEN offset + limit ELSE Len(s)
  <1>1. Len(s) \in Nat /\ \A i \in 1..Len(s) : s[i] \in T
    OBVIOUS
  <1>2. n \in Int /\ offset + 1 \in Int /\ n <= Len(s) /\ n <= offset + limit
    BY <1>1
  <1>3. \A i \in (offset + 1)..n : s[i] \in T
    BY <1>1, <1>2
  <1> HIDE DEF n
  <1>4. /\ SubSeq(s, offset + 1, n) \in Seq(T)
        /\ Len(SubSeq(s, offset + 1, n)) =
             IF offset + 1 <= n THEN n - (offset + 1) + 1 ELSE 0
        /\ \A i \in 1..(n - (offset + 1) + 1) :
             SubSeq(s, offset + 1, n)[i] = s[offset + 1 + i - 1]
    BY <1>2, <1>3, SubSeqProperties
  <1>5. Slice(s, limit, offset) = SubSeq(s, offset + 1, n)
    BY DEF Slice, n
  <1>6. Len(Slice(s, limit, offset)) = IF offset < n THEN n - offset ELSE 0
    BY <1>2, <1>4, <1>5
  <1>7. \A i \in 1..Len(Slice(s, limit, offset)) :
          offset + i \in 1..Len(s) /\ Slice(s, limit, offset)[i] = s[offset + i]
    <2>1. SUFFICES ASSUME NEW i \in 1..Len(Slice(s, limit, offset))
                   PROVE  offset + i \in 1..Len(s) /\ Slice(s, limit, offset)[i] = s[offset + i]
      OBVIOUS
    <2>2. i \in 1..(n - (offset + 1) + 1) /\ offset + i \in 1..Len(s)
      BY <1>1, <1>2, <1>6
    <2>3. offset + 1 + i - 1 = offset + i
      BY <2>2
    <2>4. QED
      BY <1>4, <1>5, <2>2, <2>3
  <1>8. Len(Slice(s, limit, offset)) =
          IF Len(s) <= offset THEN 0
          ELSE IF offset + limit < Len(s) THEN limit ELSE Len(s) - offset
    BY <1>1, <1>2, <1>6 DEF n
  <1>9. QED
    BY <1>4, <1>5, <1>7, <1>8

LEMMA OrderedSequence ==
  ASSUME NEW S, Finite(S)
  PROVE  /\ InOrder(S) \in Seq(S) /\ Len(InOrder(S)) = Cardinality(S)
         /\ ToSet(InOrder(S)) = S
         /\ DOMAIN InOrder(S) = 1..Cardinality(S)
         /\ \A i \in 1..Cardinality(S) : Rank(S, InOrder(S)[i]) = i - 1
  <1>1. Enumerates(InOrder(S), Cardinality(S), S) /\ Cardinality(S) \in Nat
    BY Ordered
  <1> DEFINE s == InOrder(S)
             n == Cardinality(S)
  <1>2. \A i \in 1..n : Rank(S, s[i]) = i - 1
    BY <1>1, EnumerationRanks
  <1>3. s \in [1..n -> S] /\ \A x \in S : \E i \in 1..n : s[i] = x
    BY <1>1 DEF Enumerates
  <1> HIDE DEF s, n
  <1>4. n \in Nat
    BY <1>1 DEF n
  <1>5. s \in Seq(S) /\ Len(s) = n
    BY <1>3, <1>4
  <1>6. ToSet(s) = S
    BY <1>3 DEF ToSet
  <1>7. QED
    BY <1>2, <1>3, <1>5, <1>6 DEF s, n

\* ORDER BY, LIMIT and OFFSET: the rows numbered offset to offset + limit - 1.
LEMMA SliceOfOrder ==
  ASSUME NEW S, Finite(S), NEW limit \in Nat, NEW offset \in Nat
  PROVE  Slice(InOrder(S), limit, offset) =
           InOrder({x \in S : Rank(S, x) \in offset..(offset + limit - 1)})
  <1> DEFINE s == InOrder(S)
             p == Slice(s, limit, offset)
             C == {x \in S : Rank(S, x) \in offset..(offset + limit - 1)}
  <1>1. /\ s \in Seq(S) /\ Len(s) = Cardinality(S) /\ Cardinality(S) \in Nat
        /\ \A i \in 1..Len(s) : s[i] \in S /\ Rank(S, s[i]) = i - 1
        /\ \A i, j \in 1..Len(s) : i < j => s[i] < s[j]
        /\ \A x \in S : \E i \in 1..Len(s) : s[i] = x
    BY Ordered, OrderedSequence DEF Enumerates, Increasing
  <1> HIDE DEF s
  <1>2. /\ p \in Seq(S) /\ Len(p) \in Nat /\ DOMAIN p = 1..Len(p)
        /\ Len(p) = IF Len(s) <= offset THEN 0
                    ELSE IF offset + limit < Len(s) THEN limit ELSE Len(s) - offset
        /\ \A i \in 1..Len(p) : offset + i \in 1..Len(s) /\ p[i] = s[offset + i]
    BY <1>1, SliceShape
  <1> HIDE DEF p
  <1>3. \A i \in 1..Len(p) : i <= limit
    BY <1>1, <1>2
  <1>4. \A i \in 1..Len(p) : p[i] \in C
    <2>1. SUFFICES ASSUME NEW i \in 1..Len(p) PROVE p[i] \in C
      OBVIOUS
    <2>2. offset + i \in 1..Len(s) /\ p[i] = s[offset + i] /\ i <= limit /\ i \in Nat /\ i >= 1
      BY <1>2, <1>3
    <2>3. p[i] \in S /\ Rank(S, p[i]) = offset + i - 1
      BY <1>1, <2>2
    <2>4. offset + i - 1 \in offset..(offset + limit - 1)
      BY <2>2
    <2>5. QED
      BY <2>3, <2>4
  <1>5. \A i, j \in 1..Len(p) : i < j => p[i] < p[j]
    BY <1>1, <1>2
  <1>6. ASSUME NEW x \in C PROVE \E i \in 1..Len(p) : p[i] = x
    <2>1. PICK k \in 1..Len(s) : s[k] = x
      BY <1>1
    <2>2. k - 1 \in offset..(offset + limit - 1)
      BY <1>1, <2>1
    <2>3. k - offset \in 1..Len(p) /\ offset + (k - offset) = k
      <3>1. /\ k \in Nat /\ Len(s) \in Nat /\ k <= Len(s)
            /\ offset < k /\ k <= offset + limit
        BY <1>1, <2>1, <2>2
      <3>2. Len(p) = IF Len(s) <= offset THEN 0
                     ELSE IF offset + limit < Len(s) THEN limit ELSE Len(s) - offset
        BY <1>2
      <3>3. k - offset <= Len(p) /\ Len(p) \in Nat
        BY <3>1, <3>2
      <3>4. QED
        BY <3>1, <3>3
    <2>4. QED
      BY <1>2, <2>1, <2>3
  <1>7. Finite(C)
    <2>1. C \subseteq S
      OBVIOUS
    <2>2. QED
      BY <2>1, FS_Subset DEF Finite
  <1>8. Enumerates(p, Len(p), C)
    <2>1. p \in [1..Len(p) -> C]
      BY <1>2, <1>4
    <2>2. Increasing(p)
      BY <1>2, <1>5 DEF Increasing
    <2>3. QED
      BY <1>6, <2>1, <2>2 DEF Enumerates
  <1> HIDE DEF C
  <1>9. p = InOrder(C)
    BY <1>2, <1>7, <1>8, OnlyOrder
  <1>10. QED
    BY <1>9 DEF p, C, s

----------------------------------------------------------------------------
(* The two kinds of stores *)

\* The table has a row for every user in memory, and no other.
UsersMirror(u, t) ==
  /\ DOMAIN u \subseteq Ids /\ \A id \in DOMAIN u : u[id] \in Rows
  /\ t = {[id |-> id, row |-> u[id]] : id \in DOMAIN u}

\* The rowids of the log number the events in memory.
AuditMirror(ev, l) ==
  /\ ev \in Seq(Events)
  /\ l = {[rowid |-> i, event |-> ev[i]] : i \in 1..Len(ev)}

\* What either store has for a query, all of it.
UserList(u, q) == InOrder({id \in DOMAIN u : SqlMatches(u[id], q)})

AuditChosen(ev, f) == {i \in 1..Len(ev) : SqlAuditMatches(ev[i], f)}

AuditList(ev, f) ==
  [i \in DOMAIN InOrder(AuditChosen(ev, f)) |-> ev[InOrder(AuditChosen(ev, f))[i]]]

Mirrors == UsersMirror(users, table) /\ AuditMirror(events, log)

LEMMA TableRows ==
  ASSUME NEW u, NEW t, UsersMirror(u, t)
  PROVE  /\ \A r \in t : /\ r.id \in DOMAIN u /\ r.row = u[r.id]
                         /\ r = [id |-> r.id, row |-> u[r.id]]
         /\ \A id \in DOMAIN u : /\ [id |-> id, row |-> u[id]] \in t
                                 /\ [id |-> id, row |-> u[id]].id = id
                                 /\ [id |-> id, row |-> u[id]].row = u[id]
         /\ {r.id : r \in t} = DOMAIN u
         /\ IsFiniteSet(DOMAIN u) /\ IsFiniteSet(t) /\ Cardinality(DOMAIN u) <= Cardinality(t)
         /\ Cardinality(DOMAIN u) \in Nat /\ Cardinality(t) \in Nat
  <1>1. \A r \in t : r.id \in DOMAIN u /\ r.row = u[r.id] /\ r = [id |-> r.id, row |-> u[r.id]]
    BY DEF UsersMirror
  <1>2. \A id \in DOMAIN u : /\ [id |-> id, row |-> u[id]] \in t
                             /\ [id |-> id, row |-> u[id]].id = id
                             /\ [id |-> id, row |-> u[id]].row = u[id]
    BY DEF UsersMirror
  <1>3. {r.id : r \in t} = DOMAIN u
    BY <1>1, <1>2
  <1>4. IsFiniteSet(DOMAIN u)
    BY ListingAssumption, FS_Subset DEF UsersMirror
  <1> DEFINE f == [id \in DOMAIN u |-> [id |-> id, row |-> u[id]]]
  <1>5. f \in Surjection(DOMAIN u, t)
    BY DEF UsersMirror, Surjection
  <1>6. f \in Injection(DOMAIN u, t)
    <2>1. \A a, b \in DOMAIN u : f[a] = f[b] => a = b
      BY <1>2
    <2>2. f \in [DOMAIN u -> t]
      BY <1>2
    <2> HIDE DEF f
    <2>3. QED
      BY <2>1, <2>2 DEF Injection, IsInjective
  <1> HIDE DEF f
  <1>7. IsFiniteSet(t)
    BY <1>4, <1>5, FS_Surjection
  <1>8. Cardinality(DOMAIN u) <= Cardinality(t)
    BY <1>4, <1>6, <1>7, FS_Injection
  <1>9. QED
    BY <1>1, <1>2, <1>3, <1>4, <1>7, <1>8, FS_CardinalityType

LEMMA SameUsers ==
  ASSUME Mirrors, NEW q \in UserQueries
  PROVE  {r.id : r \in {s \in table : SqlMatches(s.row, q)}}
           = {id \in DOMAIN users : SqlMatches(users[id], q)}
  <1>2. UsersMirror(users, table)
    BY DEF Mirrors
  <1>3. /\ \A r \in table : r.id \in DOMAIN users /\ r.row = users[r.id]
        /\ \A id \in DOMAIN users : /\ [id |-> id, row |-> users[id]] \in table
                                    /\ [id |-> id, row |-> users[id]].id = id
                                    /\ [id |-> id, row |-> users[id]].row = users[id]
    BY <1>2 DEF UsersMirror
  <1>4. QED
    BY <1>3

LEMMA UsersFinite ==
  ASSUME NEW u, DOMAIN u \subseteq Ids, NEW q
  PROVE  Finite({id \in DOMAIN u : SqlMatches(u[id], q)})
  <1>1. {id \in DOMAIN u : SqlMatches(u[id], q)} \subseteq Ids
    OBVIOUS
  <1>2. QED
    BY <1>1, ListingAssumption, FS_Subset DEF Finite

\* A page of users, in SQLite, is that slice of the list in memory.
LEMMA UserPages ==
  ASSUME Mirrors, NEW q \in UserQueries, NEW limit \in Nat, NEW offset \in Nat
  PROVE  SqlList(q, limit, offset) = Slice(UserList(users, q), limit, offset)
  <1> DEFINE S == {id \in DOMAIN users : SqlMatches(users[id], q)}
  <1>1. {r.id : r \in {s \in table : SqlMatches(s.row, q)}} = S
    BY SameUsers
  <1>2. Finite(S)
    BY UsersFinite DEF Mirrors, UsersMirror
  <1> HIDE DEF S
  <1>3. SqlList(q, limit, offset) =
          InOrder({x \in S : Rank(S, x) \in offset..(offset + limit - 1)})
    BY <1>1 DEF SqlList, Rank
  <1>4. Slice(InOrder(S), limit, offset) =
          InOrder({x \in S : Rank(S, x) \in offset..(offset + limit - 1)})
    BY <1>2, SliceOfOrder
  <1>5. UserList(users, q) = InOrder(S)
    BY DEF UserList, S
  <1>6. QED
    BY <1>3, <1>4, <1>5

----------------------------------------------------------------------------

LEMMA LogRows ==
  ASSUME NEW ev, NEW l, AuditMirror(ev, l)
  PROVE  /\ Len(ev) \in Nat /\ DOMAIN ev = 1..Len(ev) /\ \A i \in 1..Len(ev) : ev[i] \in Events
         /\ \A r \in l : /\ r.rowid \in 1..Len(ev) /\ r.event = ev[r.rowid]
         /\ \A i \in 1..Len(ev) : /\ [rowid |-> i, event |-> ev[i]] \in l
                                  /\ [rowid |-> i, event |-> ev[i]].rowid = i
                                  /\ [rowid |-> i, event |-> ev[i]].event = ev[i]
         /\ IsFiniteSet(l) /\ Cardinality(l) = Len(ev)
  <1>1. Len(ev) \in Nat /\ DOMAIN ev = 1..Len(ev) /\ \A i \in 1..Len(ev) : ev[i] \in Events
    BY DEF AuditMirror
  <1>2. \A r \in l : r.rowid \in 1..Len(ev) /\ r.event = ev[r.rowid]
    BY DEF AuditMirror
  <1>3. \A i \in 1..Len(ev) : /\ [rowid |-> i, event |-> ev[i]] \in l
                              /\ [rowid |-> i, event |-> ev[i]].rowid = i
                              /\ [rowid |-> i, event |-> ev[i]].event = ev[i]
    BY DEF AuditMirror
  <1> DEFINE f == [i \in 1..Len(ev) |-> [rowid |-> i, event |-> ev[i]]]
  <1>4. f \in [1..Len(ev) -> l] /\ (\A a, b \in 1..Len(ev) : f[a] = f[b] => a = b)
    BY <1>3
  <1>5. \A r \in l : \E i \in 1..Len(ev) : f[i] = r
    BY DEF AuditMirror
  <1> HIDE DEF f
  <1>6. f \in Bijection(1..Len(ev), l)
    BY <1>4, <1>5 DEF Bijection, Injection, Surjection, IsInjective
  <1>7. IsFiniteSet(1..Len(ev)) /\ IsFiniteSet(l) /\ Cardinality(l) = Len(ev)
    BY <1>1, <1>6, FS_CountingElements, FS_Interval, FS_Bijection, FS_Surjection
       DEF ExistsBijection, Bijection
  <1>8. QED
    BY <1>1, <1>2, <1>3, <1>7

LEMMA ChosenFinite ==
  ASSUME NEW ev, Len(ev) \in Nat, NEW f
  PROVE  /\ Finite(AuditChosen(ev, f)) /\ AuditChosen(ev, f) \subseteq 1..Len(ev)
         /\ Cardinality(AuditChosen(ev, f)) <= Len(ev)
         /\ Cardinality(AuditChosen(ev, f)) \in Nat
  <1>1. AuditChosen(ev, f) \subseteq 1..Len(ev)
    BY DEF AuditChosen
  <1>2. IsFiniteSet(1..Len(ev)) /\ Cardinality(1..Len(ev)) = Len(ev) /\ 1..Len(ev) \subseteq Nat
    <2>1. /\ IsFiniteSet(1..Len(ev))
          /\ Cardinality(1..Len(ev)) = IF 1 > Len(ev) THEN 0 ELSE Len(ev) - 1 + 1
      BY FS_Interval
    <2>2. QED
      BY <2>1
  <1>3. IsFiniteSet(AuditChosen(ev, f)) /\ Cardinality(AuditChosen(ev, f)) <= Len(ev)
    BY <1>1, <1>2, FS_Subset
  <1>4. QED
    BY <1>1, <1>2, <1>3, FS_CardinalityType DEF Finite

LEMMA AuditListShape ==
  ASSUME NEW ev \in Seq(Events), NEW f
  PROVE  /\ AuditList(ev, f) \in Seq(Events)
         /\ Len(AuditList(ev, f)) = Cardinality(AuditChosen(ev, f))
         /\ DOMAIN AuditList(ev, f) = 1..Cardinality(AuditChosen(ev, f))
         /\ \A i \in 1..Cardinality(AuditChosen(ev, f)) :
              /\ InOrder(AuditChosen(ev, f))[i] \in AuditChosen(ev, f)
              /\ AuditList(ev, f)[i] = ev[InOrder(AuditChosen(ev, f))[i]]
  <1> DEFINE S == AuditChosen(ev, f)
             s == InOrder(S)
  <1>1. Len(ev) \in Nat /\ \A i \in 1..Len(ev) : ev[i] \in Events
    OBVIOUS
  <1>2. Finite(S) /\ S \subseteq 1..Len(ev) /\ Cardinality(S) \in Nat
    BY <1>1, ChosenFinite
  <1> HIDE DEF S
  <1>3. DOMAIN s = 1..Cardinality(S) /\ \A i \in 1..Cardinality(S) : s[i] \in S
    BY <1>2, Ordered DEF Enumerates
  <1> HIDE DEF s
  <1>4. AuditList(ev, f) = [i \in 1..Cardinality(S) |-> ev[s[i]]]
    BY <1>3 DEF AuditList, S, s
  <1>5. \A i \in 1..Cardinality(S) : ev[s[i]] \in Events
    BY <1>1, <1>2, <1>3
  <1>6. QED
    BY <1>2, <1>3, <1>4, <1>5 DEF S, s

LEMMA SameEvents ==
  ASSUME Mirrors, NEW f
  PROVE  /\ {r.rowid : r \in {s \in log : SqlAuditMatches(s.event, f)}} = AuditChosen(events, f)
         /\ \A i \in 1..Len(events) : EventAt(i) = events[i]
  <1>1. /\ \A r \in log : r.rowid \in 1..Len(events) /\ r.event = events[r.rowid]
        /\ \A i \in 1..Len(events) : /\ [rowid |-> i, event |-> events[i]] \in log
                                     /\ [rowid |-> i, event |-> events[i]].rowid = i
                                     /\ [rowid |-> i, event |-> events[i]].event = events[i]
    BY LogRows DEF Mirrors
  <1>2. {r.rowid : r \in {s \in log : SqlAuditMatches(s.event, f)}} = AuditChosen(events, f)
    BY <1>1 DEF AuditChosen
  <1>3. ASSUME NEW i \in 1..Len(events) PROVE EventAt(i) = events[i]
    <2>1. \E r \in log : r.rowid = i
      BY <1>1
    <2> DEFINE c == CHOOSE r \in log : r.rowid = i
    <2>2. c \in log /\ c.rowid = i
      BY <2>1
    <2>3. c.event = events[i]
      BY <1>1, <2>2
    <2>4. QED
      BY <2>3 DEF EventAt
  <1>4. QED
    BY <1>2, <1>3

\* A page of the audit log, in SQLite.
LEMMA AuditPages ==
  ASSUME Mirrors, NEW f, NEW limit, NEW offset
  PROVE  SqlAudit(f, limit, offset) = Slice(AuditList(events, f), limit, offset)
  <1> DEFINE S == AuditChosen(events, f)
             s == InOrder(S)
  <1>1. /\ {r.rowid : r \in {x \in log : SqlAuditMatches(x.event, f)}} = S
        /\ \A i \in 1..Len(events) : EventAt(i) = events[i]
    BY SameEvents
  <1>2. events \in Seq(Events)
    BY DEF Mirrors, AuditMirror
  <1>3. Finite(S) /\ S \subseteq 1..Len(events) /\ Cardinality(S) \in Nat
    BY <1>2, ChosenFinite
  <1> HIDE DEF S
  <1>4. DOMAIN s = 1..Cardinality(S) /\ \A i \in 1..Cardinality(S) : s[i] \in S
    BY <1>3, Ordered DEF Enumerates
  <1> HIDE DEF s
  <1>5. [i \in DOMAIN s |-> EventAt(s[i])] = [i \in DOMAIN s |-> events[s[i]]]
    BY <1>1, <1>3, <1>4
  <1>6. SqlAudit(f, limit, offset) = Slice([i \in DOMAIN s |-> EventAt(s[i])], limit, offset)
    BY <1>1 DEF SqlAudit, s
  <1>7. QED
    BY <1>5, <1>6 DEF AuditList, S, s

----------------------------------------------------------------------------
(* Calls keep the stores together *)

GrantsMatch ==
  /\ held \subseteq Ids /\ apart \subseteq Ids
  /\ holders \subseteq DOMAIN users
  /\ \A id \in Ids \ apart : id \in held <=> id \in holders

StoresInv == Mirrors /\ GrantsMatch

LEMMA CreateMirrors ==
  ASSUME Mirrors, NEW id \in Ids, NEW row \in Rows
  PROVE  /\ UsersMirror(MemoryCreate(id, row), SqlCreate(id, row))
         /\ DOMAIN users \subseteq DOMAIN MemoryCreate(id, row)
  <1>1. UsersMirror(users, table)
    BY DEF Mirrors
  <1>2. (\E r \in table : r.id = id \/ r.row.name = row.name)
           <=> (id \in DOMAIN users \/ Taken(id, row.name))
    <2>1. \A r \in table : r.id \in DOMAIN users /\ r.row = users[r.id]
      BY <1>1 DEF UsersMirror
    <2>2. \A x \in DOMAIN users : \E r \in table : r.id = x /\ r.row = users[x]
      <3>1. \A x \in DOMAIN users : [id |-> x, row |-> users[x]] \in table
        BY <1>1 DEF UsersMirror
      <3>2. \A x \in DOMAIN users : /\ [id |-> x, row |-> users[x]].id = x
                                    /\ [id |-> x, row |-> users[x]].row = users[x]
        OBVIOUS
      <3>3. QED
        BY <3>1, <3>2
    <2>3. QED
      BY <2>1, <2>2 DEF Taken
  <1>3. CASE id \in DOMAIN users \/ Taken(id, row.name)
    BY <1>1, <1>2, <1>3 DEF MemoryCreate, SqlCreate
  <1>4. CASE ~(id \in DOMAIN users \/ Taken(id, row.name))
    <2>1. MemoryCreate(id, row) = Put(id, row) /\ SqlCreate(id, row) = table \cup {[id |-> id, row |-> row]}
      BY <1>2, <1>4 DEF MemoryCreate, SqlCreate
    <2> DEFINE u == Put(id, row)
    <2>2. DOMAIN u = DOMAIN users \cup {id} /\ u[id] = row
          /\ \A x \in DOMAIN users : u[x] = users[x]
      BY <1>4 DEF Put
    <2> HIDE DEF u
    <2>3. {[id |-> x, row |-> u[x]] : x \in DOMAIN u}
            = {[id |-> x, row |-> u[x]] : x \in DOMAIN users} \cup {[id |-> id, row |-> u[id]]}
      BY <2>2
    <2>4. {[id |-> x, row |-> u[x]] : x \in DOMAIN users}
            = {[id |-> x, row |-> users[x]] : x \in DOMAIN users}
      BY <2>2
    <2>5. {[id |-> x, row |-> u[x]] : x \in DOMAIN u} = table \cup {[id |-> id, row |-> row]}
      BY <1>1, <2>2, <2>3, <2>4 DEF UsersMirror
    <2>6. DOMAIN u \subseteq Ids /\ \A x \in DOMAIN u : u[x] \in Rows
      BY <1>1, <2>2 DEF UsersMirror
    <2>7. UsersMirror(u, table \cup {[id |-> id, row |-> row]})
      BY <2>5, <2>6 DEF UsersMirror
    <2>8. QED
      BY <2>1, <2>2, <2>7 DEF u
  <1>5. QED
    BY <1>3, <1>4

LEMMA UpdateMirrors ==
  ASSUME Mirrors, NEW id \in Ids, NEW row \in Rows
  PROVE  /\ UsersMirror(MemoryUpdate(id, row), SqlUpdate(id, row))
         /\ DOMAIN users = DOMAIN MemoryUpdate(id, row)
  <1>1. UsersMirror(users, table)
    BY DEF Mirrors
  <1>2. (\E r \in table : r.id # id /\ r.row.name = row.name) <=> Taken(id, row.name)
    <2>1. \A r \in table : r.id \in DOMAIN users /\ r.row = users[r.id]
      BY <1>1 DEF UsersMirror
    <2>2. \A x \in DOMAIN users : \E r \in table : r.id = x /\ r.row = users[x]
      <3>1. \A x \in DOMAIN users : [id |-> x, row |-> users[x]] \in table
        BY <1>1 DEF UsersMirror
      <3>2. \A x \in DOMAIN users : /\ [id |-> x, row |-> users[x]].id = x
                                    /\ [id |-> x, row |-> users[x]].row = users[x]
        OBVIOUS
      <3>3. QED
        BY <3>1, <3>2
    <2>3. QED
      BY <2>1, <2>2 DEF Taken
  <1>3. CASE Taken(id, row.name)
    BY <1>1, <1>2, <1>3 DEF MemoryUpdate, SqlUpdate
  <1>4. CASE ~Taken(id, row.name) /\ id \notin DOMAIN users
    <2>1. \A r \in table : r.id # id
      BY <1>1, <1>4 DEF UsersMirror
    <2>2. {IF r.id = id THEN [r EXCEPT !.row = row] ELSE r : r \in table} = table
      BY <2>1
    <2>3. MemoryUpdate(id, row) = users /\ SqlUpdate(id, row) = table
      BY <1>2, <1>4, <2>2 DEF MemoryUpdate, SqlUpdate
    <2>4. QED
      BY <1>1, <2>3
  <1>5. CASE ~Taken(id, row.name) /\ id \in DOMAIN users
    <2> DEFINE u == Put(id, row)
               R(r) == IF r.id = id THEN [r EXCEPT !.row = row] ELSE r
    <2>1. MemoryUpdate(id, row) = u /\ SqlUpdate(id, row) = {R(r) : r \in table}
      BY <1>2, <1>5 DEF MemoryUpdate, SqlUpdate
    <2>2. DOMAIN u = DOMAIN users /\ \A x \in DOMAIN users : u[x] = IF x = id THEN row ELSE users[x]
      BY <1>5 DEF Put
    <2> HIDE DEF u
    <2>3. \A x \in DOMAIN users : R([id |-> x, row |-> users[x]]) = [id |-> x, row |-> u[x]]
      BY <2>2
    <2> HIDE DEF R
    <2>4. {R(r) : r \in table} = {R([id |-> x, row |-> users[x]]) : x \in DOMAIN users}
      BY <1>1 DEF UsersMirror
    <2>5. {R(r) : r \in table} = {[id |-> x, row |-> u[x]] : x \in DOMAIN u}
      BY <2>2, <2>3, <2>4
    <2>6. DOMAIN u \subseteq Ids /\ \A x \in DOMAIN u : u[x] \in Rows
      BY <1>1, <2>2 DEF UsersMirror
    <2>7. QED
      BY <2>1, <2>2, <2>5, <2>6 DEF UsersMirror
  <1>6. QED
    BY <1>3, <1>4, <1>5

LEMMA DeleteMirrors ==
  ASSUME Mirrors, NEW id
  PROVE  /\ UsersMirror(MemoryDelete(id), SqlDelete(id))
         /\ DOMAIN MemoryDelete(id) = DOMAIN users \ {id}
  <1> DEFINE u == MemoryDelete(id)
  <1>1. UsersMirror(users, table)
    BY DEF Mirrors
  <1>2. DOMAIN u = DOMAIN users \ {id} /\ \A x \in DOMAIN u : u[x] = users[x]
    BY DEF MemoryDelete
  <1> HIDE DEF u
  <1>3. SqlDelete(id) = {[id |-> x, row |-> users[x]] : x \in DOMAIN u}
    BY <1>1, <1>2 DEF SqlDelete, UsersMirror
  <1>4. {[id |-> x, row |-> users[x]] : x \in DOMAIN u} = {[id |-> x, row |-> u[x]] : x \in DOMAIN u}
    BY <1>2
  <1>5. DOMAIN u \subseteq Ids /\ \A x \in DOMAIN u : u[x] \in Rows
    BY <1>1, <1>2 DEF UsersMirror
  <1>6. QED
    BY <1>2, <1>3, <1>4, <1>5 DEF UsersMirror, u

\* An event is appended to both, or to neither.
LEMMA AppendMirrors ==
  ASSUME Mirrors, NEW e \in Events
  PROVE  /\ AuditMirror(MemoryAppend(e), SqlAppend(e))
         /\ MemoryAppend(e) = events \/ MemoryAppend(e) = Append(events, e)
  <1>1. AuditMirror(events, log)
    BY DEF Mirrors
  <1>2. /\ Len(events) \in Nat /\ DOMAIN events = 1..Len(events) /\ Cardinality(log) = Len(events)
        /\ \A r \in log : r.rowid \in 1..Len(events) /\ r.event = events[r.rowid]
        /\ \A i \in 1..Len(events) : /\ [rowid |-> i, event |-> events[i]] \in log
                                     /\ [rowid |-> i, event |-> events[i]].event = events[i]
    BY <1>1, LogRows
  <1>3. (\E r \in log : r.event.id = e.id) <=> (\E i \in DOMAIN events : events[i].id = e.id)
    <2>1. \A i \in DOMAIN events : \E r \in log : r.event = events[i]
      BY <1>2
    <2>2. \A r \in log : \E i \in DOMAIN events : r.event = events[i]
      BY <1>2
    <2>3. QED
      BY <2>1, <2>2
  <1>4. CASE \E i \in DOMAIN events : events[i].id = e.id
    BY <1>1, <1>3, <1>4 DEF MemoryAppend, SqlAppend
  <1>5. CASE ~\E i \in DOMAIN events : events[i].id = e.id
    <2> DEFINE n == Len(events)
               ev == Append(events, e)
               l == log \cup {[rowid |-> n + 1, event |-> e]}
    <2>1. MemoryAppend(e) = ev /\ SqlAppend(e) = l
      BY <1>2, <1>3, <1>5 DEF MemoryAppend, SqlAppend, NextRowid
    <2>2. /\ ev \in Seq(Events) /\ Len(ev) = n + 1
          /\ ev[n + 1] = e /\ \A i \in 1..n : ev[i] = events[i]
      BY <1>1, AppendProperties DEF AuditMirror
    <2>3. 1..(n + 1) = (1..n) \cup {n + 1}
      BY <1>2
    <2>4. log = {[rowid |-> i, event |-> events[i]] : i \in 1..n}
      BY <1>1 DEF AuditMirror
    <2> HIDE DEF n, ev
    <2>5. {[rowid |-> i, event |-> ev[i]] : i \in (1..n) \cup {n + 1}}
            = {[rowid |-> i, event |-> ev[i]] : i \in 1..n} \cup {[rowid |-> n + 1, event |-> ev[n + 1]]}
      OBVIOUS
    <2>6. {[rowid |-> i, event |-> ev[i]] : i \in 1..n} = log
      BY <2>2, <2>4
    <2>7. l = {[rowid |-> i, event |-> ev[i]] : i \in 1..Len(ev)}
      BY <2>2, <2>3, <2>5, <2>6
    <2>8. AuditMirror(ev, l)
      BY <2>2, <2>7 DEF AuditMirror
    <2>9. QED
      BY <2>1, <2>8 DEF ev
  <1>6. QED
    BY <1>4, <1>5

LEMMA StoresStep == StoresInv /\ [Next]_vars => StoresInv'
  <1> SUFFICES ASSUME StoresInv, [Next]_vars PROVE StoresInv'
    OBVIOUS
  <1>1. Mirrors /\ UsersMirror(users, table) /\ AuditMirror(events, log) /\ GrantsMatch
    BY DEF StoresInv, Mirrors
  <1>2. ASSUME NEW id \in Ids, NEW row \in Rows, Create(id, row) PROVE StoresInv'
    <2>1. UsersMirror(users', table') /\ DOMAIN users \subseteq DOMAIN users'
      BY <1>1, <1>2, CreateMirrors DEF Create
    <2>2. UNCHANGED <<held, holders, events, log, apart>>
      BY <1>2 DEF Create
    <2>3. QED
      BY <1>1, <2>1, <2>2 DEF StoresInv, Mirrors, GrantsMatch
  <1>3. ASSUME NEW id \in Ids, NEW row \in Rows, Update(id, row) PROVE StoresInv'
    <2>1. UsersMirror(users', table') /\ DOMAIN users = DOMAIN users'
      BY <1>1, <1>3, UpdateMirrors DEF Update
    <2>2. UNCHANGED <<held, holders, events, log, apart>>
      BY <1>3 DEF Update
    <2>3. QED
      BY <1>1, <2>1, <2>2 DEF StoresInv, Mirrors, GrantsMatch
  <1>4. ASSUME NEW id \in Ids, Delete(id) PROVE StoresInv'
    <2>1. UsersMirror(users', table') /\ DOMAIN users' = DOMAIN users \ {id}
      BY <1>1, <1>4, DeleteMirrors DEF Delete
    <2>2. holders' = holders \ {id} /\ apart' = apart \cup ({id} \cap held)
          /\ UNCHANGED <<held, events, log>>
      BY <1>4 DEF Delete
    <2>3. QED
      BY <1>1, <2>1, <2>2 DEF StoresInv, Mirrors, GrantsMatch
  <1>5. ASSUME NEW id \in Ids, AddGrant(id) PROVE StoresInv'
    <2>1. /\ held' = held \cup {id} /\ holders' = holders \cup ({id} \cap {r.id : r \in table})
          /\ apart' = IF id \in DOMAIN users THEN apart \ {id} ELSE apart \cup {id}
          /\ UNCHANGED <<users, table, events, log>>
      BY <1>5 DEF AddGrant, stores
    <2>2. {r.id : r \in table} = DOMAIN users
      BY <1>1, TableRows
    <2>3. GrantsMatch'
      BY <1>1, <2>1, <2>2 DEF GrantsMatch
    <2>4. QED
      BY <1>1, <2>1, <2>3 DEF StoresInv, Mirrors
  <1>6. ASSUME NEW id \in Ids, RemoveGrant(id) PROVE StoresInv'
    BY <1>1, <1>6 DEF RemoveGrant, StoresInv, Mirrors, GrantsMatch
  <1>7. ASSUME NEW e \in Events, AppendEvent(e) PROVE StoresInv'
    <2>1. AuditMirror(events', log')
      BY <1>1, <1>7, AppendMirrors DEF AppendEvent
    <2>2. UNCHANGED <<users, held, table, holders, apart>>
      BY <1>7 DEF AppendEvent
    <2>3. QED
      BY <1>1, <2>1, <2>2 DEF StoresInv, Mirrors, GrantsMatch
  <1>8. CASE Open \/ TurnPage \/ UNCHANGED vars
    <2>1. UNCHANGED <<users, held, table, holders, events, log, apart>>
      BY <1>8 DEF Open, TurnPage, vars, stores
    <2>2. QED
      BY <1>1, <2>1 DEF StoresInv, Mirrors, GrantsMatch
  <1>9. QED
    BY <1>2, <1>3, <1>4, <1>5, <1>6, <1>7, <1>8 DEF Next

LEMMA StoresInit == Init => StoresInv
  <1> SUFFICES ASSUME Init PROVE StoresInv
    OBVIOUS
  <1>1. /\ users = <<>> /\ table = {} /\ held = {} /\ holders = {} /\ apart = {}
        /\ events = <<>> /\ log = {}
    BY DEF Init
  <1>2. DOMAIN users = {} /\ Len(events) = 0 /\ events \in Seq(Events)
    BY <1>1
  <1>3. QED
    BY <1>1, <1>2 DEF StoresInv, Mirrors, GrantsMatch, UsersMirror, AuditMirror

\* Every call leaves the two kinds of stores with the same users, events and grants, but for
\* the grants of the ids in apart.
THEOREM StoresKept == Spec => []StoresInv
  BY StoresInit, StoresStep, PTL DEF Spec

LEMMA SameAnswers == StoresInv => StoresAgree
  <1> SUFFICES ASSUME StoresInv PROVE StoresAgree
    OBVIOUS
  <1>1. Mirrors /\ GrantsMatch /\ events \in Seq(Events)
    BY DEF StoresInv, Mirrors, AuditMirror
  <1>2. ASSUME NEW q \in UserQueries, NEW limit \in Nat, NEW offset \in Nat, Alike(q)
        PROVE  MemoryList(q, limit, offset) = SqlList(q, limit, offset)
    <2>1. SqlList(q, limit, offset) = Slice(UserList(users, q), limit, offset)
      BY <1>1, UserPages
    <2>2. \A row : MemoryMatches(row, q) <=> SqlMatches(row, q)
      BY <1>2 DEF MemoryMatches, SqlMatches, Alike
    <2>3. {id \in DOMAIN users : MemoryMatches(users[id], q)}
            = {id \in DOMAIN users : SqlMatches(users[id], q)}
      BY <2>2
    <2>4. QED
      BY <2>1, <2>3 DEF MemoryList, MemoryUsers, UserList
  <1>3. ASSUME NEW f \in AuditFilters, NEW limit \in Nat, NEW offset \in Nat,
               InZone(f)
        PROVE  MemoryAudit(f, limit, offset) = SqlAudit(f, limit, offset)
    <2>1. DOMAIN events = 1..Len(events) /\ \A i \in 1..Len(events) : events[i] \in Events
      BY <1>1
    <2>2. \A i \in 1..Len(events) :
            MemoryAuditMatches(events[i], f) <=> SqlAuditMatches(events[i], f)
      <3> SUFFICES ASSUME NEW i \in 1..Len(events)
                   PROVE  MemoryAuditMatches(events[i], f) <=> SqlAuditMatches(events[i], f)
        OBVIOUS
      <3> DEFINE e == events[i]
      <3>1. CASE f.since = None
        BY <3>1 DEF MemoryAuditMatches, SqlAuditMatches
      <3>2. CASE f.since # None
        <4>1. e.at.wall \in Int /\ e.at.zone \in Int
          BY <2>1, ListingAssumption
        <4>2. f.since.wall \in Int /\ f.since.zone \in Int
          <5>1. f.since \in Times
            BY <3>2 DEF AuditFilters
          <5>2. \A x \in Events : x.at.wall \in Int
            BY ListingAssumption
          <5>3. QED
            BY <5>1, <5>2 DEF Times
        <4>3. e.at.zone = f.since.zone
          BY <1>3, <2>1, <3>2 DEF InZone
        <4> HIDE DEF e
        <4>4. e.at.wall - e.at.zone >= f.since.wall - f.since.zone
                <=> (e.at.wall > f.since.wall
                     \/ (e.at.wall = f.since.wall /\ e.at.zone >= f.since.zone))
          BY <4>1, <4>2, <4>3
        <4>5. QED
          BY <3>2, <4>4 DEF MemoryAuditMatches, SqlAuditMatches, e
      <3>3. QED
        BY <3>1, <3>2
    <2>3. {i \in DOMAIN events : MemoryAuditMatches(events[i], f)} = AuditChosen(events, f)
      BY <2>1, <2>2 DEF AuditChosen
    <2>4. MemoryAudit(f, limit, offset) = Slice(AuditList(events, f), limit, offset)
      BY <2>3 DEF MemoryAudit, AuditList
    <2>5. QED
      BY <1>1, <2>4, AuditPages
  <1>4. Cardinality(Ids) \in Nat /\ Cardinality(log) \in Nat
    <2>1. Cardinality(log) = Len(events)
      BY <1>1, LogRows DEF Mirrors
    <2>2. QED
      BY <1>1, <2>1, ListingAssumption, FS_CardinalityType
  <1>5. \A n \in 0..Cardinality(Ids) : n \in Nat
    BY <1>4
  <1>6. \A n \in 0..Cardinality(log) : n \in Nat
    BY <1>4
  <1>7. \A q \in UserQueries, limit, offset \in 0..Cardinality(Ids) :
          Alike(q) => MemoryList(q, limit, offset) = SqlList(q, limit, offset)
    BY <1>2, <1>5
  <1>8. \A f \in AuditFilters, limit, offset \in 0..Cardinality(log) :
          InZone(f) =>
            MemoryAudit(f, limit, offset) = SqlAudit(f, limit, offset)
    BY <1>3, <1>6
  <1>9. QED
    BY <1>1, <1>7, <1>8 DEF StoresAgree, GrantsMatch

\* Whatever calls are made, the stores in memory answer as those in SQLite do
\* (memory.py:88, adapters/sqlite_stores.py:663): every page of a query without a text or
\* with one that finds the same names in both, every page of the audit log filtered in
\* the zone of its events, and every grant but those to a user the memory store never
\* had or has purged.
THEOREM StoresAlwaysAgree == Spec => []StoresAgree
  BY StoresKept, SameAnswers, PTL

----------------------------------------------------------------------------
(* One who turns pages *)

\* What the stores have, all of it.
ListOf(q) == IF view = "users" THEN UserList(users, q) ELSE AuditList(events, q)

Queries == IF view = "users" THEN UserQueries ELSE AuditFilters
Items == IF view = "users" THEN Ids ELSE Events

Readers(T, Q) ==
  [page : Nat \ {0}, q : Q, limit : Limits \cup {None}, seen : Seq(T), more : BOOLEAN,
   steady : SUBSET T, grown : BOOLEAN, shrunk : BOOLEAN]

\* Where reader r of list L is.  Between two pages the rows not seen that were there all
\* the time are beyond the start of the next.
NothingSkipped(L, r) ==
  \A i \in 1..Len(L) :
    L[i] \in r.steady => L[i] \in ToSet(r.seen) \/ i > OffsetOf(r.limit, r.page + 1)

\* The pages so far are the start of the list, and the next one follows.
FromTheStart(L, r) ==
  IsPrefix(r.seen, L) /\ (r.more => Len(r.seen) = OffsetOf(r.limit, r.page + 1))

Reads(L, r, standard, audit) ==
  /\ r.steady \subseteq ToSet(L)
  /\ r.more => standard
  /\ ~r.shrunk /\ ~r.more => r.steady \subseteq ToSet(r.seen)
  /\ ~r.shrunk /\ r.more => NothingSkipped(L, r)
  /\ (standard /\ r.limit # None /\ ~r.shrunk /\ (audit \/ ~r.grown)) => FromTheStart(L, r)

ReaderInv ==
  /\ view \in {"users", "grants", "audit"} /\ hook \in {"standard", "legacy"}
  /\ hook = "legacy" => view = "users"
  /\ reader # NoReader =>
       /\ view # "grants" /\ reader \in Readers(Items, Queries)
       /\ Reads(ListOf(reader.q), reader, hook = "standard", view = "audit")

LEMMA PrefixMeans ==
  ASSUME NEW T, NEW s \in Seq(T), NEW t \in Seq(T)
  PROVE  IsPrefix(s, t) <=> Len(s) <= Len(t) /\ \A i \in 1..Len(s) : s[i] = t[i]
  <1>1. Len(s) \in Nat /\ Len(t) \in Nat
    OBVIOUS
  <1>2. SubSeq(s, 1, Len(s)) = s
    BY SubSeqFull
  <1>3. ASSUME Len(s) <= Len(t)
        PROVE  SubSeq(t, 1, Len(s)) = s <=> \A i \in 1..Len(s) : s[i] = t[i]
    <2>1. \A i \in 1..Len(s) : t[i] \in T
      BY <1>3
    <2>2. /\ SubSeq(t, 1, Len(s)) \in Seq(T)
          /\ Len(SubSeq(t, 1, Len(s))) = IF 1 <= Len(s) THEN Len(s) - 1 + 1 ELSE 0
          /\ \A i \in 1..(Len(s) - 1 + 1) : SubSeq(t, 1, Len(s))[i] = t[1 + i - 1]
      BY <1>1, <2>1, SubSeqProperties
    <2> DEFINE p == SubSeq(t, 1, Len(s))
    <2> HIDE DEF p
    <2>3. p \in Seq(T) /\ Len(p) = Len(s) /\ \A i \in 1..Len(s) : p[i] = t[i]
      BY <1>1, <2>2 DEF p
    <2>4. p = s <=> \A i \in 1..Len(s) : s[i] = t[i]
      <3>1. ASSUME \A i \in 1..Len(s) : s[i] = t[i] PROVE p = s
        BY <2>3, <3>1
      <3>2. QED
        BY <2>3, <3>1
    <2>5. QED
      BY <2>4 DEF p
  <1>4. QED
    BY <1>2, <1>3 DEF IsPrefix

\* The pages' offsets: a page is at least as long as the way to the next one.
LEMMA Offsets ==
  ASSUME NEW limit \in Limits \cup {None}, NEW page \in Nat \ {0}
  PROVE  /\ Wanted(limit) \in Nat \ {0}
         /\ OffsetOf(limit, page) \in Nat /\ OffsetOf(limit, 1) = 0
         /\ OffsetOf(limit, page) < OffsetOf(limit, page + 1)
         /\ OffsetOf(limit, page + 1) <= OffsetOf(limit, page) + Wanted(limit)
         /\ limit # None => OffsetOf(limit, page + 1) = OffsetOf(limit, page) + Wanted(limit)
  <1>1. PageSize \in Nat \ {0} /\ (limit # None => limit \in Nat \ {0})
    BY ListingAssumption DEF Limits
  <1> DEFINE n == IF limit = None THEN 1 ELSE limit
  <1>2. n \in Nat \ {0} /\ n <= Wanted(limit) /\ Wanted(limit) \in Nat \ {0}
        /\ (limit # None => n = Wanted(limit))
    BY <1>1 DEF Wanted
  <1>3. \A k : OffsetOf(limit, k) = (k - 1) * n
    BY DEF OffsetOf
  <1> HIDE DEF n
  <1>4. (page - 1) * n \in Nat
    BY <1>2
  <1>5. (page + 1 - 1) * n = (page - 1) * n + n
    BY <1>2
  <1>6. (1 - 1) * n = 0
    BY <1>2
  <1>7. QED
    BY <1>2, <1>3, <1>4, <1>5, <1>6

\* A page of the standard hooks, cut from one row more than it shows.
LEMMA PageShape ==
  ASSUME NEW T, NEW L \in Seq(T), NEW n \in Nat \ {0}, NEW offset \in Nat
  PROVE  LET rows == Slice(L, n + 1, offset)
             items == Slice(rows, n, 0) IN
         /\ items \in Seq(T) /\ Len(items) \in Nat
         /\ Len(items) = IF Len(L) <= offset THEN 0
                         ELSE IF offset + n < Len(L) THEN n ELSE Len(L) - offset
         /\ \A i \in 1..Len(items) : offset + i \in 1..Len(L) /\ items[i] = L[offset + i]
         /\ (Len(rows) > n) <=> (offset + n < Len(L))
  <1> DEFINE rows == Slice(L, n + 1, offset)
             items == Slice(rows, n, 0)
  <1>1. Len(L) \in Nat /\ n + 1 \in Nat
    OBVIOUS
  <1>2. /\ rows \in Seq(T)
        /\ Len(rows) = IF Len(L) <= offset THEN 0
                       ELSE IF offset + (n + 1) < Len(L) THEN n + 1 ELSE Len(L) - offset
        /\ \A i \in 1..Len(rows) : offset + i \in 1..Len(L) /\ rows[i] = L[offset + i]
    BY <1>1, SliceShape
  <1> HIDE DEF rows
  <1>3. Len(rows) \in Nat
    BY <1>2
  <1>4. /\ items \in Seq(T)
        /\ Len(items) = IF Len(rows) <= 0 THEN 0
                        ELSE IF 0 + n < Len(rows) THEN n ELSE Len(rows) - 0
        /\ \A i \in 1..Len(items) : 0 + i \in 1..Len(rows) /\ items[i] = rows[0 + i]
    BY <1>2, SliceShape
  <1> HIDE DEF items
  <1>5. (Len(rows) > n) <=> (offset + n < Len(L))
    BY <1>1, <1>2, <1>3
  <1>6. Len(items) = IF Len(L) <= offset THEN 0
                     ELSE IF offset + n < Len(L) THEN n ELSE Len(L) - offset
    BY <1>1, <1>2, <1>3, <1>4
  <1>7. \A i \in 1..Len(items) : offset + i \in 1..Len(L) /\ items[i] = L[offset + i]
    BY <1>2, <1>4
  <1>8. QED
    BY <1>4, <1>5, <1>6, <1>7 DEF items, rows

\* Rows offset + 1 to offset + n of list L, as many as there are, with a sign of more.
PageOf(items, more, L, n, offset) ==
  /\ Len(items) = IF Len(L) <= offset THEN 0
                  ELSE IF offset + n < Len(L) THEN n ELSE Len(L) - offset
  /\ \A i \in 1..Len(items) : offset + i \in 1..Len(L) /\ items[i] = L[offset + i]
  /\ more <=> (offset + n < Len(L))

\* With this page after those seen nothing is skipped that was not, and the start of the
\* list stays what is seen.
ReadsOn(L, steady, seen, items, more, limit, page) ==
  /\ (\A i \in 1..Len(L) :
        L[i] \in steady => L[i] \in ToSet(seen) \/ i > OffsetOf(limit, page))
       => /\ \A i \in 1..Len(L) :
               L[i] \in steady =>
                 L[i] \in ToSet(seen \o items) \/ (more /\ i > OffsetOf(limit, page + 1))
  /\ (limit # None /\ IsPrefix(seen, L) /\ Len(seen) = OffsetOf(limit, page))
       => /\ IsPrefix(seen \o items, L)
          /\ more => Len(seen \o items) = OffsetOf(limit, page + 1)

\* A reader on the way to a page, and what he has seen after it.
LEMMA NextPage ==
  ASSUME NEW T, NEW L \in Seq(T), NEW seen \in Seq(T), NEW limit \in Limits \cup {None},
         NEW page \in Nat \ {0}, NEW steady \in SUBSET T,
         NEW items \in Seq(T), NEW more \in BOOLEAN,
         PageOf(items, more, L, Wanted(limit), OffsetOf(limit, page))
  PROVE  ReadsOn(L, steady, seen, items, more, limit, page)
  <1> DEFINE n == Wanted(limit)
             offset == OffsetOf(limit, page)
             after == OffsetOf(limit, page + 1)
  <1>1. /\ n \in Nat \ {0} /\ offset \in Nat /\ after \in Int /\ after <= offset + n
        /\ limit # None => after = offset + n
    <2>1. page + 1 \in Nat \ {0}
      OBVIOUS
    <2>2. OffsetOf(limit, page + 1) \in Nat
      BY <2>1, Offsets
    <2>3. /\ n \in Nat \ {0} /\ offset \in Nat /\ after <= offset + n
          /\ limit # None => after = offset + n
      BY Offsets
    <2>4. QED
      BY <2>2, <2>3
  <1>2. /\ Len(items) = IF Len(L) <= offset THEN 0
                        ELSE IF offset + n < Len(L) THEN n ELSE Len(L) - offset
        /\ \A i \in 1..Len(items) : offset + i \in 1..Len(L) /\ items[i] = L[offset + i]
        /\ more <=> (offset + n < Len(L))
    BY DEF PageOf
  <1> HIDE DEF n, offset, after
  <1>3. /\ seen \o items \in Seq(T) /\ Len(seen \o items) = Len(seen) + Len(items)
        /\ \A i \in 1..Len(seen) : (seen \o items)[i] = seen[i]
        /\ \A i \in 1..Len(items) : (seen \o items)[Len(seen) + i] = items[i]
        /\ Len(seen) \in Nat /\ Len(items) \in Nat /\ Len(L) \in Nat
    OBVIOUS
  <1>4. ToSet(seen \o items) = ToSet(seen) \cup ToSet(items)
    <2>1. /\ DOMAIN (seen \o items) = 1..(Len(seen) + Len(items))
          /\ DOMAIN seen = 1..Len(seen) /\ DOMAIN items = 1..Len(items)
      BY <1>3
    <2>2. \A i \in 1..(Len(seen) + Len(items)) :
            i \in 1..Len(seen) \/ (i - Len(seen) \in 1..Len(items) /\ Len(seen) + (i - Len(seen)) = i)
      BY <1>3
    <2>3. \A i \in 1..Len(items) : Len(seen) + i \in 1..(Len(seen) + Len(items))
      BY <1>3
    <2>4. \A i \in 1..Len(seen) : i \in 1..(Len(seen) + Len(items))
      BY <1>3
    <2> DEFINE z == seen \o items
    <2>5. /\ DOMAIN z = 1..(Len(seen) + Len(items))
          /\ \A i \in 1..Len(seen) : z[i] = seen[i]
          /\ \A i \in 1..Len(items) : z[Len(seen) + i] = items[i]
      BY <1>3, <2>1
    <2> HIDE DEF z
    <2>6. ASSUME NEW i \in DOMAIN z PROVE z[i] \in ToSet(seen) \cup ToSet(items)
      <3>1. CASE i \in 1..Len(seen)
        BY <2>1, <2>5, <3>1 DEF ToSet
      <3>2. CASE i - Len(seen) \in 1..Len(items) /\ Len(seen) + (i - Len(seen)) = i
        <4>1. z[i] = items[i - Len(seen)]
          BY <2>5, <3>2
        <4>2. QED
          BY <2>1, <3>2, <4>1 DEF ToSet
      <3>3. QED
        BY <2>2, <2>5, <3>1, <3>2
    <2>7. \A x \in ToSet(seen) \cup ToSet(items) : x \in ToSet(z)
      <3>1. \A i \in 1..Len(seen) : i \in DOMAIN z /\ z[i] = seen[i]
        BY <2>4, <2>5
      <3>2. \A i \in 1..Len(items) : Len(seen) + i \in DOMAIN z /\ z[Len(seen) + i] = items[i]
        BY <2>3, <2>5
      <3>3. \A x \in ToSet(seen) : x \in ToSet(z)
        BY <2>1, <3>1 DEF ToSet
      <3>4. \A x \in ToSet(items) : x \in ToSet(z)
        BY <2>1, <3>2 DEF ToSet
      <3>5. QED
        BY <3>3, <3>4
    <2>8. ToSet(z) \subseteq ToSet(seen) \cup ToSet(items)
      BY <2>6 DEF ToSet
    <2>9. QED
      BY <2>7, <2>8 DEF z
  <1>5. ASSUME NEW i \in 1..Len(L), i > offset, i <= offset + n PROVE L[i] \in ToSet(items)
    <2>1. i - offset \in 1..Len(items) /\ offset + (i - offset) = i
      <3>1. /\ i \in Nat /\ i <= Len(L) /\ Len(L) \in Nat /\ n \in Nat /\ offset \in Nat
            /\ i > offset /\ i <= offset + n
        BY <1>1, <1>3, <1>5
      <3>2. Len(items) = IF Len(L) <= offset THEN 0
                         ELSE IF offset + n < Len(L) THEN n ELSE Len(L) - offset
        BY <1>2
      <3>3. i - offset <= Len(items) /\ Len(items) \in Nat
        BY <3>1, <3>2
      <3>4. QED
        BY <3>1, <3>3
    <2>2. items[i - offset] = L[i]
      BY <1>2, <2>1
    <2>3. QED
      BY <2>1, <2>2 DEF ToSet
  <1>6. ASSUME \A i \in 1..Len(L) : L[i] \in steady => L[i] \in ToSet(seen) \/ i > offset,
               NEW i \in 1..Len(L), L[i] \in steady
        PROVE  L[i] \in ToSet(seen \o items) \/ (more /\ i > after)
    <2>1. CASE i > offset + n
      <3>1. more /\ i > after
        BY <1>1, <1>2, <1>3, <2>1
      <3>2. QED
        BY <3>1
    <2>2. CASE i <= offset + n
      BY <1>4, <1>5, <1>6, <2>2
    <2>3. QED
      BY <1>1, <2>1, <2>2
  <1>7. ASSUME limit # None, IsPrefix(seen, L), Len(seen) = offset
        PROVE  IsPrefix(seen \o items, L) /\ (more => Len(seen \o items) = after)
    <2> DEFINE z == seen \o items
    <2>1. /\ z \in Seq(T) /\ Len(z) = offset + Len(items)
          /\ \A i \in 1..offset : z[i] = seen[i]
          /\ \A i \in 1..Len(items) : z[offset + i] = items[i]
      BY <1>3, <1>7
    <2> HIDE DEF z
    <2>2. offset <= Len(L) /\ \A i \in 1..offset : seen[i] = L[i]
      BY <1>7, PrefixMeans
    <2>3. Len(z) <= Len(L)
      BY <1>1, <1>2, <1>3, <2>1, <2>2
    <2>4. ASSUME NEW i \in 1..Len(z) PROVE z[i] = L[i]
      <3>1. CASE i <= offset
        BY <1>1, <2>1, <2>2, <3>1
      <3>2. CASE i > offset
        <4>1. i - offset \in 1..Len(items) /\ offset + (i - offset) = i
          <5>1. i \in Nat /\ i > offset /\ i <= offset + Len(items)
            BY <2>1, <2>4, <3>2
          <5>2. offset \in Nat /\ Len(items) \in Nat
            BY <1>1, <1>3
          <5>3. QED
            BY <5>1, <5>2
        <4>2. QED
          BY <1>2, <2>1, <4>1
      <3>3. QED
        BY <1>1, <3>1, <3>2
    <2>5. IsPrefix(z, L)
      BY <2>1, <2>3, <2>4, PrefixMeans
    <2>6. more => Len(z) = after
      BY <1>1, <1>2, <1>3, <1>7, <2>1
    <2>7. QED
      BY <2>5, <2>6 DEF z
  <1>8. QED
    BY <1>6, <1>7 DEF offset, after, ReadsOn

LEMMA WholeSlice ==
  ASSUME NEW T, NEW L \in Seq(T), NEW n \in Nat, Len(L) <= n
  PROVE  Slice(L, n, 0) = L
  <1> DEFINE p == Slice(L, n, 0)
  <1>1. /\ p \in Seq(T)
        /\ Len(p) = IF Len(L) <= 0 THEN 0 ELSE IF 0 + n < Len(L) THEN n ELSE Len(L) - 0
        /\ \A i \in 1..Len(p) : 0 + i \in 1..Len(L) /\ p[i] = L[0 + i]
    BY SliceShape
  <1> HIDE DEF p
  <1>2. Len(p) = Len(L) /\ \A i \in 1..Len(p) : p[i] = L[i]
    BY <1>1
  <1>3. p = L
    BY <1>1, <1>2
  <1>4. QED
    BY <1>3 DEF p

\* What a page shows is in the list of its query, and the whole list is a page.
Shown ==
  \A q \in Queries : /\ ListOf(q) \in Seq(Items) /\ AllOf(q) = ListOf(q)
                     /\ \A limit, offset \in Nat :
                          SqlPage(q, limit, offset) = Slice(ListOf(q), limit, offset)

LEMMA Shows == StoresInv => Shown
  <1> SUFFICES ASSUME StoresInv, NEW q \in Queries
               PROVE  /\ ListOf(q) \in Seq(Items) /\ AllOf(q) = ListOf(q)
                      /\ \A limit, offset \in Nat :
                           SqlPage(q, limit, offset) = Slice(ListOf(q), limit, offset)
    BY DEF Shown
  <1>1. Mirrors /\ UsersMirror(users, table) /\ AuditMirror(events, log)
    BY DEF StoresInv, Mirrors
  <1>2. /\ Cardinality(table) \in Nat /\ Cardinality(DOMAIN users) \in Nat
        /\ IsFiniteSet(DOMAIN users) /\ Cardinality(DOMAIN users) <= Cardinality(table)
    BY <1>1, TableRows
  <1>3. Cardinality(log) = Len(events) /\ Len(events) \in Nat /\ events \in Seq(Events)
    BY <1>1, LogRows DEF AuditMirror
  <1>4. ASSUME view = "users"
        PROVE  /\ ListOf(q) \in Seq(Items) /\ Len(ListOf(q)) <= Cardinality(table)
               /\ Len(ListOf(q)) \in Nat
    <2> DEFINE S == {id \in DOMAIN users : SqlMatches(users[id], q)}
    <2>1. S \subseteq DOMAIN users /\ S \subseteq Ids
      BY <1>1 DEF UsersMirror
    <2>2. Finite(S)
      BY <1>1, UsersFinite DEF UsersMirror
    <2>3. Cardinality(S) <= Cardinality(DOMAIN users) /\ Cardinality(S) \in Nat
      BY <1>2, <2>1, <2>2, FS_Subset, FS_CardinalityType DEF Finite
    <2>4. ListOf(q) = InOrder(S) /\ Items = Ids
      BY <1>4 DEF ListOf, UserList, Items
    <2> HIDE DEF S
    <2>5. InOrder(S) \in Seq(S) /\ Len(InOrder(S)) = Cardinality(S)
      BY <2>2, OrderedSequence
    <2>6. InOrder(S) \in Seq(Ids)
      BY <2>1, <2>5
    <2>7. QED
      BY <1>2, <2>3, <2>4, <2>5, <2>6
  <1>5. ASSUME view # "users"
        PROVE  /\ ListOf(q) \in Seq(Items) /\ Len(ListOf(q)) <= Cardinality(log)
               /\ Len(ListOf(q)) \in Nat
    <2>1. ListOf(q) = AuditList(events, q) /\ Items = Events
      BY <1>5 DEF ListOf, Items
    <2>2. AuditList(events, q) \in Seq(Events)
          /\ Len(AuditList(events, q)) = Cardinality(AuditChosen(events, q))
      BY <1>3, AuditListShape
    <2>3. Cardinality(AuditChosen(events, q)) <= Len(events)
          /\ Cardinality(AuditChosen(events, q)) \in Nat
      BY <1>3, ChosenFinite
    <2>4. QED
      BY <1>3, <2>1, <2>2, <2>3
  <1>6. ASSUME NEW limit \in Nat, NEW offset \in Nat
        PROVE  SqlPage(q, limit, offset) = Slice(ListOf(q), limit, offset)
    <2>1. CASE view = "users"
      <3>1. q \in UserQueries
        BY <2>1 DEF Queries
      <3>2. SqlList(q, limit, offset) = Slice(UserList(users, q), limit, offset)
        BY <1>1, <3>1, UserPages
      <3>3. QED
        BY <2>1, <3>2 DEF SqlPage, ListOf
    <2>2. CASE view # "users"
      <3>1. SqlAudit(q, limit, offset) = Slice(AuditList(events, q), limit, offset)
        BY <1>1, AuditPages
      <3>2. QED
        BY <2>2, <3>1 DEF SqlPage, ListOf
    <2>3. QED
      BY <2>1, <2>2
  <1>7. AllOf(q) = ListOf(q)
    <2> DEFINE n == Cardinality(table) + Cardinality(log)
    <2>1. n \in Nat /\ Len(ListOf(q)) <= n /\ ListOf(q) \in Seq(Items)
      BY <1>2, <1>3, <1>4, <1>5
    <2>2. AllOf(q) = SqlPage(q, n, 0)
      BY DEF AllOf
    <2> HIDE DEF n
    <2>3. SqlPage(q, n, 0) = Slice(ListOf(q), n, 0)
      BY <1>6, <2>1
    <2>4. Slice(ListOf(q), n, 0) = ListOf(q)
      BY <2>1, WholeSlice
    <2>5. QED
      BY <2>2, <2>3, <2>4
  <1>8. QED
    BY <1>4, <1>5, <1>6, <1>7

LEMMA ShowsNext == StoresInv' => Shown'
  BY Shows, PTL

----------------------------------------------------------------------------
(* How a list changes *)

\* Nothing that was on list L is further to the front on list M.
NoneForward(L, M) ==
  \A i \in 1..Len(M) :
    M[i] \in ToSet(L) => \E j \in 1..Len(L) : j <= i /\ L[j] = M[i]

\* Rows that come between those of the list move them to the back.
LEMMA OrderGrows ==
  ASSUME NEW S, NEW C, Finite(C), S \subseteq C
  PROVE  NoneForward(InOrder(S), InOrder(C))
  <1>1. Finite(S)
    BY FS_Subset DEF Finite
  <1> DEFINE s == InOrder(S)
             c == InOrder(C)
  <1>2. /\ s \in Seq(S) /\ ToSet(s) = S /\ Len(s) \in Nat
        /\ \A j \in 1..Len(s) : Rank(S, s[j]) = j - 1
        /\ \A x \in S : \E j \in 1..Len(s) : s[j] = x
    BY <1>1, Ordered, OrderedSequence DEF Enumerates
  <1>3. /\ c \in Seq(C) /\ Len(c) \in Nat
        /\ \A j \in 1..Len(c) : Rank(C, c[j]) = j - 1
    BY Ordered, OrderedSequence
  <1> HIDE DEF s, c
  <1>4. ASSUME NEW i \in 1..Len(c), c[i] \in S PROVE \E j \in 1..Len(s) : j <= i /\ s[j] = c[i]
    <2>1. PICK j \in 1..Len(s) : s[j] = c[i]
      BY <1>2, <1>4
    <2> DEFINE x == c[i]
    <2>2. Rank(S, x) = j - 1 /\ Rank(C, x) = i - 1
      BY <1>2, <1>3, <2>1
    <2> HIDE DEF x
    <2>3. Rank(S, x) <= Rank(C, x)
      <3>1. {y \in S : y < x} \subseteq {y \in C : y < x}
        OBVIOUS
      <3>2. IsFiniteSet({y \in C : y < x})
        <4>1. {y \in C : y < x} \subseteq C
          OBVIOUS
        <4>2. QED
          BY <4>1, FS_Subset DEF Finite
      <3>3. QED
        BY <3>1, <3>2, FS_Subset DEF Rank
    <2>4. j <= i
      BY <2>2, <2>3
    <2>5. QED
      BY <2>1, <2>4
  <1>5. QED
    BY <1>2, <1>4 DEF NoneForward, s, c

LEMMA PrefixNoneForward ==
  ASSUME NEW T, NEW L \in Seq(T), NEW M \in Seq(T), IsPrefix(L, M)
  PROVE  NoneForward(L, M)
  <1>1. Len(L) <= Len(M) /\ (\A i \in 1..Len(L) : L[i] = M[i]) /\ Len(L) \in Nat /\ Len(M) \in Nat
    BY PrefixMeans
  <1>2. ASSUME NEW i \in 1..Len(M), M[i] \in ToSet(L)
        PROVE  \E j \in 1..Len(L) : j <= i /\ L[j] = M[i]
    <2>1. CASE i <= Len(L)
      BY <1>1, <2>1
    <2>2. CASE i > Len(L)
      <3>1. PICK j \in 1..Len(L) : L[j] = M[i]
        BY <1>2 DEF ToSet
      <3>2. j <= i
        BY <1>1, <2>2
      <3>3. QED
        BY <3>1, <3>2
    <2>3. QED
      BY <1>1, <2>1, <2>2
  <1>3. QED
    BY <1>2 DEF NoneForward

\* An event that is appended is the last of every list it is on.
LEMMA AuditGrows ==
  ASSUME NEW ev \in Seq(Events), NEW e \in Events, NEW f
  PROVE  IsPrefix(AuditList(ev, f), AuditList(Append(ev, e), f))
  <1> DEFINE n == Len(ev)
             ev2 == Append(ev, e)
             S == AuditChosen(ev, f)
             C == AuditChosen(ev2, f)
             s == InOrder(S)
             m == Cardinality(S)
  <1>1. /\ ev2 \in Seq(Events) /\ Len(ev2) = n + 1 /\ n \in Nat
        /\ ev2[n + 1] = e /\ \A i \in 1..n : ev2[i] = ev[i]
    BY AppendProperties
  <1>2. Finite(S) /\ S \subseteq 1..n /\ m \in Nat
    BY <1>1, ChosenFinite
  <1> HIDE DEF ev2
  <1>3. Finite(C) /\ C \subseteq 1..(n + 1)
    BY <1>1, ChosenFinite
  <1>4. C = S \/ C = S \cup {n + 1}
    BY <1>1 DEF AuditChosen
  <1>5. Enumerates(s, m, S)
    BY <1>2, Ordered
  <1>6. s \in [1..m -> S] /\ \A x \in S : \E i \in 1..m : s[i] = x
    BY <1>5 DEF Enumerates
  <1>7. \A i, j \in 1..m : i < j => s[i] < s[j]
    BY <1>5, <1>6 DEF Enumerates, Increasing
  <1> HIDE DEF n, S, C, s, m
  <1>8. Cardinality(C) \in Nat /\ m <= Cardinality(C) /\ \A i \in 1..m : InOrder(C)[i] = s[i]
    <2>1. CASE C = S
      BY <1>2, <2>1 DEF s, m
    <2>2. CASE C = S \cup {n + 1}
      <3> DEFINE t == [i \in 1..(m + 1) |-> IF i <= m THEN s[i] ELSE n + 1]
      <3>1. /\ DOMAIN t = 1..(m + 1) /\ t[m + 1] = n + 1
            /\ \A i \in 1..m : t[i] = s[i] /\ s[i] \in S /\ s[i] \in 1..n
        <4>1. \A i \in 1..m : s[i] \in S
          BY <1>6
        <4>2. \A i \in 1..m : s[i] \in 1..n
          BY <1>2, <4>1
        <4>3. m + 1 \in 1..(m + 1) /\ ~(m + 1 <= m) /\ \A i \in 1..m : i \in 1..(m + 1) /\ i <= m
          BY <1>2
        <4>4. QED
          BY <4>1, <4>2, <4>3
      <3>2. t \in [1..(m + 1) -> C]
        <4>1. \A i \in 1..(m + 1) : i <= m => i \in 1..m
          BY <1>2
        <4>2. \A i \in 1..m : s[i] \in C
          BY <1>6, <2>2
        <4>3. n + 1 \in C
          BY <2>2
        <4>4. QED
          BY <4>1, <4>2, <4>3
      <3> HIDE DEF t
      <3>3. \A i \in 1..(m + 1) : i \in 1..m \/ i = m + 1
        BY <1>2
      <3>4. \A i, j \in 1..(m + 1) : i < j => t[i] < t[j]
        <4>1. SUFFICES ASSUME NEW i \in 1..(m + 1), NEW j \in 1..(m + 1), i < j
                       PROVE  t[i] < t[j]
          OBVIOUS
        <4>2. i \in 1..m
          BY <1>2, <4>1
        <4>3. CASE j \in 1..m
          BY <1>7, <3>1, <4>1, <4>2, <4>3
        <4>4. CASE j = m + 1
          BY <1>1, <3>1, <4>2, <4>4 DEF n
        <4>5. QED
          BY <3>3, <4>3, <4>4
      <3>5. \A x \in C : \E i \in 1..(m + 1) : t[i] = x
        <4>1. SUFFICES ASSUME NEW x \in C PROVE \E i \in 1..(m + 1) : t[i] = x
          OBVIOUS
        <4>2. CASE x \in S
          <5>1. PICK i \in 1..m : s[i] = x
            BY <1>6, <4>2
          <5>2. i \in 1..(m + 1) /\ t[i] = x
            BY <1>2, <3>1, <5>1
          <5>3. QED
            BY <5>2
        <4>3. CASE x = n + 1
          <5>1. m + 1 \in 1..(m + 1)
            BY <1>2
          <5>2. QED
            BY <3>1, <4>3, <5>1
        <4>4. QED
          BY <2>2, <4>2, <4>3
      <3>6. Enumerates(t, m + 1, C)
        BY <3>1, <3>2, <3>4, <3>5 DEF Enumerates, Increasing
      <3>7. m + 1 \in Nat
        BY <1>2
      <3>8. t = InOrder(C) /\ m + 1 = Cardinality(C)
        BY <1>3, <3>6, <3>7, OnlyOrder, EnumerationRanks
      <3>9. QED
        BY <1>2, <3>1, <3>8
    <2>3. QED
      BY <1>4, <2>1, <2>2
  <1> DEFINE A == AuditList(ev, f)
             B == AuditList(ev2, f)
  <1>9. A \in Seq(Events) /\ Len(A) = m /\ \A i \in 1..m : A[i] = ev[s[i]]
    BY AuditListShape DEF S, m, s
  <1>10. /\ B \in Seq(Events) /\ Len(B) = Cardinality(C)
         /\ \A i \in 1..Cardinality(C) : B[i] = ev2[InOrder(C)[i]]
    BY <1>1, AuditListShape DEF C
  <1> HIDE DEF A, B
  <1>11. \A i \in 1..m : i \in 1..Cardinality(C) /\ s[i] \in 1..n
    <2>1. \A i \in 1..m : i \in 1..Cardinality(C)
      BY <1>2, <1>8
    <2>2. \A i \in 1..m : s[i] \in S
      BY <1>6
    <2>3. QED
      BY <1>2, <2>1, <2>2
  <1>12. \A i \in 1..m : A[i] = B[i]
    BY <1>1, <1>8, <1>9, <1>10, <1>11
  <1>13. IsPrefix(A, B)
    BY <1>8, <1>9, <1>10, <1>12, PrefixMeans
  <1>14. QED
    BY <1>13 DEF A, B, ev2

\* What may become of a list: rows that come are not put before those that were there,
\* and in the audit log they are put at the end.
Evolves(L, M, audit) ==
  /\ ToSet(L) \subseteq ToSet(M) => NoneForward(L, M)
  /\ ToSet(L) \subseteq ToSet(M) /\ (audit \/ ToSet(M) \subseteq ToSet(L)) => IsPrefix(L, M)

\* What becomes of a reader when list L becomes M.
Watched(r, L, M) ==
  [r EXCEPT !.steady = @ \cap ToSet(M),
            !.grown = @ \/ ~(ToSet(M) \subseteq ToSet(L)),
            !.shrunk = @ \/ ~(ToSet(L) \subseteq ToSet(M))]

LEMMA PlaceKept ==
  ASSUME NEW T, NEW Q, NEW L \in Seq(T), NEW M \in Seq(T), NEW r \in Readers(T, Q),
         NEW standard \in BOOLEAN, NEW audit \in BOOLEAN,
         r.more, Reads(L, r, standard, audit), Evolves(L, M, audit)
  PROVE  /\ Watched(r, L, M) \in Readers(T, Q)
         /\ Reads(M, Watched(r, L, M), standard, audit)
  <1> DEFINE s == Watched(r, L, M)
  <1>1. /\ r.page \in Nat \ {0} /\ r.limit \in Limits \cup {None} /\ r.seen \in Seq(T)
        /\ r.more \in BOOLEAN /\ r.grown \in BOOLEAN /\ r.shrunk \in BOOLEAN
        /\ r.steady \in SUBSET T
    BY DEF Readers
  <1>2. /\ s.page = r.page /\ s.limit = r.limit /\ s.seen = r.seen /\ s.more = r.more
        /\ s.steady = r.steady \cap ToSet(M)
        /\ s.grown = (r.grown \/ ~(ToSet(M) \subseteq ToSet(L)))
        /\ s.shrunk = (r.shrunk \/ ~(ToSet(L) \subseteq ToSet(M)))
    BY DEF Readers, Watched
  <1>3. s \in Readers(T, Q)
    BY DEF Readers, Watched
  <1> HIDE DEF s
  <1>4. ASSUME ~s.shrunk PROVE NothingSkipped(M, s)
    <2>1. ~r.shrunk /\ ToSet(L) \subseteq ToSet(M)
      BY <1>2, <1>4
    <2>2. NothingSkipped(L, r) /\ NoneForward(L, M) /\ r.steady \subseteq ToSet(L)
      BY <2>1 DEF Reads, Evolves
    <2>3. SUFFICES ASSUME NEW i \in 1..Len(M), M[i] \in r.steady, M[i] \notin ToSet(r.seen)
                   PROVE  i > OffsetOf(r.limit, r.page + 1)
      BY <1>2 DEF NothingSkipped
    <2>4. PICK j \in 1..Len(L) : j <= i /\ L[j] = M[i]
      BY <2>2, <2>3 DEF NoneForward
    <2>5. j > OffsetOf(r.limit, r.page + 1)
      BY <2>2, <2>3, <2>4 DEF NothingSkipped
    <2>6. OffsetOf(r.limit, r.page + 1) \in Nat
      <3>1. r.page + 1 \in Nat \ {0}
        BY <1>1
      <3>2. QED
        BY <1>1, <3>1, Offsets
    <2>7. QED
      BY <2>4, <2>5, <2>6
  <1>5. ASSUME standard, s.limit # None, ~s.shrunk, audit \/ ~s.grown
        PROVE  FromTheStart(M, s)
    <2>1. /\ ~r.shrunk /\ ToSet(L) \subseteq ToSet(M)
          /\ audit \/ (~r.grown /\ ToSet(M) \subseteq ToSet(L))
      BY <1>2, <1>5
    <2>2. FromTheStart(L, r) /\ IsPrefix(L, M)
      BY <1>2, <1>5, <2>1 DEF Reads, Evolves
    <2>3. /\ Len(r.seen) <= Len(L) /\ \A i \in 1..Len(r.seen) : r.seen[i] = L[i]
          /\ Len(L) <= Len(M) /\ \A i \in 1..Len(L) : L[i] = M[i]
      BY <1>1, <2>2, PrefixMeans DEF FromTheStart
    <2>4. Len(r.seen) \in Nat /\ Len(L) \in Nat /\ Len(M) \in Nat
      BY <1>1
    <2>5. Len(r.seen) <= Len(M) /\ \A i \in 1..Len(r.seen) : r.seen[i] = M[i]
      BY <2>3, <2>4
    <2>6. IsPrefix(r.seen, M)
      BY <1>1, <2>5, PrefixMeans
    <2>7. QED
      BY <1>2, <2>2, <2>6 DEF FromTheStart
  <1>6. s.steady \subseteq ToSet(M) /\ (s.more => standard) /\ s.more
    BY <1>2 DEF Reads
  <1>7. QED
    BY <1>3, <1>4, <1>5, <1>6 DEF Reads, s

\* A page that the hooks answer with is that part of the list, with a sign of what follows.
LEMMA AnswerMeans ==
  ASSUME Shown, NEW q \in Queries, hook # "legacy",
         NEW limit \in Limits \cup {None}, NEW page \in Nat \ {0}
  PROVE  LET a == Answer(q, limit, OffsetOf(limit, page))
             L == ListOf(q)
             n == Wanted(limit)
             offset == OffsetOf(limit, page) IN
         a.items \in Seq(Items) /\ a.more \in BOOLEAN /\ PageOf(a.items, a.more, L, n, offset)
  <1> DEFINE a == Answer(q, limit, OffsetOf(limit, page))
             L == ListOf(q)
             n == Wanted(limit)
             offset == OffsetOf(limit, page)
             rows == Slice(L, n + 1, offset)
  <1>1. n \in Nat \ {0} /\ offset \in Nat
    BY Offsets
  <1>2. L \in Seq(Items) /\ \A l, o \in Nat : SqlPage(q, l, o) = Slice(L, l, o)
    BY DEF Shown
  <1>3. SqlPage(q, n + 1, offset) = rows
    BY <1>1, <1>2
  <1>4. a = [items |-> Slice(rows, n, 0), more |-> Len(rows) > n]
    BY <1>3 DEF Answer
  <1>5. a.items = Slice(rows, n, 0) /\ a.more = (Len(rows) > n)
    BY <1>4
  <1> HIDE DEF a, L, n, offset
  <1>6. /\ Slice(rows, n, 0) \in Seq(Items) /\ Len(Slice(rows, n, 0)) \in Nat
        /\ Len(Slice(rows, n, 0)) = IF Len(L) <= offset THEN 0
                         ELSE IF offset + n < Len(L) THEN n ELSE Len(L) - offset
        /\ \A i \in 1..Len(Slice(rows, n, 0)) :
             offset + i \in 1..Len(L) /\ Slice(rows, n, 0)[i] = L[offset + i]
        /\ (Len(rows) > n) <=> (offset + n < Len(L))
    BY <1>1, <1>2, PageShape
  <1> HIDE DEF rows
  <1> DEFINE items == Slice(rows, n, 0)
  <1> HIDE DEF items
  <1>7. a.items \in Seq(Items) /\ a.more \in BOOLEAN /\ PageOf(a.items, a.more, L, n, offset)
    <2>1. a.items = items /\ a.more = (Len(rows) > n)
      BY <1>5 DEF items
    <2>2. items \in Seq(Items)
      BY <1>6 DEF items
    <2>3. PageOf(items, Len(rows) > n, L, n, offset)
      BY <1>6 DEF items, PageOf
    <2>4. QED
      BY <2>1, <2>2, <2>3
  <1>8. QED
    BY <1>7 DEF a, L, n, offset

\* A reader who has turned to the next page.
LEMMA PageRead ==
  ASSUME Shown, NEW Q, NEW r \in Readers(Items, Queries), r.more, hook # "legacy",
         Reads(ListOf(r.q), r, TRUE, view = "audit"),
         NEW s,
         LET a == Answer(r.q, r.limit, OffsetOf(r.limit, r.page + 1)) IN
         s = [r EXCEPT !.page = @ + 1, !.seen = @ \o a.items, !.more = a.more]
  PROVE  /\ s \in Readers(Items, Queries) /\ s.q = r.q
         /\ Reads(ListOf(s.q), s, TRUE, view = "audit")
  <1> DEFINE L == ListOf(r.q)
             page == r.page + 1
             a == Answer(r.q, r.limit, OffsetOf(r.limit, page))
             n == Wanted(r.limit)
             offset == OffsetOf(r.limit, page)
  <1>1. /\ r.page \in Nat \ {0} /\ r.limit \in Limits \cup {None} /\ r.seen \in Seq(Items)
        /\ r.more \in BOOLEAN /\ r.grown \in BOOLEAN /\ r.shrunk \in BOOLEAN
        /\ r.steady \in SUBSET Items /\ r.q \in Queries
    BY DEF Readers
  <1>2. page \in Nat \ {0} /\ L \in Seq(Items)
    BY <1>1 DEF Shown
  <1>3. a.items \in Seq(Items) /\ a.more \in BOOLEAN /\ PageOf(a.items, a.more, L, n, offset)
    BY <1>1, <1>2, AnswerMeans
  <1>4. /\ s.page = page /\ s.q = r.q /\ s.limit = r.limit /\ s.seen = r.seen \o a.items
        /\ s.more = a.more /\ s.steady = r.steady /\ s.grown = r.grown /\ s.shrunk = r.shrunk
    BY DEF Readers
  <1>5. r.seen \o a.items \in Seq(Items)
    BY <1>1, <1>3
  <1>6. s = [page |-> page, q |-> r.q, limit |-> r.limit, seen |-> r.seen \o a.items,
             more |-> a.more, steady |-> r.steady, grown |-> r.grown, shrunk |-> r.shrunk]
    BY DEF Readers
  <1>7. s \in Readers(Items, Queries)
    BY <1>1, <1>2, <1>3, <1>5, <1>6 DEF Readers
  <1> HIDE DEF L, page, a, n, offset
  <1>8. /\ (\A i \in 1..Len(L) :
              L[i] \in r.steady => L[i] \in ToSet(r.seen) \/ i > OffsetOf(r.limit, page))
             => /\ \A i \in 1..Len(L) :
                     L[i] \in r.steady =>
                       L[i] \in ToSet(r.seen \o a.items)
                         \/ (a.more /\ i > OffsetOf(r.limit, page + 1))
        /\ (r.limit # None /\ IsPrefix(r.seen, L) /\ Len(r.seen) = OffsetOf(r.limit, page))
             => /\ IsPrefix(r.seen \o a.items, L)
                /\ a.more => Len(r.seen \o a.items) = OffsetOf(r.limit, page + 1)
    <2> DEFINE items == a.items
               more == a.more
    <2>1. items \in Seq(Items) /\ more \in BOOLEAN
          /\ PageOf(items, more, L, Wanted(r.limit), OffsetOf(r.limit, page))
      BY <1>3 DEF n, offset
    <2> HIDE DEF items, more
    <2>3. ReadsOn(L, r.steady, r.seen, items, more, r.limit, page)
      BY <1>1, <1>2, <2>1, NextPage
    <2>4. QED
      BY <2>3 DEF items, more, ReadsOn
  <1>9. /\ r.steady \subseteq ToSet(L)
        /\ ~r.shrunk => NothingSkipped(L, r)
        /\ r.limit # None /\ ~r.shrunk /\ (view = "audit" \/ ~r.grown) => FromTheStart(L, r)
    BY DEF Reads, L
  <1>10. ASSUME ~r.shrunk
         PROVE  \A i \in 1..Len(L) :
                  L[i] \in r.steady => L[i] \in ToSet(s.seen)
                                         \/ (s.more /\ i > OffsetOf(s.limit, s.page + 1))
    BY <1>4, <1>8, <1>9, <1>10 DEF NothingSkipped, page
  <1>11. ~s.shrunk /\ s.more => NothingSkipped(L, s)
    BY <1>4, <1>10 DEF NothingSkipped
  <1>12. ASSUME ~s.shrunk, ~s.more PROVE s.steady \subseteq ToSet(s.seen)
    <2>1. \A x \in r.steady : \E i \in 1..Len(L) : L[i] = x
      BY <1>2, <1>9 DEF ToSet
    <2>2. QED
      BY <1>4, <1>10, <1>12, <2>1
  <1>13. s.limit # None /\ ~s.shrunk /\ (view = "audit" \/ ~s.grown) => FromTheStart(L, s)
    BY <1>4, <1>8, <1>9 DEF FromTheStart, page
  <1>14. QED
    BY <1>4, <1>7, <1>9, <1>11, <1>12, <1>13 DEF Reads, L

----------------------------------------------------------------------------
(* Every step keeps the reader's place *)

LEMMA SameList ==
  ASSUME UNCHANGED <<view, users, events>>
  PROVE  Queries' = Queries /\ Items' = Items /\ \A q : ListOf(q)' = ListOf(q)
  BY DEF Queries, Items, ListOf

LEMMA NothingSelectedIsAll ==
  ASSUME UsersMirror(users, table), view = "users", NEW q \in UserQueries
  PROVE  ToSet(ListOf(q)) \subseteq ToSet(ListOf(NoFilter)) /\ NoFilter \in UserQueries
  <1> DEFINE S(p) == {id \in DOMAIN users : SqlMatches(users[id], p)}
  <1>1. \A p : Finite(S(p))
    BY UsersFinite DEF UsersMirror
  <1>2. S(q) \subseteq S(NoFilter)
    BY DEF SqlMatches, NoFilter
  <1>3. \A p : ListOf(p) = InOrder(S(p))
    BY DEF ListOf, UserList
  <1> HIDE DEF S
  <1>4. \A p : ToSet(ListOf(p)) = S(p)
    BY <1>1, <1>3, OrderedSequence
  <1>5. NoFilter \in UserQueries
    BY DEF NoFilter, UserQueries
  <1>6. QED
    BY <1>2, <1>4, <1>5

LEMMA OpenKept ==
  ASSUME StoresInv, Shown, ReaderInv, Open
  PROVE  ReaderInv'
  <1>1. PICK q \in IF view = "users" THEN UserQueries ELSE AuditFilters, limit \in Limits \cup {None} :
          reader' = [page |-> 1, q |-> q, limit |-> limit,
                     seen |-> Answer(q, limit, OffsetOf(limit, 1)).items,
                     more |-> Answer(q, limit, OffsetOf(limit, 1)).more,
                     steady |-> ToSet(AllOf(q)), grown |-> FALSE, shrunk |-> FALSE]
    BY DEF Open
  <1> DEFINE L == ListOf(q)
             a == Answer(q, limit, OffsetOf(limit, 1))
             r == [page |-> 1, q |-> q, limit |-> limit, seen |-> a.items, more |-> a.more,
                   steady |-> ToSet(L), grown |-> FALSE, shrunk |-> FALSE]
  <1>2. q \in Queries /\ L \in Seq(Items) /\ AllOf(q) = L
    BY <1>1 DEF Queries, Shown
  <1>3. reader' = r /\ view # "grants" /\ UNCHANGED <<view, hook, users, events>>
    BY <1>1, <1>2 DEF Open, stores
  <1>4. ToSet(L) \in SUBSET Items
    BY <1>2 DEF ToSet
  <1>5. ASSUME a.items \in Seq(Items), a.more \in BOOLEAN, Reads(L, r, hook = "standard", view = "audit")
        PROVE  ReaderInv'
    <2>1. r \in Readers(Items, Queries)
      BY <1>1, <1>2, <1>4, <1>5 DEF Readers
    <2>2. r.q = q
      OBVIOUS
    <2> HIDE DEF L, r
    <2>3. Queries' = Queries /\ Items' = Items /\ ListOf(q)' = ListOf(q)
      BY <1>3, SameList
    <2>4. ListOf(reader.q)' = L
      BY <1>3, <2>2, <2>3 DEF L, ListOf
    <2>5. QED
      BY <1>3, <1>5, <2>1, <2>3, <2>4 DEF ReaderInv
  <1>6. CASE hook = "legacy"
    <2>1. view = "users" /\ q \in UserQueries
      BY <1>2, <1>6 DEF ReaderInv, Queries
    <2>2. ToSet(L) \subseteq ToSet(ListOf(NoFilter)) /\ NoFilter \in Queries
      BY <2>1, NothingSelectedIsAll DEF StoresInv, Mirrors, Queries
    <2>3. ListOf(NoFilter) \in Seq(Items) /\ AllOf(NoFilter) = ListOf(NoFilter)
      BY <2>2 DEF Shown
    <2>4. a.items = ListOf(NoFilter) /\ a.more = FALSE
      BY <1>6, <2>3 DEF Answer, LegacyAnswer
    <2> HIDE DEF L, a
    <2>5. Reads(L, r, hook = "standard", view = "audit")
      BY <1>6, <2>2, <2>4 DEF Reads
    <2>6. QED
      BY <1>5, <2>3, <2>4, <2>5 DEF a, L
  <1>7. CASE hook = "standard"
    <2> DEFINE items == a.items
               more == a.more
               next == OffsetOf(limit, 1 + 1)
    <2>1. items \in Seq(Items) /\ more \in BOOLEAN
          /\ PageOf(items, more, L, Wanted(limit), OffsetOf(limit, 1))
      BY <1>1, <1>2, <1>7, AnswerMeans
    <2>2. /\ r.steady = ToSet(L) /\ r.more = more /\ r.seen = items /\ r.shrunk = FALSE
          /\ r.limit = limit /\ r.page = 1
      OBVIOUS
    <2>3. OffsetOf(limit, 1) = 0
      BY <1>1, Offsets
    <2> HIDE DEF a, L, items, more, r
    <2>4. <<>> \in Seq(Items) /\ Len(<<>>) = 0 /\ 1 \in Nat \ {0} /\ L \in Seq(Items)
      BY <1>2
    <2>5. ReadsOn(L, ToSet(L), <<>>, items, more, limit, 1)
      <3>1. limit \in Limits \cup {None} /\ ToSet(L) \in SUBSET Items
        BY <1>1, <1>4
      <3>2. <<>> \in Seq(Items) /\ 1 \in Nat \ {0} /\ L \in Seq(Items)
        BY <2>4
      <3> DEFINE none == <<>>
                 steady == ToSet(L)
      <3>3. none \in Seq(Items) /\ steady \in SUBSET Items
        BY <3>1, <3>2
      <3> HIDE DEF none, steady
      <3>4. ReadsOn(L, steady, none, items, more, limit, 1)
        BY <2>1, <3>1, <3>2, <3>3, NextPage
      <3>5. QED
        BY <3>4 DEF none, steady
    <2>6. <<>> \o items = items
      BY <2>1
    <2>7. IsPrefix(<<>>, L)
      <3>1. Len(<<>>) <= Len(L) /\ \A i \in 1..Len(<<>>) : <<>>[i] = L[i]
        BY <2>4
      <3>2. QED
        BY <2>4, <3>1, PrefixMeans
    <2>8. \A i \in 1..Len(L) : i > 0
      OBVIOUS
    <2> HIDE DEF next
    <2>9. /\ \A i \in 1..Len(L) : L[i] \in ToSet(L) =>
               L[i] \in ToSet(items) \/ (more /\ i > next)
          /\ limit # None => IsPrefix(items, L) /\ (more => Len(items) = next)
      BY <2>3, <2>4, <2>5, <2>6, <2>7, <2>8 DEF ReadsOn, next
    <2>10. more => NothingSkipped(L, r)
      BY <2>2, <2>9 DEF NothingSkipped, next
    <2>11. ~more => r.steady \subseteq ToSet(r.seen)
      <3>1. \A x \in ToSet(L) : \E i \in 1..Len(L) : L[i] = x
        BY <1>2 DEF ToSet, L
      <3>2. QED
        BY <2>2, <2>9, <3>1
    <2>12. limit # None => FromTheStart(L, r)
      BY <2>2, <2>9 DEF FromTheStart, next
    <2>13. Reads(L, r, hook = "standard", view = "audit")
      BY <1>7, <2>2, <2>10, <2>11, <2>12 DEF Reads
    <2>14. QED
      BY <1>5, <2>1, <2>13 DEF items, more, r
  <1>8. QED
    BY <1>6, <1>7 DEF ReaderInv

LEMMA TurnPageKept ==
  ASSUME Shown, ReaderInv, TurnPage
  PROVE  ReaderInv'
  <1>1. /\ reader # NoReader /\ reader.more
        /\ LET a == Answer(reader.q, reader.limit, OffsetOf(reader.limit, reader.page + 1)) IN
           reader' = [reader EXCEPT !.page = @ + 1, !.seen = @ \o a.items, !.more = a.more]
        /\ UNCHANGED <<view, hook, users, events>>
    BY DEF TurnPage, stores
  <1>2. /\ reader \in Readers(Items, Queries) /\ view # "grants"
        /\ Reads(ListOf(reader.q), reader, hook = "standard", view = "audit")
        /\ hook = "standard"
    BY <1>1 DEF ReaderInv, Reads
  <1>3. Reads(ListOf(reader.q), reader, TRUE, view = "audit")
    BY <1>2 DEF Reads
  <1>4. /\ reader' \in Readers(Items, Queries) /\ reader'.q = reader.q
        /\ Reads(ListOf(reader'.q), reader', TRUE, view = "audit")
    BY <1>1, <1>2, <1>3, PageRead
  <1>5. Reads(ListOf(reader'.q), reader', hook = "standard", view = "audit")
    BY <1>2, <1>4 DEF Reads
  <1>6. Queries' = Queries /\ Items' = Items
    BY <1>1, SameList
  <1>7. ListOf(reader.q)' = ListOf(reader'.q)
    BY <1>1 DEF ListOf
  <1>8. QED
    BY <1>1, <1>2, <1>4, <1>5, <1>6, <1>7 DEF ReaderInv

\* A change of the stores, seen by the reader.
LEMMA WatchKept ==
  ASSUME Shown, Shown', ReaderInv, UNCHANGED <<view, hook>>, Watch,
         \A q \in Queries : Evolves(ListOf(q), ListOf(q)', view = "audit")
  PROVE  ReaderInv'
  <1>1. CASE reader' = NoReader
    BY <1>1 DEF ReaderInv
  <1>2. CASE reader' # NoReader
    <2>1. /\ reader # NoReader /\ reader.more
          /\ \E q \in {reader.q} : reader' = Watched(reader, AllOf(q), AllOf(q)')
      BY <1>2 DEF Watch, Watched
    <2>2. /\ reader \in Readers(Items, Queries) /\ view # "grants"
          /\ Reads(ListOf(reader.q), reader, hook = "standard", view = "audit")
      BY <2>1 DEF ReaderInv
    <2>3. reader.q \in Queries
      BY <2>2 DEF Readers
    <2>4. PICK q \in Queries : q = reader.q /\ reader' = Watched(reader, AllOf(q), AllOf(q)')
      BY <2>1, <2>3
    <2>5. Queries' = Queries /\ Items' = Items
      BY DEF Queries, Items
    <2>6. AllOf(q) = ListOf(q) /\ ListOf(q) \in Seq(Items)
      BY DEF Shown
    <2>7. AllOf(q)' = ListOf(q)' /\ ListOf(q)' \in Seq(Items)
      BY <2>5 DEF Shown
    <2>8. PICK L \in Seq(Items), M \in Seq(Items) : L = ListOf(q) /\ M = ListOf(q)'
      BY <2>6, <2>7
    <2>9. reader' = Watched(reader, L, M)
      BY <2>4, <2>6, <2>7, <2>8
    <2>10. PICK standard \in BOOLEAN, audit \in BOOLEAN :
             standard = (hook = "standard") /\ audit = (view = "audit")
      OBVIOUS
    <2>11. Evolves(L, M, audit) /\ Reads(L, reader, standard, audit)
      BY <2>2, <2>4, <2>8, <2>10
    <2>12. reader' \in Readers(Items, Queries) /\ Reads(M, reader', standard, audit)
      BY <2>1, <2>2, <2>9, <2>11, PlaceKept
    <2>13. reader'.q = reader.q
      BY <2>2, <2>9 DEF Readers, Watched
    <2>14. ListOf(reader.q)' = M
      BY <2>4, <2>8, <2>13 DEF ListOf
    <2>15. QED
      BY <2>2, <2>5, <2>10, <2>12, <2>14 DEF ReaderInv
  <1>3. QED
    BY <1>1, <1>2

LEMMA PrefixEvolves ==
  ASSUME NEW T, NEW L \in Seq(T), NEW M \in Seq(T), IsPrefix(L, M), NEW audit
  PROVE  Evolves(L, M, audit)
  BY PrefixNoneForward DEF Evolves

LEMMA SameEvolves ==
  ASSUME NEW T, NEW L \in Seq(T), NEW audit
  PROVE  Evolves(L, L, audit)
  <1>1. IsPrefix(L, L)
    BY DEF IsPrefix
  <1>2. QED
    BY <1>1, PrefixEvolves

LEMMA UsersEvolve ==
  ASSUME NEW u, NEW v, DOMAIN u \subseteq Ids, DOMAIN v \subseteq Ids, NEW q
  PROVE  Evolves(UserList(u, q), UserList(v, q), FALSE)
  <1> DEFINE S == {id \in DOMAIN u : SqlMatches(u[id], q)}
             C == {id \in DOMAIN v : SqlMatches(v[id], q)}
  <1>1. Finite(S) /\ Finite(C)
    BY UsersFinite
  <1>2. UserList(u, q) = InOrder(S) /\ UserList(v, q) = InOrder(C)
    BY DEF UserList
  <1> HIDE DEF S, C
  <1>3. ToSet(InOrder(S)) = S /\ ToSet(InOrder(C)) = C
    BY <1>1, OrderedSequence
  <1>4. S \subseteq C => NoneForward(InOrder(S), InOrder(C))
    BY <1>1, OrderGrows
  <1>5. S = C => IsPrefix(InOrder(S), InOrder(C))
    BY DEF IsPrefix
  <1>6. QED
    BY <1>2, <1>3, <1>4, <1>5 DEF Evolves

\* A call of a user store, seen by a reader of any list.
LEMMA UserCallKept ==
  ASSUME StoresInv, StoresInv', ReaderInv, UNCHANGED <<view, hook, events>>, Watch
  PROVE  ReaderInv'
  <1>1. Shown /\ Shown'
    BY Shows, ShowsNext
  <1>2. DOMAIN users \subseteq Ids /\ DOMAIN users' \subseteq Ids
    BY DEF StoresInv, Mirrors, UsersMirror
  <1>3. ASSUME NEW q \in Queries PROVE Evolves(ListOf(q), ListOf(q)', view = "audit")
    <2>1. CASE view = "users"
      <3>1. ListOf(q) = UserList(users, q) /\ ListOf(q)' = UserList(users', q)
        BY <2>1 DEF ListOf
      <3>2. Evolves(UserList(users, q), UserList(users', q), FALSE)
        BY <1>2, UsersEvolve
      <3>3. QED
        BY <2>1, <3>1, <3>2 DEF Evolves
    <2>2. CASE view # "users"
      <3>1. ListOf(q)' = ListOf(q)
        BY <2>2 DEF ListOf
      <3>2. ListOf(q) \in Seq(Items)
        BY <1>1 DEF Shown
      <3>3. QED
        BY <3>1, <3>2, SameEvolves
    <2>3. QED
      BY <2>1, <2>2
  <1>4. QED
    BY <1>1, <1>3, WatchKept

LEMMA AppendEventKept ==
  ASSUME StoresInv, StoresInv', ReaderInv, NEW e \in Events, AppendEvent(e)
  PROVE  ReaderInv'
  <1>1. Shown /\ Shown'
    BY Shows, ShowsNext
  <1>2. /\ view = "audit" /\ events' = MemoryAppend(e) /\ UNCHANGED <<view, hook>> /\ Watch
    BY DEF AppendEvent
  <1>3. events \in Seq(Events) /\ (events' = events \/ events' = Append(events, e))
    BY <1>2, AppendMirrors DEF StoresInv, Mirrors, AuditMirror
  <1>4. ASSUME NEW q \in Queries PROVE Evolves(ListOf(q), ListOf(q)', view = "audit")
    <2>1. ListOf(q) = AuditList(events, q) /\ ListOf(q)' = AuditList(events', q)
      BY <1>2 DEF ListOf
    <2>2. AuditList(events, q) \in Seq(Events)
      BY <1>3, AuditListShape
    <2>3. CASE events' = events
      BY <2>1, <2>2, <2>3, SameEvolves
    <2>4. CASE events' = Append(events, e)
      <3>1. Append(events, e) \in Seq(Events)
        BY <1>3
      <3>2. AuditList(Append(events, e), q) \in Seq(Events)
        BY <3>1, AuditListShape
      <3>3. IsPrefix(AuditList(events, q), AuditList(Append(events, e), q))
        BY <1>3, AuditGrows
      <3>4. QED
        BY <2>1, <2>2, <2>4, <3>2, <3>3, PrefixEvolves
    <2>5. QED
      BY <1>3, <2>3, <2>4
  <1>5. QED
    BY <1>1, <1>2, <1>4, WatchKept

LEMMA ReaderStill ==
  ASSUME ReaderInv, UNCHANGED <<view, hook, users, events, reader>>
  PROVE  ReaderInv'
  <1>1. Queries' = Queries /\ Items' = Items /\ ListOf(reader.q)' = ListOf(reader.q)
    BY DEF Queries, Items, ListOf
  <1>2. QED
    BY <1>1 DEF ReaderInv

\* What holds of the stores and, through them, of the reader's place.
IInv == StoresInv /\ ReaderInv

LEMMA StepIInv == IInv /\ [Next]_vars => IInv'
  <1> SUFFICES ASSUME IInv, [Next]_vars PROVE IInv'
    OBVIOUS
  <1>1. StoresInv /\ StoresInv' /\ ReaderInv
    BY StoresStep DEF IInv
  <1>2. ASSUME NEW id \in Ids, NEW row \in Rows, Create(id, row) PROVE ReaderInv'
    BY <1>1, <1>2, UserCallKept DEF Create
  <1>3. ASSUME NEW id \in Ids, NEW row \in Rows, Update(id, row) PROVE ReaderInv'
    BY <1>1, <1>3, UserCallKept DEF Update
  <1>4. ASSUME NEW id \in Ids, Delete(id) PROVE ReaderInv'
    BY <1>1, <1>4, UserCallKept DEF Delete
  <1>5. ASSUME NEW id \in Ids, AddGrant(id) \/ RemoveGrant(id) PROVE ReaderInv'
    BY <1>1, <1>5, ReaderStill DEF AddGrant, RemoveGrant
  <1>6. ASSUME NEW e \in Events, AppendEvent(e) PROVE ReaderInv'
    BY <1>1, <1>6, AppendEventKept
  <1>7. ASSUME Open PROVE ReaderInv'
    BY <1>1, <1>7, Shows, OpenKept
  <1>8. ASSUME TurnPage PROVE ReaderInv'
    BY <1>1, <1>8, Shows, TurnPageKept
  <1>9. ASSUME UNCHANGED vars PROVE ReaderInv'
    BY <1>1, <1>9, ReaderStill DEF vars, stores
  <1>10. ReaderInv'
    BY <1>2, <1>3, <1>4, <1>5, <1>6, <1>7, <1>8, <1>9 DEF Next
  <1>11. QED
    BY <1>1, <1>10 DEF IInv

LEMMA InitIInv == Init => IInv
  BY StoresInit DEF Init, IInv, ReaderInv

\* The invariant behind the types and the pages.
THEOREM Invariance == Spec => []IInv
  BY InitIInv, StepIInv, PTL DEF Spec

----------------------------------------------------------------------------

\* The types of the stores and of the audit log, and the foreign key of um_grants: no grant
\* is stored without its user (adapters/sqlite_schema.py:46).
THEOREM TypeCorrect == Spec => []TypeOK
  <1>1. IInv => TypeOK
    <2> SUFFICES ASSUME IInv PROVE TypeOK
      OBVIOUS
    <2>1. UsersMirror(users, table) /\ AuditMirror(events, log) /\ GrantsMatch
      BY DEF IInv, StoresInv, Mirrors
    <2>2. DOMAIN users \subseteq Ids /\ \A id \in DOMAIN users : users[id] \in Rows
      BY <2>1 DEF UsersMirror
    <2>3. table \subseteq [id : Ids, row : Rows]
      BY <2>1, <2>2 DEF UsersMirror
    <2>4. {r.id : r \in table} = DOMAIN users
      BY <2>1, TableRows
    <2>5. events \in Seq(Events) /\ log \subseteq [rowid : Nat, event : Events]
      <3>1. \A i \in 1..Len(events) : i \in Nat /\ events[i] \in Events
        BY <2>1 DEF AuditMirror
      <3>2. QED
        BY <2>1, <3>1 DEF AuditMirror
    <2>6. QED
      BY <2>1, <2>2, <2>3, <2>4, <2>5 DEF TypeOK, GrantsMatch
  <1>2. QED
    BY Invariance, <1>1, PTL

LEMMA TruePages == IInv => PagesTrue
  <1> SUFFICES ASSUME IInv, reader # NoReader
               PROVE  /\ (hook = "standard" /\ reader.limit # None /\ ~reader.shrunk
                          /\ (view = "audit" \/ ~reader.grown)) =>
                           /\ IsPrefix(reader.seen, AllOf(reader.q))
                           /\ reader.more => Len(reader.seen) = reader.page * reader.limit
                      /\ (~reader.more /\ ~reader.shrunk)
                           => reader.steady \subseteq ToSet(reader.seen)
    BY DEF PagesTrue
  <1>1. /\ reader \in Readers(Items, Queries)
        /\ Reads(ListOf(reader.q), reader, hook = "standard", view = "audit")
    BY DEF IInv, ReaderInv
  <1>2. reader.q \in Queries /\ reader.page \in Nat /\ reader.limit \in Limits \cup {None}
    BY <1>1 DEF Readers
  <1>3. AllOf(reader.q) = ListOf(reader.q)
    BY <1>2, Shows DEF IInv, Shown
  <1>4. reader.limit # None =>
          OffsetOf(reader.limit, reader.page + 1) = reader.page * reader.limit
    <2>1. reader.limit # None => reader.limit \in Nat
      BY <1>2 DEF Limits
    <2>2. QED
      BY <1>2, <2>1 DEF OffsetOf
  <1>5. QED
    BY <1>1, <1>3, <1>4 DEF Reads, FromTheStart

\* Who turns the pages of a list sees what is on it (adapters/fastapi_htmx/page.py:84,
\* adapters/fastapi_htmx/standard.py:181): with a limit of his own the list from its start
\* and in its order, while nothing comes between; and on the last page all that stayed.
THEOREM PagesAlwaysTrue == Spec => []PagesTrue
  BY Invariance, TruePages, PTL
=============================================================================
