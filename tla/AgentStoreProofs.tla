--------------------------- MODULE AgentStoreProofs ---------------------------
(***************************************************************************)
(* Theorems about AgentStore.tla.                                           *)
(*                                                                         *)
(* Everything rests on one fact about ORDER BY: a rowid above all others    *)
(* comes last, and leaves the others where they are (LEMMA OrderOfAdded).   *)
(* That a new rowid is above all others is LEMMA NewRowidIsLargest.         *)
(***************************************************************************)
EXTENDS AgentStore, FiniteSetTheorems, WellFoundedInduction, TLAPS

(***************************************************************************)
(* Finite sets of numbers                                                   *)
(***************************************************************************)

\* A set of numbers that is not empty has a least member.
LEMMA LeastNumber ==
    ASSUME NEW S, S \subseteq Nat, S # {}
    PROVE  \E n \in S : \A m \in S : n <= m
<1> DEFINE R == OpToRel(<, Nat)
<1>1. IsWellFoundedOn(R, Nat)
    BY NatLessThanWellFounded, Zenon
<1>2. \A m, n \in Nat : m < n => <<m, n>> \in R
    BY SMT DEF OpToRel
<1> HIDE DEF R
<1>3. PICK n \in S : \A m \in S : ~ (<<m, n>> \in R)
    BY <1>1, WFMin
<1>4. \A m \in S : m \in Nat /\ ~ (m < n)
    BY <1>2, <1>3
<1> QED BY <1>3, <1>4, SMT

\* A finite set of numbers that is not empty has a largest member.
LEMMA LargestNumber ==
    ASSUME NEW S, S \subseteq Nat, S # {}, IsFiniteSet(S)
    PROVE  Max(S) \in S /\ \A m \in S : m <= Max(S)
<1> DEFINE Above(n) == {m \in S : n < m}
           Count == [n \in S |-> Cardinality(Above(n))]
<1>1. \A n \in S : IsFiniteSet(Above(n)) /\ Count[n] \in Nat
    BY FS_Subset, FS_CardinalityType
<1> DEFINE Counts == {Count[n] : n \in S}
<1>2. PICK c \in Counts : \A d \in Counts : c <= d
    <2>1. Counts \subseteq Nat /\ Counts # {}
        BY <1>1
    <2> HIDE DEF Counts
    <2> QED BY <2>1, LeastNumber
<1>3. PICK n \in S : c = Count[n]
    BY <1>2
<1>4. \A m \in S : m <= n
    <2> SUFFICES ASSUME NEW m \in S, n < m
                 PROVE  FALSE
        BY SMT
    <2>0. ~ (m < m) /\ \A x \in S : m < x => n < x
        BY SMT
    <2>1. Above(m) \subseteq Above(n) /\ m \in Above(n) /\ m \notin Above(m)
        BY <2>0, Zenon
    <2>2. Cardinality(Above(m)) <= Cardinality(Above(n)) /\ Cardinality(Above(m)) # Cardinality(Above(n))
        BY <1>1, <2>1, FS_Subset
    <2>3. Count[m] \in Counts
        OBVIOUS
    <2>4. Count[n] <= Count[m]
        BY <1>2, <1>3, <2>3
    <2>5. Count[n] = Cardinality(Above(n)) /\ Count[m] = Cardinality(Above(m))
        OBVIOUS
    <2> HIDE DEF Above, Count
    <2> QED BY <1>1, <2>2, <2>4, <2>5, SMT
<1>5. \E x \in S : \A y \in S : x >= y
    BY <1>4, SMT
<1>6. Max(S) \in S /\ \A y \in S : Max(S) >= y
    BY <1>5 DEF Max
<1> QED BY <1>6, SMT

(***************************************************************************)
(* ORDER BY                                                                 *)
(***************************************************************************)

\* How many of the rowids stand up to the rowid k.
Rank(rowids, k) == Cardinality({j \in rowids : j <= k})

\* The places of a finite set of rowids are the numbers from 1 to its size, and each of
\* them is the place of exactly one rowid.
LEMMA RanksAreOneToOne ==
    ASSUME NEW S, S \subseteq Nat, IsFiniteSet(S)
    PROVE  /\ Cardinality(S) \in Nat
           /\ \A k \in S : Rank(S, k) \in 1..Cardinality(S)
           /\ \A k, l \in S : Rank(S, k) = Rank(S, l) => k = l
           /\ \A i \in 1..Cardinality(S) : \E k \in S : Rank(S, k) = i
<1> DEFINE UpTo(k) == {j \in S : j <= k}
<1>0. Cardinality(S) \in Nat
    BY FS_CardinalityType
<1>1. \A k \in S : IsFiniteSet(UpTo(k)) /\ Rank(S, k) \in Nat /\ Rank(S, k) <= Cardinality(S)
    BY FS_Subset, FS_CardinalityType DEF Rank
<1>2. \A k \in S : Rank(S, k) # 0
    <2> SUFFICES ASSUME NEW k \in S
                 PROVE  Cardinality(UpTo(k)) # 0
        BY DEF Rank
    <2>1. k \in UpTo(k)
        BY SMT
    <2> QED BY <1>1, <2>1, FS_EmptySet
<1>3. ASSUME NEW k \in S
      PROVE  Rank(S, k) \in 1..Cardinality(S)
    <2> DEFINE r == Rank(S, k)
               n == Cardinality(S)
    <2>1. n \in Nat /\ r \in Nat /\ r <= n /\ r # 0
        BY <1>0, <1>1, <1>2
    <2> HIDE DEF r, n
    <2>2. r \in 1..n
        BY <2>1, SMT
    <2> QED BY <2>2 DEF r, n
<1>4. \A k, l \in S : k < l => Rank(S, k) # Rank(S, l)
    <2> SUFFICES ASSUME NEW k \in S, NEW l \in S, k < l
                 PROVE  Cardinality(UpTo(k)) # Cardinality(UpTo(l))
        BY DEF Rank
    <2>0. l <= l /\ ~ (l <= k) /\ \A x \in S : x <= k => x <= l
        BY SMT
    <2>1. UpTo(k) \subseteq UpTo(l) /\ l \in UpTo(l) /\ l \notin UpTo(k)
        BY <2>0, Zenon
    <2> QED BY <1>1, <2>1, FS_Subset
<1>5. \A k, l \in S : Rank(S, k) = Rank(S, l) => k = l
    <2> SUFFICES ASSUME NEW k \in S, NEW l \in S, Rank(S, k) = Rank(S, l), k # l
                 PROVE  FALSE
        OBVIOUS
    <2>1. k < l \/ l < k
        BY SMT
    <2> QED BY <1>4, <2>1
<1> DEFINE f == [k \in S |-> Rank(S, k)]
<1>6. f \in Injection(S, 1..Cardinality(S))
    BY <1>3, <1>5 DEF Injection, IsInjective
<1>7. IsFiniteSet(1..Cardinality(S)) /\ Cardinality(1..Cardinality(S)) = Cardinality(S)
    BY <1>0, FS_Interval, SMT
<1>8. f \in Surjection(S, 1..Cardinality(S))
    <2> HIDE DEF f
    <2> QED BY <1>6, <1>7, FS_Injection
<1>9. \A i \in 1..Cardinality(S) : \E k \in S : f[k] = i
    BY <1>8 DEF Surjection
<1> QED BY <1>0, <1>3, <1>5, <1>9

\* InOrder lists members of the set.
LEMMA OrderIsOfMembers ==
    ASSUME NEW S, S \subseteq Nat, IsFiniteSet(S)
    PROVE  InOrder(S) \in [1..Cardinality(S) -> S]
<1>1. ASSUME NEW i \in 1..Cardinality(S)
      PROVE  (CHOOSE k \in S : Rank(S, k) = i) \in S
    BY RanksAreOneToOne
<1>2. InOrder(S) = [i \in 1..Cardinality(S) |-> CHOOSE k \in S : Rank(S, k) = i]
    BY DEF InOrder, Rank
<1> QED BY <1>1, <1>2

\* A rowid above all others comes last, and leaves the others where they are.
LEMMA OrderOfAdded ==
    ASSUME NEW S, S \subseteq Nat, IsFiniteSet(S),
           NEW k \in Nat, \A j \in S : j < k
    PROVE  /\ Cardinality(S \cup {k}) = Cardinality(S) + 1
           /\ \A i \in 1..Cardinality(S) : InOrder(S \cup {k})[i] = InOrder(S)[i]
           /\ InOrder(S \cup {k})[Cardinality(S) + 1] = k
<1> DEFINE T == S \cup {k}
           n == Cardinality(S)
<1>1. k \notin S
    BY SMT
<1>2. IsFiniteSet(T) /\ Cardinality(T) = n + 1 /\ n \in Nat
    BY <1>1, FS_AddElement, FS_CardinalityType
<1>3. T \subseteq Nat
    OBVIOUS
<1>4. \A j \in S : Rank(T, j) = Rank(S, j)
    <2> SUFFICES ASSUME NEW j \in S
                 PROVE  {x \in T : x <= j} = {x \in S : x <= j}
        BY DEF Rank
    <2>1. ~(k <= j)
        BY SMT
    <2> QED BY <2>1
<1>5. Rank(T, k) = n + 1
    <2>1. k <= k /\ \A x \in S : x <= k
        BY SMT
    <2>2. {x \in T : x <= k} = T
        BY <2>1, Zenon
    <2> QED BY <1>2, <2>2 DEF Rank
<1>6. ASSUME NEW i \in 1..n
      PROVE  InOrder(T)[i] = InOrder(S)[i]
    <2>1. i \in 1..(n + 1) /\ i # n + 1
        BY <1>2, SMT
    <2>2. \A j \in T : Rank(T, j) = i <=> j \in S /\ Rank(S, j) = i
        BY <1>4, <1>5, <2>1
    <2>3. PICK x \in S : Rank(S, x) = i
        BY RanksAreOneToOne
    <2>4. \A j \in S : Rank(S, j) = i => j = x
        BY <2>3, RanksAreOneToOne
    <2>5. (CHOOSE j \in S : Rank(S, j) = i) = x
        BY <2>3, <2>4
    <2>6. (CHOOSE j \in T : Rank(T, j) = i) = x
        BY <2>2, <2>3, <2>4
    <2>7. InOrder(T)[i] = CHOOSE j \in T : Rank(T, j) = i
        BY <1>2, <2>1 DEF InOrder, Rank
    <2>8. InOrder(S)[i] = CHOOSE j \in S : Rank(S, j) = i
        BY DEF InOrder, Rank
    <2> QED BY <2>5, <2>6, <2>7, <2>8
<1>7. InOrder(T)[n + 1] = k
    <2>1. n + 1 \in 1..(n + 1)
        BY <1>2, SMT
    <2>2. InOrder(T)[n + 1] = CHOOSE j \in T : Rank(T, j) = n + 1
        BY <1>2, <2>1 DEF InOrder, Rank
    <2>3. \A j, l \in T : Rank(T, j) = Rank(T, l) => j = l
        <3> HIDE DEF T
        <3> QED BY <1>2, <1>3, RanksAreOneToOne
    <2> QED BY <1>5, <2>2, <2>3
<1> QED BY <1>2, <1>6, <1>7

(***************************************************************************)
(* Columns of the table in the order of the rowids                          *)
(***************************************************************************)

\* What a column holds at the rowids, in their order.
Listed(rowids, column) == [i \in 1..Cardinality(rowids) |-> column[InOrder(rowids)[i]]]

\* The list is a sequence of what the column holds.
LEMMA ListIsSequence ==
    ASSUME NEW V, NEW S, S \subseteq Nat, IsFiniteSet(S),
           NEW D, S \subseteq D, NEW column \in [D -> V]
    PROVE  /\ Listed(S, column) \in Seq(V)
           /\ Len(Listed(S, column)) = Cardinality(S)
<1>1. Cardinality(S) \in Nat
    BY FS_CardinalityType
<1>2. ASSUME NEW i \in 1..Cardinality(S)
      PROVE  column[InOrder(S)[i]] \in V
    <2>1. InOrder(S)[i] \in S
        BY OrderIsOfMembers
    <2> QED BY <2>1
<1>3. Listed(S, column) \in [1..Cardinality(S) -> V]
    BY <1>2 DEF Listed
<1> QED BY <1>1, <1>3

\* Nothing is listed for no rowid.
LEMMA ListOfNone ==
    ASSUME NEW column
    PROVE  Listed({}, column) = <<>>
<1>1. 1..Cardinality({}) = {}
    BY FS_EmptySet, SMT
<1> QED BY <1>1 DEF Listed

\* The list depends on what the column holds at those rowids only.
LEMMA ListOfSame ==
    ASSUME NEW S, S \subseteq Nat, IsFiniteSet(S),
           NEW column, NEW column2, \A k \in S : column2[k] = column[k]
    PROVE  Listed(S, column2) = Listed(S, column)
<1>1. ASSUME NEW i \in 1..Cardinality(S)
      PROVE  column2[InOrder(S)[i]] = column[InOrder(S)[i]]
    <2>1. InOrder(S)[i] \in S
        BY OrderIsOfMembers
    <2> QED BY <2>1
<1> QED BY <1>1 DEF Listed

\* The number is above all those of the set.
IsAbove(k, S) == \A j \in S : j < k

\* Two columns hold the same at the rowids.
Agree(column, column2, rowids) == \A k \in rowids : column2[k] = column[k]

\* The rowid k is above all of S, and column2 holds what column does, and a value at k.
ComesLast(k, S, column, column2, V) ==
    /\ S \subseteq Nat
    /\ IsFiniteSet(S)
    /\ k \in Nat
    /\ IsAbove(k, S)
    /\ Agree(column, column2, S)
    /\ Listed(S, column) \in Seq(V)
    /\ Len(Listed(S, column)) = Cardinality(S)
    /\ column2[k] \in V

\* With k, the list grows at its end.
GrowsBy(k, S, column, column2) ==
    Listed(S \cup {k}, column2) = Append(Listed(S, column), column2[k])

\* A rowid above all others adds what the column holds there to the end of the list.
LEMMA ListOfAdded ==
    ASSUME NEW S, NEW k, NEW column, NEW column2, NEW V,
           ComesLast(k, S, column, column2, V)
    PROVE  GrowsBy(k, S, column, column2)
<1> DEFINE n == Cardinality(S)
           old == Listed(S, column)
           new == Listed(S \cup {k}, column2)
<1>0. /\ S \subseteq Nat /\ IsFiniteSet(S) /\ k \in Nat
      /\ \A j \in S : j < k
      /\ \A j \in S : column2[j] = column[j]
    BY DEF ComesLast, IsAbove, Agree
<1>1. n \in Nat
    BY <1>0, FS_CardinalityType
<1>2. old \in Seq(V) /\ Len(old) = n /\ column2[k] \in V
    BY DEF ComesLast
<1>3. Cardinality(S \cup {k}) = n + 1
    BY <1>0, OrderOfAdded
<1>4. new = [i \in 1..(n + 1) |-> column2[InOrder(S \cup {k})[i]]]
    BY <1>3 DEF Listed
<1>5. ASSUME NEW i \in 1..n
      PROVE  column2[InOrder(S \cup {k})[i]] = old[i]
    <2>1. InOrder(S \cup {k})[i] = InOrder(S)[i]
        BY <1>0, OrderOfAdded
    <2>2. InOrder(S)[i] \in S
        BY <1>0, OrderIsOfMembers
    <2>3. column2[InOrder(S)[i]] = column[InOrder(S)[i]]
        BY <1>0, <2>2
    <2> QED BY <2>1, <2>3 DEF Listed
<1>6. column2[InOrder(S \cup {k})[n + 1]] = column2[k]
    BY <1>0, OrderOfAdded
<1> HIDE DEF n, old, new
<1>7. Append(old, column2[k]) = [i \in 1..(n + 1) |-> IF i = n + 1 THEN column2[k] ELSE old[i]]
    BY <1>2
<1>8. ASSUME NEW i \in 1..(n + 1)
      PROVE  column2[InOrder(S \cup {k})[i]] = IF i = n + 1 THEN column2[k] ELSE old[i]
    <2>1. CASE i = n + 1
        BY <1>6, <2>1
    <2>2. CASE i # n + 1
        <3>1. i \in 1..n
            BY <1>1, <2>2, SMT
        <3> QED BY <1>5, <2>2, <3>1
    <2> QED BY <2>1, <2>2
<1>9. new = Append(old, column2[k])
    BY <1>4, <1>7, <1>8
<1> QED BY <1>9 DEF GrowsBy, old, new

(***************************************************************************)
(* The statements                                                           *)
(***************************************************************************)

\* The two columns that the properties read.
MessageColumn == [k \in DOMAIN table |-> table[k].message]

IndexColumn == [k \in DOMAIN table |-> table[k].message.index]

\* The rowids of the call's rows in the thread.
Mine(c, t) == {k \in RowsOf(t) : table[k].message.call = c}

\* A thread's history and what survives of a call are lists of these columns.
LEMMA HistoriesAreLists ==
    ASSUME TypeOK, NEW t \in Threads, NEW c \in Calls
    PROVE  /\ GetHistory(t) = Listed(RowsOf(t), MessageColumn)
           /\ Surviving(c, t) = Listed(Mine(c, t), IndexColumn)
           /\ RowsOf(t) \subseteq DOMAIN table
           /\ RowsOf(t) \subseteq Nat
           /\ IsFiniteSet(RowsOf(t))
           /\ Mine(c, t) \subseteq DOMAIN table
           /\ Mine(c, t) \subseteq Nat
           /\ IsFiniteSet(Mine(c, t))
<1>1. /\ RowsOf(t) \subseteq DOMAIN table
      /\ Mine(c, t) \subseteq DOMAIN table
    BY DEF RowsOf, Mine
<1>2. /\ RowsOf(t) \subseteq Nat
      /\ Mine(c, t) \subseteq Nat
      /\ IsFiniteSet(RowsOf(t))
      /\ IsFiniteSet(Mine(c, t))
    BY <1>1, FS_Subset DEF TypeOK
<1>3. ASSUME NEW i \in 1..Cardinality(RowsOf(t))
      PROVE  table[InOrder(RowsOf(t))[i]].message = MessageColumn[InOrder(RowsOf(t))[i]]
    <2>1. InOrder(RowsOf(t))[i] \in DOMAIN table
        BY <1>1, <1>2, OrderIsOfMembers
    <2> QED BY <2>1 DEF MessageColumn
<1>4. GetHistory(t) = Listed(RowsOf(t), MessageColumn)
    BY <1>3 DEF GetHistory, Listed
<1>5. ASSUME NEW i \in 1..Cardinality(Mine(c, t))
      PROVE  table[InOrder(Mine(c, t))[i]].message.index = IndexColumn[InOrder(Mine(c, t))[i]]
    <2>1. InOrder(Mine(c, t))[i] \in DOMAIN table
        BY <1>1, <1>2, OrderIsOfMembers
    <2> QED BY <2>1 DEF IndexColumn
<1>6. Surviving(c, t) = [i \in 1..Cardinality(Mine(c, t)) |-> table[InOrder(Mine(c, t))[i]].message.index]
    BY DEF Surviving, Mine
<1>7. Surviving(c, t) = Listed(Mine(c, t), IndexColumn)
    BY <1>5, <1>6 DEF Listed
<1> QED BY <1>1, <1>2, <1>4, <1>7

\* The same in the next state.
LEMMA HistoriesAreListsNext ==
    ASSUME NEW t \in Threads, NEW c \in Calls
    PROVE  (TypeOK => /\ GetHistory(t) = Listed(RowsOf(t), MessageColumn)
                      /\ Surviving(c, t) = Listed(Mine(c, t), IndexColumn))'
<1>1. TypeOK => /\ GetHistory(t) = Listed(RowsOf(t), MessageColumn)
                /\ Surviving(c, t) = Listed(Mine(c, t), IndexColumn)
    BY HistoriesAreLists
<1> QED BY <1>1, PTL

\* The columns hold messages and their numbers.
LEMMA ColumnTypes ==
    ASSUME TypeOK
    PROVE  /\ MessageColumn \in [DOMAIN table -> Messages]
           /\ IndexColumn \in [DOMAIN table -> 1..MaxNew]
<1>1. \A k \in DOMAIN table : table[k] \in Rows
    BY DEF TypeOK
<1>2. \A k \in DOMAIN table : table[k].message \in Messages /\ table[k].message.index \in 1..MaxNew
    BY <1>1 DEF Rows, Messages
<1> QED BY <1>2 DEF MessageColumn, IndexColumn

\* A new rowid is larger than every one in use.
LEMMA NewRowidIsLargest ==
    ASSUME TypeOK
    PROVE  /\ NewRowid \in Nat
           /\ \A k \in DOMAIN table : k < NewRowid
<1>1. CASE DOMAIN table = {}
    BY <1>1 DEF NewRowid
<1>2. CASE DOMAIN table # {}
    <2> DEFINE m == Max(DOMAIN table)
    <2>1. m \in DOMAIN table /\ \A k \in DOMAIN table : k <= m
        BY <1>2, LargestNumber DEF TypeOK
    <2>2. NewRowid = m + 1
        BY <1>2 DEF NewRowid
    <2>3. DOMAIN table \subseteq Nat
        BY DEF TypeOK
    <2> HIDE DEF m
    <2> QED BY <2>1, <2>2, <2>3, SMT
<1> QED BY <1>1, <1>2

\* An INSERT leaves the rows as they are and adds one after them.
LEMMA InsertAddsRow ==
    ASSUME TypeOK, NEW row \in Rows, Insert(row)
    PROVE  /\ DOMAIN table' = DOMAIN table \cup {NewRowid}
           /\ DOMAIN table' \subseteq Nat
           /\ IsFiniteSet(DOMAIN table')
           /\ table' \in [DOMAIN table' -> Rows]
           /\ \A k \in DOMAIN table : table'[k] = table[k]
           /\ table'[NewRowid] = row
           /\ NewRowid \notin DOMAIN table
<1>1. NewRowid \in Nat /\ \A k \in DOMAIN table : k < NewRowid
    BY NewRowidIsLargest
<1>2. DOMAIN table \subseteq Nat /\ IsFiniteSet(DOMAIN table) /\ table \in [DOMAIN table -> Rows]
    BY DEF TypeOK
<1>3. ~ (NewRowid < NewRowid)
    BY <1>1, SMT
<1>4. NewRowid \notin DOMAIN table
    BY <1>1, <1>3
<1>5. table' = [k \in DOMAIN table \cup {NewRowid} |-> IF k = NewRowid THEN row ELSE table[k]]
    BY DEF Insert
<1>6. DOMAIN table' = DOMAIN table \cup {NewRowid}
    BY <1>5
<1>7. DOMAIN table' \subseteq Nat
    BY <1>1, <1>2, <1>6
<1>8. IsFiniteSet(DOMAIN table')
    BY <1>2, <1>6, FS_AddElement
<1>9. /\ \A k \in DOMAIN table : table'[k] = table[k]
      /\ table'[NewRowid] = row
    BY <1>4, <1>5
<1>10. table' \in [DOMAIN table' -> Rows]
    BY <1>2, <1>5, <1>6
<1> QED BY <1>4, <1>6, <1>7, <1>8, <1>9, <1>10

\* An INSERT adds its message to the end of its thread's history and of what survives of
\* its call there, and changes no other history.
LEMMA InsertExtends ==
    ASSUME TypeOK, NEW row \in Rows, Insert(row),
           TypeOK', NEW t \in Threads, NEW c \in Calls
    PROVE  /\ GetHistory(t)' = IF row.thread = t THEN Append(GetHistory(t), row.message)
                                                 ELSE GetHistory(t)
           /\ Surviving(c, t)' = IF row.thread = t /\ row.message.call = c
                                 THEN Append(Surviving(c, t), row.message.index)
                                 ELSE Surviving(c, t)
<1>1. /\ DOMAIN table' = DOMAIN table \cup {NewRowid}
      /\ \A k \in DOMAIN table : table'[k] = table[k]
      /\ table'[NewRowid] = row
      /\ NewRowid \notin DOMAIN table
    BY InsertAddsRow
<1>2. NewRowid \in Nat /\ \A k \in DOMAIN table : k < NewRowid
    BY NewRowidIsLargest
<1>3. /\ RowsOf(t)' = IF row.thread = t THEN RowsOf(t) \cup {NewRowid} ELSE RowsOf(t)
      /\ Mine(c, t)' = IF row.thread = t /\ row.message.call = c
                       THEN Mine(c, t) \cup {NewRowid}
                       ELSE Mine(c, t)
    <2>1. RowsOf(t)' = IF row.thread = t THEN RowsOf(t) \cup {NewRowid} ELSE RowsOf(t)
        BY <1>1 DEF RowsOf
    <2>2. \A k : k \in Mine(c, t)' <=> k \in RowsOf(t)' /\ table'[k].message.call = c
        BY DEF Mine
    <2>3. \A k : k \in Mine(c, t) <=> k \in RowsOf(t) /\ table[k].message.call = c
        BY DEF Mine
    <2>4. RowsOf(t) \subseteq DOMAIN table
        BY DEF RowsOf
    <2> QED BY <1>1, <2>1, <2>2, <2>3, <2>4
<1>4. /\ MessageColumn \in [DOMAIN table -> Messages]
      /\ IndexColumn \in [DOMAIN table -> 1..MaxNew]
    BY ColumnTypes
<1>5. /\ \A k \in DOMAIN table : MessageColumn'[k] = MessageColumn[k]
      /\ \A k \in DOMAIN table : IndexColumn'[k] = IndexColumn[k]
      /\ MessageColumn'[NewRowid] = row.message
      /\ IndexColumn'[NewRowid] = row.message.index
    BY <1>1 DEF MessageColumn, IndexColumn
<1>6. row.message \in Messages /\ row.message.index \in 1..MaxNew
    BY DEF Rows, Messages
<1>7. /\ GetHistory(t) = Listed(RowsOf(t), MessageColumn)
      /\ Surviving(c, t) = Listed(Mine(c, t), IndexColumn)
      /\ RowsOf(t) \subseteq DOMAIN table
      /\ RowsOf(t) \subseteq Nat
      /\ IsFiniteSet(RowsOf(t))
      /\ Mine(c, t) \subseteq DOMAIN table
      /\ Mine(c, t) \subseteq Nat
      /\ IsFiniteSet(Mine(c, t))
    BY HistoriesAreLists
<1>9. /\ GetHistory(t)' = Listed(RowsOf(t)', MessageColumn')
      /\ Surviving(c, t)' = Listed(Mine(c, t)', IndexColumn')
    BY HistoriesAreListsNext DEF Listed, InOrder
<1>10. /\ Listed(RowsOf(t), MessageColumn') = Listed(RowsOf(t), MessageColumn)
       /\ Listed(Mine(c, t), IndexColumn') = Listed(Mine(c, t), IndexColumn)
    BY <1>5, <1>7, ListOfSame
<1>11. Listed(RowsOf(t) \cup {NewRowid}, MessageColumn')
         = Append(Listed(RowsOf(t), MessageColumn), row.message)
    <2>1. IsAbove(NewRowid, RowsOf(t)) /\ Agree(MessageColumn, MessageColumn', RowsOf(t))
        BY <1>2, <1>5, <1>7 DEF IsAbove, Agree
    <2>2. MessageColumn'[NewRowid] \in Messages
        BY <1>5, <1>6
    <2>3. /\ Listed(RowsOf(t), MessageColumn) \in Seq(Messages)
          /\ Len(Listed(RowsOf(t), MessageColumn)) = Cardinality(RowsOf(t))
        BY <1>4, <1>7, ListIsSequence
    <2>4. ComesLast(NewRowid, RowsOf(t), MessageColumn, MessageColumn', Messages)
        BY <1>2, <1>7, <2>1, <2>2, <2>3 DEF ComesLast
    <2>5. GrowsBy(NewRowid, RowsOf(t), MessageColumn, MessageColumn')
        BY <2>4, ListOfAdded
    <2> QED BY <1>5, <2>5 DEF GrowsBy
<1>12. Listed(Mine(c, t) \cup {NewRowid}, IndexColumn')
         = Append(Listed(Mine(c, t), IndexColumn), row.message.index)
    <2>1. IsAbove(NewRowid, Mine(c, t)) /\ Agree(IndexColumn, IndexColumn', Mine(c, t))
        BY <1>2, <1>5, <1>7 DEF IsAbove, Agree
    <2>2. IndexColumn'[NewRowid] \in 1..MaxNew
        BY <1>5, <1>6
    <2>3. /\ Listed(Mine(c, t), IndexColumn) \in Seq(1..MaxNew)
          /\ Len(Listed(Mine(c, t), IndexColumn)) = Cardinality(Mine(c, t))
        BY <1>4, <1>7, ListIsSequence
    <2>4. ComesLast(NewRowid, Mine(c, t), IndexColumn, IndexColumn', 1..MaxNew)
        BY <1>2, <1>7, <2>1, <2>2, <2>3 DEF ComesLast
    <2>5. GrowsBy(NewRowid, Mine(c, t), IndexColumn, IndexColumn')
        BY <2>4, ListOfAdded
    <2> QED BY <1>5, <2>5 DEF GrowsBy
<1> QED BY <1>3, <1>7, <1>9, <1>10, <1>11, <1>12

\* A DELETE empties the thread's history, and changes no other one.
LEMMA DeleteEmpties ==
    ASSUME TypeOK, NEW u \in Threads, DeleteThread(u), TypeOK',
           NEW t \in Threads, NEW c \in Calls
    PROVE  /\ GetHistory(t)' = IF t = u THEN <<>> ELSE GetHistory(t)
           /\ Surviving(c, t)' = IF t = u THEN <<>> ELSE Surviving(c, t)
<1>1. table' = [k \in DOMAIN table \ RowsOf(u) |-> table[k]]
    BY DEF DeleteThread
<1>2. /\ DOMAIN table' = DOMAIN table \ RowsOf(u)
      /\ \A k \in DOMAIN table' : table'[k] = table[k]
    BY <1>1
<1>3. \A k \in DOMAIN table : k \in RowsOf(u) <=> table[k].thread = u
    BY DEF RowsOf
<1>4. RowsOf(t)' = IF t = u THEN {} ELSE RowsOf(t)
    BY <1>2, <1>3 DEF RowsOf
<1>5. /\ \A k : k \in Mine(c, t)' <=> k \in RowsOf(t)' /\ table'[k].message.call = c
      /\ \A k : k \in Mine(c, t) <=> k \in RowsOf(t) /\ table[k].message.call = c
      /\ \A k \in RowsOf(t)' : k \in DOMAIN table'
    BY DEF Mine, RowsOf
<1>6. Mine(c, t)' = IF t = u THEN {} ELSE Mine(c, t)
    BY <1>2, <1>4, <1>5
<1>7. /\ GetHistory(t) = Listed(RowsOf(t), MessageColumn)
      /\ Surviving(c, t) = Listed(Mine(c, t), IndexColumn)
      /\ RowsOf(t) \subseteq Nat
      /\ IsFiniteSet(RowsOf(t))
      /\ Mine(c, t) \subseteq Nat
      /\ IsFiniteSet(Mine(c, t))
    BY HistoriesAreLists
<1>8. /\ GetHistory(t)' = Listed(RowsOf(t)', MessageColumn')
      /\ Surviving(c, t)' = Listed(Mine(c, t)', IndexColumn')
    BY HistoriesAreListsNext DEF Listed, InOrder
<1>9. CASE t = u
    BY <1>4, <1>6, <1>8, <1>9, ListOfNone
<1>10. CASE t # u
    <2>1. /\ RowsOf(t)' = RowsOf(t) /\ Mine(c, t)' = Mine(c, t)
          /\ RowsOf(t) \subseteq DOMAIN table' /\ Mine(c, t) \subseteq DOMAIN table'
        BY <1>4, <1>5, <1>6, <1>10
    <2>2. DOMAIN table' \subseteq DOMAIN table
        BY <1>2
    <2>3. /\ \A k \in DOMAIN table' : MessageColumn'[k] = MessageColumn[k]
          /\ \A k \in DOMAIN table' : IndexColumn'[k] = IndexColumn[k]
        BY <1>2, <2>2 DEF MessageColumn, IndexColumn
    <2>4. /\ Listed(RowsOf(t), MessageColumn') = Listed(RowsOf(t), MessageColumn)
          /\ Listed(Mine(c, t), IndexColumn') = Listed(Mine(c, t), IndexColumn)
        BY <1>7, <2>1, <2>3, ListOfSame
    <2> QED BY <1>7, <1>8, <1>10, <2>1, <2>4
<1> QED BY <1>9, <1>10

(***************************************************************************)
(* The inductive invariant                                                  *)
(***************************************************************************)

\* A call that has not begun has stored nothing, in any thread.
UncalledIsUnseen ==
    \A c \in Calls : stage[c] = "none" =>
        stored[c] = 0 /\ \A k \in DOMAIN table : table[k].message.call # c

\* A call that deleted a thread's rows is about that thread, and has begun.
DeletersHaveThread ==
    \A t \in Threads : lastDelete[t] # None =>
        stage[lastDelete[t]] # "none" /\ thread[lastDelete[t]] = t

\* A call that inserts has a thread.
InsertersHaveThread == \A c \in Calls : stage[c] = "inserting" => thread[c] \in Threads

IInv ==
    /\ TypeOK
    /\ UncalledIsUnseen
    /\ DeletersHaveThread
    /\ InsertersHaveThread
    /\ ReplacementIsWhole

\* Initially no call has begun and the table is empty.
LEMMA InitIsGood == Init => IInv
<1> SUFFICES ASSUME Init
             PROVE  IInv
    OBVIOUS
<1> USE AgentStoreAssumption
<1>1. DOMAIN table = {}
    BY DEF Init
<1>2. TypeOK
    <2>1. table \in [DOMAIN table -> Rows]
        BY <1>1 DEF Init
    <2> QED BY <1>1, <2>1, FS_EmptySet DEF Init, TypeOK, Stages
<1>3. UncalledIsUnseen
    BY <1>1 DEF Init, UncalledIsUnseen
<1>4. DeletersHaveThread /\ InsertersHaveThread /\ ReplacementIsWhole
    BY DEF Init, DeletersHaveThread, InsertersHaveThread, ReplacementIsWhole
<1> QED BY <1>2, <1>3, <1>4 DEF IInv

\* No statement breaks the types.
LEMMA AppendKeepsTypes ==
    ASSUME TypeOK, NEW c \in Calls, NEW t \in Threads, AppendMessage(c, t)
    PROVE  /\ [thread |-> t, message |-> [call |-> c, index |-> 1]] \in Rows
           /\ TypeOK'
<1> DEFINE row == [thread |-> t, message |-> [call |-> c, index |-> 1]]
<1>1. row \in Rows
    <2>1. 1 \in 1..MaxNew
        BY AgentStoreAssumption
    <2> QED BY <2>1 DEF Rows, Messages
<1>2. Insert(row)
    BY DEF AppendMessage
<1> HIDE DEF row
<1>3. /\ DOMAIN table' \subseteq Nat
      /\ IsFiniteSet(DOMAIN table')
      /\ table' \in [DOMAIN table' -> Rows]
    BY <1>1, <1>2, InsertAddsRow
<1>4. stage' \in [Calls -> Stages] /\ \A d \in Calls : stage'[d] = "inserting" => stage[d] = "inserting"
    BY DEF AppendMessage, TypeOK, Stages
<1>5. TypeOK'
    BY <1>3, <1>4 DEF AppendMessage, TypeOK
<1> QED BY <1>1, <1>5 DEF row

LEMMA ClearKeepsTypes ==
    ASSUME TypeOK, UncalledIsUnseen,
           NEW c \in Calls, NEW t \in Threads, NEW n \in 0..MaxNew, ClearAndReplace(c, t, n)
    PROVE  TypeOK'
<1> USE AgentStoreAssumption
<1>1. table' = [k \in DOMAIN table \ RowsOf(t) |-> table[k]]
    BY DEF ClearAndReplace, DeleteThread
<1>2. DOMAIN table' \subseteq DOMAIN table
    BY <1>1
<1>3. /\ DOMAIN table' \subseteq Nat
      /\ IsFiniteSet(DOMAIN table')
    BY <1>2, FS_Subset DEF TypeOK
<1>4. table' \in [DOMAIN table' -> Rows]
    BY <1>1 DEF TypeOK
<1>5. /\ stage' \in [Calls -> Stages]
      /\ thread' \in [Calls -> Threads \cup {None}]
      /\ size' \in [Calls -> 0..MaxNew]
      /\ stored' = stored
      /\ lastDelete' \in [Threads -> Calls \cup {None}]
    BY DEF ClearAndReplace, TypeOK, Stages
<1>6. ASSUME NEW d \in Calls, stage'[d] = "inserting"
      PROVE  stored'[d] < size'[d]
    <2>1. CASE d = c
        <3>1. n # 0 /\ size'[d] = n /\ stored'[d] = 0
            BY <1>6, <2>1 DEF ClearAndReplace, TypeOK, UncalledIsUnseen
        <3> QED BY <3>1
    <2>2. CASE d # c
        BY <1>6, <2>2 DEF ClearAndReplace, TypeOK
    <2> QED BY <2>1, <2>2
<1> QED BY <1>3, <1>4, <1>5, <1>6 DEF TypeOK

LEMMA InsertNextKeepsTypes ==
    ASSUME TypeOK, InsertersHaveThread, NEW c \in Calls, InsertNext(c)
    PROVE  /\ [thread |-> thread[c], message |-> [call |-> c, index |-> stored[c] + 1]] \in Rows
           /\ TypeOK'
<1> DEFINE row == [thread |-> thread[c], message |-> [call |-> c, index |-> stored[c] + 1]]
<1>1. stored[c] + 1 \in 1..MaxNew /\ stored[c] + 1 <= size[c]
    <2>1. stored[c] \in 0..MaxNew /\ size[c] \in 0..MaxNew /\ stored[c] < size[c]
        BY DEF TypeOK, InsertNext
    <2> QED BY <2>1, AgentStoreAssumption
<1>2. row \in Rows
    <2>1. thread[c] \in Threads
        BY DEF InsertNext, InsertersHaveThread
    <2> QED BY <1>1, <2>1 DEF Rows, Messages
<1>3. Insert(row)
    BY DEF InsertNext
<1> HIDE DEF row
<1>4. /\ DOMAIN table' \subseteq Nat
      /\ IsFiniteSet(DOMAIN table')
      /\ table' \in [DOMAIN table' -> Rows]
    BY <1>2, <1>3, InsertAddsRow
<1>5. stored' = [stored EXCEPT ![c] = stored[c] + 1]
    BY DEF InsertNext
<1>6. stored' \in [Calls -> 0..MaxNew] /\ stored'[c] = stored[c] + 1
    BY <1>1, <1>5 DEF TypeOK
<1>7. stage' \in [Calls -> Stages]
    BY DEF InsertNext, TypeOK, Stages
<1>8. ASSUME NEW d \in Calls, stage'[d] = "inserting"
      PROVE  stored'[d] < size[d]
    <2>1. CASE d = c
        <3>1. stored'[c] # size[c]
            BY <1>8, <2>1 DEF InsertNext, TypeOK
        <3>2. stored[c] \in Nat /\ size[c] \in Nat
            BY DEF TypeOK
        <3> QED BY <1>1, <1>6, <2>1, <3>1, <3>2
    <2>2. CASE d # c
        BY <1>5, <1>8, <2>2 DEF InsertNext, TypeOK
    <2> QED BY <2>1, <2>2
<1>9. TypeOK'
    BY <1>4, <1>6, <1>7, <1>8 DEF InsertNext, TypeOK
<1> QED BY <1>2, <1>9 DEF row

\* An append leaves every replacement as it is: its call is none of theirs.
LEMMA AppendKeepsInv ==
    ASSUME IInv, NEW c \in Calls, NEW t \in Threads, AppendMessage(c, t)
    PROVE  IInv'
<1> DEFINE row == [thread |-> t, message |-> [call |-> c, index |-> 1]]
<1>1. TypeOK /\ row \in Rows /\ Insert(row) /\ TypeOK'
    BY AppendKeepsTypes DEF AppendMessage, IInv
<1>2. row.message.call = c
    OBVIOUS
<1> HIDE DEF row
<1>3. /\ stage[c] = "none"
      /\ stage' = [stage EXCEPT ![c] = "done"]
      /\ UNCHANGED <<thread, size, stored, lastDelete>>
    BY DEF AppendMessage
<1>4. \A d \in Calls : stage'[d] = IF d = c THEN "done" ELSE stage[d]
    BY <1>1, <1>3 DEF TypeOK
<1>5. UncalledIsUnseen'
    <2> SUFFICES ASSUME NEW d \in Calls, stage'[d] = "none"
                 PROVE  stored'[d] = 0 /\ \A k \in DOMAIN table' : table'[k].message.call # d
        BY DEF UncalledIsUnseen
    <2>1. d # c /\ stage[d] = "none"
        BY <1>4
    <2>2. stored[d] = 0 /\ \A k \in DOMAIN table : table[k].message.call # d
        BY <2>1 DEF IInv, UncalledIsUnseen
    <2>3. /\ DOMAIN table' = DOMAIN table \cup {NewRowid}
          /\ \A k \in DOMAIN table : table'[k] = table[k]
          /\ table'[NewRowid] = row
        BY <1>1, InsertAddsRow
    <2> QED BY <1>2, <1>3, <2>1, <2>2, <2>3
<1>6. \A u \in Threads : lastDelete[u] # None =>
          lastDelete[u] \in Calls /\ stage[lastDelete[u]] # "none" /\ thread[lastDelete[u]] = u
    BY <1>1 DEF IInv, DeletersHaveThread, TypeOK
<1>7. DeletersHaveThread'
    BY <1>3, <1>4, <1>6 DEF DeletersHaveThread
<1>8. InsertersHaveThread'
    BY <1>3, <1>4 DEF IInv, InsertersHaveThread
<1>9. ReplacementIsWhole'
    <2> SUFFICES ASSUME NEW u \in Threads, NEW d \in Calls, lastDelete'[u] = d
                 PROVE  /\ Surviving(d, u)' = [i \in 1..stored'[d] |-> i]
                        /\ stage'[d] = "done" => stored'[d] = size'[d]
        BY DEF ReplacementIsWhole
    <2>1. d # None /\ lastDelete[u] = d
        BY <1>3, AgentStoreAssumption
    <2>2. d # c /\ stage'[d] = stage[d]
        BY <1>3, <1>4, <1>6, <2>1
    <2>3. Surviving(d, u)' = Surviving(d, u)
        BY <1>1, <1>2, <2>2, InsertExtends
    <2>4. /\ Surviving(d, u) = [i \in 1..stored[d] |-> i]
          /\ stage[d] = "done" => stored[d] = size[d]
        BY <2>1 DEF IInv, ReplacementIsWhole
    <2> QED BY <1>3, <2>2, <2>3, <2>4
<1> QED BY <1>1, <1>5, <1>7, <1>8, <1>9 DEF IInv

\* The DELETE makes its call the thread's last deleter, with nothing stored yet, and
\* leaves the replacements of other threads as they are.
LEMMA ClearKeepsInv ==
    ASSUME IInv, NEW c \in Calls, NEW t \in Threads, NEW n \in 0..MaxNew, ClearAndReplace(c, t, n)
    PROVE  IInv'
<1>1. TypeOK /\ DeleteThread(t) /\ TypeOK'
    BY ClearKeepsTypes DEF ClearAndReplace, IInv
<1>2. stage[c] = "none" /\ stored' = stored
    BY DEF ClearAndReplace
<1>3. /\ \A u \in Threads : lastDelete'[u] = IF u = t THEN c ELSE lastDelete[u]
      /\ \A d \in Calls : thread'[d] = IF d = c THEN t ELSE thread[d]
      /\ \A d \in Calls : size'[d] = IF d = c THEN n ELSE size[d]
      /\ \A d \in Calls : d # c => stage'[d] = stage[d]
      /\ stage'[c] = IF n = 0 THEN "done" ELSE "inserting"
    BY <1>1 DEF ClearAndReplace, TypeOK
<1>4. stored[c] = 0
    BY <1>2 DEF IInv, UncalledIsUnseen
<1>5. \A u \in Threads : lastDelete[u] # None =>
          lastDelete[u] \in Calls /\ stage[lastDelete[u]] # "none" /\ thread[lastDelete[u]] = u
    BY <1>1 DEF IInv, DeletersHaveThread, TypeOK
<1>6. UncalledIsUnseen'
    <2> SUFFICES ASSUME NEW d \in Calls, stage'[d] = "none"
                 PROVE  stored'[d] = 0 /\ \A k \in DOMAIN table' : table'[k].message.call # d
        BY DEF UncalledIsUnseen
    <2>1. stage[d] = "none"
        BY <1>3
    <2>2. stored[d] = 0 /\ \A k \in DOMAIN table : table[k].message.call # d
        BY <2>1 DEF IInv, UncalledIsUnseen
    <2>3. /\ DOMAIN table' \subseteq DOMAIN table
          /\ \A k \in DOMAIN table' : table'[k] = table[k]
        BY <1>1 DEF DeleteThread
    <2> QED BY <1>2, <2>2, <2>3
<1>7. DeletersHaveThread'
    <2> SUFFICES ASSUME NEW u \in Threads, lastDelete'[u] # None
                 PROVE  stage'[lastDelete'[u]] # "none" /\ thread'[lastDelete'[u]] = u
        BY DEF DeletersHaveThread
    <2>1. CASE u = t
        BY <1>3, <2>1
    <2>2. CASE u # t
        <3>1. lastDelete'[u] = lastDelete[u] /\ lastDelete[u] # None
            BY <1>3, <2>2
        <3>2. lastDelete[u] \in Calls /\ stage[lastDelete[u]] # "none" /\ thread[lastDelete[u]] = u
            BY <1>5, <3>1
        <3>3. lastDelete[u] # c
            BY <1>2, <3>2
        <3> QED BY <1>3, <3>1, <3>2, <3>3
    <2> QED BY <2>1, <2>2
<1>8. InsertersHaveThread'
    BY <1>3 DEF IInv, InsertersHaveThread
<1>9. ReplacementIsWhole'
    <2> SUFFICES ASSUME NEW u \in Threads, NEW d \in Calls, lastDelete'[u] = d
                 PROVE  /\ Surviving(d, u)' = [i \in 1..stored'[d] |-> i]
                        /\ stage'[d] = "done" => stored'[d] = size'[d]
        BY DEF ReplacementIsWhole
    <2>1. CASE u = t
        <3>1. d = c
            BY <1>3, <2>1
        <3>2. Surviving(d, u)' = <<>>
            BY <1>1, <2>1, DeleteEmpties
        <3>3. stored'[d] = 0
            BY <1>2, <1>4, <3>1
        <3>4. [i \in 1..0 |-> i] = <<>>
            OBVIOUS
        <3>5. stage'[d] = "done" => size'[d] = 0
            BY <1>3, <3>1
        <3> QED BY <3>2, <3>3, <3>4, <3>5
    <2>2. CASE u # t
        <3>1. d # None /\ lastDelete[u] = d
            BY <1>3, <2>2, AgentStoreAssumption
        <3>2. d # c
            BY <1>2, <1>5, <3>1
        <3>3. Surviving(d, u)' = Surviving(d, u)
            BY <1>1, <2>2, DeleteEmpties
        <3>4. /\ Surviving(d, u) = [i \in 1..stored[d] |-> i]
              /\ stage[d] = "done" => stored[d] = size[d]
            BY <3>1 DEF IInv, ReplacementIsWhole
        <3> QED BY <1>2, <1>3, <3>2, <3>3, <3>4
    <2> QED BY <2>1, <2>2
<1> QED BY <1>1, <1>6, <1>7, <1>8, <1>9 DEF IInv

\* The next message of a replacement follows those that it has stored.
LEMMA InsertNextKeepsInv ==
    ASSUME IInv, NEW c \in Calls, InsertNext(c)
    PROVE  IInv'
<1> DEFINE row == [thread |-> thread[c], message |-> [call |-> c, index |-> stored[c] + 1]]
<1>1. TypeOK /\ row \in Rows /\ Insert(row) /\ TypeOK'
    BY InsertNextKeepsTypes DEF InsertNext, IInv
<1>2. row.thread = thread[c] /\ row.message.call = c /\ row.message.index = stored[c] + 1
    OBVIOUS
<1> HIDE DEF row
<1>3. /\ stage[c] = "inserting"
      /\ stored' = [stored EXCEPT ![c] = stored[c] + 1]
      /\ stage' = [stage EXCEPT ![c] = IF stored'[c] = size[c] THEN "done" ELSE "inserting"]
      /\ UNCHANGED <<thread, size, lastDelete>>
    BY DEF InsertNext
<1>4. /\ \A d \in Calls : d # c => stage'[d] = stage[d] /\ stored'[d] = stored[d]
      /\ stored'[c] = stored[c] + 1
      /\ stage'[c] = IF stored'[c] = size[c] THEN "done" ELSE "inserting"
      /\ stored[c] \in Nat
    BY <1>1, <1>3 DEF TypeOK
<1>5. UncalledIsUnseen'
    <2> SUFFICES ASSUME NEW d \in Calls, stage'[d] = "none"
                 PROVE  stored'[d] = 0 /\ \A k \in DOMAIN table' : table'[k].message.call # d
        BY DEF UncalledIsUnseen
    <2>1. d # c /\ stage[d] = "none"
        BY <1>4
    <2>2. stored[d] = 0 /\ \A k \in DOMAIN table : table[k].message.call # d
        BY <2>1 DEF IInv, UncalledIsUnseen
    <2>3. /\ DOMAIN table' = DOMAIN table \cup {NewRowid}
          /\ \A k \in DOMAIN table : table'[k] = table[k]
          /\ table'[NewRowid] = row
        BY <1>1, InsertAddsRow
    <2> QED BY <1>2, <1>4, <2>1, <2>2, <2>3
<1>6. \A u \in Threads : lastDelete[u] # None =>
          lastDelete[u] \in Calls /\ stage[lastDelete[u]] # "none" /\ thread[lastDelete[u]] = u
    BY <1>1 DEF IInv, DeletersHaveThread, TypeOK
<1>7. DeletersHaveThread'
    BY <1>3, <1>4, <1>6 DEF DeletersHaveThread
<1>8. InsertersHaveThread'
    BY <1>3, <1>4 DEF IInv, InsertersHaveThread
<1>9. ReplacementIsWhole'
    <2> SUFFICES ASSUME NEW u \in Threads, NEW d \in Calls, lastDelete'[u] = d
                 PROVE  /\ Surviving(d, u)' = [i \in 1..stored'[d] |-> i]
                        /\ stage'[d] = "done" => stored'[d] = size'[d]
        BY DEF ReplacementIsWhole
    <2>1. d # None /\ lastDelete[u] = d /\ thread[d] = u
        BY <1>3, <1>6, AgentStoreAssumption
    <2>2. /\ Surviving(d, u) = [i \in 1..stored[d] |-> i]
          /\ stage[d] = "done" => stored[d] = size[d]
        BY <2>1 DEF IInv, ReplacementIsWhole
    <2>3. CASE d = c
        <3> DEFINE n == stored[c]
        <3>1. Surviving(d, u)' = Append(Surviving(d, u), n + 1)
            BY <1>1, <1>2, <2>1, <2>3, InsertExtends
        <3>2. n \in Nat /\ Surviving(d, u) = [i \in 1..n |-> i] /\ stored'[d] = n + 1
            BY <1>4, <2>2, <2>3
        <3> HIDE DEF n
        <3>3. Append([i \in 1..n |-> i], n + 1) = [i \in 1..(n + 1) |-> i]
            BY <3>2
        <3> QED BY <1>3, <1>4, <2>3, <3>1, <3>2, <3>3
    <2>4. CASE d # c
        <3>1. Surviving(d, u)' = Surviving(d, u)
            BY <1>1, <1>2, <2>4, InsertExtends
        <3> QED BY <1>3, <1>4, <2>2, <2>4, <3>1
    <2> QED BY <2>3, <2>4
<1> QED BY <1>1, <1>5, <1>7, <1>8, <1>9 DEF IInv

\* A call that fails leaves what it has stored.
LEMMA FailKeepsInv ==
    ASSUME IInv, NEW c \in Calls, InsertFails(c)
    PROVE  IInv'
<1>1. TypeOK
    BY DEF IInv
<1>2. \A d \in Calls : stage'[d] = IF d = c THEN "failed" ELSE stage[d]
    BY <1>1 DEF InsertFails, TypeOK
<1>3. UNCHANGED <<table, thread, size, stored, lastDelete>>
    BY DEF InsertFails
<1>4. TypeOK'
    BY <1>1 DEF InsertFails, TypeOK, Stages
<1>5. UncalledIsUnseen' /\ InsertersHaveThread'
    BY <1>2, <1>3 DEF IInv, UncalledIsUnseen, InsertersHaveThread
<1>6. \A u \in Threads : lastDelete[u] # None =>
          lastDelete[u] \in Calls /\ stage[lastDelete[u]] # "none" /\ thread[lastDelete[u]] = u
    BY <1>1 DEF IInv, DeletersHaveThread, TypeOK
<1>7. DeletersHaveThread'
    BY <1>2, <1>3, <1>6 DEF DeletersHaveThread
<1>8. \A u \in Threads, d \in Calls : Surviving(d, u)' = Surviving(d, u)
    BY <1>3 DEF Surviving, RowsOf
<1>9. ReplacementIsWhole'
    BY <1>2, <1>3, <1>8 DEF IInv, ReplacementIsWhole
<1> QED BY <1>4, <1>5, <1>7, <1>9 DEF IInv

\* The invariant is inductive.
LEMMA NextKeepsInv == IInv /\ [Next]_vars => IInv'
<1> SUFFICES ASSUME IInv, [Next]_vars
             PROVE  IInv'
    OBVIOUS
<1>1. ASSUME NEW c \in Calls, NEW t \in Threads, AppendMessage(c, t)
      PROVE  IInv'
    BY <1>1, AppendKeepsInv
<1>2. ASSUME NEW c \in Calls, NEW t \in Threads, NEW n \in 0..MaxNew, ClearAndReplace(c, t, n)
      PROVE  IInv'
    BY <1>2, ClearKeepsInv
<1>3. ASSUME NEW c \in Calls, InsertNext(c)
      PROVE  IInv'
    BY <1>3, InsertNextKeepsInv
<1>4. ASSUME NEW c \in Calls, InsertFails(c)
      PROVE  IInv'
    BY <1>4, FailKeepsInv
<1>5. CASE UNCHANGED vars
    <2>1. \A u \in Threads, d \in Calls : Surviving(d, u)' = Surviving(d, u)
        BY <1>5 DEF vars, Surviving, RowsOf
    <2>2. TypeOK' /\ UncalledIsUnseen' /\ DeletersHaveThread' /\ InsertersHaveThread'
        BY <1>5 DEF vars, IInv, TypeOK, UncalledIsUnseen, DeletersHaveThread, InsertersHaveThread
    <2>3. ReplacementIsWhole'
        BY <1>5, <2>1 DEF vars, IInv, ReplacementIsWhole
    <2> QED BY <2>2, <2>3 DEF IInv
<1> QED BY <1>1, <1>2, <1>3, <1>4, <1>5 DEF Next

-----------------------------------------------------------------------------

\* In every reachable state of the message store the invariant holds.
THEOREM InvariantHolds == Spec => []IInv
<1>1. Init => IInv
    BY InitIsGood
<1>2. IInv /\ [Next]_vars => IInv'
    BY NextKeepsInv
<1> QED BY <1>1, <1>2, PTL DEF Spec

\* The table and the calls keep their types, and a call that inserts has messages left.
THEOREM TypeCorrect == Spec => []TypeOK
<1>1. IInv => TypeOK
    BY DEF IInv
<1> QED BY <1>1, InvariantHolds, PTL

\* Unless another call deletes the thread's rows, the messages of a replace_history stand
\* in the thread's history in order and without a hole, whatever other loops append and
\* whichever rowids are reused, and all of them when it has returned without an error.
THEOREM ReplacementsAreWhole == Spec => []ReplacementIsWhole
<1>1. IInv => ReplacementIsWhole
    BY DEF IInv
<1> QED BY <1>1, InvariantHolds, PTL

(***************************************************************************)
(* The refinement of ThreadHistories                                        *)
(***************************************************************************)

\* The histories of all threads, as the refinement mapping has them.
AllHistories == [t \in Threads |-> GetHistory(t)]

\* The empty table has empty histories.
LEMMA InitMaps == Init => Histories!Init
<1> SUFFICES ASSUME Init
             PROVE  \A t \in Threads : GetHistory(t) = <<>>
    BY DEF Histories!Init
<1>1. DOMAIN table = {}
    BY DEF Init
<1>2. \A t \in Threads : RowsOf(t) = {}
    BY <1>1 DEF RowsOf
<1>3. 1..Cardinality({}) = {}
    BY FS_EmptySet, SMT
<1>4. ASSUME NEW t \in Threads
      PROVE  GetHistory(t) = <<>>
    <2>1. DOMAIN GetHistory(t) = {} /\ GetHistory(t) = [i \in {} |-> table[InOrder({})[i]].message]
        BY <1>2, <1>3 DEF GetHistory
    <2> QED BY <2>1, SMT
<1> QED BY <1>4

\* An INSERT extends one history.
LEMMA InsertMaps ==
    ASSUME TypeOK, NEW row \in Rows, Insert(row), TypeOK', NEW c \in Calls
    PROVE  Histories!Extend(row.thread, row.message)
<1>1. \A t \in Threads : GetHistory(t)' = IF t = row.thread THEN Append(GetHistory(t), row.message)
                                                            ELSE GetHistory(t)
    BY InsertExtends
<1>2. AllHistories' = [AllHistories EXCEPT ![row.thread] = Append(AllHistories[row.thread], row.message)]
    BY <1>1 DEF AllHistories, Rows
<1> QED BY <1>2 DEF Histories!Extend, AllHistories

\* A DELETE empties one history.
LEMMA DeleteMaps ==
    ASSUME TypeOK, NEW u \in Threads, DeleteThread(u), TypeOK', NEW c \in Calls
    PROVE  Histories!Empty(u)
<1>1. \A t \in Threads : GetHistory(t)' = IF t = u THEN <<>> ELSE GetHistory(t)
    BY DeleteEmpties
<1>2. AllHistories' = [AllHistories EXCEPT ![u] = <<>>]
    BY <1>1 DEF AllHistories
<1> QED BY <1>2 DEF Histories!Empty, AllHistories

\* Every step of the store is a step of the histories, or leaves them as they are.
LEMMA NextMaps == IInv /\ IInv' /\ [Next]_vars => [Histories!Next]_AllHistories
<1> SUFFICES ASSUME IInv, IInv', [Next]_vars
             PROVE  Histories!Next \/ UNCHANGED AllHistories
    OBVIOUS
<1>0. TypeOK /\ TypeOK' /\ InsertersHaveThread
    BY DEF IInv
<1>1. ASSUME NEW row \in Rows, NEW c \in Calls, Insert(row)
      PROVE  Histories!Next
    <2>1. Histories!Extend(row.thread, row.message)
        BY <1>0, <1>1, InsertMaps
    <2> QED BY <2>1 DEF Histories!Next, Rows
<1>2. ASSUME NEW c \in Calls, NEW t \in Threads, AppendMessage(c, t)
      PROVE  Histories!Next
    <2>1. [thread |-> t, message |-> [call |-> c, index |-> 1]] \in Rows
        BY <1>0, <1>2, AppendKeepsTypes
    <2> QED BY <1>1, <1>2, <2>1 DEF AppendMessage
<1>3. ASSUME NEW c \in Calls, NEW t \in Threads, NEW n \in 0..MaxNew, ClearAndReplace(c, t, n)
      PROVE  Histories!Next
    <2>1. Histories!Empty(t)
        BY <1>0, <1>3, DeleteMaps DEF ClearAndReplace
    <2> QED BY <2>1 DEF Histories!Next
<1>4. ASSUME NEW c \in Calls, InsertNext(c)
      PROVE  Histories!Next
    <2>1. [thread |-> thread[c], message |-> [call |-> c, index |-> stored[c] + 1]] \in Rows
        BY <1>0, <1>4, InsertNextKeepsTypes
    <2> QED BY <1>1, <1>4, <2>1 DEF InsertNext
<1>5. ASSUME table' = table
      PROVE  UNCHANGED AllHistories
    BY <1>5 DEF AllHistories, GetHistory, RowsOf
<1>6. ASSUME NEW c \in Calls, InsertFails(c)
      PROVE  UNCHANGED AllHistories
    BY <1>5, <1>6 DEF InsertFails
<1>7. CASE UNCHANGED vars
    BY <1>5, <1>7 DEF vars
<1> QED BY <1>2, <1>3, <1>4, <1>6, <1>7 DEF Next

\* Whatever the calls do to the table, and although rowids are reused, the history of each
\* thread only grows at its end, by one message, or is emptied, and a statement on one
\* thread changes no other thread's history.
THEOREM StoreImplementsHistories == Spec => ImplementsHistories
<1>1. Init => Histories!Init
    BY InitMaps
<1>2. IInv /\ IInv' /\ [Next]_vars => [Histories!Next]_AllHistories
    BY NextMaps
<1>3. [Histories!Next]_AllHistories <=> [Histories!Next]_([t \in Threads |-> GetHistory(t)])
    BY DEF AllHistories
<1> QED BY <1>1, <1>2, <1>3, InvariantHolds, PTL DEF Spec, ImplementsHistories, Histories!Spec
=============================================================================
