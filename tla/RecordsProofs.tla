------------------------------ MODULE RecordsProofs ------------------------------
(***************************************************************************)
(* Theorems about the paged lists: for any table, page size and number of  *)
(* changes, what a walk through the pages can miss.  And about all records *)
(* together: what is proved of PairMetrics, Accounts, Reports and Listings *)
(* holds of their composition in MCRecords.                                *)
(***************************************************************************)
EXTENDS MCRecords, PairMetricsProofs, AccountsProofs, ReportsProofs, FiniteSetTheorems, TLAPS

\* The rows listed before row i.
Above(i) == {j \in Listed : key[j] > key[i]}
Rank(i) == Cardinality(Above(i))

\* The rows the walk has missed: there all along, and within the pages read.
Missed == {i \in kept \ walk.seen : Rank(i) < Offset(walk.page)}

ListingsInv ==
    /\ ListingsTypeOK
    /\ ~tied => ~Tied
    /\ walk.state = "idle" => walk.page = 1
    /\ Walking => kept \subseteq Listed
    /\ Walking /\ ~tied => Cardinality(Missed) <= shifts
    /\ walk.state = "counted" => Cardinality(Listed) <= walk.total + late
    /\ NoneSkipped

-----------------------------------------------------------------------------
(* Counting *)

\* There are finitely many rows.
LEMMA RowsFinite ==
    ASSUME NEW S, S \subseteq Ids
    PROVE  IsFiniteSet(S) /\ Cardinality(S) \in 0..Cardinality(Ids)
<1>1. IsFiniteSet(Ids)
  BY ListingsAssumption
<1>2. IsFiniteSet(S) /\ Cardinality(S) <= Cardinality(Ids)
  BY <1>1, FS_Subset
<1> QED BY <1>1, <1>2, FS_CardinalityType

\* What one set has more than another is among the elements added to it.
LEMMA AddedAtMost ==
    ASSUME NEW S, NEW T, NEW D, S \subseteq Ids, T \subseteq Ids, D \subseteq Ids,
           S \subseteq T \cup D
    PROVE  Cardinality(S) <= Cardinality(T) + Cardinality(D)
<1>1. IsFiniteSet(T) /\ IsFiniteSet(D) /\ IsFiniteSet(T \cup D) /\ IsFiniteSet(T \cap D)
  BY RowsFinite, FS_Subset
<1>2. Cardinality(T \cup D) = Cardinality(T) + Cardinality(D) - Cardinality(T \cap D)
  BY <1>1, FS_Union
<1>3. Cardinality(S) <= Cardinality(T \cup D)
  BY <1>1, FS_Subset
<1>4. /\ Cardinality(S) \in Nat /\ Cardinality(T) \in Nat /\ Cardinality(D) \in Nat
      /\ Cardinality(T \cap D) \in Nat
  BY <1>1, RowsFinite, FS_CardinalityType
<1> QED BY <1>2, <1>3, <1>4

\* The same for one element.
LEMMA AddedOne ==
    ASSUME NEW S, NEW T, NEW i \in Ids, S \subseteq Ids, T \subseteq Ids, S \subseteq T \cup {i}
    PROVE  Cardinality(S) <= Cardinality(T) + 1
<1>1. Cardinality({i}) = 1
  BY FS_Singleton
<1> QED BY <1>1, AddedAtMost

LEMMA RankType ==
    ASSUME NEW i
    PROVE  Above(i) \subseteq Ids /\ Rank(i) \in 0..Cardinality(Ids)
BY RowsFinite DEF Above, Rank, Listed

\* Rows with different keys have different ranks, in the order of the list.
LEMMA RankOrder ==
    ASSUME ListingsTypeOK, NEW i \in Listed, NEW j \in Listed, key[i] > key[j]
    PROVE  Rank(i) < Rank(j)
<1>1. Above(i) \subseteq Above(j) /\ i \in Above(j) /\ i \notin Above(i)
  BY DEF Above, ListingsTypeOK, Listed
<1>2. IsFiniteSet(Above(j))
  BY RankType, RowsFinite
<1>3. Rank(i) <= Rank(j) /\ Rank(i) # Rank(j)
  BY <1>1, <1>2, FS_Subset DEF Rank
<1> QED BY <1>3, RankType

\* Disjoint sets of rows count separately.
LEMMA CountApart ==
    ASSUME NEW S, NEW T, S \subseteq Ids, T \subseteq Ids, S \cap T = {}
    PROVE  Cardinality(S \cup T) = Cardinality(S) + Cardinality(T)
<1>1. IsFiniteSet(S) /\ IsFiniteSet(T)
  BY RowsFinite
<1>2. Cardinality(S \cup T) = Cardinality(S) + Cardinality(T) - Cardinality(S \cap T)
  BY <1>1, FS_Union
<1>3. Cardinality(S \cap T) = 0
  BY FS_EmptySet
<1>4. Cardinality(S) \in Nat /\ Cardinality(T) \in Nat
  BY <1>1, FS_CardinalityType
<1> QED BY <1>2, <1>3, <1>4

\* So a range of ranks holds no more rows than ranks.
LEMMA RanksDiffer ==
    ASSUME ListingsTypeOK, ~Tied, NEW a \in Nat, NEW n \in Nat
    PROVE  Cardinality({i \in Listed : a <= Rank(i) /\ Rank(i) < a + n}) <= n
<1> DEFINE S == {i \in Listed : a <= Rank(i) /\ Rank(i) < a + n}
           rank == [i \in S |-> Rank(i)]
<1>1. rank \in [S -> a..(a + n - 1)]
  BY RankType
<1>2. ASSUME NEW i \in S, NEW j \in S, i # j PROVE rank[i] # rank[j]
  <2>1. key[i] \in Nat /\ key[j] \in Nat /\ key[i] # key[j]
    BY <1>2 DEF Tied, Listed, ListingsTypeOK
  <2>2. Rank(i) < Rank(j) \/ Rank(j) < Rank(i)
    BY <2>1, RankOrder
  <2> QED BY <2>2, RankType
<1>3. rank \in Injection(S, a..(a + n - 1))
  BY <1>1, <1>2 DEF Injection, IsInjective
<1>4. IsFiniteSet(a..(a + n - 1)) /\ Cardinality(a..(a + n - 1)) = n
  BY FS_Interval
<1> QED BY <1>3, <1>4, FS_Injection

-----------------------------------------------------------------------------
(* The writers *)

\* The offset is a number, and grows by a page.
LEMMA OffsetType ==
    ASSUME NEW page \in Nat \ {0}
    PROVE  /\ Offset(page) \in Nat
           /\ Offset(page + 1) = Offset(page) + PageSize
           /\ page * PageSize = Offset(page) + PageSize
           /\ page <= page * PageSize
<1>1. PageSize \in Nat /\ PageSize >= 1
  BY ListingsAssumption
<1> QED BY <1>1, Z3 DEF Offset

\* Few enough shifts were made for one more change.
LEMMA ShiftsType ==
    ASSUME NEW n \in 0..Cardinality(Ids), NEW m \in Nat, m < MaxShifts
    PROVE  m + n \in 0..(MaxShifts * Cardinality(Ids))
<1>1. Cardinality(Ids) \in Nat /\ Cardinality(Ids) # 0 /\ MaxShifts \in Nat
  BY ListingsAssumption, FS_CardinalityType, FS_EmptySet
<1> DEFINE c == Cardinality(Ids)
<1> HIDE DEF c
<1>2. (MaxShifts - 1) * c >= MaxShifts - 1
  BY <1>1, Z3 DEF c
<1>3. MaxShifts * c = (MaxShifts - 1) * c + c
  BY <1>1, Z3 DEF c
<1>4. (MaxShifts - 1) * c \in Int
  BY <1>1 DEF c
<1> QED BY <1>1, <1>2, <1>3, <1>4 DEF c

\* An inserted row pushes others back, and is not one the walk relies on.
LEMMA AddStep ==
    ASSUME ListingsInv, NEW i \in Ids, NEW k \in 1..MaxKey, AddRow(i, k)
    PROVE  ListingsInv'
<1> USE DEF ListingsInv, Walking
<1>1. ListingsTypeOK'
  BY ListingsAssumption DEF AddRow, Disturb, ListingsTypeOK
<1>2. Listed' = Listed \cup {i} /\ \A j \in Listed : key'[j] = key[j]
  BY DEF AddRow, Listed, ListingsTypeOK
<1>3. (~tied => ~Tied)'
  BY DEF AddRow
<1>4. (Walking => kept \subseteq Listed)'
  BY <1>2 DEF AddRow
<1>5. (Walking /\ ~tied => Cardinality(Missed) <= shifts)'
  <2> SUFFICES ASSUME Walking, ~tied PROVE Cardinality(Missed') <= shifts
    BY DEF AddRow
  <2>1. ASSUME NEW j \in kept PROVE Rank(j) <= Rank(j)'
    <3>1. Above(j) \subseteq Above(j)'
      BY <1>2, <2>1 DEF Above
    <3>2. Above(j)' \subseteq Ids
      BY DEF Above, Listed
    <3> QED BY <3>1, <3>2, RowsFinite, FS_Subset DEF Rank
  <2>2. Missed' \subseteq Missed /\ Missed \subseteq Ids
    <3>1. Offset(walk.page)' = Offset(walk.page) /\ walk.page \in Nat \ {0}
      BY DEF AddRow, Offset, ListingsTypeOK
    <3>2. \A j \in kept : Rank(j) \in Nat /\ Rank(j)' \in Nat
      <4>1. \A j : Above(j)' \subseteq Ids
        BY DEF Above, Listed
      <4> QED BY <4>1, RankType, RowsFinite DEF Rank
    <3> QED BY <2>1, <3>1, <3>2, OffsetType DEF Missed, AddRow, ListingsTypeOK
  <2>3. Cardinality(Missed') <= Cardinality(Missed)
    BY <2>2, RowsFinite, FS_Subset
  <2>4. Cardinality(Missed) \in Nat /\ Cardinality(Missed') \in Nat /\ shifts \in Nat
    BY <2>2, RowsFinite DEF ListingsTypeOK
  <2> QED BY <2>3, <2>4
<1>6. (walk.state = "counted" => Cardinality(Listed) <= walk.total + late)'
  <2> SUFFICES ASSUME walk.state = "counted" PROVE Cardinality(Listed') <= walk.total + late'
    BY DEF AddRow
  <2>1. Listed \subseteq Ids /\ Listed' \subseteq Ids
    BY DEF Listed
  <2>2. Cardinality(Listed') <= Cardinality(Listed) + 1
    BY <1>2, <2>1, AddedOne
  <2>3. /\ Cardinality(Listed) \in Nat /\ Cardinality(Listed') \in Nat
        /\ late \in Nat /\ walk.total \in Nat /\ late' = late + 1
    BY <2>1, RowsFinite, FS_CardinalityType, ListingsAssumption DEF AddRow, ListingsTypeOK
  <2> QED BY <2>2, <2>3
<1>7. NoneSkipped' /\ (walk.state = "idle" => walk.page = 1)'
  BY DEF AddRow, Disturb, NoneSkipped
<1> QED BY <1>1, <1>3, <1>4, <1>5, <1>6, <1>7

\* What the walk has missed after rows were moved or removed, if all others were
\* missed before.
LEMMA MissedGrows ==
    ASSUME ListingsTypeOK, NEW D, D \subseteq Ids, NEW n \in Nat, Cardinality(D) <= n,
           Cardinality(Missed) <= shifts, shifts' = shifts + n, Missed' \subseteq Missed \cup D
    PROVE  Cardinality(Missed') <= shifts'
<1>1. Missed \subseteq Ids
  BY DEF Missed, ListingsTypeOK
<1>2. Cardinality(Missed') <= Cardinality(Missed) + Cardinality(D)
  BY <1>1, AddedAtMost
<1>3. /\ Cardinality(Missed) \in Nat /\ Cardinality(D) \in Nat
      /\ Cardinality(Missed') \in Nat /\ shifts \in Nat
  <2>1. Missed' \subseteq Ids
    BY <1>1
  <2> QED BY <1>1, <2>1, RowsFinite DEF ListingsTypeOK
<1> QED BY <1>2, <1>3

\* A row that moves up comes among those read, or one that moves down lets the
\* next one in: not both.
LEMMA MoveStep ==
    ASSUME ListingsInv, NEW i \in Ids, NEW k \in 1..MaxKey, MoveRow(i, k)
    PROVE  ListingsInv'
<1> USE DEF ListingsInv, Walking
<1>1. /\ Listed' = Listed /\ i \in Listed /\ key'[i] = k
      /\ \A j \in Ids : j # i => key'[j] = key[j]
  BY ListingsAssumption DEF MoveRow, Listed, ListingsTypeOK
<1>2. ListingsTypeOK'
  <2>1. key' \in [Ids -> 0..MaxKey]
    BY ListingsAssumption DEF MoveRow, ListingsTypeOK
  <2>2. tied' \in BOOLEAN
    BY DEF MoveRow, ListingsTypeOK
  <2>3. shifts' \in 0..(MaxShifts * Cardinality(Ids))
    <3>1. CASE Walking
      <4>1. shifts \in Nat /\ shifts < MaxShifts /\ shifts' = shifts + 1
        BY <3>1, ListingsAssumption DEF MoveRow, Disturb, ListingsTypeOK
      <4>2. 1 \in 0..Cardinality(Ids)
        BY ListingsAssumption, FS_CardinalityType, FS_EmptySet
      <4> QED BY <4>1, <4>2, ShiftsType
    <3>2. CASE ~Walking
      BY <3>2 DEF MoveRow, ListingsTypeOK
    <3> QED BY <3>1, <3>2
  <2> QED BY <2>1, <2>2, <2>3 DEF MoveRow, ListingsTypeOK
<1>3. (~tied => ~Tied)'
  BY DEF MoveRow
<1>4. (Walking => kept \subseteq Listed)'
  BY <1>1 DEF MoveRow
<1>5. (Walking /\ ~tied => Cardinality(Missed) <= shifts)'
  <2> SUFFICES ASSUME Walking, ~tied PROVE Cardinality(Missed') <= shifts'
    BY DEF MoveRow
  <2> DEFINE O == Offset(walk.page)
  <2>1. O \in Nat /\ Offset(walk.page)' = O
    BY OffsetType DEF ListingsTypeOK, MoveRow, Offset
  <2>2. \A j : Rank(j) \in Nat /\ Rank(j)' \in Nat
    <3>1. \A j : Above(j)' \subseteq Ids
      BY DEF Above, Listed
    <3> QED BY <3>1, RankType, RowsFinite DEF Rank
  <2> HIDE DEF O
  <2>3. ASSUME NEW j \in Listed, j # i PROVE Rank(j) <= Rank(j)' + 1
    <3>1. Above(j) \subseteq Above(j)' \cup {i} /\ Above(j)' \subseteq Ids
      BY <1>1, <2>3 DEF Above, Listed
    <3> QED BY <3>1, RankType, AddedOne DEF Rank
  <2>4. ASSUME NEW j \in Listed, j # i, i \notin Above(j) PROVE Rank(j) <= Rank(j)'
    <3>1. Above(j) \subseteq Above(j)' /\ Above(j)' \subseteq Ids
      BY <1>1, <2>4 DEF Above, Listed
    <3> QED BY <3>1, RowsFinite, FS_Subset DEF Rank
  <2>5. PICK d \in Ids : Missed' \subseteq Missed \cup {d}
    <3>1. CASE Rank(i) < O
      <4>1. Missed' \subseteq Missed \cup {j \in Listed : O <= Rank(j) /\ Rank(j) < O + 1}
        BY <1>1, <2>1, <2>2, <2>3, <3>1 DEF Missed, MoveRow
      <4> DEFINE D == {j \in Listed : O <= Rank(j) /\ Rank(j) < O + 1}
      <4>2. Cardinality(D) <= 1 /\ IsFiniteSet(D) /\ Cardinality(D) \in Nat /\ D \subseteq Ids
        <5>1. D \subseteq Ids
          BY DEF Listed
        <5>2. Cardinality(D) <= 1
          BY <2>1, RanksDiffer
        <5> QED BY <5>1, <5>2, RowsFinite, FS_CardinalityType
      <4> HIDE DEF D
      <4>3. D = {} \/ \E d : D = {d}
        BY <4>2, FS_EmptySet, FS_Singleton
      <4> QED BY <4>1, <4>2, <4>3 DEF D
    <3>2. CASE ~(Rank(i) < O)
      <4>1. ASSUME NEW j \in Missed', j # i PROVE j \in Missed
        <5>1. j \in Listed /\ Rank(j)' < O /\ j \in kept \ walk.seen
          BY <1>1, <2>1, <4>1 DEF Missed, MoveRow
        <5>2. CASE i \in Above(j)
          <6>1. Rank(i) < Rank(j)
            BY <5>1, <5>2, RankOrder DEF Above, ListingsTypeOK
          <6> QED BY <2>1, <2>2, <2>3, <3>2, <4>1, <5>1, <6>1
        <5>3. CASE i \notin Above(j)
          BY <2>1, <2>2, <2>4, <4>1, <5>1, <5>3 DEF Missed, O
        <5> QED BY <5>2, <5>3
      <4> QED BY <4>1
    <3> QED BY <3>1, <3>2
  <2>6. Cardinality({d}) = 1 /\ shifts' = shifts + 1
    BY FS_Singleton DEF MoveRow
  <2> QED BY <2>5, <2>6, MissedGrows
<1>6. (walk.state = "counted" => Cardinality(Listed) <= walk.total + late)'
  BY <1>1 DEF MoveRow
<1>7. NoneSkipped' /\ (walk.state = "idle" => walk.page = 1)'
  BY DEF MoveRow, Disturb, NoneSkipped
<1> QED BY <1>2, <1>3, <1>4, <1>5, <1>6, <1>7

\* Rows that go let at most as many others come among those read.
LEMMA RemoveStep ==
    ASSUME ListingsInv, NEW S \in SUBSET Ids, RemoveRows(S)
    PROVE  ListingsInv'
<1> USE DEF ListingsInv, Walking
<1>0. Cardinality(S) \in 0..Cardinality(Ids)
  BY RowsFinite
<1>1. Listed' = Listed \ S /\ \A j \in Ids \ S : key'[j] = key[j]
  BY DEF RemoveRows, Listed, ListingsTypeOK
<1>2. ListingsTypeOK'
  <2>1. key' \in [Ids -> 0..MaxKey]
    BY ListingsAssumption DEF RemoveRows, ListingsTypeOK
  <2>2. shifts' \in 0..(MaxShifts * Cardinality(Ids))
    <3>1. CASE Walking
      <4>1. shifts \in Nat /\ shifts < MaxShifts /\ shifts' = shifts + Cardinality(S)
        BY <3>1, ListingsAssumption DEF RemoveRows, Disturb, ListingsTypeOK
      <4> QED BY <1>0, <4>1, ShiftsType
    <3>2. CASE ~Walking
      BY <3>2 DEF RemoveRows, ListingsTypeOK
    <3> QED BY <3>1, <3>2
  <2> QED BY <2>1, <2>2 DEF RemoveRows, ListingsTypeOK
<1>3. (~tied => ~Tied)'
  BY <1>1 DEF RemoveRows, Tied, Listed, ListingsTypeOK
<1>4. (Walking => kept \subseteq Listed)'
  BY <1>1 DEF RemoveRows
<1>5. (Walking /\ ~tied => Cardinality(Missed) <= shifts)'
  <2> SUFFICES ASSUME Walking, ~tied PROVE Cardinality(Missed') <= shifts'
    BY DEF RemoveRows
  <2> DEFINE O == Offset(walk.page)
             n == Cardinality(S)
             D == {j \in Listed : O <= Rank(j) /\ Rank(j) < O + n}
  <2>1. O \in Nat /\ Offset(walk.page)' = O /\ n \in Nat
    BY <1>0, OffsetType DEF ListingsTypeOK, RemoveRows, Offset
  <2>2. \A j : Rank(j) \in Nat /\ Rank(j)' \in Nat /\ Above(j)' \subseteq Ids
    <3>1. \A j : Above(j)' \subseteq Ids
      BY DEF Above, Listed
    <3> QED BY <3>1, RankType, RowsFinite DEF Rank
  <2>3. ASSUME NEW j \in Listed \ S PROVE Rank(j) <= Rank(j)' + n
    <3>1. Above(j) \subseteq Above(j)' \cup S
      BY <1>1, <2>3 DEF Above, Listed
    <3> QED BY <2>2, <3>1, RankType, AddedAtMost DEF Rank
  <2>4. Cardinality(D) <= n /\ Cardinality(D) \in Nat /\ D \subseteq Ids
    <3>1. D \subseteq Ids
      BY DEF Listed
    <3>2. Cardinality(D) <= n
      BY <2>1, RanksDiffer
    <3> QED BY <3>1, <3>2, RowsFinite
  <2> HIDE DEF O, n
  <2>5. Missed' \subseteq Missed \cup D
    <3> SUFFICES ASSUME NEW j \in Missed', j \notin Missed PROVE j \in D
      OBVIOUS
    <3>1. j \in Listed \ S /\ Rank(j)' < O /\ j \in kept \ walk.seen
      BY <1>1, <2>1 DEF Missed, RemoveRows
    <3>2. ~(Rank(j) < O)
      BY <3>1 DEF Missed, O
    <3> QED BY <2>1, <2>2, <2>3, <3>1, <3>2
  <2> HIDE DEF D
  <2>6. shifts' = shifts + n
    BY DEF RemoveRows, n
  <2> QED BY <2>1, <2>4, <2>5, <2>6, MissedGrows
<1>6. (walk.state = "counted" => Cardinality(Listed) <= walk.total + late)'
  <2> SUFFICES ASSUME walk.state = "counted" PROVE Cardinality(Listed') <= walk.total + late
    BY DEF RemoveRows
  <2>1. Listed \subseteq Ids /\ Listed' \subseteq Listed
    BY <1>1 DEF Listed
  <2>2. Cardinality(Listed') <= Cardinality(Listed)
    BY <2>1, RowsFinite, FS_Subset
  <2>3. /\ Cardinality(Listed) \in Nat /\ Cardinality(Listed') \in Nat
        /\ late \in Nat /\ walk.total \in Nat
    BY <2>1, RowsFinite, ListingsAssumption, FS_CardinalityType DEF ListingsTypeOK
  <2> QED BY <2>2, <2>3
<1>7. NoneSkipped' /\ (walk.state = "idle" => walk.page = 1)'
  BY DEF RemoveRows, Disturb, NoneSkipped
<1> QED BY <1>2, <1>3, <1>4, <1>5, <1>6, <1>7

-----------------------------------------------------------------------------
(* The client and its requests *)

\* The walk begins before the first row.
LEMMA BeginStep == ListingsInv /\ BeginWalk => ListingsInv'
<1> SUFFICES ASSUME ListingsInv, BeginWalk PROVE ListingsInv'
  OBVIOUS
<1> USE DEF ListingsInv, Walking
<1>1. /\ walk' = [walk EXCEPT !.state = "request"] /\ walk.page = 1 /\ kept' = Listed /\ tied' = Tied
      /\ key' = key /\ late' = 0 /\ shifts' = shifts
  BY DEF BeginWalk
<1>2. ListingsTypeOK'
  BY <1>1, ListingsAssumption DEF ListingsTypeOK, Listed, Tied
<1>3. walk'.state = "request" /\ walk'.page = 1
  BY <1>1 DEF ListingsTypeOK
<1>4. Listed' = Listed /\ Tied' = Tied
  BY <1>1 DEF Listed, Tied
<1>5. Missed' = {}
  <2>1. Offset(walk'.page) = 0
    BY <1>3, ListingsAssumption DEF Offset
  <2>2. \A i : Rank(i)' \in Nat
    <3>1. \A i : Above(i)' \subseteq Ids
      BY DEF Above, Listed
    <3> QED BY <3>1, RowsFinite DEF Rank
  <2> QED BY <2>1, <2>2 DEF Missed
<1>6. Cardinality(Missed') <= shifts'
  BY <1>1, <1>5, FS_EmptySet DEF ListingsTypeOK
<1> QED BY <1>1, <1>2, <1>3, <1>4, <1>6 DEF NoneSkipped

\* The total is that of the moment.
LEMMA CountStep == ListingsInv /\ CountRows => ListingsInv'
<1> SUFFICES ASSUME ListingsInv, CountRows PROVE ListingsInv'
  OBVIOUS
<1> USE DEF ListingsInv, Walking
<1>1. /\ walk' = [walk EXCEPT !.state = "counted", !.total = Cardinality(Listed)]
      /\ late' = 0 /\ UNCHANGED <<key, kept, shifts, tied>> /\ walk.state = "request"
  BY DEF CountRows
<1>2. Cardinality(Listed) \in 0..Cardinality(Ids)
  BY RowsFinite DEF Listed
<1>3. ListingsTypeOK'
  <2> DEFINE n == Cardinality(Listed)
  <2>1. n \in 0..Cardinality(Ids) /\ walk' = [walk EXCEPT !.state = "counted", !.total = n]
    BY <1>1, <1>2
  <2> HIDE DEF n
  <2>2. walk' \in [state : {"idle", "request", "counted", "done"},
                  page : 1..(Cardinality(Ids) + 1), total : 0..Cardinality(Ids),
                  seen : SUBSET Ids]
    BY <2>1 DEF ListingsTypeOK
  <2> QED BY <1>1, <2>2, ListingsAssumption DEF ListingsTypeOK
<1>4. /\ walk'.state = "counted" /\ walk'.total = Cardinality(Listed)
      /\ walk'.page = walk.page /\ walk'.seen = walk.seen
  BY <1>1 DEF ListingsTypeOK
<1>5. Listed' = Listed /\ Tied' = Tied /\ Missed' = Missed
  BY <1>1, <1>4 DEF Listed, Tied, Missed, Rank, Above, Offset
<1>6. Cardinality(Listed') <= walk'.total + late'
  BY <1>1, <1>2, <1>4, <1>5
<1> QED BY <1>1, <1>3, <1>4, <1>5, <1>6 DEF NoneSkipped

\* The rows after a page are those with a rank beyond it, and those before it have
\* a rank below its offset; nothing is left only where the list ends.
LEMMA PageRanks ==
    ASSUME ListingsTypeOK, ~Tied, NEW page \in Nat \ {0},
           NEW S \in SUBSET Listed, IsPage(S, page)
    PROVE  \E rest \in SUBSET Listed :
             /\ \A i \in rest : Rank(i) >= Offset(page) + PageSize
             /\ \A i \in Listed \ (S \cup rest) : Rank(i) < Offset(page)
             /\ rest # {} => Cardinality(rest) + page * PageSize <= Cardinality(Listed)
<1> DEFINE O == Offset(page)
           n == Cardinality(Listed)
<1>1. PICK before \in SUBSET (Listed \ S) :
        /\ Cardinality(before) = AtMost(O, n)
        /\ Cardinality(S) = AtMost(PageSize, n - Cardinality(before))
        /\ InOrder(before) /\ InOrder(before \cup S)
  BY DEF IsPage
<1> DEFINE rest == Listed \ (before \cup S)
<1>2. /\ Listed \subseteq Ids /\ O \in Nat /\ PageSize \in Nat \ {0} /\ n \in Nat
      /\ page * PageSize = O + PageSize
  BY OffsetType, RowsFinite, ListingsAssumption, FS_CardinalityType DEF Listed
<1>3. /\ IsFiniteSet(before) /\ IsFiniteSet(S) /\ IsFiniteSet(rest) /\ IsFiniteSet(before \cup S)
      /\ Cardinality(before) \in Nat /\ Cardinality(S) \in Nat
      /\ Cardinality(rest) \in Nat /\ Cardinality(before \cup S) \in Nat
  BY <1>2, RowsFinite
<1>4. Cardinality(before \cup S) = Cardinality(before) + Cardinality(S)
  BY <1>2, CountApart
<1>5. n = Cardinality(before \cup S) + Cardinality(rest)
  <2>1. Listed = (before \cup S) \cup rest /\ (before \cup S) \cap rest = {}
    OBVIOUS
  <2> QED BY <1>2, <2>1, CountApart
<1> HIDE DEF O, n
<1>6. Cardinality(before \cup S) = AtMost(O + PageSize, n) /\ Cardinality(before) <= O
  BY <1>1, <1>2, <1>3, <1>4 DEF AtMost
<1>7. ASSUME NEW i \in rest PROVE Rank(i) >= O + PageSize
  <2>1. before \cup S \subseteq Above(i)
    <3> SUFFICES ASSUME NEW j \in before \cup S PROVE key[j] > key[i]
      BY DEF Above
    <3>1. key[j] >= key[i] /\ key[j] # key[i] /\ key[i] \in Nat /\ key[j] \in Nat
      BY <1>1, <1>2 DEF InOrder, Tied, ListingsTypeOK
    <3> QED BY <3>1
  <2>2. Cardinality(before \cup S) <= Rank(i)
    BY <2>1, RankType, RowsFinite, FS_Subset DEF Rank
  <2>3. Cardinality(rest) # 0
    BY <1>3, FS_EmptySet
  <2> QED BY <1>2, <1>3, <1>5, <1>6, <2>2, <2>3, RankType DEF AtMost
<1>8. ASSUME NEW i \in before PROVE Rank(i) < O
  <2>1. Above(i) \subseteq before /\ i \notin Above(i)
    <3>1. \A j \in Listed \ before : ~(key[j] > key[i])
      BY <1>1, <1>2 DEF InOrder, ListingsTypeOK
    <3>2. ~(key[i] > key[i])
      BY <1>2 DEF ListingsTypeOK
    <3> QED BY <3>1, <3>2 DEF Above
  <2>2. Rank(i) <= Cardinality(before) /\ Rank(i) # Cardinality(before)
    BY <1>3, <2>1, FS_Subset DEF Rank
  <2> QED BY <1>2, <1>3, <1>6, <2>2, RankType
<1>9. rest # {} => Cardinality(rest) + O + PageSize <= n
  <2> SUFFICES ASSUME rest # {} PROVE Cardinality(rest) + O + PageSize <= n
    OBVIOUS
  <2>1. Cardinality(rest) # 0
    BY <1>3, FS_EmptySet
  <2> QED BY <1>2, <1>3, <1>5, <1>6, <2>1 DEF AtMost
<1>10. Listed \ (S \cup rest) \subseteq before
  OBVIOUS
<1>11. /\ \A i \in rest : Rank(i) >= Offset(page) + PageSize
       /\ \A i \in Listed \ (S \cup rest) : Rank(i) < Offset(page)
       /\ rest # {} => Cardinality(rest) + page * PageSize <= Cardinality(Listed)
  BY <1>2, <1>3, <1>7, <1>8, <1>9, <1>10 DEF O, n
<1> QED BY <1>11

\* After a page, what was missed before is missed, and at the end what was
\* inserted since the rows were counted.
LEMMA FetchStep == ListingsInv /\ FetchPage => ListingsInv'
<1> SUFFICES ASSUME ListingsInv, FetchPage PROVE ListingsInv'
  OBVIOUS
<1> USE DEF ListingsInv, Walking
<1> DEFINE ending == walk.page * PageSize >= walk.total
<1>1. PICK S \in SUBSET Listed :
        /\ IsPage(S, walk.page)
        /\ walk' = [walk EXCEPT !.seen = walk.seen \cup S,
                                !.state = IF ending THEN "done" ELSE "request",
                                !.page = IF ending THEN walk.page ELSE walk.page + 1]
  BY DEF FetchPage
<1>2. walk.state = "counted" /\ UNCHANGED <<key, kept, late, shifts, tied>>
  BY DEF FetchPage
<1>3. /\ walk.page \in 1..(Cardinality(Ids) + 1) /\ walk.page \in Nat \ {0}
      /\ walk.total \in 0..Cardinality(Ids) /\ walk.seen \in SUBSET Ids
      /\ Cardinality(Ids) \in Nat /\ S \subseteq Ids /\ Listed \subseteq Ids
  BY ListingsAssumption, FS_CardinalityType DEF ListingsTypeOK, Listed
<1>4. /\ walk'.state = (IF ending THEN "done" ELSE "request")
      /\ walk'.page = (IF ending THEN walk.page ELSE walk.page + 1)
      /\ walk'.seen = walk.seen \cup S /\ walk'.total = walk.total
  BY <1>1 DEF ListingsTypeOK
<1>5. /\ walk.page * PageSize = Offset(walk.page) + PageSize
      /\ Offset(walk.page + 1) = Offset(walk.page) + PageSize
      /\ walk.page <= walk.page * PageSize /\ Offset(walk.page) \in Nat
      /\ PageSize \in Nat \ {0}
  BY <1>3, OffsetType, ListingsAssumption
<1> HIDE DEF ending
<1>6. ~ending => walk.page < walk.total
  BY <1>3, <1>5 DEF ending
<1>7. ListingsTypeOK'
  <2> DEFINE page == IF ending THEN walk.page ELSE walk.page + 1
             seen == walk.seen \cup S
             state == IF ending THEN "done" ELSE "request"
  <2>1. page \in 1..(Cardinality(Ids) + 1) /\ seen \in SUBSET Ids /\ state \in {"done", "request"}
    BY <1>3, <1>6
  <2>2. walk' = [walk EXCEPT !.seen = seen, !.state = state, !.page = page]
    BY <1>1
  <2> HIDE DEF page, seen, state
  <2>3. walk' \in [state : {"idle", "request", "counted", "done"},
                  page : 1..(Cardinality(Ids) + 1), total : 0..Cardinality(Ids),
                  seen : SUBSET Ids]
    BY <2>1, <2>2 DEF ListingsTypeOK
  <2> QED BY <1>2, <2>3 DEF ListingsTypeOK
<1>8. Listed' = Listed /\ Tied' = Tied /\ \A i : Rank(i)' = Rank(i)
  BY <1>2 DEF Listed, Tied, Rank, Above
<1>9. ASSUME ~tied
      PROVE  \E rest \in SUBSET Listed :
               /\ \A i \in rest : Rank(i) >= Offset(walk.page) + PageSize
               /\ kept' \ walk'.seen \subseteq Missed \cup rest
               /\ rest # {} => Cardinality(rest) + walk.page * PageSize <= Cardinality(Listed)
  <2>1. PICK rest \in SUBSET Listed :
          /\ \A i \in rest : Rank(i) >= Offset(walk.page) + PageSize
          /\ \A i \in Listed \ (S \cup rest) : Rank(i) < Offset(walk.page)
          /\ rest # {} => Cardinality(rest) + walk.page * PageSize <= Cardinality(Listed)
    BY <1>1, <1>3, <1>9, PageRanks
  <2>2. kept' \ walk'.seen \subseteq Missed \cup rest
    BY <1>2, <1>4, <2>1 DEF Missed
  <2> QED BY <2>1, <2>2
<1>10. Missed \subseteq Ids /\ Cardinality(Missed) \in Nat /\ shifts \in Nat /\ late \in Nat
  <2>1. Missed \subseteq Ids
    BY DEF Missed, ListingsTypeOK
  <2> QED BY <2>1, RowsFinite, ListingsAssumption DEF ListingsTypeOK
<1>11. (Walking /\ ~tied => Cardinality(Missed) <= shifts)'
  <2> SUFFICES ASSUME Walking', ~tied PROVE Cardinality(Missed') <= shifts
    BY <1>2
  <2>1. ~ending /\ walk'.page = walk.page + 1
    BY <1>4
  <2>2. PICK rest \in SUBSET Listed :
          /\ \A i \in rest : Rank(i) >= Offset(walk.page) + PageSize
          /\ kept' \ walk'.seen \subseteq Missed \cup rest
    BY <1>9
  <2>3. Missed' \subseteq Missed
    <3> SUFFICES ASSUME NEW i \in Missed' PROVE i \in Missed
      OBVIOUS
    <3>1. i \in Missed \cup rest /\ Rank(i) < Offset(walk.page) + PageSize
      BY <1>5, <1>8, <2>1, <2>2 DEF Missed
    <3>2. i \notin rest
      BY <1>5, <2>2, <3>1, RankType
    <3> QED BY <3>1, <3>2
  <2>4. Cardinality(Missed') <= Cardinality(Missed) /\ Cardinality(Missed') \in Nat
    <3>1. Missed' \subseteq Ids
      BY <1>10, <2>3
    <3> QED BY <1>10, <2>3, <3>1, RowsFinite, FS_Subset
  <2> QED BY <1>2, <1>10, <2>4
<1>12. NoneSkipped'
  <2> SUFFICES ASSUME walk'.state = "done", ~tied
               PROVE  Cardinality(kept' \ walk'.seen) <= late + shifts
    BY <1>2 DEF NoneSkipped
  <2>1. walk.page * PageSize >= walk.total
    BY <1>4 DEF ending
  <2>2. PICK rest \in SUBSET Listed :
          /\ kept' \ walk'.seen \subseteq Missed \cup rest
          /\ rest # {} => Cardinality(rest) + walk.page * PageSize <= Cardinality(Listed)
    BY <1>9
  <2>3. rest \subseteq Ids /\ Cardinality(rest) \in Nat /\ Cardinality(Listed) \in Nat
    BY <1>3, RowsFinite
  <2>4. Cardinality(rest) <= late
    <3>1. CASE rest = {}
      BY <1>10, <3>1, FS_EmptySet
    <3>2. CASE rest # {}
      BY <1>2, <1>3, <1>5, <1>10, <2>1, <2>2, <2>3, <3>2
    <3> QED BY <3>1, <3>2
  <2>5. kept' \ walk'.seen \subseteq Ids
    BY <1>2 DEF ListingsTypeOK
  <2>6. Cardinality(kept' \ walk'.seen) <= Cardinality(Missed) + Cardinality(rest)
    BY <1>10, <2>2, <2>3, <2>5, AddedAtMost
  <2>7. Cardinality(Missed) <= shifts /\ Cardinality(kept' \ walk'.seen) \in Nat
    BY <1>2, <2>5, RowsFinite
  <2> QED BY <1>10, <2>3, <2>4, <2>6, <2>7
<1> QED BY <1>2, <1>4, <1>7, <1>8, <1>11, <1>12

-----------------------------------------------------------------------------
LEMMA ListingsInitial == ListingsInit => ListingsInv
<1> SUFFICES ASSUME ListingsInit PROVE ListingsInv
  OBVIOUS
<1>1. ListingsTypeOK
  <2>1. Cardinality(Ids) \in Nat /\ MaxShifts \in Nat
    BY ListingsAssumption, FS_CardinalityType
  <2> DEFINE budget == MaxShifts * Cardinality(Ids)
  <2>2. budget \in Nat
    BY <2>1
  <2> HIDE DEF budget
  <2>3. shifts \in 0..budget
    BY <2>2 DEF ListingsInit
  <2>4. MaxKey \in Nat /\ MaxShifts \in Nat /\ tied \in BOOLEAN
    BY ListingsAssumption DEF ListingsInit
  <2>5. walk \in [state : {"idle", "request", "counted", "done"},
                 page : 1..(Cardinality(Ids) + 1), total : 0..Cardinality(Ids),
                 seen : SUBSET Ids]
    BY <2>1 DEF ListingsInit
  <2>6. key \in [Ids -> 0..MaxKey] /\ kept \subseteq Ids /\ late \in 0..MaxShifts
    BY <2>4 DEF ListingsInit
  <2> QED BY <2>3, <2>4, <2>5, <2>6 DEF ListingsTypeOK, budget
<1>2. ~Tied
  BY DEF ListingsInit, Tied, Listed
<1> QED BY <1>1, <1>2 DEF ListingsInit, ListingsInv, Walking, NoneSkipped

LEMMA ListingsStep == ListingsInv /\ [ListingsNext]_listingsVars => ListingsInv'
<1> SUFFICES ASSUME ListingsInv, [ListingsNext]_listingsVars PROVE ListingsInv'
  OBVIOUS
<1>1. ASSUME NEW i \in Ids, NEW k \in 1..MaxKey, AddRow(i, k) PROVE ListingsInv'
  BY <1>1, AddStep
<1>2. ASSUME NEW i \in Ids, NEW k \in 1..MaxKey, MoveRow(i, k) PROVE ListingsInv'
  BY <1>2, MoveStep
<1>3. ASSUME NEW S \in SUBSET Ids, RemoveRows(S) PROVE ListingsInv'
  BY <1>3, RemoveStep
<1>4. CASE BeginWalk \/ CountRows \/ FetchPage
  BY <1>4, BeginStep, CountStep, FetchStep
<1>5. CASE UNCHANGED listingsVars
  BY <1>5 DEF listingsVars, ListingsInv, ListingsTypeOK, Tied, Listed, Walking, Missed, Rank,
     Above, Offset, NoneSkipped
<1> QED BY <1>1, <1>2, <1>3, <1>4, <1>5 DEF ListingsNext

LEMMA ListingsAlways == ListingsSpec => []ListingsInv
BY ListingsInitial, ListingsStep, PTL DEF ListingsSpec

(* Whatever the writers do, a walk asks for a page that can exist, and its *)
(* budget of changes is kept.                                              *)
THEOREM ListingsTypeCorrect == ListingsSpec => []ListingsTypeOK
<1>1. ListingsInv => ListingsTypeOK
  BY DEF ListingsInv
<1> QED BY <1>1, ListingsAlways, PTL

(* For any number of rows, pages of any size and any changes in between: a *)
(* walk misses a row that was there all along only for a row that moved or *)
(* went, or came between a page and the count before it, one for each.     *)
THEOREM NoRowIsSkipped == ListingsSpec => []NoneSkipped
<1>1. ListingsInv => NoneSkipped
  BY DEF ListingsInv
<1> QED BY <1>1, ListingsAlways, PTL

-----------------------------------------------------------------------------
(* All records *)

\* Whichever records are in focus, each of the four moves as it would alone.
LEMMA RecordsCompose ==
    RecordsSpec => MetricsSpec /\ AccountsSpec /\ ReportsSpec /\ ListingsSpec
<1>1. RecordsInit => MetricsInit /\ AccountsInit /\ ReportsInit /\ ListingsInit
  BY DEF RecordsInit
<1>2. [RecordsNext]_<<focus, metricsVars, accountsVars, reportsVars, listingsVars>>
        => /\ [MetricsNext]_metricsVars /\ [AccountsNext]_accountsVars
           /\ [ReportsNext]_reportsVars /\ [ListingsNext]_listingsVars
  BY DEF RecordsNext
<1> QED BY <1>1, <1>2, PTL DEF RecordsSpec, MetricsSpec, AccountsSpec, ReportsSpec, ListingsSpec

(* The four kinds of records keep their types together, for any writers,   *)
(* clients, requests and readers.                                          *)
THEOREM RecordsTypeCorrect == RecordsSpec => []RecordsTypeOK
BY RecordsCompose, MetricsTypeCorrect, AccountsTypeCorrect, ReportsTypeCorrect,
   ListingsTypeCorrect, PTL DEF RecordsTypeOK

(* None of the four disturbs another: the safety properties proved of each *)
(* hold together of the platform's records.                                *)
THEOREM RecordsAreSafe ==
    RecordsSpec => /\ [](BatchIsWhole /\ RegisteredOwns /\ SessionsEnd /\ ServedAsEntitled)
                   /\ [](NoOrphanCoins /\ ListsReplaced /\ NoneSkipped)
                   /\ StampsAdvance /\ FiguresKept /\ NoGapRead
BY RecordsCompose, StampsOnlyAdvance, FiguresAreKept, BatchesAreWhole, TheRegisteredOwn,
   SessionsDoEnd, RequestsServedAsEntitled, NoCoinsAreOrphans, ListsAreReplaced, NoGapIsRead,
   NoRowIsSkipped, PTL
=============================================================================
