--------------------------- MODULE TaskFilesProofs ---------------------------
(***************************************************************************)
(* Theorems about where the tasks of PdbTasks are in their two files, for  *)
(* any tasks, strings, categories and faults and any number of operations: *)
(* the offsets follow what is added, changed and deleted, what is saved is *)
(* read back, and both records of a task stay in one category.             *)
(***************************************************************************)
EXTENDS PdbTasksProofs, FiniteSetTheorems

-----------------------------------------------------------------------------
(* Lists of records that are moved *)

LEMMA MovedBehindPlaces ==
  ASSUME NEW list \in Seq(Record), NEW k \in Int, NEW by \in Int
  PROVE  \A j \in 1..Len(list) :
           /\ MovedBehind(list, k, by)[j].slot = list[j].slot
           /\ MovedBehind(list, k, by)[j].offset =
                IF j > k THEN list[j].offset + by ELSE list[j].offset
<1> TAKE j \in 1..Len(list)
<1>1. list[j] \in Record
  OBVIOUS
<1>2. MovedBehind(list, k, by)[j] =
        IF j > k THEN [list[j] EXCEPT !.offset = @ + by] ELSE list[j]
  BY DEF MovedBehind
<1>. QED
  BY <1>1, <1>2 DEF Record

LEMMA WithoutPlaces ==
  ASSUME NEW list \in Seq(Record), NEW k \in 1..Len(list), NEW size \in Int
  PROVE  \A i \in 1..(Len(list) - 1) :
           /\ Without(list, k, size)[i].slot = list[Shifted(i, k)].slot
           /\ Without(list, k, size)[i].offset =
                IF i < k THEN list[i].offset - ItemSize
                ELSE list[i + 1].offset - size - ItemSize
<1> DEFINE a == MovedBehind(list, k, -size)
           b == RemoveAt(a, k)
           c == MovedBehind(b, 0, -ItemSize)
<1>0. -size \in Int /\ -ItemSize \in Int /\ 0 \in Int /\ k \in Int
  BY DEF ItemSize
<1>1. /\ a \in Seq(Record) /\ Len(a) = Len(list)
      /\ \A j \in 1..Len(list) :
           /\ a[j].slot = list[j].slot
           /\ a[j].offset = IF j > k THEN list[j].offset + (-size) ELSE list[j].offset
  BY <1>0, MovedBehindType, MovedBehindPlaces
<1> HIDE DEF a
<1>2. /\ b \in Seq(Record) /\ Len(b) = Len(a) - 1
      /\ \A i \in 1..(Len(a) - 1) : b[i] = IF i < k THEN a[i] ELSE a[i + 1]
  BY <1>1, RemoveAtType
<1> HIDE DEF b
<1>3. \A j \in 1..Len(b) :
        /\ c[j].slot = b[j].slot
        /\ c[j].offset = IF j > 0 THEN b[j].offset + (-ItemSize) ELSE b[j].offset
  BY <1>0, <1>2, MovedBehindPlaces
<1> HIDE DEF c
<1>4. ASSUME NEW i \in 1..(Len(list) - 1)
      PROVE  /\ c[i].slot = list[Shifted(i, k)].slot
             /\ c[i].offset = IF i < k THEN list[i].offset - ItemSize
                              ELSE list[i + 1].offset - size - ItemSize
  <2>1. /\ i \in 1..Len(b) /\ i \in 1..Len(list) /\ i + 1 \in 1..Len(list)
        /\ i > 0 /\ i \in Int /\ size \in Int /\ ItemSize \in Int
    <3>1. Len(b) = Len(list) - 1 /\ Len(list) \in Nat
      BY <1>1, <1>2
    <3>2. ItemSize \in Int
      BY DEF ItemSize
    <3>. QED
      BY <3>1, <3>2
  <2>2. list[i] \in Record /\ list[i + 1] \in Record
    BY <2>1
  <2>3. list[i].offset \in Int /\ list[i + 1].offset \in Int
    BY <2>2 DEF Record
  <2>4. c[i].slot = b[i].slot /\ c[i].offset = b[i].offset + (-ItemSize)
    BY <1>3, <2>1
  <2>5. CASE i < k
    <3>1. b[i] = a[i] /\ ~(i > k) /\ Shifted(i, k) = i
      BY <1>1, <1>2, <2>1, <2>5 DEF Shifted
    <3>2. a[i].offset = list[i].offset /\ a[i].slot = list[i].slot
      BY <1>1, <2>1, <3>1
    <3>. QED
      BY <2>1, <2>3, <2>4, <2>5, <3>1, <3>2
  <2>6. CASE ~(i < k)
    <3>1. b[i] = a[i + 1] /\ i + 1 > k /\ Shifted(i, k) = i + 1
      BY <1>1, <1>2, <2>1, <2>6 DEF Shifted
    <3>2. a[i + 1].offset = list[i + 1].offset + (-size) /\ a[i + 1].slot = list[i + 1].slot
      BY <1>1, <2>1, <3>1
    <3>. QED
      BY <2>1, <2>3, <2>4, <2>6, <3>1, <3>2
  <2>. QED
    BY <2>5, <2>6
<1>5. Without(list, k, size) = c
  BY DEF Without, a, b, c
<1>. QED
  BY <1>4, <1>5

LEMMA WithPlaces ==
  ASSUME NEW list \in Seq(Record), list # <<>>, NEW size \in Int,
         NEW id \in Ids, NEW slot \in SlotIds
  PROVE  /\ \A i \in 1..Len(list) :
              /\ With(list, size, id, slot)[i].slot = list[i].slot
              /\ With(list, size, id, slot)[i].offset = list[i].offset + ItemSize
         /\ With(list, size, id, slot)[Len(list) + 1].slot = slot
         /\ With(list, size, id, slot)[Len(list) + 1].offset
              = list[Len(list)].offset + size + ItemSize
<1> DEFINE a == MovedBehind(list, 0, ItemSize)
           new == [id |-> id, offset |-> Last(list).offset + size + ItemSize, slot |-> slot]
<1>0. ItemSize \in Int /\ 0 \in Int
  BY DEF ItemSize
<1>1. /\ a \in Seq(Record) /\ Len(a) = Len(list)
      /\ \A j \in 1..Len(list) :
           /\ a[j].slot = list[j].slot
           /\ a[j].offset = list[j].offset + ItemSize
  <2>1. \A j \in 1..Len(list) :
          /\ a[j].slot = list[j].slot
          /\ a[j].offset = IF j > 0 THEN list[j].offset + ItemSize ELSE list[j].offset
    BY <1>0, MovedBehindPlaces
  <2>2. a \in Seq(Record) /\ Len(a) = Len(list)
    BY <1>0, MovedBehindType
  <2>. QED
    BY <2>1, <2>2
<1>2. new \in Record
  <2>1. Len(list) \in 1..Len(list)
    OBVIOUS
  <2>2. Last(list) \in Record
    BY <2>1 DEF Last
  <2>. QED
    BY <1>0, <2>2 DEF Record
<1>3. new.slot = slot /\ new.offset = list[Len(list)].offset + size + ItemSize
  BY DEF Last
<1>4. With(list, size, id, slot) = Append(a, new)
  BY DEF With
<1> HIDE DEF a, new
<1>5. /\ \A i \in 1..Len(a) : Append(a, new)[i] = a[i]
      /\ Append(a, new)[Len(a) + 1] = new
  BY <1>1, <1>2, AppendProperties
<1>. QED
  BY <1>1, <1>3, <1>4, <1>5

-----------------------------------------------------------------------------
(* Records that follow one another *)

LEMMA DataBehindList ==
  ASSUME NEW n \in Nat
  PROVE  /\ DataAt(n) \in Int /\ AppInfoEnd(n) \in Int /\ AppInfoEnd(n) <= DataAt(n)
         /\ DataAt(n + 1) = DataAt(n) + ItemSize
         /\ n > 0 => DataAt(n - 1) = DataAt(n) - ItemSize
BY TaskConstantsOK DEF DataAt, AppInfoEnd, AppInfoAt, HeaderSize, ItemSize, PaddingSize,
   AppInfoSize

LEMMA OffsetsAreNumbers ==
  ASSUME NEW list \in Seq(Record)
  PROVE  \A i \in 1..Len(list) : list[i].offset \in Int
<1>1. \A i \in 1..Len(list) : list[i] \in Record
  OBVIOUS
<1>. QED
  BY <1>1 DEF Record

LEMMA StackedIs ==
  ASSUME NEW list \in Seq(Record), NEW room
  PROVE  Stacked(list, room) <=>
           \A i \in 1..Len(list) :
             list[i].offset = IF i = 1 THEN DataAt(Len(list))
                              ELSE list[i - 1].offset + room[i - 1]
<1>1. DOMAIN list = 1..Len(list)
  OBVIOUS
<1>. QED
  BY <1>1, Zenon DEF Stacked

LEMMA StackedNext ==
  ASSUME NEW list \in Seq(Record), NEW room, Stacked(list, room),
         NEW j \in 1..Len(list), j # Len(list)
  PROVE  list[j + 1].offset = list[j].offset + room[j]
<1> DEFINE i == j + 1
<1>1. i \in 1..Len(list) /\ i # 1 /\ i - 1 = j
  OBVIOUS
<1> HIDE DEF i
<1>2. list[i].offset = list[i - 1].offset + room[i - 1]
  BY <1>1, StackedIs
<1>. QED
  BY <1>1, <1>2 DEF i

\* What the last record needs does not matter.
LEMMA StackedSame ==
  ASSUME NEW list \in Seq(Record), NEW room, NEW room2, Stacked(list, room),
         \A j \in 1..(Len(list) - 1) : room2[j] = room[j]
  PROVE  Stacked(list, room2)
<1> SUFFICES ASSUME NEW i \in 1..Len(list)
             PROVE  list[i].offset = IF i = 1 THEN DataAt(Len(list))
                                     ELSE list[i - 1].offset + room2[i - 1]
  BY StackedIs
<1>1. list[i].offset = IF i = 1 THEN DataAt(Len(list))
                       ELSE list[i - 1].offset + room[i - 1]
  BY StackedIs
<1>2. i # 1 => i - 1 \in 1..(Len(list) - 1)
  OBVIOUS
<1>. QED
  BY <1>1, <1>2

\* Moving what is behind a record makes just the room for it that it grows by.
LEMMA StackedMoved ==
  ASSUME NEW list \in Seq(Record), NEW room, NEW room2, NEW k \in 1..Len(list),
         NEW by \in Int, Stacked(list, room),
         \A j \in 1..(Len(list) - 1) :
           room[j] \in Int /\ room2[j] = IF j = k THEN room[j] + by ELSE room[j]
  PROVE  Stacked(MovedBehind(list, k, by), room2)
<1> DEFINE new == MovedBehind(list, k, by)
           n == Len(list)
<1>1. new \in Seq(Record) /\ Len(new) = n
  BY MovedBehindType
<1>2. \A j \in 1..n : new[j].offset = IF j > k THEN list[j].offset + by ELSE list[j].offset
  BY MovedBehindPlaces
<1>3. \A j \in 1..n : list[j].offset \in Int
  BY OffsetsAreNumbers
<1>4. n \in Nat /\ DOMAIN new = 1..n
  BY <1>1
<1> HIDE DEF new
<1>5. ASSUME NEW i \in 1..n
      PROVE  new[i].offset = IF i = 1 THEN DataAt(n) ELSE new[i - 1].offset + room2[i - 1]
  <2>1. list[i].offset = IF i = 1 THEN DataAt(n) ELSE list[i - 1].offset + room[i - 1]
    BY StackedIs
  <2>2. CASE i = 1
    BY <1>2, <1>4, <2>1, <2>2
  <2>3. CASE i # 1
    <3>1. i - 1 \in 1..n /\ i - 1 \in 1..(n - 1)
      BY <1>4, <2>3
    <3>2. /\ room[i - 1] \in Int
          /\ room2[i - 1] = IF i - 1 = k THEN room[i - 1] + by ELSE room[i - 1]
      BY <3>1
    <3>3. new[i - 1].offset = IF i - 1 > k THEN list[i - 1].offset + by ELSE list[i - 1].offset
      BY <1>2, <3>1
    <3>4. new[i].offset = IF i > k THEN list[i].offset + by ELSE list[i].offset
      BY <1>2
    <3>. QED
      BY <1>3, <2>1, <2>3, <3>1, <3>2, <3>3, <3>4
  <2>. QED
    BY <2>2, <2>3
<1>. QED
  BY <1>1, <1>5, StackedIs DEF new

\* What is behind a record closes up when it goes.
LEMMA StackedWithout ==
  ASSUME NEW list \in Seq(Record), NEW room, NEW room2, NEW k \in 1..Len(list),
         Stacked(list, room), \A j \in 1..Len(list) : room[j] \in Int,
         \A i \in 1..(Len(list) - 1) : room2[i] = room[Shifted(i, k)]
  PROVE  Stacked(Without(list, k, room[k]), room2)
<1> DEFINE size == room[k]
           new == Without(list, k, size)
           n == Len(list)
<1>0. size \in Int
  OBVIOUS
<1>1. new \in Seq(Record) /\ Len(new) = n - 1
  BY <1>0, WithoutType
<1>2. \A i \in 1..(n - 1) :
        new[i].offset = IF i < k THEN list[i].offset - ItemSize
                        ELSE list[i + 1].offset - size - ItemSize
  BY <1>0, WithoutPlaces
<1>3. \A j \in 1..n : list[j].offset \in Int
  BY OffsetsAreNumbers
<1>4. n \in Nat /\ n > 0 /\ k \in Int /\ DOMAIN new = 1..(n - 1) /\ ItemSize \in Int
  BY <1>1 DEF ItemSize
<1>5. DataAt(n - 1) = DataAt(n) - ItemSize /\ DataAt(n) \in Int
  BY <1>4, DataBehindList
<1>6. \A i \in 1..n :
        list[i].offset = IF i = 1 THEN DataAt(n) ELSE list[i - 1].offset + room[i - 1]
  BY StackedIs
<1> HIDE DEF new, size
<1>7. ASSUME NEW i \in 1..(n - 1)
      PROVE  new[i].offset = IF i = 1 THEN DataAt(n - 1) ELSE new[i - 1].offset + room2[i - 1]
  <2>1. i \in 1..n /\ i + 1 \in 1..n /\ i \in Int
    BY <1>4
  <2>2. list[i + 1].offset = list[i].offset + room[i] /\ room[i] \in Int
    <3>1. list[i + 1].offset =
            IF i + 1 = 1 THEN DataAt(n) ELSE list[i + 1 - 1].offset + room[i + 1 - 1]
      BY <1>6, <2>1
    <3>2. i + 1 # 1 /\ i + 1 - 1 = i
      BY <2>1
    <3>. QED
      BY <2>1, <3>1, <3>2
  <2>3. CASE i = 1
    <3>1. list[1].offset = DataAt(n)
      BY <1>6, <2>1, <2>3
    <3>2. i < k => new[i].offset = list[1].offset - ItemSize
      BY <1>2, <2>3
    <3>3. ~(i < k) => size = room[1] /\ new[i].offset = list[2].offset - size - ItemSize
      BY <1>2, <1>4, <2>3 DEF size
    <3>. QED
      BY <1>0, <1>3, <1>4, <1>5, <2>1, <2>2, <2>3, <3>1, <3>2, <3>3
  <2>4. CASE i # 1
    <3>1. i - 1 \in 1..(n - 1) /\ i - 1 \in 1..n /\ i - 1 + 1 = i
      BY <1>4, <2>4
    <3>2. list[i].offset = list[i - 1].offset + room[i - 1] /\ room[i - 1] \in Int
      BY <1>6, <2>1, <2>4, <3>1
    <3>3. new[i - 1].offset = IF i - 1 < k THEN list[i - 1].offset - ItemSize
                              ELSE list[i].offset - size - ItemSize
      BY <1>2, <3>1
    <3>4. new[i].offset = IF i < k THEN list[i].offset - ItemSize
                          ELSE list[i + 1].offset - size - ItemSize
      BY <1>2
    <3>5. room2[i - 1] = IF i - 1 < k THEN room[i - 1] ELSE room[i]
      <4>1. room2[i - 1] = room[Shifted(i - 1, k)]
        BY <3>1
      <4>2. Shifted(i - 1, k) = IF i - 1 < k THEN i - 1 ELSE i
        BY <3>1 DEF Shifted
      <4>. QED
        BY <4>1, <4>2
    <3>6. list[i - 1].offset \in Int /\ list[i].offset \in Int /\ list[i + 1].offset \in Int
      BY <1>3, <2>1, <3>1
    <3>7. CASE i < k
      <4>1. i - 1 < k
        BY <1>4, <2>1, <3>7
      <4>. QED
        BY <1>4, <2>4, <3>2, <3>3, <3>4, <3>5, <3>6, <3>7, <4>1
    <3>8. CASE i = k
      <4>1. i - 1 < k /\ ~(i < k) /\ size = room[i]
        BY <1>4, <2>1, <3>8 DEF size
      <4>2. /\ new[i - 1].offset = list[i - 1].offset - ItemSize
            /\ room2[i - 1] = room[i - 1]
            /\ new[i].offset = list[i + 1].offset - room[i] - ItemSize
        BY <3>3, <3>4, <3>5, <4>1
      <4>3. new[i].offset = list[i].offset - ItemSize
        BY <1>4, <2>2, <3>6, <4>2
      <4>4. new[i].offset = new[i - 1].offset + room2[i - 1]
        BY <1>4, <3>2, <3>6, <4>2, <4>3
      <4>. QED
        BY <2>4, <4>4
    <3>9. CASE i > k
      <4>1. ~(i - 1 < k) /\ ~(i < k)
        BY <1>4, <2>1, <3>9
      <4>2. /\ new[i - 1].offset = list[i].offset - size - ItemSize
            /\ room2[i - 1] = room[i]
            /\ new[i].offset = list[i + 1].offset - size - ItemSize
        BY <3>3, <3>4, <3>5, <4>1
      <4>3. list[i + 1].offset - size - ItemSize = list[i].offset - size - ItemSize + room[i]
        <5>1. size \in Int /\ ItemSize \in Int /\ list[i].offset \in Int /\ room[i] \in Int
          BY <1>0, <1>4, <2>2, <3>6
        <5>. QED
          BY <2>2, <5>1
      <4>4. new[i].offset = new[i - 1].offset + room2[i - 1]
        BY <4>2, <4>3
      <4>. QED
        BY <2>4, <4>4
    <3>. QED
      BY <1>4, <2>1, <3>7, <3>8, <3>9
  <2>. QED
    BY <2>3, <2>4
<1>8. \A i \in 1..Len(new) :
        new[i].offset = IF i = 1 THEN DataAt(Len(new)) ELSE new[i - 1].offset + room2[i - 1]
  BY <1>1, <1>7
<1>9. Stacked(new, room2)
  BY <1>1, <1>8, StackedIs
<1>. QED
  BY <1>9 DEF new, size

\* A record that is added comes behind what the last one needs.
LEMMA StackedWith ==
  ASSUME NEW list \in Seq(Record), list # <<>>, NEW room, NEW room2, NEW size \in Int,
         NEW id \in Ids, NEW slot \in SlotIds, Stacked(list, room),
         \A j \in 1..Len(list) : room[j] \in Int /\ room2[j] = room[j],
         room[Len(list)] = size
  PROVE  Stacked(With(list, size, id, slot), room2)
<1> DEFINE new == With(list, size, id, slot)
           n == Len(list)
<1>1. new \in Seq(Record) /\ Len(new) = n + 1
  BY WithType
<1>2. /\ \A i \in 1..n : new[i].offset = list[i].offset + ItemSize
      /\ new[n + 1].offset = list[n].offset + size + ItemSize
  BY WithPlaces
<1>3. \A j \in 1..n : list[j].offset \in Int
  BY OffsetsAreNumbers
<1>4. n \in Nat /\ n > 0 /\ n \in 1..n /\ DOMAIN new = 1..(n + 1) /\ ItemSize \in Int
  BY <1>1 DEF ItemSize
<1>5. DataAt(n + 1) = DataAt(n) + ItemSize /\ DataAt(n) \in Int
  BY <1>4, DataBehindList
<1>6. \A i \in 1..n :
        list[i].offset = IF i = 1 THEN DataAt(n) ELSE list[i - 1].offset + room[i - 1]
  BY StackedIs
<1> HIDE DEF new
<1>7. ASSUME NEW i \in 1..(n + 1)
      PROVE  new[i].offset = IF i = 1 THEN DataAt(n + 1) ELSE new[i - 1].offset + room2[i - 1]
  <2>1. CASE i = 1
    <3>1. 1 \in 1..n
      BY <1>4
    <3>. QED
      BY <1>2, <1>5, <1>6, <2>1, <3>1
  <2>2. CASE i # 1
    <3>1. i - 1 \in 1..n /\ i \in Int
      BY <1>4, <2>2
    <3>2. /\ new[i - 1].offset = list[i - 1].offset + ItemSize
          /\ room2[i - 1] = room[i - 1] /\ room[i - 1] \in Int
          /\ list[i - 1].offset \in Int
      BY <1>2, <1>3, <3>1
    <3>3. CASE i \in 1..n
      <4>1. /\ new[i].offset = list[i].offset + ItemSize
            /\ list[i].offset = list[i - 1].offset + room[i - 1]
        BY <1>2, <1>6, <2>2, <3>3
      <4>. QED
        BY <1>4, <2>2, <3>2, <4>1
    <3>4. CASE i = n + 1
      <4>1. i - 1 = n
        BY <1>4, <3>4
      <4>2. new[i].offset = list[i - 1].offset + room[i - 1] + ItemSize
        BY <1>2, <3>4, <4>1
      <4>. QED
        BY <1>4, <2>2, <3>2, <4>2
    <3>. QED
      BY <1>4, <3>3, <3>4
  <2>. QED
    BY <2>1, <2>2
<1>8. \A i \in 1..Len(new) :
        new[i].offset = IF i = 1 THEN DataAt(Len(new)) ELSE new[i - 1].offset + room2[i - 1]
  BY <1>1, <1>7
<1>9. Stacked(new, room2)
  BY <1>1, <1>8, StackedIs
<1>. QED
  BY <1>9 DEF new

\* A record ends before any later one begins, and none begins before the data does.
LEMMA StackedInOrder ==
  ASSUME NEW list \in Seq(Record), NEW room, Stacked(list, room),
         \A i \in 1..Len(list) : room[i] \in Nat
  PROVE  /\ \A i, j \in 1..Len(list) : i < j => list[i].offset + room[i] <= list[j].offset
         /\ \A i \in 1..Len(list) : DataAt(Len(list)) <= list[i].offset
<1> DEFINE n == Len(list)
<1>0. n \in Nat /\ DOMAIN list = 1..n /\ DataAt(n) \in Int
  BY DataBehindList
<1>1. \A i \in 1..n : list[i].offset \in Int
  BY OffsetsAreNumbers
<1>2. \A i \in 1..n :
        list[i].offset = IF i = 1 THEN DataAt(n) ELSE list[i - 1].offset + room[i - 1]
  BY StackedIs
<1>3. ASSUME NEW i \in 1..n, NEW j \in 1..n, i < j
      PROVE  list[i].offset + room[i] <= list[j].offset
  <2> DEFINE S == {k \in 1..n : i < k /\ list[k].offset < list[i].offset + room[i]}
  <2>1. S \in SUBSET Nat
    BY <1>0
  <2>2. ASSUME S # {} PROVE FALSE
    <3>1. PICK m \in S : \A k \in S : m <= k
      BY <2>1, <2>2, MinOfNaturals
    <3>2. /\ m \in 1..n /\ i < m /\ list[m].offset < list[i].offset + room[i]
          /\ m - 1 \in 1..n /\ m # 1
      BY <1>0, <3>1
    <3>3. list[m].offset = list[m - 1].offset + room[m - 1]
      BY <1>2, <3>2
    <3>4. m - 1 \notin S
      BY <3>1, <3>2
    <3>5. i = m - 1 \/ ~(list[m - 1].offset < list[i].offset + room[i])
      BY <3>2, <3>4
    <3>6. /\ list[i].offset \in Int /\ list[m].offset \in Int /\ list[m - 1].offset \in Int
          /\ room[i] \in Nat /\ room[m - 1] \in Nat
      BY <1>1, <3>2
    <3>. QED
      BY <3>2, <3>3, <3>5, <3>6
  <2>3. j \notin S
    BY <2>2
  <2>4. ~(list[j].offset < list[i].offset + room[i])
    BY <1>3, <2>3
  <2>5. list[i].offset \in Int /\ list[j].offset \in Int /\ room[i] \in Nat
    BY <1>1
  <2>. QED
    BY <2>4, <2>5
<1>4. ASSUME NEW i \in 1..n PROVE DataAt(n) <= list[i].offset
  <2>1. CASE i = 1
    BY <1>0, <1>2, <2>1
  <2>2. CASE i # 1
    <3>1. 1 \in 1..n /\ 1 < i
      BY <1>0, <2>2
    <3>2. list[1].offset + room[1] <= list[i].offset /\ list[1].offset = DataAt(n)
      BY <1>2, <1>3, <3>1
    <3>3. room[1] \in Nat /\ list[i].offset \in Int
      BY <1>1, <3>1
    <3>. QED
      BY <1>0, <3>2, <3>3
  <2>. QED
    BY <2>1, <2>2
<1>. QED
  BY <1>3, <1>4

-----------------------------------------------------------------------------
(* The tasks and their records *)

\* The task a record belongs to, and what it needs in TasksDB-PTod.
TaskAt(tasks, list, j) == CHOOSE i \in DOMAIN tasks : tasks[i].link = list[j].id
PtodRooms(tasks, list) == [j \in DOMAIN list |-> PtodRoom(tasks[TaskAt(tasks, list, j)])]
TodoRooms(tasks) == [i \in DOMAIN tasks |-> TodoSize(tasks[i])]

LEMMA TaskAtLinks ==
  ASSUME NEW tasks, NEW list, OneToOne(tasks, list), NEW j \in DOMAIN list
  PROVE  /\ TaskAt(tasks, list, j) \in DOMAIN tasks
         /\ tasks[TaskAt(tasks, list, j)].link = list[j].id
<1>1. \E i \in DOMAIN tasks : tasks[i].link = list[j].id
  BY DEF OneToOne
<1>. QED
  BY <1>1, Zenon DEF TaskAt

LEMMA TaskAtIs ==
  ASSUME NEW tasks, NEW list, OneToOne(tasks, list), NEW i \in DOMAIN tasks,
         NEW j \in DOMAIN list, tasks[i].link = list[j].id
  PROVE  TaskAt(tasks, list, j) = i
<1>1. /\ TaskAt(tasks, list, j) \in DOMAIN tasks
      /\ tasks[TaskAt(tasks, list, j)].link = list[j].id
  BY TaskAtLinks
<1>. QED
  BY <1>1 DEF OneToOne

\* The other way round: the record of a task is the only one it is linked to.
LEMMA RecordOfIs ==
  ASSUME IInv, NEW i \in DOMAIN queue, NEW j \in DOMAIN ptod,
         queue[i].link = ptod[j].id
  PROVE  RecordOf(i) = j
<1>1. RecordOf(i) \in DOMAIN ptod /\ ptod[RecordOf(i)].id = queue[i].link
  BY Zenon DEF RecordOf
<1>. QED
  BY <1>1 DEF IInv, IdsDiffer

LEMMA MemoryIsTyped ==
  ASSUME IInv
  PROVE  /\ queue \in Seq(Task) /\ todo \in Seq(Record) /\ ptod \in Seq(Record)
         /\ Len(todo) = Len(queue) /\ Len(queue) \in Nat /\ Len(ptod) \in Nat
         /\ DOMAIN queue = 1..Len(queue) /\ DOMAIN todo = 1..Len(queue)
         /\ DOMAIN ptod = 1..Len(ptod)
         /\ \A i \in 1..Len(queue) : queue[i] \in Task
         /\ exact => OneToOne(queue, ptod)
<1>1. queue \in Seq(Task) /\ todo \in Seq(Record) /\ ptod \in Seq(Record)
  BY DEF IInv, TypeOK
<1>2. Len(todo) = Len(queue)
  BY DEF IInv
<1>3. exact => OneToOne(queue, ptod)
  BY DEF IInv, EachTaskHasItsRecord
<1>. QED
  BY <1>1, <1>2, <1>3

LEMMA RoomsAreNumbers ==
  ASSUME IInv
  PROVE  /\ \A i \in 1..Len(todo) :
              TodoRooms(queue)[i] = TodoSize(queue[i]) /\ TodoRooms(queue)[i] \in Nat
         /\ exact => \A j \in 1..Len(ptod) : PtodRooms(queue, ptod)[j] \in Nat
<1>1. \A i \in 1..Len(todo) :
        TodoRooms(queue)[i] = TodoSize(queue[i]) /\ TodoRooms(queue)[i] \in Nat
  BY MemoryIsTyped, SizesAreNumbers DEF TodoRooms
<1>2. ASSUME exact, NEW j \in 1..Len(ptod)
      PROVE  PtodRooms(queue, ptod)[j] \in Nat
  <2>1. TaskAt(queue, ptod, j) \in 1..Len(queue)
    BY <1>2, MemoryIsTyped, TaskAtLinks
  <2>2. queue[TaskAt(queue, ptod, j)] \in Task
    BY <2>1, MemoryIsTyped
  <2>3. PtodRooms(queue, ptod)[j] = PtodRoom(queue[TaskAt(queue, ptod, j)])
    BY MemoryIsTyped DEF PtodRooms
  <2>. QED
    BY <2>2, <2>3, SizesAreNumbers
<1>. QED
  BY <1>1, <1>2

\* While the tasks and the records are one to one, each task has a link.
LEMMA NoLinkIsNone ==
  ASSUME IInv, exact, NEW i \in DOMAIN queue
  PROVE  queue[i].link # None
<1>1. PICK x \in DOMAIN ptod : queue[i].link = ptod[x].id
  BY MemoryIsTyped DEF OneToOne
<1>2. ptod[x] \in Record
  BY <1>1, MemoryIsTyped
<1>3. ptod[x].id \in Ids
  BY <1>2 DEF Record
<1>. QED
  BY <1>1, <1>3, TaskConstantsOK

\* While nothing has happened that they do not follow, the records in memory are
\* stacked, with the room that their tasks need.
MemoryIsStacked ==
  exact /\ open =>
    Stacked(todo, TodoRooms(queue)) /\ Stacked(ptod, PtodRooms(queue, ptod))

\* That is what PackedTasks says of them.
LEMMA StackedIsPacked ==
  ASSUME IInv, MemoryIsStacked
  PROVE  PackedTasks
<1> SUFFICES ASSUME exact, open
             PROVE  /\ \A i \in DOMAIN todo :
                         todo[i].offset = IF i = 1 THEN DataAt(Len(todo))
                                          ELSE todo[i - 1].offset + TodoSize(queue[i - 1])
                    /\ \A i \in DOMAIN queue :
                         LET j == RecordOf(i) IN
                           IF j = Len(ptod) THEN TRUE
                           ELSE ptod[j + 1].offset = ptod[j].offset + PtodRoom(queue[i])
                    /\ ptod # <<>> => ptod[1].offset = DataAt(Len(ptod))
  BY DEF PackedTasks
<1>1. Stacked(todo, TodoRooms(queue)) /\ Stacked(ptod, PtodRooms(queue, ptod))
  BY DEF MemoryIsStacked
<1>2. \A i \in DOMAIN todo :
        todo[i].offset = IF i = 1 THEN DataAt(Len(todo))
                         ELSE todo[i - 1].offset + TodoSize(queue[i - 1])
  <2> TAKE i \in DOMAIN todo
  <2>1. todo[i].offset = IF i = 1 THEN DataAt(Len(todo))
                         ELSE todo[i - 1].offset + TodoRooms(queue)[i - 1]
    BY <1>1, Zenon DEF Stacked
  <2>2. i # 1 => i - 1 \in 1..Len(todo)
    BY MemoryIsTyped
  <2>. QED
    BY <2>1, <2>2, RoomsAreNumbers
<1>3. ASSUME NEW i \in DOMAIN queue, RecordOf(i) # Len(ptod)
      PROVE  ptod[RecordOf(i) + 1].offset = ptod[RecordOf(i)].offset + PtodRoom(queue[i])
  <2> DEFINE j == RecordOf(i)
  <2>1. queue[i].link # None
    BY NoLinkIsNone
  <2>2. j \in 1..Len(ptod) /\ ptod[j].id = queue[i].link
    BY <2>1, RecordIsThere
  <2>3. TaskAt(queue, ptod, j) = i
    BY <2>2, MemoryIsTyped, TaskAtIs
  <2>4. PtodRooms(queue, ptod)[j] = PtodRoom(queue[i])
    BY <2>2, <2>3, MemoryIsTyped DEF PtodRooms
  <2>a. j # Len(ptod) /\ Len(ptod) \in Nat
    BY <1>3, MemoryIsTyped
  <2> HIDE DEF j
  <2>5. ptod[j + 1].offset = ptod[j].offset + PtodRooms(queue, ptod)[j]
    BY <1>1, <2>2, <2>a, MemoryIsTyped, StackedNext
  <2>7. ptod[j + 1].offset = ptod[j].offset + PtodRoom(queue[i])
    BY <2>4, <2>5
  <2>. QED
    BY <2>7 DEF j
<1>4. ptod # <<>> => ptod[1].offset = DataAt(Len(ptod))
  <2> SUFFICES ASSUME ptod # <<>> PROVE ptod[1].offset = DataAt(Len(ptod))
    OBVIOUS
  <2>1. 1 \in 1..Len(ptod)
    BY MemoryIsTyped
  <2>. QED
    BY <1>1, <2>1, MemoryIsTyped, StackedIs
<1>. QED
  BY <1>2, <1>3, <1>4

-----------------------------------------------------------------------------
(* Changing a task *)

\* What the functions that set an alarm or a repetition move is what the entry grows by.
LEMMA AlarmGrowth ==
  ASSUME NEW task \in Task, NEW alarm \in Alarms \cup {None}
  PROVE  LET new == [task EXCEPT !.alarm = alarm] IN
         /\ PtodRoom(new) = PtodRoom(task) + AlarmMoves(task, alarm)
         /\ TodoSize(new) = TodoSize(task)
<1> DEFINE new == [task EXCEPT !.alarm = alarm]
<1>1. /\ new.header = task.header /\ new.text = task.text /\ new.due = task.due
      /\ new.repeat = task.repeat /\ new.alarm = alarm
  BY DEF Task
<1> HIDE DEF new
<1>2. /\ StringsSize(new) = StringsSize(task) /\ DueSize(new) = DueSize(task)
      /\ RoomForRepeat(new) = RoomForRepeat(task)
  BY <1>1 DEF StringsSize, DueSize, RoomForRepeat
<1>3. AlarmSize(new) = AlarmSize(task) + AlarmMoves(task, alarm)
  BY <1>1 DEF AlarmSize, AlarmMoves
<1>4. /\ StringsSize(task) \in Nat /\ DueSize(task) \in Nat /\ RoomForRepeat(task) \in Nat
      /\ AlarmSize(task) \in Nat /\ AlarmMoves(task, alarm) \in Int
  <2>1. StringsSize(task) \in Nat
    BY TaskConstantsOK DEF Task, StringsSize
  <2>. QED
    BY <2>1 DEF DueSize, RoomForRepeat, AlarmSize, AlarmMoves
<1>5. PtodRoom(new) = PtodRoom(task) + AlarmMoves(task, alarm)
  BY <1>2, <1>3, <1>4 DEF PtodRoom
<1>6. TodoSize(new) = TodoSize(task)
  BY <1>2 DEF TodoSize
<1>. QED
  BY <1>5, <1>6 DEF new

LEMMA RepeatGrowth ==
  ASSUME NEW task \in Task, NEW repeat \in Repeats \cup {None}
  PROVE  LET new == [task EXCEPT !.repeat = repeat] IN
         /\ PtodRoom(new) = PtodRoom(task) + RepeatMoves(task, repeat)
         /\ TodoSize(new) = TodoSize(task)
<1> DEFINE new == [task EXCEPT !.repeat = repeat]
<1>1. /\ new.header = task.header /\ new.text = task.text /\ new.due = task.due
      /\ new.repeat = repeat /\ new.alarm = task.alarm
  BY DEF Task
<1> HIDE DEF new
<1>2. /\ StringsSize(new) = StringsSize(task) /\ DueSize(new) = DueSize(task)
      /\ AlarmSize(new) = AlarmSize(task)
  BY <1>1 DEF StringsSize, DueSize, AlarmSize
<1>3. RoomForRepeat(new) = RoomForRepeat(task) + RepeatMoves(task, repeat)
  BY <1>1 DEF RoomForRepeat, RepeatMoves
<1>4. /\ StringsSize(task) \in Nat /\ DueSize(task) \in Nat /\ RoomForRepeat(task) \in Nat
      /\ AlarmSize(task) \in Nat /\ RepeatMoves(task, repeat) \in Int
  <2>1. StringsSize(task) \in Nat
    BY TaskConstantsOK DEF Task, StringsSize
  <2>. QED
    BY <2>1 DEF DueSize, RoomForRepeat, AlarmSize, RepeatMoves
<1>5. PtodRoom(new) = PtodRoom(task) + RepeatMoves(task, repeat)
  BY <1>2, <1>3, <1>4 DEF PtodRoom
<1>6. TodoSize(new) = TodoSize(task)
  BY <1>2 DEF TodoSize
<1>. QED
  BY <1>5, <1>6 DEF new

\* A task is changed and the records behind its own are moved by what it grows by; if
\* it has the last record, there are none.
LEMMA SetStacked ==
  ASSUME IInv, MemoryIsStacked, exact, open, NEW k \in DOMAIN queue,
         NEW by \in Int, Resize(k, by), NEW task \in Task,
         task.link = queue[k].link, queue' = [queue EXCEPT ![k] = task],
         TodoSize(task) = TodoSize(queue[k]), UNCHANGED todo,
         \/ PtodRoom(task) = PtodRoom(queue[k]) + by
         \/ queue[k].link = Last(ptod).id
  PROVE  MemoryIsStacked'
<1> DEFINE n == Len(queue)
           m == Len(ptod)
           r == RecordOf(k)
<1>1. Stacked(todo, TodoRooms(queue)) /\ Stacked(ptod, PtodRooms(queue, ptod))
  BY DEF MemoryIsStacked
<1>2. /\ queue \in Seq(Task) /\ todo \in Seq(Record) /\ ptod \in Seq(Record)
      /\ DOMAIN queue = 1..n /\ DOMAIN todo = 1..n /\ DOMAIN ptod = 1..m
      /\ n \in Nat /\ m \in Nat /\ k \in 1..n /\ Len(todo) = n
      /\ OneToOne(queue, ptod)
  BY MemoryIsTyped
<1>3. \A i \in 1..n : queue'[i] = IF i = k THEN task ELSE queue[i]
  BY <1>2
<1>4. DOMAIN queue' = 1..n
  BY <1>2
<1>5. Stacked(todo', TodoRooms(queue'))
  <2>1. \A j \in 1..(Len(todo) - 1) : TodoRooms(queue')[j] = TodoRooms(queue)[j]
    <3> TAKE j \in 1..(Len(todo) - 1)
    <3>1. j \in 1..n
      BY <1>2
    <3>2. TodoRooms(queue')[j] = TodoSize(queue'[j])
      BY <1>4, <3>1 DEF TodoRooms
    <3>3. TodoRooms(queue)[j] = TodoSize(queue[j])
      BY <1>2, <3>1 DEF TodoRooms
    <3>. QED
      BY <1>3, <3>1, <3>2, <3>3
  <2> DEFINE room2 == TodoRooms(queue')
  <2> HIDE DEF room2
  <2>2. \A j \in 1..(Len(todo) - 1) : room2[j] = TodoRooms(queue)[j]
    BY <2>1 DEF room2
  <2>3. Stacked(todo, room2)
    BY <1>1, <1>2, <2>2, StackedSame
  <2>. QED
    BY <2>3 DEF room2
<1>6. queue[k].link # None
  BY <1>2, NoLinkIsNone
<1>7. r \in 1..m /\ ptod[r].id = queue[k].link
  BY <1>6, RecordIsThere
<1>8. /\ ptod' \in Seq(Record) /\ Len(ptod') = m
      /\ \A j \in 1..m : ptod'[j].id = ptod[j].id
  <2> HIDE DEF r
  <2>1. ptod' = IF by = 0 THEN ptod ELSE MovedBehind(ptod, r, by)
    BY DEF Resize, r
  <2>2. CASE by = 0
    BY <1>2, <2>1, <2>2
  <2>3. CASE by # 0
    <3>1. r \in Int
      BY <1>7
    <3>. QED
      BY <1>2, <2>1, <2>3, <3>1, MovedBehindType
  <2>. QED
    BY <2>2, <2>3
<1>9. DOMAIN ptod' = 1..m
  BY <1>2, <1>8
<1>10. \A j \in 1..m : TaskAt(queue', ptod', j) = TaskAt(queue, ptod, j)
  <2> TAKE j \in 1..m
  <2>1. \A i \in 1..n : queue'[i].link = queue[i].link
    BY <1>3
  <2>2. ptod'[j].id = ptod[j].id
    BY <1>8
  <2>3. \A i \in 1..n : queue'[i].link = ptod'[j].id <=> queue[i].link = ptod[j].id
    BY <2>1, <2>2
  <2>. QED
    BY <1>2, <1>4, <2>3 DEF TaskAt
<1>11. \A j \in 1..m :
         /\ PtodRooms(queue, ptod)[j] \in Int
         /\ j # r => PtodRooms(queue', ptod')[j] = PtodRooms(queue, ptod)[j]
         /\ j = r => /\ PtodRooms(queue', ptod')[j] = PtodRoom(task)
                     /\ PtodRooms(queue, ptod)[j] = PtodRoom(queue[k])
  <2> TAKE j \in 1..m
  <2>1. PtodRooms(queue, ptod)[j] \in Nat
    BY RoomsAreNumbers
  <2>2. PtodRooms(queue, ptod)[j] = PtodRoom(queue[TaskAt(queue, ptod, j)])
    BY <1>2 DEF PtodRooms
  <2>3. PtodRooms(queue', ptod')[j] = PtodRoom(queue'[TaskAt(queue, ptod, j)])
    BY <1>9, <1>10 DEF PtodRooms
  <2>4. /\ TaskAt(queue, ptod, j) \in 1..n
        /\ queue[TaskAt(queue, ptod, j)].link = ptod[j].id
    BY <1>2, TaskAtLinks
  <2>5. CASE j = r
    <3>1. TaskAt(queue, ptod, j) = k
      BY <1>2, <1>7, <2>5, TaskAtIs
    <3>2. queue'[k] = task
      BY <1>2, <1>3
    <3>. QED
      BY <2>1, <2>2, <2>3, <2>5, <3>1, <3>2
  <2>6. CASE j # r
    <3>1. TaskAt(queue, ptod, j) # k
      <4> SUFFICES ASSUME TaskAt(queue, ptod, j) = k PROVE FALSE
        OBVIOUS
      <4>1. ptod[j].id = ptod[r].id
        BY <1>7, <2>4
      <4>. QED
        BY <1>2, <1>7, <2>6, <4>1 DEF IInv, IdsDiffer
    <3>2. queue'[TaskAt(queue, ptod, j)] = queue[TaskAt(queue, ptod, j)]
      BY <1>3, <2>4, <3>1
    <3>. QED
      BY <2>1, <2>2, <2>3, <2>6, <3>2
  <2>. QED
    BY <2>5, <2>6
<1> DEFINE room == PtodRooms(queue, ptod)
           room2 == PtodRooms(queue', ptod')
<1>12. ptod' = IF by = 0 THEN ptod ELSE MovedBehind(ptod, r, by)
  BY DEF Resize
<1>13. \/ PtodRoom(task) = PtodRoom(queue[k]) + by
       \/ r = m
  <2>1. CASE queue[k].link = Last(ptod).id
    <3>1. m \in 1..m
      BY <1>2, <1>7
    <3>2. ptod[m].id = queue[k].link
      BY <2>1 DEF Last
    <3>. QED
      BY <1>2, <3>1, <3>2, RecordOfIs
  <2>. QED
    BY <2>1
<1>14. Stacked(ptod, room)
  BY <1>1
<1> HIDE DEF room, room2, r
<1>15. \A j \in 1..(m - 1) :
         room[j] \in Int /\ room2[j] = IF j = r THEN room[j] + by ELSE room[j]
  <2> TAKE j \in 1..(m - 1)
  <2>1. j \in 1..m /\ j # m
    BY <1>2
  <2>2. room[j] \in Int /\ (j # r => room2[j] = room[j])
    BY <1>11, <2>1 DEF room, room2
  <2>3. CASE j = r
    <3>1. room2[j] = PtodRoom(task) /\ room[j] = PtodRoom(queue[k])
      BY <1>11, <2>1, <2>3 DEF room, room2
    <3>. QED
      BY <1>13, <2>1, <2>2, <2>3, <3>1
  <2>. QED
    BY <2>2, <2>3
<1>16. Stacked(ptod', room2)
  <2>1. CASE by = 0
    <3>1. \A j \in 1..(Len(ptod) - 1) : room2[j] = room[j]
      BY <1>15, <2>1
    <3>2. Stacked(ptod, room2)
      BY <1>2, <1>14, <3>1, StackedSame
    <3>. QED
      BY <1>12, <2>1, <3>2
  <2>2. CASE by # 0
    <3>1. Stacked(MovedBehind(ptod, r, by), room2)
      BY <1>2, <1>7, <1>14, <1>15, StackedMoved
    <3>. QED
      BY <1>12, <2>2, <3>1
  <2>. QED
    BY <2>1, <2>2
<1>. QED
  BY <1>5, <1>16 DEF MemoryIsStacked, room2

LEMMA TaskSetDueStacked ==
  ASSUME IInv, MemoryIsStacked, NEW k \in DOMAIN queue, NEW year \in NewYears \cup {0},
         TaskSetDue(k, year)
  PROVE  MemoryIsStacked'
<1> SUFFICES ASSUME exact', open' PROVE MemoryIsStacked'
  BY DEF MemoryIsStacked
<1> DEFINE task == [queue[k] EXCEPT !.due = year]
           by == DueMoves(queue[k], year)
<1>1. /\ exact /\ open /\ Resize(k, by) /\ UNCHANGED todo
      /\ by = DueGrowth(queue[k], year) \/ queue[k].link = Last(ptod).id
      /\ queue' = [queue EXCEPT ![k] = task]
  BY DEF TaskSetDue, Call
<1>2. queue[k] \in Task /\ year \in Nat
  BY TaskConstantsOK DEF IInv, TypeOK
<1>3. task \in Task /\ task.link = queue[k].link
  BY <1>2 DEF Task
<1>4. TodoSize(task) = TodoSize(queue[k])
  <2>1. task.header = queue[k].header /\ task.text = queue[k].text
    BY <1>2 DEF Task
  <2>. QED
    BY <2>1 DEF TodoSize, StringsSize
<1>5. by \in Int
  BY DEF DueMoves
<1>6. \/ PtodRoom(task) = PtodRoom(queue[k]) + by
      \/ queue[k].link = Last(ptod).id
  <2>1. PtodRoom(task) \in Int /\ PtodRoom(queue[k]) \in Int
    BY <1>2, <1>3, SizesAreNumbers
  <2>2. DueGrowth(queue[k], year) = PtodRoom(task) - PtodRoom(queue[k])
    BY DEF DueGrowth
  <2>. QED
    BY <1>1, <2>1, <2>2
<1> HIDE DEF task, by
<1>. QED
  BY <1>1, <1>3, <1>4, <1>5, <1>6, SetStacked

LEMMA TaskSetAlarmStacked ==
  ASSUME IInv, MemoryIsStacked, NEW k \in DOMAIN queue, NEW alarm \in Alarms \cup {None},
         TaskSetAlarm(k, alarm)
  PROVE  MemoryIsStacked'
<1> SUFFICES ASSUME exact', open' PROVE MemoryIsStacked'
  BY DEF MemoryIsStacked
<1> DEFINE task == [queue[k] EXCEPT !.alarm = alarm]
           by == AlarmMoves(queue[k], alarm)
<1>1. /\ exact /\ open /\ Resize(k, by) /\ UNCHANGED todo
      /\ queue' = [queue EXCEPT ![k] = task]
  BY DEF TaskSetAlarm, Call
<1>2. queue[k] \in Task
  BY DEF IInv, TypeOK
<1>3. task \in Task /\ task.link = queue[k].link
  BY <1>2 DEF Task
<1>4. TodoSize(task) = TodoSize(queue[k]) /\ PtodRoom(task) = PtodRoom(queue[k]) + by
  BY <1>2, AlarmGrowth
<1>5. by \in Int
  BY DEF AlarmMoves
<1> HIDE DEF task, by
<1>. QED
  BY <1>1, <1>3, <1>4, <1>5, SetStacked

LEMMA TaskSetRepeatStacked ==
  ASSUME IInv, MemoryIsStacked, NEW k \in DOMAIN queue, NEW repeat \in NewRepeats \cup {None},
         TaskSetRepeat(k, repeat)
  PROVE  MemoryIsStacked'
<1> SUFFICES ASSUME exact', open' PROVE MemoryIsStacked'
  BY DEF MemoryIsStacked
<1> DEFINE task == [queue[k] EXCEPT !.repeat = repeat]
           by == RepeatMoves(queue[k], repeat)
<1>1. /\ exact /\ open /\ Resize(k, by) /\ UNCHANGED todo
      /\ queue' = [queue EXCEPT ![k] = task]
  BY DEF TaskSetRepeat, Call
<1>2. queue[k] \in Task /\ repeat \in Repeats \cup {None}
  BY TaskConstantsOK DEF IInv, TypeOK
<1>3. task \in Task /\ task.link = queue[k].link
  BY <1>2 DEF Task
<1>4. TodoSize(task) = TodoSize(queue[k]) /\ PtodRoom(task) = PtodRoom(queue[k]) + by
  BY <1>2, RepeatGrowth
<1>5. by \in Int
  BY DEF RepeatMoves
<1> HIDE DEF task, by
<1>. QED
  BY <1>1, <1>3, <1>4, <1>5, SetStacked

-----------------------------------------------------------------------------
(* Adding and deleting *)

LEMMA TaskAddStacked ==
  ASSUME IInv, IInv', MemoryIsStacked, NEW category \in Names \cup {None},
         NEW header \in NewHeaders, NEW text \in NewTexts, NEW priority \in Priorities,
         TaskAdd(header, text, category, priority)
  PROVE  MemoryIsStacked'
<1> SUFFICES ASSUME exact', open' PROVE MemoryIsStacked'
  BY DEF MemoryIsStacked
<1> DEFINE name == CategoryAsked(category)
           n == Len(queue)
           m == Len(ptod)
<1>1. PICK inTodo \in CategoryIn(slots.todo, name), inPtod \in CategoryIn(slots.ptod, name),
           id \in FreshIds :
        /\ todo' = With(todo, TodoSize(Last(queue)), id, inTodo.id % Slots)
        /\ ptod' = With(ptod, PtodRoom(Last(queue)), id, inPtod.id % Slots)
        /\ queue' = Append(queue,
             [header |-> header, text |-> text, priority |-> priority, due |-> 0,
              alarm |-> None, repeat |-> None,
              asked |-> Stored[name], link |-> id, fresh |-> TRUE])
  BY DEF TaskAdd
<1>2. exact /\ open /\ LastIsLast
  BY DEF TaskAdd, Call
<1>3. /\ queue \in Seq(Task) /\ todo \in Seq(Record) /\ ptod \in Seq(Record)
      /\ DOMAIN queue = 1..n /\ DOMAIN todo = 1..n /\ DOMAIN ptod = 1..m
      /\ n \in Nat /\ m \in Nat /\ Len(todo) = n /\ OneToOne(queue, ptod)
  BY <1>2, MemoryIsTyped
<1>4. Stacked(todo, TodoRooms(queue)) /\ Stacked(ptod, PtodRooms(queue, ptod))
  BY <1>2 DEF MemoryIsStacked
<1>5. n > 0 /\ m > 0 /\ queue[n].link = ptod[m].id
  <2>1. queue # <<>> /\ ptod # <<>> /\ Last(queue).link = Last(ptod).id
    BY <1>2 DEF LastIsLast
  <2>. QED
    BY <1>3, <2>1 DEF Last
<1>6. inTodo.id % Slots \in SlotIds /\ inPtod.id % Slots \in SlotIds
  <2>1. slots.todo \in [SlotIds -> Slot] /\ slots.ptod \in [SlotIds -> Slot]
    BY DEF IInv, TypeOK
  <2>2. inTodo.id \in Nat /\ inPtod.id \in Nat
    BY <2>1, CategoryAskedIsName, CategoryInType
  <2>. QED
    BY <2>2, SlotNumbers
<1>7. /\ TodoSize(Last(queue)) = TodoSize(queue[n]) /\ TodoSize(Last(queue)) \in Int
      /\ PtodRoom(Last(queue)) = PtodRoom(queue[n]) /\ PtodRoom(Last(queue)) \in Int
  <2>1. Last(queue) = queue[n] /\ n \in 1..n
    BY <1>3, <1>5 DEF Last
  <2>2. queue[n] \in Task
    BY <1>3, <2>1
  <2>. QED
    BY <2>1, <2>2, SizesAreNumbers
<1> DEFINE new == [header |-> header, text |-> text, priority |-> priority, due |-> 0,
                   alarm |-> None, repeat |-> None,
                   asked |-> Stored[name], link |-> id, fresh |-> TRUE]
           slotTodo == inTodo.id % Slots
           slotPtod == inPtod.id % Slots
           sizeTodo == TodoSize(Last(queue))
           sizePtod == PtodRoom(Last(queue))
<1>8. /\ todo' = With(todo, sizeTodo, id, slotTodo)
      /\ ptod' = With(ptod, sizePtod, id, slotPtod)
      /\ slotTodo \in SlotIds /\ slotPtod \in SlotIds
      /\ sizeTodo \in Int /\ sizePtod \in Int /\ id \in Ids
      /\ sizeTodo = TodoSize(queue[n]) /\ sizePtod = PtodRoom(queue[n])
  BY <1>1, <1>6, <1>7 DEF FreshIds
<1>9. queue' = Append(queue, new)
  BY <1>1
<1>10. /\ OneToOne(queue', ptod') /\ queue' \in Seq(Task)
       /\ DOMAIN queue' = 1..(n + 1) /\ \A i \in 1..n : queue'[i] = queue[i]
  <2>1. OneToOne(queue', ptod') /\ queue' \in Seq(Task)
    BY DEF IInv, EachTaskHasItsRecord, TypeOK
  <2> HIDE DEF new
  <2>. QED
    BY <1>3, <1>9, <2>1
<1> HIDE DEF new, slotTodo, slotPtod, sizeTodo, sizePtod, name
<1>11. /\ Len(ptod') = m + 1 /\ DOMAIN ptod' = 1..(m + 1)
       /\ \A j \in 1..m : ptod'[j].id = ptod[j].id
  <2>1. ptod # <<>>
    BY <1>3, <1>5
  <2>2. /\ With(ptod, sizePtod, id, slotPtod) \in Seq(Record)
        /\ Len(With(ptod, sizePtod, id, slotPtod)) = Len(ptod) + 1
        /\ \A i \in 1..Len(ptod) : With(ptod, sizePtod, id, slotPtod)[i].id = ptod[i].id
    BY <1>3, <1>8, <2>1, WithType
  <2>3. ptod' \in Seq(Record) /\ Len(ptod') = m + 1
    BY <1>8, <2>2
  <2>. QED
    BY <1>3, <1>8, <2>2, <2>3
<1>12. \A i \in 1..n :
         /\ TodoRooms(queue)[i] \in Int
         /\ TodoRooms(queue)[i] = TodoSize(queue[i])
         /\ TodoRooms(queue')[i] = TodoRooms(queue)[i]
  <2> TAKE i \in 1..n
  <2>1. i \in DOMAIN queue'
    BY <1>3, <1>10
  <2>2. TodoRooms(queue')[i] = TodoSize(queue'[i])
    BY <2>1 DEF TodoRooms
  <2>3. TodoRooms(queue)[i] = TodoSize(queue[i]) /\ TodoRooms(queue)[i] \in Nat
    BY <1>3, RoomsAreNumbers
  <2>. QED
    BY <1>10, <2>2, <2>3
<1>13. \A j \in 1..m :
         /\ PtodRooms(queue, ptod)[j] \in Int
         /\ PtodRooms(queue', ptod')[j] = PtodRooms(queue, ptod)[j]
  <2> TAKE j \in 1..m
  <2>1. /\ TaskAt(queue, ptod, j) \in 1..n
        /\ queue[TaskAt(queue, ptod, j)].link = ptod[j].id
    BY <1>3, TaskAtLinks
  <2>2. j \in DOMAIN ptod' /\ TaskAt(queue, ptod, j) \in DOMAIN queue'
    BY <1>3, <1>10, <1>11, <2>1
  <2>3. queue'[TaskAt(queue, ptod, j)].link = ptod'[j].id
    BY <1>10, <1>11, <2>1
  <2>4. TaskAt(queue', ptod', j) = TaskAt(queue, ptod, j)
    BY <1>10, <2>2, <2>3, TaskAtIs
  <2>5. PtodRooms(queue', ptod')[j] = PtodRoom(queue[TaskAt(queue, ptod, j)])
    BY <1>10, <2>1, <2>2, <2>4 DEF PtodRooms
  <2>6. PtodRooms(queue, ptod)[j] = PtodRoom(queue[TaskAt(queue, ptod, j)])
    BY <1>3 DEF PtodRooms
  <2>7. PtodRooms(queue, ptod)[j] \in Nat
    BY <1>2, RoomsAreNumbers
  <2>. QED
    BY <2>5, <2>6, <2>7
<1>14. PtodRooms(queue, ptod)[m] = sizePtod
  <2>1. m \in DOMAIN ptod /\ n \in DOMAIN queue
    BY <1>3, <1>5
  <2>2. TaskAt(queue, ptod, m) = n
    BY <1>3, <1>5, <2>1, TaskAtIs
  <2>. QED
    BY <1>8, <2>1, <2>2 DEF PtodRooms
<1> DEFINE todoRoom == TodoRooms(queue)
           todoRoom2 == TodoRooms(queue')
           ptodRoom == PtodRooms(queue, ptod)
           ptodRoom2 == PtodRooms(queue', ptod')
<1>15. Stacked(todo, todoRoom) /\ Stacked(ptod, ptodRoom)
  BY <1>4
<1>16. /\ \A i \in 1..Len(todo) : todoRoom[i] \in Int /\ todoRoom2[i] = todoRoom[i]
       /\ \A j \in 1..Len(ptod) : ptodRoom[j] \in Int /\ ptodRoom2[j] = ptodRoom[j]
       /\ todoRoom[Len(todo)] = sizeTodo /\ ptodRoom[Len(ptod)] = sizePtod
       /\ todo # <<>> /\ ptod # <<>>
  <2>1. n \in 1..n
    BY <1>3, <1>5
  <2>2. todoRoom[n] = sizeTodo
    BY <1>8, <1>12, <2>1
  <2>. QED
    BY <1>3, <1>5, <1>12, <1>13, <1>14, <2>2
<1> HIDE DEF todoRoom, todoRoom2, ptodRoom, ptodRoom2
<1>17. Stacked(With(todo, sizeTodo, id, slotTodo), todoRoom2)
  BY <1>3, <1>8, <1>15, <1>16, StackedWith
<1>18. Stacked(With(ptod, sizePtod, id, slotPtod), ptodRoom2)
  BY <1>3, <1>8, <1>15, <1>16, StackedWith
<1>19. Stacked(todo', todoRoom2) /\ Stacked(ptod', ptodRoom2)
  BY <1>8, <1>17, <1>18
<1>. QED
  BY <1>19 DEF MemoryIsStacked, todoRoom2, ptodRoom2

LEMMA TaskDeleteStacked ==
  ASSUME IInv, IInv', MemoryIsStacked, NEW k \in DOMAIN queue, TaskDelete(k)
  PROVE  MemoryIsStacked'
<1> SUFFICES ASSUME exact', open' PROVE MemoryIsStacked'
  BY DEF MemoryIsStacked
<1> DEFINE n == Len(queue)
           m == Len(ptod)
           r == RecordOf(k)
           to(i) == Shifted(i, k)
           at(j) == Shifted(j, r)
<1>1. /\ queue[k].link # None /\ exact /\ open
      /\ queue' = RemoveAt(queue, k)
      /\ todo' = Without(todo, k, TodoSize(queue[k]))
      /\ ptod' = Without(ptod, r, PtodRoom(queue[k]))
  BY DEF TaskDelete, Call
<1>2. /\ queue \in Seq(Task) /\ todo \in Seq(Record) /\ ptod \in Seq(Record)
      /\ DOMAIN queue = 1..n /\ DOMAIN todo = 1..n /\ DOMAIN ptod = 1..m
      /\ n \in Nat /\ m \in Nat /\ k \in 1..n /\ Len(todo) = n /\ OneToOne(queue, ptod)
  BY <1>1, MemoryIsTyped
<1>3. Stacked(todo, TodoRooms(queue)) /\ Stacked(ptod, PtodRooms(queue, ptod))
  BY <1>1 DEF MemoryIsStacked
<1>4. r \in 1..m /\ ptod[r].id = queue[k].link
  BY <1>1, RecordIsThere
<1>5. TodoRooms(queue)[k] = TodoSize(queue[k])
  BY <1>2, RoomsAreNumbers
<1>6. TaskAt(queue, ptod, r) = k
  BY <1>2, <1>4, TaskAtIs
<1>7. PtodRooms(queue, ptod)[r] = PtodRoom(queue[k])
  BY <1>2, <1>4, <1>6 DEF PtodRooms
<1>8. PtodRoom(queue[k]) \in Int
  <2>1. queue[k] \in Task
    BY <1>2
  <2>. QED
    BY <2>1, SizesAreNumbers
<1>9. OneToOne(queue', ptod')
  BY DEF IInv, EachTaskHasItsRecord
<1>10. /\ \A i \in 1..(n - 1) : to(i) \in 1..n /\ to(i) # k
       /\ \A x \in 1..n : x # k => \E i \in 1..(n - 1) : to(i) = x
  BY <1>2, ShiftedIs
<1>11. /\ DOMAIN queue' = 1..(n - 1) /\ \A i \in 1..(n - 1) : queue'[i] = queue[to(i)]
  <2>1. /\ queue' \in Seq(Task) /\ Len(queue') = n - 1
        /\ \A i \in 1..(n - 1) : queue'[i] = IF i < k THEN queue[i] ELSE queue[i + 1]
    BY <1>1, <1>2, RemoveAtType
  <2>2. DOMAIN queue' = 1..(n - 1)
    BY <2>1
  <2>. QED
    BY <2>1, <2>2 DEF Shifted
<1> HIDE DEF r
<1>12. \A j \in 1..(m - 1) : at(j) \in 1..m /\ at(j) # r
  BY <1>2, <1>4, ShiftedIs
<1>13. /\ DOMAIN ptod' = 1..(m - 1)
       /\ \A j \in 1..(m - 1) : ptod'[j].id = ptod[at(j)].id
  <2>1. /\ ptod' \in Seq(Record) /\ Len(ptod') = m - 1
        /\ \A j \in 1..(m - 1) : ptod'[j].id = ptod[at(j)].id
    BY <1>1, <1>2, <1>4, <1>8, WithoutType
  <2>2. DOMAIN ptod' = 1..(m - 1)
    BY <2>1
  <2>. QED
    BY <2>1, <2>2
<1> HIDE DEF to, at
<1>14. \A i \in 1..(n - 1) : TodoRooms(queue')[i] = TodoRooms(queue)[to(i)]
  <2> TAKE i \in 1..(n - 1)
  <2>1. TodoRooms(queue')[i] = TodoSize(queue'[i])
    BY <1>11 DEF TodoRooms
  <2>2. TodoRooms(queue)[to(i)] = TodoSize(queue[to(i)])
    BY <1>2, <1>10 DEF TodoRooms
  <2>. QED
    BY <1>11, <2>1, <2>2
<1>15. \A j \in 1..(m - 1) : PtodRooms(queue', ptod')[j] = PtodRooms(queue, ptod)[at(j)]
  <2> TAKE j \in 1..(m - 1)
  <2> DEFINE x == TaskAt(queue, ptod, at(j))
  <2>1. at(j) \in 1..m /\ at(j) # r
    BY <1>12
  <2>2. x \in 1..n /\ queue[x].link = ptod[at(j)].id
    BY <1>2, <2>1, TaskAtLinks
  <2>3. PtodRooms(queue, ptod)[at(j)] = PtodRoom(queue[x])
    BY <1>2, <2>1 DEF PtodRooms
  <2> HIDE DEF x
  <2>4. x # k
    <3> SUFFICES ASSUME x = k PROVE FALSE
      OBVIOUS
    <3>1. ptod[at(j)].id = ptod[r].id
      BY <1>4, <2>2
    <3>. QED
      BY <1>2, <1>4, <2>1, <3>1 DEF IInv, IdsDiffer
  <2>5. PICK i \in 1..(n - 1) : to(i) = x
    BY <1>10, <2>2, <2>4
  <2>6. queue'[i] = queue[x] /\ queue'[i].link = ptod'[j].id
    BY <1>11, <1>13, <2>2, <2>5
  <2>7. TaskAt(queue', ptod', j) = i
    <3>1. i \in DOMAIN queue' /\ j \in DOMAIN ptod'
      BY <1>11, <1>13
    <3>2. queue'[i].link = ptod'[j].id
      BY <2>6
    <3>. QED
      BY <1>9, <3>1, <3>2, TaskAtIs
  <2>8. PtodRooms(queue', ptod')[j] = PtodRoom(queue'[i])
    BY <1>13, <2>7 DEF PtodRooms
  <2>. QED
    BY <2>3, <2>6, <2>8
<1> DEFINE todoRoom == TodoRooms(queue)
           todoRoom2 == TodoRooms(queue')
           ptodRoom == PtodRooms(queue, ptod)
           ptodRoom2 == PtodRooms(queue', ptod')
<1>16. /\ Stacked(todo, todoRoom) /\ Stacked(ptod, ptodRoom)
       /\ \A i \in 1..Len(todo) : todoRoom[i] \in Int
       /\ \A j \in 1..Len(ptod) : ptodRoom[j] \in Int
       /\ \A i \in 1..(Len(todo) - 1) : todoRoom2[i] = todoRoom[Shifted(i, k)]
       /\ \A j \in 1..(Len(ptod) - 1) : ptodRoom2[j] = ptodRoom[Shifted(j, r)]
       /\ todo' = Without(todo, k, todoRoom[k]) /\ ptod' = Without(ptod, r, ptodRoom[r])
  <2>1. \A i \in 1..Len(todo) : todoRoom[i] \in Int
    BY RoomsAreNumbers
  <2>2. \A j \in 1..Len(ptod) : ptodRoom[j] \in Int
    BY <1>1, RoomsAreNumbers
  <2>3. \A i \in 1..(Len(todo) - 1) : todoRoom2[i] = todoRoom[Shifted(i, k)]
    BY <1>2, <1>14 DEF to
  <2>4. \A j \in 1..(Len(ptod) - 1) : ptodRoom2[j] = ptodRoom[Shifted(j, r)]
    BY <1>15 DEF at
  <2>5. todo' = Without(todo, k, todoRoom[k]) /\ ptod' = Without(ptod, r, ptodRoom[r])
    BY <1>1, <1>5, <1>7
  <2>. QED
    BY <1>3, <2>1, <2>2, <2>3, <2>4, <2>5
<1>17. k \in 1..Len(todo)
  BY <1>2
<1> HIDE DEF todoRoom, todoRoom2, ptodRoom, ptodRoom2, n, m
<1>18. Stacked(Without(todo, k, todoRoom[k]), todoRoom2)
  BY <1>2, <1>16, <1>17, StackedWithout
<1>19. Stacked(Without(ptod, r, ptodRoom[r]), ptodRoom2)
  BY <1>2, <1>4, <1>16, StackedWithout DEF m
<1>20. Stacked(todo', todoRoom2) /\ Stacked(ptod', ptodRoom2)
  BY <1>16, <1>18, <1>19
<1>. QED
  BY <1>20 DEF MemoryIsStacked, todoRoom2, ptodRoom2

-----------------------------------------------------------------------------
(* Reading *)

LEMMA EntryIsThere ==
  ASSUME NEW file, Whole(file), NEW i \in DOMAIN file.list
  PROVE  /\ Entry(file, file.list[i]) \in file.entries
         /\ Entry(file, file.list[i]).at = file.list[i].offset
<1>1. EntriesAt(file, file.list[i]) # {}
  BY DEF Whole
<1>2. Entry(file, file.list[i]) \in EntriesAt(file, file.list[i])
  BY <1>1, Zenon DEF Entry
<1>. QED
  BY <1>2 DEF EntriesAt

LEMMA LatestOfOne ==
  ASSUME NEW j \in Nat, NEW values, NEW none
  PROVE  Latest({j}, values, none) = values[j] /\ Latest({}, values, none) = none
<1>1. Max({j}) = j
  <2>1. \E x \in {j} : \A y \in {j} : x >= y
    OBVIOUS
  <2>2. Max({j}) \in {j}
    BY <2>1, Zenon DEF Max
  <2>. QED
    BY <2>2
<1>. QED
  BY <1>1 DEF Latest

\* A task that only one record comes to has what that record has.
LEMMA TaskReadOfOne ==
  ASSUME IInv, NEW pick, NEW i, NEW j \in DOMAIN files.ptod.list,
         j \in RecordsOf(pick, i), \A x \in RecordsOf(pick, i) : x = j
  PROVE  /\ TaskRead(pick, i).priority = Entry(files.ptod, files.ptod.list[j]).priority
         /\ TaskRead(pick, i).due = Entry(files.ptod, files.ptod.list[j]).due
         /\ TaskRead(pick, i).alarm = Entry(files.ptod, files.ptod.list[j]).alarm
         /\ TaskRead(pick, i).repeat = Entry(files.ptod, files.ptod.list[j]).repeat
         /\ TaskRead(pick, i).link = files.ptod.list[j].id
         /\ TaskRead(pick, i).header = Header(files.todo, i)
         /\ TaskRead(pick, i).text = Entry(files.todo, files.todo.list[i]).text
         /\ TaskRead(pick, i).asked
              = CategoriesRead(files.todo.slots)[files.todo.list[i].slot].name
<1> DEFINE list == files.ptod.list
           all == [x \in DOMAIN list |-> Entry(files.ptod, list[x])]
           entry == Entry(files.ptod, list[j])
           mine == RecordsOf(pick, i)
           task == TaskRead(pick, i)
<1>1. j \in Nat
  BY FilesAreTyped
<1>2. /\ task.priority = Latest(mine, [x \in mine |-> all[x].priority], PRIORITY_1)
      /\ task.due = Latest({x \in mine : all[x].due # 0}, [x \in mine |-> all[x].due], 0)
      /\ task.alarm = Latest({x \in mine : all[x].alarm # None},
                             [x \in mine |-> all[x].alarm], None)
      /\ task.repeat = Latest({x \in mine : all[x].repeat # None},
                              [x \in mine |-> all[x].repeat], None)
      /\ task.link = Latest(mine, [x \in mine |-> list[x].id], None)
      /\ task.header = Header(files.todo, i)
      /\ task.text = Entry(files.todo, files.todo.list[i]).text
      /\ task.asked = CategoriesRead(files.todo.slots)[files.todo.list[i].slot].name
  BY DEF TaskRead
<1>3. all[j] = entry
  OBVIOUS
<1>4. mine = {j}
  BY DEF mine
<1> HIDE DEF all, entry, mine, task
<1>5. task.priority = entry.priority /\ task.link = list[j].id
  <2>1. /\ task.priority = [x \in mine |-> all[x].priority][j]
        /\ task.link = [x \in mine |-> list[x].id][j]
    BY <1>1, <1>2, <1>4, LatestOfOne
  <2>2. j \in mine
    BY <1>4
  <2>. QED
    BY <1>3, <2>1, <2>2
<1>6. task.due = entry.due
  <2>1. CASE entry.due # 0
    <3>1. {x \in mine : all[x].due # 0} = {j}
      BY <1>3, <1>4, <2>1
    <3>2. task.due = [x \in mine |-> all[x].due][j]
      BY <1>1, <1>2, <3>1, LatestOfOne
    <3>3. j \in mine
      BY <1>4
    <3>. QED
      BY <1>3, <3>2, <3>3
  <2>2. CASE entry.due = 0
    <3>1. {x \in mine : all[x].due # 0} = {}
      BY <1>3, <1>4, <2>2
    <3>2. task.due = Latest({}, [x \in mine |-> all[x].due], 0)
      BY <1>2, <3>1, Zenon
    <3>3. task.due = 0
      BY <3>2, Zenon DEF Latest
    <3>. QED
      BY <2>2, <3>3
  <2>. QED
    BY <2>1, <2>2
<1>7. task.alarm = entry.alarm
  <2>1. CASE entry.alarm # None
    <3>1. {x \in mine : all[x].alarm # None} = {j}
      BY <1>3, <1>4, <2>1
    <3>2. task.alarm = [x \in mine |-> all[x].alarm][j]
      BY <1>1, <1>2, <3>1, LatestOfOne
    <3>3. j \in mine
      BY <1>4
    <3>. QED
      BY <1>3, <3>2, <3>3
  <2>2. CASE entry.alarm = None
    <3>1. {x \in mine : all[x].alarm # None} = {}
      BY <1>3, <1>4, <2>2
    <3>2. task.alarm = Latest({}, [x \in mine |-> all[x].alarm], None)
      BY <1>2, <3>1, Zenon
    <3>3. task.alarm = None
      BY <3>2, Zenon DEF Latest
    <3>. QED
      BY <2>2, <3>3
  <2>. QED
    BY <2>1, <2>2
<1>8. task.repeat = entry.repeat
  <2>1. CASE entry.repeat # None
    <3>1. {x \in mine : all[x].repeat # None} = {j}
      BY <1>3, <1>4, <2>1
    <3>2. task.repeat = [x \in mine |-> all[x].repeat][j]
      BY <1>1, <1>2, <3>1, LatestOfOne
    <3>3. j \in mine
      BY <1>4
    <3>. QED
      BY <1>3, <3>2, <3>3
  <2>2. CASE entry.repeat = None
    <3>1. {x \in mine : all[x].repeat # None} = {}
      BY <1>3, <1>4, <2>2
    <3>2. task.repeat = Latest({}, [x \in mine |-> all[x].repeat], None)
      BY <1>2, <3>1, Zenon
    <3>3. task.repeat = None
      BY <3>2, Zenon DEF Latest
    <3>. QED
      BY <2>2, <3>3
  <2>. QED
    BY <2>1, <2>2
<1>. QED
  BY <1>2, <1>5, <1>6, <1>7, <1>8 DEF entry, task

LEMMA PickedByHeader ==
  ASSUME NEW pick \in Picks, NEW i, NEW j \in RecordsOf(pick, i)
  PROVE  /\ i \in DOMAIN files.todo.list /\ j \in DOMAIN files.ptod.list
         /\ pick[Header(files.ptod, j)] = i
         /\ Header(files.ptod, j) = Header(files.todo, i)
<1>1. /\ j \in DOMAIN files.ptod.list /\ Header(files.ptod, j) \in DOMAIN pick
      /\ pick[Header(files.ptod, j)] = i
  BY DEF RecordsOf
<1>2. /\ pick \in [Headers(files.todo) -> DOMAIN files.todo.list]
      /\ \A header \in Headers(files.todo) : Header(files.todo, pick[header]) = header
  BY DEF Picks
<1>3. Header(files.ptod, j) \in Headers(files.todo)
  BY <1>1, <1>2
<1>. QED
  BY <1>1, <1>2, <1>3

LEMMA QueueReadIs ==
  ASSUME IInv, NEW pick
  PROVE  /\ DOMAIN QueueRead(pick) = DOMAIN files.todo.list
         /\ \A i \in DOMAIN files.todo.list : QueueRead(pick)[i] = TaskRead(pick, i)
BY DEF QueueRead

\* If the tasks that are read and the records are one to one, a task and its record
\* have a header that no other task and no other record has.
LEMMA ReadOneToOne ==
  ASSUME IInv, NEW pick \in Picks, OneToOne(QueueRead(pick), files.ptod.list),
         NEW i \in DOMAIN files.todo.list, NEW j \in DOMAIN files.ptod.list,
         QueueRead(pick)[i].link = files.ptod.list[j].id
  PROVE  RecordsOf(pick, i) = {j} /\ Joined(files, i, j)
<1> DEFINE list == files.ptod.list
           tasks == QueueRead(pick)
<1>1. /\ DOMAIN tasks = DOMAIN files.todo.list
      /\ \A k \in DOMAIN tasks : tasks[k] = TaskRead(pick, k)
  BY QueueReadIs
<1>2. \A x \in DOMAIN list : list[x].id # None
  <2> TAKE x \in DOMAIN list
  <2>1. list[x] \in Record
    BY FilesAreTyped
  <2>2. list[x].id \in Ids
    BY <2>1 DEF Record
  <2>. QED
    BY <2>2, TaskConstantsOK
<1>3. \A x, y \in DOMAIN list : list[x].id = list[y].id => x = y
  BY DEF IInv, IdsDiffer
<1>4. /\ \A k \in DOMAIN tasks : \E x \in DOMAIN list : tasks[k].link = list[x].id
      /\ \A x \in DOMAIN list : \E k \in DOMAIN tasks : tasks[k].link = list[x].id
  BY DEF OneToOne
<1> HIDE DEF tasks
<1>5. ASSUME NEW k \in DOMAIN tasks, NEW x \in DOMAIN list, tasks[k].link = list[x].id
      PROVE  x \in RecordsOf(pick, k)
  <2>1. TaskRead(pick, k).link = list[x].id /\ TaskRead(pick, k).link # None
    BY <1>1, <1>2, <1>5
  <2>2. PICK y \in RecordsOf(pick, k) :
          y \in DOMAIN list /\ TaskRead(pick, k).link = list[y].id
    BY <2>1, LinkRead
  <2>. QED
    BY <1>3, <2>1, <2>2
<1>6. i \in DOMAIN tasks /\ tasks[i].link = list[j].id
  BY <1>1 DEF tasks
<1>7. j \in RecordsOf(pick, i)
  BY <1>5, <1>6
<1>8. ASSUME NEW x \in RecordsOf(pick, i) PROVE x = j
  <2>1. x \in DOMAIN list /\ pick[Header(files.ptod, x)] = i
    BY PickedByHeader
  <2>2. PICK k \in DOMAIN tasks : tasks[k].link = list[x].id
    BY <1>4, <2>1
  <2>3. x \in RecordsOf(pick, k)
    BY <1>5, <2>1, <2>2
  <2>4. k = i
    BY <2>1, <2>3, PickedByHeader
  <2>. QED
    BY <1>3, <1>6, <2>1, <2>2, <2>4
<1>9. RecordsOf(pick, i) = {j}
  BY <1>7, <1>8
<1>10. Header(files.todo, i) = Header(files.ptod, j) /\ pick[Header(files.ptod, j)] = i
  BY <1>7, PickedByHeader
<1>11. ASSUME NEW k \in DOMAIN files.todo.list, Header(files.todo, k) = Header(files.todo, i)
       PROVE  k = i
  <2>1. PICK x \in DOMAIN list : tasks[k].link = list[x].id
    BY <1>1, <1>4
  <2>2. x \in RecordsOf(pick, k)
    BY <1>1, <1>5, <2>1
  <2>3. Header(files.ptod, x) = Header(files.todo, k) /\ pick[Header(files.ptod, x)] = k
    BY <2>2, PickedByHeader
  <2>. QED
    BY <1>10, <1>11, <2>3
<1>12. ASSUME NEW k \in DOMAIN list, Header(files.ptod, k) = Header(files.ptod, j)
       PROVE  k = j
  <2>1. Header(files.ptod, j) \in DOMAIN pick
    BY <1>7 DEF RecordsOf
  <2>2. k \in RecordsOf(pick, i)
    BY <1>10, <1>12, <2>1 DEF RecordsOf
  <2>. QED
    BY <1>8, <2>2
<1>. QED
  BY <1>9, <1>10, <1>11, <1>12 DEF Joined

-----------------------------------------------------------------------------
(* What the files are *)

\* What the last write or the handheld has left is laid out, and any entry takes what
\* is in it.
FilesAreLaidOut == written \in {"never", "sound"} => LaidOut(files)
EntriesAreSized == Sized(files)

\* What an entry of TasksDB-PTod that can be parsed takes is the room it is given.
LEMMA ParsedTakesItsRoom ==
  ASSUME NEW entry \in InPtod, Parses(entry)
  PROVE  PtodRoom(entry) = PtodSize(entry)
<1>1. RoomForRepeat(entry) = RepeatSize(entry)
  BY DEF Parses, RoomForRepeat, RepeatSize, DueSize
<1>. QED
  BY <1>1 DEF PtodRoom, PtodSize

LEMMA OpenStacked ==
  ASSUME IInv, IInv', FilesAreLaidOut, EntriesAreSized, Open
  PROVE  MemoryIsStacked'
<1> SUFFICES ASSUME exact', open' PROVE MemoryIsStacked'
  BY DEF MemoryIsStacked
<1> DEFINE n == Len(files.todo.list)
           m == Len(files.ptod.list)
<1>1. PICK pick \in Picks : queue' = QueueRead(pick)
  BY DEF Open
<1>2. /\ Readable /\ todo' = files.todo.list /\ ptod' = files.ptod.list
      /\ OneToOne(queue', ptod') /\ written \in {"never", "sound"}
      /\ \A j \in DOMAIN files.ptod.list : Appends(j)
  BY DEF Open
<1>3. /\ files.todo.list \in Seq(Record) /\ files.ptod.list \in Seq(Record)
      /\ DOMAIN files.todo.list = 1..n /\ DOMAIN files.ptod.list = 1..m
      /\ Whole(files.todo) /\ Whole(files.ptod)
  BY <1>2, FilesAreTyped DEF Readable
<1>4. LaidOut(files) /\ Sized(files)
  BY <1>2 DEF FilesAreLaidOut, EntriesAreSized
<1>5. \A j \in 1..m : Parses(Entry(files.ptod, files.ptod.list[j]))
  BY <1>2, <1>3 DEF Appends
<1>6. /\ Stacked(files.todo.list, SizesIn(files.todo))
      /\ Stacked(files.ptod.list, SizesIn(files.ptod))
  BY <1>3, <1>4, <1>5 DEF LaidOut
<1>7. /\ DOMAIN queue' = 1..n
      /\ \A i \in 1..n : queue'[i] = TaskRead(pick, i)
  BY <1>1, <1>3, QueueReadIs
<1>8. \A i \in 1..n : TodoRooms(queue')[i] = SizesIn(files.todo)[i]
  <2> TAKE i \in 1..n
  <2> DEFINE entry == Entry(files.todo, files.todo.list[i])
  <2>1. entry \in files.todo.entries
    BY <1>3, EntryIsThere
  <2>2. entry.size = TodoSize(entry)
    BY <1>4, <2>1 DEF Sized
  <2>3. queue'[i].header = entry.header /\ queue'[i].text = entry.text
    <3>1. queue'[i] = TaskRead(pick, i)
      BY <1>7
    <3>2. /\ TaskRead(pick, i).header = Header(files.todo, i)
          /\ TaskRead(pick, i).text = entry.text
      BY DEF TaskRead
    <3>3. Header(files.todo, i) = entry.header
      BY DEF Header
    <3>. QED
      BY <3>1, <3>2, <3>3
  <2>4. SizesIn(files.todo)[i] = entry.size
    BY <1>3 DEF SizesIn
  <2>5. TodoRooms(queue')[i] = TodoSize(queue'[i])
    BY <1>7 DEF TodoRooms
  <2> HIDE DEF entry
  <2>6. TodoSize(queue'[i]) = TodoSize(entry)
    BY <2>3 DEF TodoSize, StringsSize
  <2>. QED
    BY <2>2, <2>4, <2>5, <2>6
<1>9. \A j \in 1..m : PtodRooms(queue', ptod')[j] = SizesIn(files.ptod)[j]
  <2> TAKE j \in 1..m
  <2> DEFINE entry == Entry(files.ptod, files.ptod.list[j])
  <2>1. j \in DOMAIN ptod' /\ j \in DOMAIN files.ptod.list
    BY <1>2, <1>3
  <2>2. PICK i \in DOMAIN queue' :
          i = TaskAt(queue', ptod', j) /\ queue'[i].link = ptod'[j].id
    BY <1>2, <2>1, TaskAtLinks
  <2>3. PtodRooms(queue', ptod')[j] = PtodRoom(queue'[i])
    BY <2>1, <2>2 DEF PtodRooms
  <2>4. i \in DOMAIN files.todo.list /\ i \in 1..n
    BY <1>3, <1>7, <2>2
  <2>5. RecordsOf(pick, i) = {j} /\ Joined(files, i, j)
    <3>1. QueueRead(pick)[i].link = files.ptod.list[j].id
      BY <1>1, <1>2, <2>2
    <3>2. OneToOne(QueueRead(pick), files.ptod.list)
      BY <1>1, <1>2
    <3>. QED
      BY <2>1, <2>4, <3>1, <3>2, ReadOneToOne
  <2> DEFINE task == TaskRead(pick, i)
  <2>6. /\ task.due = entry.due /\ task.alarm = entry.alarm /\ task.repeat = entry.repeat
        /\ task.header = Header(files.todo, i)
        /\ task.text = Entry(files.todo, files.todo.list[i]).text
    <3>1. /\ j \in DOMAIN files.ptod.list /\ j \in RecordsOf(pick, i)
          /\ \A x \in RecordsOf(pick, i) : x = j
      BY <2>1, <2>5
    <3>. QED
      BY <3>1, TaskReadOfOne
  <2>7. Length[task.text] = Length[entry.text]
    BY <1>4, <2>1, <2>4, <2>5, <2>6 DEF LaidOut
  <2>8. task.header = entry.header
    BY <2>5, <2>6 DEF Joined, Header
  <2>9. queue'[i] = task
    BY <1>7, <2>4
  <2>10. entry \in files.ptod.entries /\ entry \in InPtod
    <3>1. entry \in files.ptod.entries
      BY <1>3, EntryIsThere
    <3>. QED
      BY <3>1, FilesAreTyped
  <2>11. entry.size = PtodSize(entry) /\ Parses(entry)
    BY <1>4, <1>5, <2>10 DEF Sized
  <2>12. SizesIn(files.ptod)[j] = entry.size
    BY <1>3 DEF SizesIn
  <2> HIDE DEF entry, task
  <2>13. PtodRoom(task) = PtodRoom(entry)
    BY <2>6, <2>7, <2>8 DEF PtodRoom, DueSize, AlarmSize, RoomForRepeat, StringsSize
  <2>14. PtodRoom(entry) = PtodSize(entry)
    BY <2>10, <2>11, ParsedTakesItsRoom
  <2>. QED
    BY <2>3, <2>9, <2>11, <2>12, <2>13, <2>14
<1> DEFINE todoRoom == TodoRooms(queue')
           ptodRoom == PtodRooms(queue', ptod')
<1>10. /\ \A i \in 1..(Len(files.todo.list) - 1) : todoRoom[i] = SizesIn(files.todo)[i]
       /\ \A j \in 1..(Len(files.ptod.list) - 1) : ptodRoom[j] = SizesIn(files.ptod)[j]
  <2>1. n \in Nat /\ m \in Nat
    BY FilesAreTyped
  <2>. QED
    BY <1>8, <1>9, <2>1
<1> HIDE DEF todoRoom, ptodRoom
<1>11. Stacked(files.todo.list, todoRoom) /\ Stacked(files.ptod.list, ptodRoom)
  <2>1. Stacked(files.todo.list, todoRoom)
    <3>1. /\ files.todo.list \in Seq(Record)
          /\ Stacked(files.todo.list, SizesIn(files.todo))
          /\ \A i \in 1..(Len(files.todo.list) - 1) : todoRoom[i] = SizesIn(files.todo)[i]
      BY <1>3, <1>6, <1>10
    <3>. QED
      BY <3>1, StackedSame, Zenon
  <2>2. Stacked(files.ptod.list, ptodRoom)
    BY <1>3, <1>6, <1>10, StackedSame
  <2>. QED
    BY <2>1, <2>2
<1>12. Stacked(todo', todoRoom) /\ Stacked(ptod', ptodRoom)
  BY <1>2, <1>11
<1>. QED
  BY <1>12 DEF MemoryIsStacked, todoRoom, ptodRoom

-----------------------------------------------------------------------------
(* Categories *)

\* What pdb_read() would remove from the categories has been removed.
SlotsWereRead == \A db \in {"todo", "ptod"} : CategoriesRead(slots[db]) = slots[db]

\* A category that is found or added is in the slot of its id, and those that were there
\* stay.
LEMMA CategoryInRead ==
  ASSUME NEW cats \in [SlotIds -> Slot], CategoriesRead(cats) = cats, NEW name \in Names,
         NEW found \in CategoryIn(cats, name)
  PROVE  /\ CategoriesRead(found.slots) = found.slots
         /\ \A i \in SlotIds : cats[i].name # NoName => found.slots[i] = cats[i]
         /\ SoundCategories(cats) =>
              /\ SoundCategories(found.slots)
              /\ found.slots[found.id % Slots].name = Stored[name]
<1>1. CASE IdsOf(cats, name) # {}
  <2>1. found.slots = cats /\ found.id \in IdsOf(cats, name)
    BY <1>1 DEF CategoryIn
  <2>2. ASSUME SoundCategories(cats)
        PROVE  cats[found.id % Slots].name = Stored[name]
    BY <2>1, <2>2, FoundIsThere
  <2>. QED
    BY <2>1, <2>2
<1>2. CASE IdsOf(cats, name) = {} /\ Free(cats) # {}
  <2>1. found.slots = CategoryAdd(cats, name) /\ found.id = FirstFree(cats)
    BY <1>2 DEF CategoryIn
  <2>2. FirstFree(cats) \in SlotIds /\ cats[FirstFree(cats)].name = NoName
    BY <1>2, FirstFreeIsFree
  <2>3. /\ CategoriesRead(found.slots) = found.slots
        /\ \A i \in SlotIds : found.slots[i] =
             IF i = FirstFree(cats) THEN [name |-> Stored[name], id |-> i] ELSE cats[i]
    BY <1>2, <2>1, CategoryAddType
  <2>4. Stored[Stored[name]] = Stored[name]
    BY TruncationOK
  <2>5. ASSUME SoundCategories(cats) PROVE SoundCategories(found.slots)
    <3> SUFFICES ASSUME NEW i \in SlotIds, found.slots[i].name # NoName
                 PROVE  found.slots[i].id = i
                        /\ Stored[found.slots[i].name] = found.slots[i].name
      BY DEF SoundCategories
    <3>1. CASE i = FirstFree(cats)
      <4>1. found.slots[i] = [name |-> Stored[name], id |-> i]
        BY <2>3, <3>1
      <4>2. found.slots[i].name = Stored[name] /\ found.slots[i].id = i
        BY <4>1
      <4>. QED
        BY <2>4, <4>2
    <3>2. CASE i # FirstFree(cats)
      <4>1. found.slots[i] = cats[i]
        BY <2>3, <3>2
      <4>2. cats[i].name # NoName
        BY <4>1
      <4>3. cats[i].id = i /\ Stored[cats[i].name] = cats[i].name
        BY <2>5, <4>2 DEF SoundCategories
      <4>. QED
        BY <4>1, <4>3
    <3>. QED
      BY <3>1, <3>2
  <2>6. found.slots[found.id % Slots].name = Stored[name]
    <3>1. found.id % Slots = FirstFree(cats)
      BY <2>1, <2>2, SlotNumbers
    <3>2. found.slots[FirstFree(cats)] = [name |-> Stored[name], id |-> FirstFree(cats)]
      BY <2>2, <2>3
    <3>. QED
      BY <3>1, <3>2
  <2>. QED
    BY <2>2, <2>3, <2>5, <2>6
<1>3. CASE IdsOf(cats, name) = {} /\ Free(cats) = {}
  BY <1>3 DEF CategoryIn
<1>. QED
  BY <1>1, <1>2, <1>3

LEMMA SlotsAreTyped ==
  ASSUME IInv, NEW db \in {"todo", "ptod"}
  PROVE  slots[db] \in [SlotIds -> Slot] /\ files[db].slots \in [SlotIds -> Slot]
<1>1. slots[db] \in [SlotIds -> Slot]
  BY DEF IInv, TypeOK
<1>. QED
  BY <1>1, FilesAreTyped

\* What a step may do to the categories of a file.
SlotsMove(db) ==
  \/ slots'[db] = slots[db]
  \/ slots'[db] = [i \in SlotIds |-> EmptySlot]
  \/ slots'[db] = CategoriesRead(files[db].slots)
  \/ \E name \in Names : \E found \in CategoryIn(slots[db], name) :
       slots'[db] = found.slots

LEMMA SlotsStep ==
  ASSUME IInv, [Next]_vars, NEW db \in {"todo", "ptod"}
  PROVE  SlotsMove(db)
<1>0. slots \in [{"todo", "ptod"} -> [SlotIds -> Slot]]
  BY DEF IInv, TypeOK
<1>1. CASE Open
  <2>1. slots' = SlotsRead
    BY <1>1 DEF Open
  <2>2. slots'[db] = CategoriesRead(files[db].slots)
    BY <2>1 DEF SlotsRead
  <2>. QED
    BY <2>2 DEF SlotsMove
<1>2. CASE slots' = NoSlots
  BY <1>2 DEF SlotsMove, NoSlots
<1>3. CASE UNCHANGED slots
  BY <1>3 DEF SlotsMove
<1>4. ASSUME NEW category \in Names \cup {None}, NEW header \in NewHeaders,
             NEW text \in NewTexts, NEW priority \in Priorities,
             TaskAdd(header, text, category, priority)
      PROVE  SlotsMove(db)
  <2>1. PICK inTodo \in CategoryIn(slots.todo, CategoryAsked(category)),
             inPtod \in CategoryIn(slots.ptod, CategoryAsked(category)) :
               slots' = [todo |-> inTodo.slots, ptod |-> inPtod.slots]
    BY <1>4 DEF TaskAdd
  <2>2. \E found \in CategoryIn(slots[db], CategoryAsked(category)) :
          slots'[db] = found.slots
    BY <2>1
  <2>. QED
    BY <2>2, CategoryAskedIsName DEF SlotsMove
<1>5. ASSUME NEW category \in Names \cup {None}, TaskAddFails(category)
      PROVE  SlotsMove(db)
  <2>1. \/ UNCHANGED slots
        \/ \E t \in CategoryIn(slots.todo, CategoryAsked(category)) :
             slots' = [slots EXCEPT !.todo = t.slots]
        \/ \E t \in CategoryIn(slots.todo, CategoryAsked(category)),
              p \in CategoryIn(slots.ptod, CategoryAsked(category)) :
             slots' = [todo |-> t.slots, ptod |-> p.slots]
    BY <1>5 DEF TaskAddFails
  <2>2. \/ slots'[db] = slots[db]
        \/ \E found \in CategoryIn(slots[db], CategoryAsked(category)) :
             slots'[db] = found.slots
    BY <1>0, <2>1
  <2>. QED
    BY <2>2, CategoryAskedIsName DEF SlotsMove
<1>6. Next => \/ Open \/ slots' = NoSlots \/ UNCHANGED slots
              \/ \E category \in Names \cup {None} :
                   \/ \E header \in NewHeaders, text \in NewTexts, priority \in Priorities :
                        TaskAdd(header, text, category, priority)
                   \/ TaskAddFails(category)
  <2>1. OpenFails \/ TaskEditFails \/ Write \/ WriteFails => UNCHANGED slots
    BY DEF OpenFails, TaskEditFails, Write, WriteFails, memory
  <2>2. Close \/ WriteDies => slots' = NoSlots
    BY DEF Close, WriteDies, Dies, Forgotten
  <2>3. ASSUME NEW k \in DOMAIN queue
        PROVE  /\ TaskSetDies(k) \/ TaskDeleteDies(k) => slots' = NoSlots
               /\ TaskDelete(k) => UNCHANGED slots
               /\ \A year : TaskSetDue(k, year) => UNCHANGED slots
               /\ \A alarm : TaskSetAlarm(k, alarm) => UNCHANGED slots
               /\ \A repeat : TaskSetRepeat(k, repeat) => UNCHANGED slots
    <3>1. TaskSetDies(k) \/ TaskDeleteDies(k) => slots' = NoSlots
      BY DEF TaskSetDies, ResizeDies, TaskDeleteDies, Dies, Forgotten
    <3>2. TaskDelete(k) => UNCHANGED slots
      BY DEF TaskDelete
    <3>3. /\ \A year : TaskSetDue(k, year) => UNCHANGED slots
          /\ \A alarm : TaskSetAlarm(k, alarm) => UNCHANGED slots
          /\ \A repeat : TaskSetRepeat(k, repeat) => UNCHANGED slots
      BY DEF TaskSetDue, TaskSetAlarm, TaskSetRepeat
    <3>. QED
      BY <3>1, <3>2, <3>3
  <2>. QED
    BY <2>1, <2>2, <2>3 DEF Next
<1>7. UNCHANGED vars => UNCHANGED slots
  BY DEF vars
<1>. QED
  BY <1>1, <1>2, <1>3, <1>4, <1>5, <1>6, <1>7

\* The categories in memory are none that reading would prune.
LEMMA SlotsStayRead ==
  ASSUME IInv, SlotsWereRead, [Next]_vars
  PROVE  SlotsWereRead'
<1> SUFFICES ASSUME NEW db \in {"todo", "ptod"}
             PROVE  CategoriesRead(slots'[db]) = slots'[db]
  BY DEF SlotsWereRead
<1>1. /\ slots[db] \in [SlotIds -> Slot] /\ files[db].slots \in [SlotIds -> Slot]
      /\ CategoriesRead(slots[db]) = slots[db]
  BY SlotsAreTyped DEF SlotsWereRead
<1>2. CategoriesRead([i \in SlotIds |-> EmptySlot]) = [i \in SlotIds |-> EmptySlot]
  BY DEF CategoriesRead
<1>3. SlotsMove(db)
  BY SlotsStep
<1>4. ASSUME NEW name \in Names, NEW found \in CategoryIn(slots[db], name)
      PROVE  CategoriesRead(found.slots) = found.slots
  BY <1>1, CategoryInRead
<1>. QED
  BY <1>1, <1>2, <1>3, <1>4, ReadOnce DEF SlotsMove

-----------------------------------------------------------------------------
(* Entries *)

\* An entry takes the room of the task it is of, or less where a repetition has no due
\* date.
LEMMA EntrySizes ==
  ASSUME NEW task \in Task, NEW at
  PROVE  /\ TodoSize(TodoEntry(task, at)) = TodoSize(task)
         /\ PtodSize(PtodEntry(task, at)) = PtodSize(task)
         /\ TodoSize(task) > 0 /\ PtodSize(task) > 0
         /\ PtodSize(task) <= PtodRoom(task)
         /\ Parses(PtodEntry(task, at)) <=> Parses(task)
         /\ Parses(task) => PtodSize(task) = PtodRoom(task)
<1> DEFINE t == TodoEntry(task, at)
           p == PtodEntry(task, at)
<1>1. /\ t.header = task.header /\ t.text = task.text
      /\ p.header = task.header /\ p.text = task.text /\ p.alarm = task.alarm
      /\ p.due = YearStored(task.due) /\ p.repeat = RepeatStored(task.repeat)
  BY DEF TodoEntry, PtodEntry
<1> HIDE DEF t, p
<1>2. task.due \in Nat /\ task.repeat \in Repeats \cup {None}
  BY DEF Task
<1>3. YearStored(task.due) = 0 <=> task.due = 0
  <2>1. CASE task.due = 0
    BY <2>1 DEF YearStored
  <2>2. CASE task.due # 0
    <3>1. task.due - 1904 \in Int /\ 2^7 \in Nat \ {0}
      BY <1>2
    <3>2. (task.due - 1904) % 2^7 \in Nat
      BY <3>1
    <3>3. YearStored(task.due) = 1904 + ((task.due - 1904) % 2^7)
      BY <2>2 DEF YearStored
    <3>. QED
      BY <2>2, <3>2, <3>3
  <2>. QED
    BY <2>1, <2>2
<1>4. RepeatStored(task.repeat) = None <=> task.repeat = None
  <2>1. CASE task.repeat = None
    BY <2>1 DEF RepeatStored
  <2>2. CASE task.repeat # None
    <3>1. task.repeat \in Repeats
      BY <1>2, <2>2
    <3>2. YearStored(task.repeat.until) \in Nat
      BY <3>1, StoredIsNumber DEF Repeats
    <3>3. RepeatStored(task.repeat) \in Repeats
      BY <2>2, <3>1, <3>2 DEF RepeatStored, Repeats
    <3>. QED
      BY <2>2, <3>3, TaskConstantsOK
  <2>. QED
    BY <2>1, <2>2
<1>5. /\ DueSize(p) = DueSize(task) /\ AlarmSize(p) = AlarmSize(task)
      /\ StringsSize(p) = StringsSize(task) /\ StringsSize(t) = StringsSize(task)
  BY <1>1, <1>3 DEF DueSize, AlarmSize, StringsSize
<1>6. RepeatSize(p) = RepeatSize(task)
  BY <1>1, <1>4, <1>5 DEF RepeatSize
<1>7. TodoSize(t) = TodoSize(task) /\ PtodSize(p) = PtodSize(task)
  BY <1>5, <1>6 DEF TodoSize, PtodSize
<1>8. /\ StringsSize(task) \in Nat /\ AlarmSize(task) \in Nat
      /\ DueSize(task) \in {0, 2} /\ RepeatSize(task) \in Nat
  <2>1. StringsSize(task) \in Nat
    BY TaskConstantsOK DEF Task, StringsSize
  <2>2. AlarmSize(task) \in Nat /\ DueSize(task) \in {0, 2}
    BY DEF AlarmSize, DueSize
  <2>. QED
    BY <2>1, <2>2 DEF RepeatSize
<1>9. TodoSize(task) > 0 /\ PtodSize(task) > 0
  BY <1>8 DEF TodoSize, PtodSize
<1>10. RepeatSize(task) <= RoomForRepeat(task) /\ RoomForRepeat(task) \in Nat
  BY <1>8 DEF RepeatSize, RoomForRepeat
<1>11. PtodSize(task) <= PtodRoom(task)
  BY <1>8, <1>10 DEF PtodSize, PtodRoom
<1>12. Parses(p) <=> Parses(task)
  BY <1>1, <1>3, <1>4 DEF Parses
<1>13. ASSUME Parses(task) PROVE PtodSize(task) = PtodRoom(task)
  <2>1. RepeatSize(task) = RoomForRepeat(task)
    BY <1>13 DEF Parses, RoomForRepeat, RepeatSize, DueSize
  <2>. QED
    BY <2>1 DEF PtodSize, PtodRoom
<1>. QED
  BY <1>7, <1>9, <1>11, <1>12, <1>13 DEF t, p

\* Entries that do not touch one another are all there after they have been written, each
\* the only one at its address.
LEMMA EntriesStay ==
  ASSUME NEW old, NEW qty, NEW n \in Nat, NEW new, DOMAIN new = 1..n, Len(new) = n,
         \A i \in 1..n : new[i].at \in Int /\ new[i].size \in Nat \ {0},
         \A e \in old : e.at \in Int /\ e.size \in Nat \ {0},
         \A i, j \in 1..n : i # j => Apart(new[i], new[j]),
         NEW k \in 1..n
  PROVE  {e \in EntriesWith(old, qty, new) : e.at = new[k].at} = {new[k]}
<1>1. new[k] \in EntriesWith(old, qty, new)
  <2>1. \A later \in k + 1..n : later \in 1..n /\ later # k
    OBVIOUS
  <2>2. \A later \in k + 1..Len(new) : Apart(new[k], new[later])
    BY <2>1
  <2>. QED
    BY <2>2, Zenon DEF EntriesWith
<1>2. ASSUME NEW e \in EntriesWith(old, qty, new), e.at = new[k].at
      PROVE  e = new[k]
  <2>1. CASE e \in old /\ \A i \in DOMAIN new : Apart(e, new[i])
    <3>1. Apart(e, new[k])
      BY <2>1
    <3>2. /\ e.at \in Int /\ e.size \in Nat \ {0}
          /\ new[k].at \in Int /\ new[k].size \in Nat \ {0}
      BY <2>1
    <3>. QED
      BY <1>2, <3>1, <3>2 DEF Apart
  <2>2. ASSUME NEW i \in 1..n, e = new[i]
        PROVE  e = new[k]
    <3> SUFFICES ASSUME i # k PROVE FALSE
      BY <2>2
    <3>1. Apart(new[i], new[k]) /\ new[i].at = new[k].at
      BY <1>2, <2>2
    <3>2. /\ new[i].at \in Int /\ new[i].size \in Nat \ {0}
          /\ new[k].at \in Int /\ new[k].size \in Nat \ {0}
      OBVIOUS
    <3>. QED
      BY <3>1, <3>2 DEF Apart
  <2>. QED
    BY <2>1, <2>2 DEF EntriesWith
<1>. QED
  BY <1>1, <1>2

\* Whatever is written, and however far, an entry takes what is in it.
LEMMA WrittenIsSized ==
  ASSUME IInv, EntriesAreSized, NEW step \in 0..Steps, Feasible(step)
  PROVE  Sized(FilesAfter(step))
<1> DEFINE n == Len(queue)
           x == step \div 2
           y == (step - 1) \div 2
           todoEntries == [i \in 1..x |-> TodoEntry(queue[i], todo[i].offset)]
           ptodEntries == [i \in 1..y |-> PtodEntry(queue[i], ptod[RecordOf(i)].offset)]
           todoWith == EntriesWith(files.todo.entries, Len(todo), todoEntries)
           ptodWith == EntriesWith(files.ptod.entries, Len(ptod), ptodEntries)
<1>1. /\ queue \in Seq(Task) /\ n \in Nat /\ \A i \in 1..n : queue[i] \in Task
  BY MemoryIsTyped
<1>2. x \in Int /\ y \in Int /\ x <= n /\ y <= n
  <2>1. step \in Int /\ step <= 2 * n + 1
    BY <1>1 DEF Steps
  <2> HIDE DEF n
  <2>. QED
    BY <1>1, <2>1
<1>3. \A i \in 1..x : todoEntries[i].size = TodoSize(todoEntries[i])
  <2> TAKE i \in 1..x
  <2>1. queue[i] \in Task
    BY <1>1, <1>2
  <2>2. TodoEntry(queue[i], todo[i].offset).size = TodoSize(queue[i])
    BY DEF TodoEntry
  <2>. QED
    BY <2>1, <2>2, EntrySizes
<1>4. \A i \in 1..y : ptodEntries[i].size = PtodSize(ptodEntries[i])
  <2> TAKE i \in 1..y
  <2>1. queue[i] \in Task
    BY <1>1, <1>2
  <2>2. PtodEntry(queue[i], ptod[RecordOf(i)].offset).size = PtodSize(queue[i])
    BY DEF PtodEntry
  <2>. QED
    BY <2>1, <2>2, EntrySizes
<1>5. DOMAIN todoEntries = 1..x /\ DOMAIN ptodEntries = 1..y
  OBVIOUS
<1>6. /\ FilesAfter(step).todo.entries = todoWith
      /\ FilesAfter(step).ptod.entries = IF step = 0 THEN files.ptod.entries ELSE ptodWith
  BY DEF FilesAfter
<1> HIDE DEF todoEntries, ptodEntries
<1>7. /\ \A e \in files.todo.entries : e.size = TodoSize(e)
      /\ \A e \in files.ptod.entries : e.size = PtodSize(e)
  BY DEF EntriesAreSized, Sized
<1>8. \A e \in todoWith : e.size = TodoSize(e)
  BY <1>3, <1>5, <1>7, Zenon DEF EntriesWith
<1>9. \A e \in ptodWith : e.size = PtodSize(e)
  BY <1>4, <1>5, <1>7, Zenon DEF EntriesWith
<1>. QED
  BY <1>6, <1>7, <1>8, <1>9 DEF Sized

LEMMA SizedIsPositive ==
  ASSUME IInv, EntriesAreSized
  PROVE  /\ \A e \in files.todo.entries : e.at \in Int /\ e.size \in Nat \ {0}
         /\ \A e \in files.ptod.entries : e.at \in Int /\ e.size \in Nat \ {0}
<1>1. ASSUME NEW e, e \in InTodo \/ e \in InPtod
      PROVE  e.at \in Int /\ TodoSize(e) \in Nat \ {0}
  <2>1. e.at \in Int /\ e.header \in Strings /\ e.text \in Strings
    BY <1>1 DEF InTodo, InPtod
  <2>2. StringsSize(e) \in Nat
    BY <2>1, TaskConstantsOK DEF StringsSize
  <2>. QED
    BY <2>1, <2>2 DEF TodoSize
<1>2. ASSUME NEW e \in InPtod
      PROVE  PtodSize(e) \in Nat \ {0}
  <2>1. StringsSize(e) \in Nat
    BY TaskConstantsOK DEF InPtod, StringsSize
  <2>2. DueSize(e) \in Nat /\ AlarmSize(e) \in Nat
    BY DEF DueSize, AlarmSize
  <2>3. RepeatSize(e) \in Nat
    BY <2>2 DEF RepeatSize
  <2>. QED
    BY <2>1, <2>2, <2>3 DEF PtodSize
<1>3. /\ \A e \in files.todo.entries : e \in InTodo /\ e.size = TodoSize(e)
      /\ \A e \in files.ptod.entries : e \in InPtod /\ e.size = PtodSize(e)
  BY FilesAreTyped DEF EntriesAreSized, Sized
<1>. QED
  BY <1>1, <1>2, <1>3

\* In records that are stacked with the room for them, tasks do not touch.
LEMMA StackedAreApart ==
  ASSUME NEW list \in Seq(Record), NEW room, Stacked(list, room),
         \A j \in 1..Len(list) : room[j] \in Nat,
         NEW i \in 1..Len(list), NEW j \in 1..Len(list), i # j,
         NEW a, NEW b, a.at = list[i].offset, b.at = list[j].offset,
         a.size \in Nat, b.size \in Nat, a.size <= room[i], b.size <= room[j]
  PROVE  Apart(a, b)
<1>1. /\ list[i].offset \in Int /\ list[j].offset \in Int
      /\ room[i] \in Nat /\ room[j] \in Nat
  BY OffsetsAreNumbers
<1>2. CASE i < j
  <2>1. list[i].offset + room[i] <= list[j].offset
    BY <1>2, StackedInOrder
  <2>. QED
    BY <1>1, <2>1 DEF Apart
<1>3. CASE j < i
  <2>1. list[j].offset + room[j] <= list[i].offset
    BY <1>3, StackedInOrder
  <2>. QED
    BY <1>1, <2>1 DEF Apart
<1>. QED
  BY <1>2, <1>3

\* A write that succeeds, where memory is stacked, leaves every task in both files, at
\* its records.
LEMMA AllIsWritten ==
  ASSUME IInv, MemoryIsStacked, EntriesAreSized, exact, open,
         NEW pair, pair = FilesAfter(Steps)
  PROVE  /\ pair.todo.list = todo /\ pair.ptod.list = ptod
         /\ pair.todo.slots = slots.todo /\ pair.ptod.slots = slots.ptod
         /\ Whole(pair.todo) /\ Whole(pair.ptod)
         /\ \A i \in 1..Len(queue) :
              /\ Entry(pair.todo, todo[i]) = TodoEntry(queue[i], todo[i].offset)
              /\ RecordOf(i) \in 1..Len(ptod) /\ ptod[RecordOf(i)].id = queue[i].link
              /\ Entry(pair.ptod, ptod[RecordOf(i)])
                   = PtodEntry(queue[i], ptod[RecordOf(i)].offset)
<1> DEFINE n == Len(queue)
           m == Len(ptod)
           todoEntries == [i \in 1..n |-> TodoEntry(queue[i], todo[i].offset)]
           ptodEntries == [i \in 1..n |-> PtodEntry(queue[i], ptod[RecordOf(i)].offset)]
           todoRoom == TodoRooms(queue)
           ptodRoom == PtodRooms(queue, ptod)
<1>1. /\ queue \in Seq(Task) /\ todo \in Seq(Record) /\ ptod \in Seq(Record)
      /\ DOMAIN queue = 1..n /\ DOMAIN todo = 1..n /\ DOMAIN ptod = 1..m
      /\ n \in Nat /\ m \in Nat /\ Len(todo) = n /\ OneToOne(queue, ptod)
      /\ \A i \in 1..n : queue[i] \in Task
  BY MemoryIsTyped
<1>2. Stacked(todo, todoRoom) /\ Stacked(ptod, ptodRoom)
  BY DEF MemoryIsStacked
<1>3. /\ \A i \in 1..n : todoRoom[i] = TodoSize(queue[i]) /\ todoRoom[i] \in Nat
      /\ \A j \in 1..m : ptodRoom[j] \in Nat
  BY <1>1, RoomsAreNumbers
<1>4. \A i \in 1..n : RecordOf(i) \in 1..m /\ ptod[RecordOf(i)].id = queue[i].link
  <2> TAKE i \in 1..n
  <2>1. i \in DOMAIN queue
    BY <1>1
  <2>2. queue[i].link # None
    BY <2>1, NoLinkIsNone
  <2>. QED
    BY <2>1, <2>2, RecordIsThere
<1>5. \A i \in 1..n : ptodRoom[RecordOf(i)] = PtodRoom(queue[i])
  <2> TAKE i \in 1..n
  <2>1. i \in DOMAIN queue /\ RecordOf(i) \in DOMAIN ptod
        /\ queue[i].link = ptod[RecordOf(i)].id
    BY <1>1, <1>4
  <2>2. TaskAt(queue, ptod, RecordOf(i)) = i
    BY <1>1, <2>1, TaskAtIs
  <2>. QED
    BY <2>1, <2>2 DEF PtodRooms
<1>6. \A i, j \in 1..n : i # j => RecordOf(i) # RecordOf(j)
  <2> TAKE i, j \in 1..n
  <2>1. queue[i].link = queue[j].link => i = j
    BY <1>1 DEF OneToOne
  <2>. QED
    BY <1>4, <2>1
<1>7. FilesAfter(Steps) =
        [todo |-> [list |-> todo, slots |-> slots.todo,
                   entries |-> EntriesWith(files.todo.entries, Len(todo), todoEntries)],
         ptod |-> [list |-> ptod, slots |-> slots.ptod,
                   entries |-> EntriesWith(files.ptod.entries, Len(ptod), ptodEntries)]]
  <2>1. Steps # 0 /\ Steps \div 2 = n /\ (Steps - 1) \div 2 = n
    <3> HIDE DEF n
    <3>1. Steps = 2 * n + 1
      BY DEF Steps, n
    <3>. QED
      BY <1>1, <3>1
  <2>. QED
    BY <2>1 DEF FilesAfter
<1>8. /\ pair.todo.list = todo /\ pair.ptod.list = ptod
      /\ pair.todo.slots = slots.todo /\ pair.ptod.slots = slots.ptod
      /\ pair.todo.entries = EntriesWith(files.todo.entries, Len(todo), todoEntries)
      /\ pair.ptod.entries = EntriesWith(files.ptod.entries, Len(ptod), ptodEntries)
  BY <1>7
<1>9. /\ \A i \in 1..n : todoEntries[i] = TodoEntry(queue[i], todo[i].offset)
      /\ \A i \in 1..n : ptodEntries[i] = PtodEntry(queue[i], ptod[RecordOf(i)].offset)
  OBVIOUS
<1>10. /\ DOMAIN todoEntries = 1..n /\ Len(todoEntries) = n
       /\ DOMAIN ptodEntries = 1..n /\ Len(ptodEntries) = n
  BY <1>1
<1> HIDE DEF todoEntries, ptodEntries, todoRoom, ptodRoom, n, m
<1>11. ASSUME NEW i \in 1..n
       PROVE  /\ todoEntries[i].at = todo[i].offset /\ todoEntries[i].at \in Int
              /\ todoEntries[i].size = todoRoom[i] /\ todoEntries[i].size \in Nat \ {0}
              /\ ptodEntries[i].at = ptod[RecordOf(i)].offset /\ ptodEntries[i].at \in Int
              /\ ptodEntries[i].size <= ptodRoom[RecordOf(i)]
              /\ ptodEntries[i].size \in Nat \ {0}
  <2>1. /\ todoEntries[i].at = todo[i].offset
        /\ todoEntries[i].size = TodoSize(queue[i])
        /\ ptodEntries[i].at = ptod[RecordOf(i)].offset
        /\ ptodEntries[i].size = PtodSize(queue[i])
    <3>1. /\ todoEntries[i] = TodoEntry(queue[i], todo[i].offset)
          /\ ptodEntries[i] = PtodEntry(queue[i], ptod[RecordOf(i)].offset)
      BY <1>9
    <3>2. /\ TodoEntry(queue[i], todo[i].offset).at = todo[i].offset
          /\ TodoEntry(queue[i], todo[i].offset).size = TodoSize(queue[i])
      BY DEF TodoEntry
    <3>3. /\ PtodEntry(queue[i], ptod[RecordOf(i)].offset).at = ptod[RecordOf(i)].offset
          /\ PtodEntry(queue[i], ptod[RecordOf(i)].offset).size = PtodSize(queue[i])
      BY DEF PtodEntry
    <3>. QED
      BY <3>1, <3>2, <3>3
  <2>2. todo[i].offset \in Int /\ ptod[RecordOf(i)].offset \in Int
    BY <1>1, <1>4, OffsetsAreNumbers DEF m
  <2>3. /\ TodoSize(queue[i]) > 0 /\ PtodSize(queue[i]) > 0
        /\ PtodSize(queue[i]) <= PtodRoom(queue[i])
    BY <1>1, EntrySizes
  <2>4. TodoSize(queue[i]) \in Nat /\ PtodSize(queue[i]) \in Nat
    BY <1>1, SizesAreNumbers
  <2>5. ptodRoom[RecordOf(i)] = PtodRoom(queue[i]) /\ todoRoom[i] = TodoSize(queue[i])
    BY <1>3, <1>5
  <2>. QED
    BY <2>1, <2>2, <2>3, <2>4, <2>5
<1>12. ASSUME NEW i \in 1..n, NEW j \in 1..n, i # j
       PROVE  Apart(todoEntries[i], todoEntries[j]) /\ Apart(ptodEntries[i], ptodEntries[j])
  <2>1. Apart(todoEntries[i], todoEntries[j])
    <3>1. /\ i \in 1..Len(todo) /\ j \in 1..Len(todo)
          /\ \A k \in 1..Len(todo) : todoRoom[k] \in Nat
      BY <1>1, <1>3
    <3>2. /\ todoEntries[i].at = todo[i].offset /\ todoEntries[j].at = todo[j].offset
          /\ todoEntries[i].size \in Nat /\ todoEntries[j].size \in Nat
          /\ todoEntries[i].size <= todoRoom[i] /\ todoEntries[j].size <= todoRoom[j]
      BY <1>11
    <3>. QED
      BY <1>1, <1>2, <1>12, <3>1, <3>2, StackedAreApart
  <2>2. Apart(ptodEntries[i], ptodEntries[j])
    <3>1. /\ RecordOf(i) \in 1..Len(ptod) /\ RecordOf(j) \in 1..Len(ptod)
          /\ RecordOf(i) # RecordOf(j)
          /\ \A k \in 1..Len(ptod) : ptodRoom[k] \in Nat
      BY <1>3, <1>4, <1>6, <1>12 DEF m
    <3>2. /\ ptodEntries[i].at = ptod[RecordOf(i)].offset
          /\ ptodEntries[j].at = ptod[RecordOf(j)].offset
          /\ ptodEntries[i].size \in Nat /\ ptodEntries[j].size \in Nat
          /\ ptodEntries[i].size <= ptodRoom[RecordOf(i)]
          /\ ptodEntries[j].size <= ptodRoom[RecordOf(j)]
      BY <1>11
    <3>. QED
      BY <1>1, <1>2, <3>1, <3>2, StackedAreApart
  <2>. QED
    BY <2>1, <2>2
<1>13. ASSUME NEW i \in 1..n
       PROVE  /\ EntriesAt(pair.todo, todo[i]) = {todoEntries[i]}
              /\ EntriesAt(pair.ptod, ptod[RecordOf(i)]) = {ptodEntries[i]}
  <2>1. {e \in EntriesWith(files.todo.entries, Len(todo), todoEntries) :
           e.at = todoEntries[i].at} = {todoEntries[i]}
    <3>1. \A k \in 1..n : todoEntries[k].at \in Int /\ todoEntries[k].size \in Nat \ {0}
      BY <1>11
    <3>2. \A k, j \in 1..n : k # j => Apart(todoEntries[k], todoEntries[j])
      BY <1>12
    <3>3. \A e \in files.todo.entries : e.at \in Int /\ e.size \in Nat \ {0}
      BY SizedIsPositive
    <3>4. n \in Nat /\ DOMAIN todoEntries = 1..n /\ Len(todoEntries) = n
      BY <1>1, <1>10
    <3>. QED
      BY <3>1, <3>2, <3>3, <3>4, EntriesStay
  <2>2. {e \in EntriesWith(files.ptod.entries, Len(ptod), ptodEntries) :
           e.at = ptodEntries[i].at} = {ptodEntries[i]}
    <3>1. \A k \in 1..n : ptodEntries[k].at \in Int /\ ptodEntries[k].size \in Nat \ {0}
      BY <1>11
    <3>2. \A k, j \in 1..n : k # j => Apart(ptodEntries[k], ptodEntries[j])
      BY <1>12
    <3>3. \A e \in files.ptod.entries : e.at \in Int /\ e.size \in Nat \ {0}
      BY SizedIsPositive
    <3>4. n \in Nat /\ DOMAIN ptodEntries = 1..n /\ Len(ptodEntries) = n
      BY <1>1, <1>10
    <3>. QED
      BY <3>1, <3>2, <3>3, <3>4, EntriesStay
  <2>. QED
    BY <1>8, <1>11, <2>1, <2>2 DEF EntriesAt
<1>14. ASSUME NEW i \in 1..n
       PROVE  /\ Entry(pair.todo, todo[i]) = todoEntries[i]
              /\ Entry(pair.ptod, ptod[RecordOf(i)]) = ptodEntries[i]
  BY <1>13 DEF Entry
<1>15. Whole(pair.todo)
  <2> SUFFICES ASSUME NEW i \in DOMAIN todo
               PROVE  todo[i].offset >= AppInfoEnd(Len(todo)) /\ EntriesAt(pair.todo, todo[i]) # {}
    BY <1>8 DEF Whole
  <2>1. i \in 1..n /\ i \in 1..Len(todo)
    BY <1>1
  <2>2. DataAt(Len(todo)) <= todo[i].offset
    BY <1>1, <1>2, <1>3, <2>1, StackedInOrder
  <2>3. AppInfoEnd(Len(todo)) <= DataAt(Len(todo)) /\ AppInfoEnd(Len(todo)) \in Int
        /\ DataAt(Len(todo)) \in Int /\ todo[i].offset \in Int
    BY <1>1, <2>1, DataBehindList, OffsetsAreNumbers
  <2>4. EntriesAt(pair.todo, todo[i]) # {}
    BY <1>13, <2>1
  <2>. QED
    BY <2>2, <2>3, <2>4
<1>16. Whole(pair.ptod)
  <2> SUFFICES ASSUME NEW j \in DOMAIN ptod
               PROVE  ptod[j].offset >= AppInfoEnd(Len(ptod)) /\ EntriesAt(pair.ptod, ptod[j]) # {}
    BY <1>8 DEF Whole
  <2>1. j \in 1..Len(ptod)
    BY <1>1 DEF m
  <2>2. DataAt(Len(ptod)) <= ptod[j].offset
    BY <1>1, <1>2, <1>3, <2>1, StackedInOrder DEF m
  <2>3. AppInfoEnd(Len(ptod)) <= DataAt(Len(ptod)) /\ AppInfoEnd(Len(ptod)) \in Int
        /\ DataAt(Len(ptod)) \in Int /\ ptod[j].offset \in Int
    BY <1>1, <2>1, DataBehindList, OffsetsAreNumbers DEF m
  <2>4. PICK i \in 1..n : queue[i].link = ptod[j].id
    BY <1>1 DEF OneToOne
  <2>5. RecordOf(i) = j
    BY <1>1, <2>4, RecordOfIs
  <2>6. EntriesAt(pair.ptod, ptod[j]) # {}
    BY <1>13, <2>4, <2>5
  <2>. QED
    BY <2>2, <2>3, <2>6
<1>17. \A i \in 1..n :
         /\ Entry(pair.todo, todo[i]) = TodoEntry(queue[i], todo[i].offset)
         /\ RecordOf(i) \in 1..m /\ ptod[RecordOf(i)].id = queue[i].link
         /\ Entry(pair.ptod, ptod[RecordOf(i)])
              = PtodEntry(queue[i], ptod[RecordOf(i)].offset)
  BY <1>4, <1>9, <1>14
<1>. QED
  BY <1>8, <1>15, <1>16, <1>17 DEF n, m

-----------------------------------------------------------------------------
(* What was saved *)

LEMMA AsManyRecords ==
  ASSUME IInv, exact
  PROVE  Len(ptod) = Len(queue)
<1> DEFINE n == Len(queue)
           m == Len(ptod)
           to == [i \in 1..n |-> RecordOf(i)]
           from == [j \in 1..m |-> TaskAt(queue, ptod, j)]
<1>1. n \in Nat /\ m \in Nat /\ DOMAIN queue = 1..n /\ DOMAIN ptod = 1..m
      /\ OneToOne(queue, ptod)
  BY MemoryIsTyped
<1>2. \A i \in 1..n : RecordOf(i) \in 1..m /\ ptod[RecordOf(i)].id = queue[i].link
  BY <1>1, NoLinkIsNone, RecordIsThere
<1>3. \A j \in 1..m : TaskAt(queue, ptod, j) \in 1..n
                      /\ queue[TaskAt(queue, ptod, j)].link = ptod[j].id
  BY <1>1, TaskAtLinks
<1>4. /\ IsFiniteSet(1..n) /\ Cardinality(1..n) = n
      /\ IsFiniteSet(1..m) /\ Cardinality(1..m) = m
  <2>1. 1 \in Int /\ n \in Int /\ m \in Int
    BY <1>1
  <2> HIDE DEF n, m
  <2>2. IsFiniteSet(1..n) /\ Cardinality(1..n) = IF 1 > n THEN 0 ELSE n - 1 + 1
    BY <2>1, FS_Interval
  <2>3. IsFiniteSet(1..m) /\ Cardinality(1..m) = IF 1 > m THEN 0 ELSE m - 1 + 1
    BY <2>1, FS_Interval
  <2>. QED
    BY <1>1, <2>2, <2>3
<1>5. to \in Injection(1..n, 1..m)
  <2>1. \A i, j \in 1..n : queue[i].link = queue[j].link => i = j
    BY <1>1 DEF OneToOne
  <2>2. \A i, j \in 1..n : RecordOf(i) = RecordOf(j) => i = j
    BY <1>2, <2>1
  <2>. QED
    BY <1>2, <2>2 DEF Injection, IsInjective
<1>6. from \in Injection(1..m, 1..n)
  <2>1. \A i, j \in 1..m : TaskAt(queue, ptod, i) = TaskAt(queue, ptod, j) => i = j
    BY <1>1, <1>3 DEF IInv, IdsDiffer
  <2>. QED
    BY <1>3, <2>1 DEF Injection, IsInjective
<1> HIDE DEF n, m, to, from
<1>7. n <= m
  BY <1>4, <1>5, FS_Injection
<1>8. m <= n
  BY <1>4, <1>6, FS_Injection
<1>9. n = m
  BY <1>1, <1>7, <1>8
<1>. QED
  BY <1>9 DEF n, m

\* The tasks that a write that succeeded was to save are in both files, each with its
\* records.
SavedTask == [header : Strings, text : Strings, id : Ids, priority : Priorities, due : Nat,
              alarm : Alarms \cup {None}, repeat : Repeats \cup {None},
              link : Ids \cup {None}, category : Names \cup {NoName}]
TasksAreIn(pair, tasks) ==
  /\ tasks \in Seq(SavedTask)
  /\ Whole(pair.todo) /\ Whole(pair.ptod)
  /\ Len(pair.todo.list) = Len(tasks) /\ Len(pair.ptod.list) = Len(tasks)
  /\ \A i \in 1..Len(tasks) :
       /\ pair.todo.list[i].id = tasks[i].id
       /\ pair.todo.slots[pair.todo.list[i].slot].name = tasks[i].category
       /\ Entry(pair.todo, pair.todo.list[i])
            = TodoEntry(tasks[i], pair.todo.list[i].offset)
  /\ \A i \in 1..Len(tasks) : \E j \in 1..Len(tasks) :
       /\ pair.ptod.list[j].id = tasks[i].link
       /\ Entry(pair.ptod, pair.ptod.list[j])
            = PtodEntry(tasks[i], pair.ptod.list[j].offset)
  /\ OneToOne(tasks, pair.ptod.list)
  /\ CategoriesRead(pair.todo.slots) = pair.todo.slots
SavedIsThere == written = "sound" => TasksAreIn(files, saved)

LEMMA ViewIs ==
  ASSUME IInv, open
  PROVE  LET tasks == View(queue, todo, slots) IN
         /\ tasks \in Seq(SavedTask) /\ Len(tasks) = Len(queue)
         /\ \A i \in 1..Len(queue) :
              /\ tasks[i].id = todo[i].id /\ tasks[i].link = queue[i].link
              /\ tasks[i].category = slots.todo[todo[i].slot].name
              /\ \A at : /\ TodoEntry(tasks[i], at) = TodoEntry(queue[i], at)
                         /\ PtodEntry(tasks[i], at) = PtodEntry(queue[i], at)
<1> DEFINE tasks == View(queue, todo, slots)
           n == Len(queue)
           task(i) == [header |-> queue[i].header, text |-> queue[i].text, id |-> todo[i].id,
                       priority |-> queue[i].priority, due |-> queue[i].due,
                       alarm |-> queue[i].alarm, repeat |-> queue[i].repeat,
                       link |-> queue[i].link, category |-> slots.todo[todo[i].slot].name]
<1>1. /\ n \in Nat /\ DOMAIN queue = 1..n /\ DOMAIN todo = 1..n
      /\ \A i \in 1..n : queue[i] \in Task /\ todo[i] \in Record
  BY MemoryIsTyped
<1>2. tasks = [i \in 1..n |-> task(i)]
  BY <1>1 DEF View
<1>3. ASSUME NEW i \in 1..n
      PROVE  /\ task(i) \in SavedTask
             /\ task(i).id = todo[i].id /\ task(i).link = queue[i].link
             /\ task(i).category = slots.todo[todo[i].slot].name
             /\ \A at : /\ TodoEntry(task(i), at) = TodoEntry(queue[i], at)
                        /\ PtodEntry(task(i), at) = PtodEntry(queue[i], at)
  <2>1. queue[i] \in Task /\ todo[i] \in Record
    BY <1>1
  <2>2. slots.todo[todo[i].slot].name \in Names \cup {NoName}
    <3>1. todo[i].slot \in SlotIds
      BY <2>1 DEF Record
    <3>2. slots.todo[todo[i].slot] \in Slot
      BY <3>1, SlotsAreTyped
    <3>. QED
      BY <3>2 DEF Slot
  <2>3. task(i) \in SavedTask
    BY <2>1, <2>2 DEF SavedTask, Task, Record
  <2>4. ASSUME NEW at
        PROVE  /\ TodoEntry(task(i), at) = TodoEntry(queue[i], at)
               /\ PtodEntry(task(i), at) = PtodEntry(queue[i], at)
    <3>1. StringsSize(task(i)) = StringsSize(queue[i]) /\ DueSize(task(i)) = DueSize(queue[i])
          /\ AlarmSize(task(i)) = AlarmSize(queue[i])
      BY DEF StringsSize, DueSize, AlarmSize
    <3>2. RepeatSize(task(i)) = RepeatSize(queue[i])
      BY <3>1 DEF RepeatSize
    <3>3. TodoSize(task(i)) = TodoSize(queue[i]) /\ PtodSize(task(i)) = PtodSize(queue[i])
      BY <3>1, <3>2 DEF TodoSize, PtodSize
    <3>. QED
      BY <3>3 DEF TodoEntry, PtodEntry
  <2>. QED
    BY <2>3, <2>4
<1> HIDE DEF task
<1>4. tasks \in Seq(SavedTask) /\ Len(tasks) = n
  BY <1>1, <1>2, <1>3
<1>. QED
  BY <1>2, <1>3, <1>4

LEMMA OneToOneByLinks ==
  ASSUME NEW tasks, NEW list, NEW others, OneToOne(tasks, list),
         DOMAIN others = DOMAIN tasks,
         \A i \in DOMAIN tasks : others[i].link = tasks[i].link
  PROVE  OneToOne(others, list)
<1>1. \A i \in DOMAIN others : \E j \in DOMAIN list : others[i].link = list[j].id
  BY DEF OneToOne
<1>2. \A i, j \in DOMAIN others : others[i].link = others[j].link => i = j
  BY DEF OneToOne
<1>3. \A j \in DOMAIN list : \E i \in DOMAIN others : others[i].link = list[j].id
  BY DEF OneToOne
<1>. QED
  BY <1>1, <1>2, <1>3 DEF OneToOne

\* What a write that succeeds where memory is stacked leaves: the tasks, laid out.
LEMMA WriteSaves ==
  ASSUME IInv, MemoryIsStacked, EntriesAreSized, SlotsWereRead, exact, open
  PROVE  TasksAreIn(FilesAfter(Steps), View(queue, todo, slots))
<1> DEFINE n == Len(queue)
           tasks == View(queue, todo, slots)
           pair == FilesAfter(Steps)
<1>1. /\ n \in Nat /\ DOMAIN queue = 1..n /\ DOMAIN todo = 1..n /\ DOMAIN ptod = 1..n
      /\ Len(todo) = n /\ Len(ptod) = n /\ OneToOne(queue, ptod)
  BY MemoryIsTyped, AsManyRecords
<1>2. /\ tasks \in Seq(SavedTask) /\ Len(tasks) = n
      /\ \A i \in 1..n :
           /\ tasks[i].id = todo[i].id /\ tasks[i].link = queue[i].link
           /\ tasks[i].category = slots.todo[todo[i].slot].name
           /\ \A at : /\ TodoEntry(tasks[i], at) = TodoEntry(queue[i], at)
                      /\ PtodEntry(tasks[i], at) = PtodEntry(queue[i], at)
  BY ViewIs
<1>3. /\ pair.todo.list = todo /\ pair.ptod.list = ptod
      /\ pair.todo.slots = slots.todo
      /\ Whole(pair.todo) /\ Whole(pair.ptod)
      /\ \A i \in 1..n :
           /\ Entry(pair.todo, todo[i]) = TodoEntry(queue[i], todo[i].offset)
           /\ RecordOf(i) \in 1..n /\ ptod[RecordOf(i)].id = queue[i].link
           /\ Entry(pair.ptod, ptod[RecordOf(i)])
                = PtodEntry(queue[i], ptod[RecordOf(i)].offset)
  BY <1>1, AllIsWritten
<1>4. CategoriesRead(slots.todo) = slots.todo
  BY DEF SlotsWereRead
<1> HIDE DEF n, tasks, pair
<1>5. DOMAIN tasks = 1..n
  BY <1>2
<1>6. OneToOne(tasks, ptod)
  <2>1. \A i \in 1..n : tasks[i].link = queue[i].link
    BY <1>2
  <2>2. DOMAIN tasks = DOMAIN queue /\ (\A i \in DOMAIN queue : tasks[i].link = queue[i].link)
    BY <1>1, <1>5, <2>1
  <2>. QED
    BY <1>1, <2>1, <2>2, OneToOneByLinks
<1>7. \A i \in 1..n :
        /\ todo[i].id = tasks[i].id
        /\ slots.todo[todo[i].slot].name = tasks[i].category
        /\ Entry(pair.todo, todo[i]) = TodoEntry(tasks[i], todo[i].offset)
  BY <1>2, <1>3
<1>8. ASSUME NEW i \in 1..n
      PROVE  \E j \in 1..n : /\ ptod[j].id = tasks[i].link
                             /\ Entry(pair.ptod, ptod[j]) = PtodEntry(tasks[i], ptod[j].offset)
  <2>1. /\ RecordOf(i) \in 1..n /\ ptod[RecordOf(i)].id = tasks[i].link
        /\ Entry(pair.ptod, ptod[RecordOf(i)])
             = PtodEntry(tasks[i], ptod[RecordOf(i)].offset)
    BY <1>2, <1>3
  <2>. QED
    BY <2>1
<1>9. TasksAreIn(pair, tasks)
  BY <1>1, <1>2, <1>3, <1>4, <1>6, <1>7, <1>8 DEF TasksAreIn
<1>. QED
  BY <1>9 DEF pair, tasks

\* ... and laid out as the handheld lays them out.  Records that alone have their header
\* are of one task.
LEMMA WriteLaysOut ==
  ASSUME IInv, MemoryIsStacked, EntriesAreSized, exact, open
  PROVE  /\ LaidOut(FilesAfter(Steps))
         /\ \A i \in DOMAIN todo, j \in DOMAIN ptod :
              Joined(FilesAfter(Steps), i, j) => queue[i].link = ptod[j].id
<1> DEFINE n == Len(queue)
           m == Len(ptod)
           pair == FilesAfter(Steps)
           todoSizes == SizesIn(pair.todo)
           ptodSizes == SizesIn(pair.ptod)
<1>1. /\ queue \in Seq(Task) /\ todo \in Seq(Record) /\ ptod \in Seq(Record)
      /\ n \in Nat /\ m \in Nat /\ DOMAIN queue = 1..n /\ DOMAIN todo = 1..n
      /\ DOMAIN ptod = 1..m /\ Len(todo) = n /\ OneToOne(queue, ptod)
      /\ \A i \in 1..n : queue[i] \in Task
  BY MemoryIsTyped
<1>2. /\ pair.todo.list = todo /\ pair.ptod.list = ptod
      /\ \A i \in 1..n :
           /\ Entry(pair.todo, todo[i]) = TodoEntry(queue[i], todo[i].offset)
           /\ RecordOf(i) \in 1..m /\ ptod[RecordOf(i)].id = queue[i].link
           /\ Entry(pair.ptod, ptod[RecordOf(i)])
                = PtodEntry(queue[i], ptod[RecordOf(i)].offset)
  BY AllIsWritten
<1>3. Stacked(todo, TodoRooms(queue)) /\ Stacked(ptod, PtodRooms(queue, ptod))
  BY DEF MemoryIsStacked
<1>4. \A j \in 1..m : \E i \in 1..n : RecordOf(i) = j /\ queue[i].link = ptod[j].id
  <2> TAKE j \in 1..m
  <2>1. PICK i \in 1..n : queue[i].link = ptod[j].id
    BY <1>1 DEF OneToOne
  <2>2. RecordOf(i) = j
    BY <1>1, <2>1, RecordOfIs
  <2>. QED
    BY <2>1, <2>2
<1>5. /\ \A i \in 1..n : todoSizes[i] = Entry(pair.todo, todo[i]).size
      /\ \A j \in 1..m : ptodSizes[j] = Entry(pair.ptod, ptod[j]).size
  BY <1>1, <1>2 DEF SizesIn
<1> HIDE DEF n, m, pair, todoSizes, ptodSizes
<1>6. Stacked(todo, todoSizes)
  <2>1. \A i \in 1..(Len(todo) - 1) : todoSizes[i] = TodoRooms(queue)[i]
    <3> TAKE i \in 1..(Len(todo) - 1)
    <3>1. i \in 1..n
      BY <1>1
    <3>2. TodoEntry(queue[i], todo[i].offset).size = TodoSize(queue[i])
      BY DEF TodoEntry
    <3>3. TodoRooms(queue)[i] = TodoSize(queue[i])
      BY <1>1, <3>1 DEF TodoRooms
    <3>. QED
      BY <1>2, <1>5, <3>1, <3>2, <3>3
  <2>. QED
    BY <1>1, <1>3, <2>1, StackedSame
<1>7. ASSUME \A j \in 1..m : Parses(Entry(pair.ptod, ptod[j]))
      PROVE  Stacked(ptod, ptodSizes)
  <2>1. \A j \in 1..(Len(ptod) - 1) : ptodSizes[j] = PtodRooms(queue, ptod)[j]
    <3> TAKE j \in 1..(Len(ptod) - 1)
    <3>1. j \in 1..m
      BY <1>1 DEF m
    <3>2. PICK i \in 1..n : RecordOf(i) = j /\ queue[i].link = ptod[j].id
      BY <1>4, <3>1
    <3> DEFINE entry == PtodEntry(queue[i], ptod[j].offset)
    <3>3. Entry(pair.ptod, ptod[j]) = entry
      BY <1>2, <3>2
    <3>4. Parses(queue[i])
      <4>1. Parses(entry)
        BY <1>7, <3>1, <3>3
      <4>. QED
        BY <1>1, <4>1, EntrySizes
    <3>5. entry.size = PtodSize(queue[i])
      BY DEF PtodEntry
    <3>6. PtodSize(queue[i]) = PtodRoom(queue[i])
      BY <1>1, <3>4, EntrySizes
    <3>7. PtodRooms(queue, ptod)[j] = PtodRoom(queue[i])
      <4>1. i \in DOMAIN queue /\ j \in DOMAIN ptod
        BY <1>1, <3>1
      <4>2. TaskAt(queue, ptod, j) = i
        BY <1>1, <3>2, <4>1, TaskAtIs
      <4>. QED
        BY <4>1, <4>2 DEF PtodRooms
    <3>. QED
      BY <1>5, <3>1, <3>3, <3>5, <3>6, <3>7
  <2>. QED
    BY <1>1, <1>3, <2>1, StackedSame
<1>8. ASSUME NEW i \in 1..n, NEW j \in 1..m, Joined(pair, i, j)
      PROVE  /\ Entry(pair.todo, todo[i]).text = Entry(pair.ptod, ptod[j]).text
             /\ queue[i].link = ptod[j].id
  <2>1. PICK k \in 1..n : RecordOf(k) = j /\ queue[k].link = ptod[j].id
    BY <1>4
  <2>2. /\ Header(pair.todo, i) = Header(pair.ptod, j)
        /\ Header(pair.todo, k) = Header(pair.todo, i) => k = i
    BY <1>1, <1>2, <1>8 DEF Joined
  <2>3. /\ Entry(pair.todo, todo[i]) = TodoEntry(queue[i], todo[i].offset)
        /\ Entry(pair.todo, todo[k]) = TodoEntry(queue[k], todo[k].offset)
        /\ Entry(pair.ptod, ptod[j]) = PtodEntry(queue[k], ptod[j].offset)
    BY <1>2, <2>1
  <2>4. /\ TodoEntry(queue[k], todo[k].offset).header = queue[k].header
        /\ PtodEntry(queue[k], ptod[j].offset).header = queue[k].header
        /\ TodoEntry(queue[i], todo[i].offset).text = queue[i].text
        /\ PtodEntry(queue[k], ptod[j].offset).text = queue[k].text
    BY DEF TodoEntry, PtodEntry
  <2>5. Header(pair.todo, k) = queue[k].header /\ Header(pair.ptod, j) = queue[k].header
    BY <1>2, <2>3, <2>4 DEF Header
  <2>6. k = i
    BY <2>2, <2>5
  <2>. QED
    BY <2>1, <2>3, <2>4, <2>6
<1>9. LaidOut(pair)
  BY <1>1, <1>2, <1>6, <1>7, <1>8 DEF LaidOut, todoSizes, ptodSizes
<1>10. \A i \in DOMAIN todo, j \in DOMAIN ptod :
         Joined(pair, i, j) => queue[i].link = ptod[j].id
  BY <1>1, <1>8
<1>. QED
  BY <1>9, <1>10 DEF pair

-----------------------------------------------------------------------------
(* What was saved is read back *)

LEMMA SavedHolds ==
  ASSUME IInv, TasksAreIn(files, saved)
  PROVE  /\ TodoHolds /\ PtodHolds
         /\ DOMAIN saved = 1..Len(saved) /\ DOMAIN files.todo.list = 1..Len(saved)
         /\ DOMAIN files.ptod.list = 1..Len(saved)
         /\ \A i \in 1..Len(saved) : saved[i] \in SavedTask
<1>1. /\ saved \in Seq(SavedTask)
      /\ Len(files.todo.list) = Len(saved) /\ Len(files.ptod.list) = Len(saved)
  BY DEF TasksAreIn
<1>2. /\ DOMAIN saved = 1..Len(saved) /\ DOMAIN files.todo.list = 1..Len(saved)
      /\ DOMAIN files.ptod.list = 1..Len(saved)
      /\ \A i \in 1..Len(saved) : saved[i] \in SavedTask
  BY <1>1, FilesAreTyped
<1>3. TodoHolds
  BY <1>1, <1>2 DEF TasksAreIn, TodoHolds
<1>4. PtodHolds
  BY <1>1, <1>2 DEF TasksAreIn, PtodHolds
<1>. QED
  BY <1>2, <1>3, <1>4

LEMMA SavedRecord ==
  ASSUME IInv, TasksAreIn(files, saved), NEW j \in 1..Len(saved)
  PROVE  \E i \in 1..Len(saved) :
           /\ files.ptod.list[j].id = saved[i].link
           /\ Entry(files.ptod, files.ptod.list[j])
                = PtodEntry(saved[i], files.ptod.list[j].offset)
<1>1. PICK i \in 1..Len(saved) : saved[i].link = files.ptod.list[j].id
  BY SavedHolds DEF TasksAreIn, OneToOne
<1>2. PICK x \in 1..Len(saved) :
        /\ files.ptod.list[x].id = saved[i].link
        /\ Entry(files.ptod, files.ptod.list[x])
             = PtodEntry(saved[i], files.ptod.list[x].offset)
  BY DEF TasksAreIn
<1>3. x = j
  BY <1>1, <1>2, SavedHolds DEF IInv, IdsDiffer
<1>. QED
  BY <1>1, <1>2, <1>3

LEMMA StoredAsSaved ==
  ASSUME NEW task \in SavedTask, NEW at
  PROVE  /\ Parses(task) => Parses(PtodEntry(task, at))
         /\ Fits(task.due) => PtodEntry(task, at).due = task.due
         /\ (task.repeat # None => Fits(task.repeat.until)) =>
              PtodEntry(task, at).repeat = task.repeat
<1> DEFINE p == PtodEntry(task, at)
<1>1. p.due = YearStored(task.due) /\ p.repeat = RepeatStored(task.repeat)
  BY DEF PtodEntry
<1> HIDE DEF p
<1>2. task.due \in Nat /\ task.repeat \in Repeats \cup {None}
  BY DEF SavedTask
<1>3. ASSUME task.due # 0 PROVE YearStored(task.due) # 0
  <2>1. task.due - 1904 \in Int /\ 2^7 \in Nat \ {0}
    BY <1>2
  <2>2. (task.due - 1904) % 2^7 \in Nat
    BY <2>1
  <2>3. YearStored(task.due) = 1904 + ((task.due - 1904) % 2^7)
    BY <1>3 DEF YearStored
  <2>. QED
    BY <2>2, <2>3
<1>4. Parses(task) => Parses(p)
  BY <1>1, <1>3 DEF Parses, RepeatStored
<1>5. ASSUME task.repeat # None => Fits(task.repeat.until)
      PROVE  p.repeat = task.repeat
  <2>1. CASE task.repeat = None
    BY <1>1, <2>1 DEF RepeatStored
  <2>2. CASE task.repeat # None
    <3>1. task.repeat \in Repeats /\ YearStored(task.repeat.until) = task.repeat.until
      BY <1>2, <1>5, <2>2 DEF Fits
    <3>2. p.repeat = [task.repeat EXCEPT !.until = task.repeat.until]
      BY <1>1, <2>2, <3>1 DEF RepeatStored
    <3>. QED
      BY <3>1, <3>2 DEF Repeats
  <2>. QED
    BY <2>1, <2>2
<1>. QED
  BY <1>1, <1>4, <1>5 DEF Fits, p

\* All that was saved goes to a task when it is read, if repetitions have due dates.
LEMMA SavedAppends ==
  ASSUME IInv, TasksAreIn(files, saved), RepeatsAreDue, NEW j \in DOMAIN files.ptod.list
  PROVE  Appends(j)
<1>1. j \in 1..Len(saved)
  BY SavedHolds
<1>2. PICK i \in 1..Len(saved) :
        /\ files.ptod.list[j].id = saved[i].link
        /\ Entry(files.ptod, files.ptod.list[j])
             = PtodEntry(saved[i], files.ptod.list[j].offset)
  BY <1>1, SavedRecord
<1>3. saved[i] \in SavedTask /\ Parses(saved[i])
  BY SavedHolds DEF RepeatsAreDue
<1>4. Parses(Entry(files.ptod, files.ptod.list[j]))
  BY <1>2, <1>3, StoredAsSaved
<1>5. Header(files.ptod, j) = saved[i].header
  BY <1>2 DEF Header, PtodEntry
<1>6. Header(files.todo, i) = saved[i].header
  <2>1. Entry(files.todo, files.todo.list[i]) = TodoEntry(saved[i], files.todo.list[i].offset)
    BY DEF TasksAreIn
  <2>. QED
    BY <2>1 DEF Header, TodoEntry
<1>7. i \in DOMAIN files.todo.list
  BY SavedHolds
<1>. QED
  BY <1>4, <1>5, <1>6, <1>7 DEF Appends, Headers

\* Which task a header is looked up for is known where headers differ.
LEMMA SavedIsPicked ==
  ASSUME IInv, TasksAreIn(files, saved), HeadersDiffer, NEW pick \in Picks,
         NEW i \in 1..Len(saved)
  PROVE  \E j \in DOMAIN files.ptod.list :
           /\ files.ptod.list[j].id = saved[i].link
           /\ Entry(files.ptod, files.ptod.list[j])
                = PtodEntry(saved[i], files.ptod.list[j].offset)
           /\ j \in RecordsOf(pick, i)
           /\ \A x \in RecordsOf(pick, i) : x = j
<1>1. /\ DOMAIN saved = 1..Len(saved) /\ DOMAIN files.todo.list = 1..Len(saved)
      /\ DOMAIN files.ptod.list = 1..Len(saved)
  BY SavedHolds
<1>2. \A k \in 1..Len(saved) : Header(files.todo, k) = saved[k].header
  <2> TAKE k \in 1..Len(saved)
  <2>1. Entry(files.todo, files.todo.list[k]) = TodoEntry(saved[k], files.todo.list[k].offset)
    BY DEF TasksAreIn
  <2>. QED
    BY <2>1 DEF Header, TodoEntry
<1>3. /\ pick \in [Headers(files.todo) -> DOMAIN files.todo.list]
      /\ \A header \in Headers(files.todo) : Header(files.todo, pick[header]) = header
  BY DEF Picks
<1>4. \A k \in 1..Len(saved) : saved[k].header \in DOMAIN pick /\ pick[saved[k].header] = k
  <2> TAKE k \in 1..Len(saved)
  <2>1. saved[k].header \in Headers(files.todo)
    BY <1>1, <1>2 DEF Headers
  <2>2. /\ pick[saved[k].header] \in 1..Len(saved)
        /\ Header(files.todo, pick[saved[k].header]) = saved[k].header
    BY <1>1, <1>3, <2>1
  <2>3. saved[pick[saved[k].header]].header = saved[k].header
    BY <1>2, <2>2
  <2>. QED
    BY <1>1, <1>3, <2>1, <2>2, <2>3 DEF HeadersDiffer
<1>5. PICK j \in 1..Len(saved) :
        /\ files.ptod.list[j].id = saved[i].link
        /\ Entry(files.ptod, files.ptod.list[j])
             = PtodEntry(saved[i], files.ptod.list[j].offset)
  BY DEF TasksAreIn
<1>6. Header(files.ptod, j) = saved[i].header
  BY <1>5 DEF Header, PtodEntry
<1>7. j \in RecordsOf(pick, i)
  BY <1>1, <1>4, <1>6 DEF RecordsOf
<1>8. ASSUME NEW x \in RecordsOf(pick, i) PROVE x = j
  <2>1. x \in 1..Len(saved) /\ pick[Header(files.ptod, x)] = i
    BY <1>1 DEF RecordsOf
  <2>2. PICK k \in 1..Len(saved) :
          /\ files.ptod.list[x].id = saved[k].link
          /\ Entry(files.ptod, files.ptod.list[x])
               = PtodEntry(saved[k], files.ptod.list[x].offset)
    BY <2>1, SavedRecord
  <2>3. Header(files.ptod, x) = saved[k].header
    BY <2>2 DEF Header, PtodEntry
  <2>4. k = i
    BY <1>4, <2>1, <2>3
  <2>5. files.ptod.list[x].id = files.ptod.list[j].id
    BY <1>5, <2>2, <2>4
  <2>. QED
    BY <1>1, <2>1, <2>5 DEF IInv, IdsDiffer
<1>. QED
  BY <1>1, <1>5, <1>7, <1>8

LEMMA SavedReadsBack ==
  ASSUME IInv, TasksAreIn(files, saved), HeadersDiffer, YearsFit, NEW pick \in Picks
  PROVE  View(QueueRead(pick), files.todo.list, SlotsRead) = saved
<1> DEFINE read == View(QueueRead(pick), files.todo.list, SlotsRead)
           n == Len(saved)
<1>1. /\ DOMAIN saved = 1..n /\ DOMAIN files.todo.list = 1..n
      /\ DOMAIN files.ptod.list = 1..n
      /\ \A i \in 1..n : saved[i] \in SavedTask
  BY SavedHolds
<1>2. saved \in Seq(SavedTask)
  BY DEF TasksAreIn
<1>3. /\ DOMAIN QueueRead(pick) = 1..n
      /\ \A i \in 1..n : QueueRead(pick)[i] = TaskRead(pick, i)
  BY <1>1, QueueReadIs
<1>4. ASSUME NEW i \in 1..n
      PROVE  read[i] = saved[i]
  <2> DEFINE task == TaskRead(pick, i)
             record == files.todo.list[i]
  <2>1. PICK j \in DOMAIN files.ptod.list :
          /\ files.ptod.list[j].id = saved[i].link
          /\ Entry(files.ptod, files.ptod.list[j])
               = PtodEntry(saved[i], files.ptod.list[j].offset)
          /\ j \in RecordsOf(pick, i)
          /\ \A x \in RecordsOf(pick, i) : x = j
    BY SavedIsPicked
  <2> DEFINE entry == PtodEntry(saved[i], files.ptod.list[j].offset)
  <2>2. /\ task.priority = entry.priority /\ task.due = entry.due
        /\ task.alarm = entry.alarm /\ task.repeat = entry.repeat
        /\ task.link = saved[i].link /\ task.header = Header(files.todo, i)
        /\ task.text = Entry(files.todo, record).text
    BY <2>1, TaskReadOfOne
  <2>3. /\ record.id = saved[i].id
        /\ files.todo.slots[record.slot].name = saved[i].category
        /\ Entry(files.todo, record) = TodoEntry(saved[i], record.offset)
        /\ CategoriesRead(files.todo.slots) = files.todo.slots
    BY DEF TasksAreIn
  <2>4. /\ TodoEntry(saved[i], record.offset).header = saved[i].header
        /\ TodoEntry(saved[i], record.offset).text = saved[i].text
    BY DEF TodoEntry
  <2>5. task.header = saved[i].header /\ task.text = saved[i].text
    BY <2>2, <2>3, <2>4 DEF Header
  <2>6. /\ Fits(saved[i].due)
        /\ saved[i].repeat # None => Fits(saved[i].repeat.until)
    BY <1>1 DEF YearsFit
  <2>7. entry.due = saved[i].due /\ entry.repeat = saved[i].repeat
    BY <1>1, <2>6, StoredAsSaved
  <2>8. entry.priority = saved[i].priority /\ entry.alarm = saved[i].alarm
    BY DEF PtodEntry
  <2>9. SlotsRead.todo[record.slot].name = saved[i].category
    BY <2>3 DEF SlotsRead
  <2> HIDE DEF task, entry
  <2>10. read[i] = [header |-> task.header, text |-> task.text, id |-> record.id,
                    priority |-> task.priority, due |-> task.due, alarm |-> task.alarm,
                    repeat |-> task.repeat, link |-> task.link,
                    category |-> SlotsRead.todo[record.slot].name]
    BY <1>3 DEF View, task
  <2>11. saved[i] \in SavedTask
    BY <1>1
  <2> HIDE DEF record, read
  <2>12. read[i] = [header |-> saved[i].header, text |-> saved[i].text, id |-> saved[i].id,
                    priority |-> saved[i].priority, due |-> saved[i].due,
                    alarm |-> saved[i].alarm, repeat |-> saved[i].repeat,
                    link |-> saved[i].link, category |-> saved[i].category]
    BY <2>2, <2>3, <2>5, <2>7, <2>8, <2>9, <2>10 DEF record
  <2>. QED
    BY <2>11, <2>12 DEF SavedTask
<1>5. read = [i \in 1..n |-> read[i]]
  BY <1>3 DEF View
<1> HIDE DEF read
<1>6. saved = [i \in 1..n |-> saved[i]]
  BY <1>1, <1>2
<1>7. read = saved
  BY <1>4, <1>5, <1>6
<1>. QED
  BY <1>7 DEF read

LEMMA SavedIsThereReads ==
  ASSUME IInv, SavedIsThere
  PROVE  SavedIsReadBack
<1>1. ASSUME written = "sound" PROVE TasksAreIn(files, saved)
  BY <1>1 DEF SavedIsThere
<1>2. ASSUME written = "sound", HeadersDiffer, RepeatsAreDue, YearsFit
      PROVE  /\ \A j \in DOMAIN files.ptod.list : Appends(j)
             /\ \A pick \in Picks :
                  View(QueueRead(pick), files.todo.list, SlotsRead) = saved
  BY <1>1, <1>2, SavedAppends, SavedReadsBack
<1>. QED
  BY <1>1, <1>2, SavedHolds DEF SavedIsReadBack

-----------------------------------------------------------------------------
(* The invariant *)

\* The inductive invariant of the offsets, the entries and what was saved.
LInv ==
  /\ IInv
  /\ MemoryIsStacked
  /\ SlotsWereRead
  /\ EntriesAreSized
  /\ FilesAreLaidOut
  /\ SavedIsThere

\* A step other than a change of the tasks leaves memory, or forgets it.
LEMMA MemoryStays ==
  ASSUME UNCHANGED <<queue, todo, ptod, open, exact>>, MemoryIsStacked
  PROVE  MemoryIsStacked'
BY DEF MemoryIsStacked, TodoRooms, PtodRooms, TaskAt

LEMMA MemoryIsForgotten ==
  ASSUME open' = FALSE
  PROVE  MemoryIsStacked'
BY DEF MemoryIsStacked

LEMMA StackedHolds ==
  ASSUME LInv, IInv', [Next]_vars
  PROVE  MemoryIsStacked'
<1> USE DEF LInv
<1>1. CASE Open
  BY <1>1, OpenStacked
<1>2. CASE OpenFails \/ TaskEditFails \/ Write \/ WriteFails \/ UNCHANGED vars
  <2>1. UNCHANGED <<queue, todo, ptod, open, exact>>
    BY <1>2 DEF OpenFails, TaskEditFails, Write, WriteFails, memory, vars
  <2>. QED
    BY <2>1, MemoryStays
<1>3. CASE Close \/ WriteDies
  <2>1. open' = FALSE
    BY <1>3 DEF Close, WriteDies, Dies, Forgotten
  <2>. QED
    BY <2>1, MemoryIsForgotten
<1>4. ASSUME NEW category \in Names \cup {None}, NEW header \in NewHeaders,
             NEW text \in NewTexts, NEW priority \in Priorities,
             TaskAdd(header, text, category, priority)
      PROVE  MemoryIsStacked'
  BY <1>4, TaskAddStacked
<1>5. ASSUME NEW category \in Names \cup {None}, TaskAddFails(category)
      PROVE  MemoryIsStacked'
  <2>1. UNCHANGED <<queue, todo, ptod, open, exact>>
    BY <1>5 DEF TaskAddFails
  <2>. QED
    BY <2>1, MemoryStays
<1>6. ASSUME NEW k \in DOMAIN queue, NEW year \in NewYears \cup {0}, TaskSetDue(k, year)
      PROVE  MemoryIsStacked'
  BY <1>6, TaskSetDueStacked
<1>7. ASSUME NEW k \in DOMAIN queue, NEW alarm \in Alarms \cup {None},
             TaskSetAlarm(k, alarm)
      PROVE  MemoryIsStacked'
  BY <1>7, TaskSetAlarmStacked
<1>8. ASSUME NEW k \in DOMAIN queue, NEW repeat \in NewRepeats \cup {None},
             TaskSetRepeat(k, repeat)
      PROVE  MemoryIsStacked'
  BY <1>8, TaskSetRepeatStacked
<1>9. ASSUME NEW k \in DOMAIN queue, TaskSetDies(k) \/ TaskDeleteDies(k)
      PROVE  MemoryIsStacked'
  <2>1. open' = FALSE
    BY <1>9 DEF TaskSetDies, ResizeDies, TaskDeleteDies, Dies, Forgotten
  <2>. QED
    BY <2>1, MemoryIsForgotten
<1>10. ASSUME NEW k \in DOMAIN queue, TaskDelete(k)
       PROVE  MemoryIsStacked'
  BY <1>10, TaskDeleteStacked
<1>. QED
  BY <1>1, <1>2, <1>3, <1>4, <1>5, <1>6, <1>7, <1>8, <1>9, <1>10 DEF Next

\* Only a write changes the files.
LEMMA DiskStep ==
  ASSUME IInv, [Next]_vars
  PROVE  \/ UNCHANGED disk
         \/ Write
         \/ \E step \in 0..Steps : Cut(step)
<1>1. OpenFails \/ TaskEditFails \/ Open \/ Close \/ UNCHANGED vars => UNCHANGED disk
  BY DEF OpenFails, TaskEditFails, Open, Close, vars, disk
<1>2. ASSUME NEW category
      PROVE  /\ TaskAddFails(category) => UNCHANGED disk
             /\ \A header, text, priority :
                  TaskAdd(header, text, category, priority) => UNCHANGED disk
  BY DEF TaskAdd, TaskAddFails
<1>3. ASSUME NEW k
      PROVE  /\ TaskSetDies(k) => UNCHANGED disk
             /\ TaskDeleteDies(k) => UNCHANGED disk
             /\ TaskDelete(k) => UNCHANGED disk
             /\ \A year : TaskSetDue(k, year) => UNCHANGED disk
             /\ \A alarm : TaskSetAlarm(k, alarm) => UNCHANGED disk
             /\ \A repeat : TaskSetRepeat(k, repeat) => UNCHANGED disk
  BY DEF TaskSetDies, ResizeDies, TaskDeleteDies, TaskDelete, TaskSetDue, TaskSetAlarm,
         TaskSetRepeat
<1>4. Len(queue) \in Nat /\ DOMAIN queue = 1..Len(queue)
  BY MemoryIsTyped
<1>5. CASE WriteFails
  <2>1. PICK step \in 0..(Steps - 1) : Cut(step)
    BY <1>5 DEF WriteFails
  <2>2. step \in 0..Steps
    BY <1>4 DEF Steps
  <2>. QED
    BY <2>1, <2>2
<1>6. CASE WriteDies
  <2>1. PICK i \in DOMAIN queue : Cut(2 * i)
    BY <1>6 DEF WriteDies
  <2>2. 2 * i \in 0..Steps
    BY <1>4 DEF Steps
  <2>. QED
    BY <2>1, <2>2
<1>. QED
  BY <1>1, <1>2, <1>3, <1>5, <1>6 DEF Next

LEMMA WriteIs ==
  ASSUME IInv, Write
  PROVE  /\ files' = FilesAfter(Steps) /\ saved' = View(queue, todo, slots) /\ open
         /\ written' = "sound" <=> exact
         /\ written' # "never"
         /\ Steps \in 0..Steps /\ Feasible(Steps)
<1>1. /\ files' = FilesAfter(Steps) /\ saved' = View(queue, todo, slots) /\ open
      /\ written' = IF exact THEN "sound" ELSE "loose"
  BY DEF Write, Call
<1>2. Steps \in 0..Steps
  BY MemoryIsTyped DEF Steps
<1>3. Feasible(Steps)
  BY DEF Write, Feasible
<1>4. written' = "sound" <=> exact
  BY <1>1
<1>5. written' # "never"
  BY <1>1
<1>. QED
  BY <1>1, <1>2, <1>3, <1>4, <1>5

LEMMA DiskHolds ==
  ASSUME LInv, [Next]_vars
  PROVE  EntriesAreSized' /\ FilesAreLaidOut' /\ SavedIsThere'
<1> USE DEF LInv
<1>1. CASE UNCHANGED disk
  <2>1. files' = files /\ written' = written /\ saved' = saved
    BY <1>1 DEF disk
  <2>2. EntriesAreSized'
    BY <2>1 DEF EntriesAreSized
  <2>3. FilesAreLaidOut'
    BY <2>1 DEF FilesAreLaidOut
  <2>4. SavedIsThere'
    BY <2>1 DEF SavedIsThere
  <2>. QED
    BY <2>2, <2>3, <2>4
<1>2. CASE Write
  <2>1. /\ files' = FilesAfter(Steps) /\ saved' = View(queue, todo, slots) /\ open
        /\ written' = "sound" <=> exact
        /\ written' # "never" /\ Steps \in 0..Steps /\ Feasible(Steps)
    BY <1>2, WriteIs
  <2>2. Sized(FilesAfter(Steps))
    BY <2>1, WrittenIsSized
  <2>3. ASSUME exact PROVE LaidOut(FilesAfter(Steps))
    BY <2>1, <2>3, WriteLaysOut
  <2>4. ASSUME exact PROVE TasksAreIn(FilesAfter(Steps), View(queue, todo, slots))
    BY <2>1, <2>4, WriteSaves
  <2>5. EntriesAreSized'
    BY <2>1, <2>2 DEF EntriesAreSized
  <2>6. FilesAreLaidOut'
    BY <2>1, <2>3 DEF FilesAreLaidOut
  <2>7. SavedIsThere'
    BY <2>1, <2>4 DEF SavedIsThere
  <2>. QED
    BY <2>5, <2>6, <2>7
<1>3. ASSUME NEW step \in 0..Steps, Cut(step)
      PROVE  EntriesAreSized' /\ FilesAreLaidOut' /\ SavedIsThere'
  <2>1. files' = FilesAfter(step) /\ written' = "torn" /\ Feasible(step)
    BY <1>3 DEF Cut
  <2>2. Sized(FilesAfter(step))
    BY <2>1, WrittenIsSized
  <2>3. EntriesAreSized'
    BY <2>1, <2>2 DEF EntriesAreSized
  <2>4. FilesAreLaidOut' /\ SavedIsThere'
    BY <2>1 DEF FilesAreLaidOut, SavedIsThere
  <2>. QED
    BY <2>3, <2>4
<1>. QED
  BY <1>1, <1>2, <1>3, DiskStep

LEMMA LayoutInit ==
  ASSUME Init
  PROVE  LInv
<1>1. IInv
  BY InitHolds
<1>2. open = FALSE /\ slots = NoSlots /\ written = "never" /\ files \in Initials
  BY DEF Init
<1>3. MemoryIsStacked
  BY <1>2 DEF MemoryIsStacked
<1>4. SlotsWereRead
  BY <1>2 DEF SlotsWereRead, NoSlots, CategoriesRead
<1>5. LaidOut(files) /\ Sized(files)
  BY <1>2, InitialsAreLaidOut
<1>6. EntriesAreSized /\ FilesAreLaidOut
  BY <1>5 DEF EntriesAreSized, FilesAreLaidOut
<1>7. SavedIsThere
  BY <1>2 DEF SavedIsThere
<1>. QED
  BY <1>1, <1>3, <1>4, <1>6, <1>7 DEF LInv

LEMMA LayoutStep ==
  ASSUME LInv, [Next]_vars
  PROVE  LInv'
<1>1. IInv'
  BY NextHolds DEF LInv
<1>2. MemoryIsStacked'
  BY <1>1, StackedHolds
<1>3. SlotsWereRead'
  BY SlotsStayRead DEF LInv
<1>4. EntriesAreSized' /\ FilesAreLaidOut' /\ SavedIsThere'
  BY DiskHolds
<1>. QED
  BY <1>1, <1>2, <1>3, <1>4 DEF LInv

\* Records in memory are stacked while the offsets follow what is done, entries take what
\* is in them, and what a sound write was to save is in the files.
THEOREM LayoutHolds == Spec => []LInv
<1>1. Init => LInv
  BY LayoutInit
<1>2. LInv /\ [Next]_vars => LInv'
  BY LayoutStep
<1>. QED
  BY <1>1, <1>2, PTL DEF Spec

\* Adding, changing and deleting tasks leaves no gap and no overlap in either file, with
\* the exception that PackedTasks names.
THEOREM TasksArePacked == Spec => []PackedTasks
<1>1. LInv => PackedTasks
  BY StackedIsPacked DEF LInv
<1>. QED
  BY <1>1, LayoutHolds, PTL

\* What a sound write was to save is in both files, and is read back where headers differ,
\* repetitions have due dates and years have seven bits.
THEOREM SavedTasksAreReadBack == Spec => []SavedIsReadBack
<1>1. LInv => SavedIsReadBack
  BY SavedIsThereReads DEF LInv
<1>. QED
  BY <1>1, LayoutHolds, PTL

-----------------------------------------------------------------------------
(* Who dies *)

LEMMA WhoDies ==
  ASSUME LInv, Next, outcome' = "dead"
  PROVE  /\ open /\ exact => \E k \in DOMAIN queue : queue[k].fresh
         /\ ~open /\ written = "sound" => ~(HeadersDiffer /\ RepeatsAreDue)
<1>1. ASSUME OpenFails
      PROVE  ~open /\ \E j \in DOMAIN files.ptod.list : ~Appends(j)
  BY <1>1 DEF OpenFails
<1>2. ASSUME open, exact, NEW k \in DOMAIN queue
      PROVE  queue[k].link # None
  BY <1>2, NoLinkIsNone DEF LInv
<1>3. ~OpenFails => open
  <2>1. Close \/ WriteDies => open
    BY DEF Close, WriteDies, Dies
  <2>2. ASSUME NEW k \in DOMAIN queue, TaskSetDies(k) \/ TaskDeleteDies(k)
        PROVE  open
    BY <2>2 DEF TaskSetDies, ResizeDies, TaskDeleteDies, Dies
  <2>3. Open \/ TaskEditFails \/ Write \/ WriteFails => outcome' # "dead"
    BY DEF Open, TaskEditFails, Write, WriteFails, Call
  <2>4. ASSUME NEW category
        PROVE  /\ TaskAddFails(category) => outcome' # "dead"
               /\ \A header, text, priority :
                    TaskAdd(header, text, category, priority) => outcome' # "dead"
    BY DEF TaskAdd, TaskAddFails, Call
  <2>5. ASSUME NEW k
        PROVE  /\ TaskDelete(k) => outcome' # "dead"
               /\ \A year : TaskSetDue(k, year) => outcome' # "dead"
               /\ \A alarm : TaskSetAlarm(k, alarm) => outcome' # "dead"
               /\ \A repeat : TaskSetRepeat(k, repeat) => outcome' # "dead"
    BY DEF TaskDelete, TaskSetDue, TaskSetAlarm, TaskSetRepeat, Call
  <2>. QED
    BY <2>1, <2>2, <2>3, <2>4, <2>5 DEF Next
<1>4. ASSUME open, exact
      PROVE  \E k \in DOMAIN queue : queue[k].fresh
  <2>1. ~Close
    BY <1>2, <1>4 DEF Close
  <2>2. ~WriteDies
    BY <1>2, <1>4 DEF WriteDies
  <2>3. ASSUME NEW k \in DOMAIN queue
        PROVE  ~TaskSetDies(k)
    BY <1>2, <1>4 DEF TaskSetDies, ResizeDies
  <2>4. ASSUME NEW k \in DOMAIN queue, TaskDeleteDies(k)
        PROVE  queue[k].fresh
    BY <1>2, <1>4, <2>4 DEF TaskDeleteDies
  <2>5. ~OpenFails
    BY <1>1, <1>4
  <2>6. ~(Open \/ TaskEditFails \/ Write \/ WriteFails)
    BY DEF Open, TaskEditFails, Write, WriteFails, Call
  <2>7. ASSUME NEW category
        PROVE  /\ ~TaskAddFails(category)
               /\ \A header, text, priority : ~TaskAdd(header, text, category, priority)
    BY DEF TaskAdd, TaskAddFails, Call
  <2>8. ASSUME NEW k
        PROVE  /\ ~TaskDelete(k)
               /\ \A year : ~TaskSetDue(k, year)
               /\ \A alarm : ~TaskSetAlarm(k, alarm)
               /\ \A repeat : ~TaskSetRepeat(k, repeat)
    BY DEF TaskDelete, TaskSetDue, TaskSetAlarm, TaskSetRepeat, Call
  <2>. QED
    BY <2>1, <2>2, <2>3, <2>4, <2>5, <2>6, <2>7, <2>8 DEF Next
<1>5. ASSUME ~open, written = "sound", HeadersDiffer, RepeatsAreDue
      PROVE  FALSE
  <2>1. PICK j \in DOMAIN files.ptod.list : ~Appends(j)
    BY <1>1, <1>3, <1>5
  <2>. QED
    BY <1>5, <2>1, SavedAppends DEF LInv, SavedIsThere
<1>. QED
  BY <1>4, <1>5

\* With files that tell the tasks apart a process dies only of a task that is new, and
\* what was saved kills the next one that reads it only where two headers are equal or a
\* repetition has no due date.
THEOREM GoodFilesKillNobody == Spec => GoodFilesDoNotKill
<1>1. LInv /\ [Next]_vars =>
        [outcome' = "dead" =>
           /\ open /\ exact => \E k \in DOMAIN queue : queue[k].fresh
           /\ ~open /\ written = "sound" => ~(HeadersDiffer /\ RepeatsAreDue)]_vars
  BY WhoDies
<1>. QED
  BY <1>1, LayoutHolds, PTL DEF Spec, GoodFilesDoNotKill

-----------------------------------------------------------------------------
(* Categories of tasks *)

\* Both records of a task are in the category it was put in.
Filed(task, inTodo, inPtod, cats) ==
  /\ inPtod.slot = inTodo.slot
  /\ task.asked \in Names
  /\ cats.todo[inTodo.slot].name = task.asked
  /\ cats.ptod[inTodo.slot].name = task.asked
\* All tasks are, and no name is in two slots; and what would be read from the files is so.
TasksAreFiled ==
  exact /\ open =>
    \A i \in DOMAIN queue, j \in DOMAIN ptod :
      queue[i].link = ptod[j].id => Filed(queue[i], todo[i], ptod[j], slots)
SlotsAreSound == \A db \in {"todo", "ptod"} : SoundCategories(slots[db])
FilesAreFiled == written \in {"never", "sound"} => WellFiled(files)

LEMMA FiledIsAlike ==
  ASSUME IInv, TasksAreFiled
  PROVE  FiledAlike
<1> SUFFICES ASSUME exact, open, NEW i \in DOMAIN queue
             PROVE  LET record == ptod[RecordOf(i)] IN
                      /\ record.slot = todo[i].slot
                      /\ slots.todo[todo[i].slot].name = queue[i].asked
                      /\ slots.ptod[record.slot].name = queue[i].asked
  BY DEF FiledAlike
<1>1. RecordOf(i) \in DOMAIN ptod /\ ptod[RecordOf(i)].id = queue[i].link
  BY NoLinkIsNone, RecordIsThere, MemoryIsTyped
<1>2. Filed(queue[i], todo[i], ptod[RecordOf(i)], slots)
  BY <1>1 DEF TasksAreFiled
<1>. QED
  BY <1>2 DEF Filed

\* Names of categories stay, and each task and record was there before.
NamesStay ==
  \A db \in {"todo", "ptod"}, s \in SlotIds :
    slots[db][s].name \in Names => slots'[db][s] = slots[db][s]
PairStays(i, j) ==
  \E x \in DOMAIN queue, y \in DOMAIN ptod :
    /\ queue[x].link = ptod[y].id
    /\ queue'[i].asked = queue[x].asked
    /\ todo'[i].slot = todo[x].slot
    /\ ptod'[j].slot = ptod[y].slot

LEMMA PairStaysFiled ==
  ASSUME IInv, TasksAreFiled, exact, open, NamesStay, NEW i, NEW j, PairStays(i, j)
  PROVE  Filed(queue'[i], todo'[i], ptod'[j], slots')
<1>1. PICK x \in DOMAIN queue, y \in DOMAIN ptod :
        /\ queue[x].link = ptod[y].id
        /\ queue'[i].asked = queue[x].asked
        /\ todo'[i].slot = todo[x].slot
        /\ ptod'[j].slot = ptod[y].slot
  BY DEF PairStays
<1>2. Filed(queue[x], todo[x], ptod[y], slots)
  BY <1>1 DEF TasksAreFiled
<1>3. todo[x].slot \in SlotIds
  <2>1. todo[x] \in Record
    BY MemoryIsTyped
  <2>. QED
    BY <2>1 DEF Record
<1>4. /\ slots.todo[todo[x].slot].name \in Names
      /\ slots.ptod[todo[x].slot].name \in Names
  BY <1>2 DEF Filed
<1>5. /\ slots'.todo[todo[x].slot] = slots.todo[todo[x].slot]
      /\ slots'.ptod[todo[x].slot] = slots.ptod[todo[x].slot]
  BY <1>3, <1>4 DEF NamesStay
<1>. QED
  BY <1>1, <1>2, <1>5 DEF Filed

LEMMA AllStayFiled ==
  ASSUME IInv, TasksAreFiled, exact' /\ open' => exact /\ open, NamesStay,
         \A i \in DOMAIN queue', j \in DOMAIN ptod' :
           exact /\ open /\ queue'[i].link = ptod'[j].id => PairStays(i, j)
  PROVE  TasksAreFiled'
<1> SUFFICES ASSUME exact', open', NEW i \in DOMAIN queue', NEW j \in DOMAIN ptod',
                    queue'[i].link = ptod'[j].id
             PROVE  Filed(queue'[i], todo'[i], ptod'[j], slots')
  BY DEF TasksAreFiled
<1>1. exact /\ open /\ PairStays(i, j)
  OBVIOUS
<1>. QED
  BY <1>1, PairStaysFiled

LEMMA NothingIsRefiled ==
  ASSUME IInv, TasksAreFiled, UNCHANGED <<queue, todo, ptod, open, exact>>, NamesStay
  PROVE  TasksAreFiled'
<1>1. \A i \in DOMAIN queue', j \in DOMAIN ptod' :
        exact /\ open /\ queue'[i].link = ptod'[j].id => PairStays(i, j)
  BY DEF PairStays
<1>. QED
  BY <1>1, AllStayFiled

LEMMA SameSlotsSameNames ==
  ASSUME UNCHANGED slots
  PROVE  NamesStay
BY DEF NamesStay

\* A task is changed and records are moved, as SetHolds has it.
LEMMA SetStaysFiled ==
  ASSUME IInv, TasksAreFiled, NEW k \in DOMAIN queue, NEW by \in Int, Resize(k, by),
         NEW task, task.link = queue[k].link, task.asked = queue[k].asked,
         queue' = [queue EXCEPT ![k] = task], exact' => exact,
         UNCHANGED <<open, todo, slots>>
  PROVE  TasksAreFiled'
<1>1. /\ queue \in Seq(Task) /\ ptod \in Seq(Record) /\ DOMAIN queue = 1..Len(queue)
      /\ DOMAIN ptod = 1..Len(ptod)
  BY MemoryIsTyped
<1>2. /\ DOMAIN ptod' = DOMAIN ptod
      /\ \A j \in DOMAIN ptod : ptod'[j].id = ptod[j].id /\ ptod'[j].slot = ptod[j].slot
  <2>1. CASE by = 0
    BY <2>1 DEF Resize
  <2>2. CASE by # 0
    <3>1. queue[k].link # None /\ ptod' = MovedBehind(ptod, RecordOf(k), by)
      BY <2>2 DEF Resize
    <3>2. RecordOf(k) \in Int
      BY <3>1, RecordIsThere
    <3>3. /\ ptod' \in Seq(Record) /\ Len(ptod') = Len(ptod)
          /\ \A j \in 1..Len(ptod) : ptod'[j].id = ptod[j].id
      BY <1>1, <3>1, <3>2, MovedBehindType
    <3>4. \A j \in 1..Len(ptod) : ptod'[j].slot = ptod[j].slot
      BY <1>1, <3>1, <3>2, MovedBehindPlaces
    <3>. QED
      BY <1>1, <3>3, <3>4
  <2>. QED
    BY <2>1, <2>2
<1>3. DOMAIN queue' = DOMAIN queue
      /\ \A i \in DOMAIN queue : queue'[i].link = queue[i].link
                                 /\ queue'[i].asked = queue[i].asked
  <2>1. \A i \in DOMAIN queue : queue'[i] = IF i = k THEN task ELSE queue[i]
    OBVIOUS
  <2>. QED
    BY <2>1
<1>4. ASSUME NEW i \in DOMAIN queue', NEW j \in DOMAIN ptod', queue'[i].link = ptod'[j].id
      PROVE  PairStays(i, j)
  <2>1. /\ i \in DOMAIN queue /\ j \in DOMAIN ptod /\ queue[i].link = ptod[j].id
        /\ queue'[i].asked = queue[i].asked /\ todo'[i].slot = todo[i].slot
        /\ ptod'[j].slot = ptod[j].slot
    BY <1>2, <1>3, <1>4
  <2>. QED
    BY <2>1 DEF PairStays
<1>5. NamesStay
  BY SameSlotsSameNames
<1>6. exact' /\ open' => exact /\ open
  OBVIOUS
<1>. QED
  BY <1>4, <1>5, <1>6, AllStayFiled

LEMMA DeleteStaysFiled ==
  ASSUME IInv, TasksAreFiled, NEW k \in DOMAIN queue, TaskDelete(k)
  PROVE  TasksAreFiled'
<1> DEFINE n == Len(queue)
           m == Len(ptod)
           r == RecordOf(k)
<1>1. /\ queue[k].link # None /\ open /\ exact' = exact /\ UNCHANGED slots
      /\ queue' = RemoveAt(queue, k)
      /\ todo' = Without(todo, k, TodoSize(queue[k]))
      /\ ptod' = Without(ptod, r, PtodRoom(queue[k]))
  BY DEF TaskDelete, Call
<1>2. /\ queue \in Seq(Task) /\ todo \in Seq(Record) /\ ptod \in Seq(Record)
      /\ DOMAIN queue = 1..n /\ DOMAIN todo = 1..n /\ DOMAIN ptod = 1..m
      /\ n \in Nat /\ m \in Nat /\ k \in 1..n /\ Len(todo) = n
  BY MemoryIsTyped
<1>3. r \in 1..m
  BY <1>1, RecordIsThere
<1>4. TodoSize(queue[k]) \in Int /\ PtodRoom(queue[k]) \in Int
  <2>1. queue[k] \in Task
    BY <1>2
  <2>. QED
    BY <2>1, SizesAreNumbers
<1>5. /\ DOMAIN queue' = 1..(n - 1)
      /\ \A i \in 1..(n - 1) : queue'[i] = queue[Shifted(i, k)]
  <2>1. /\ queue' \in Seq(Task) /\ Len(queue') = n - 1
        /\ \A i \in 1..(n - 1) : queue'[i] = IF i < k THEN queue[i] ELSE queue[i + 1]
    BY <1>1, <1>2, RemoveAtType
  <2>2. DOMAIN queue' = 1..(n - 1)
    BY <2>1
  <2>. QED
    BY <2>1, <2>2 DEF Shifted
<1>6. \A i \in 1..(n - 1) : todo'[i].slot = todo[Shifted(i, k)].slot
  <2>1. k \in 1..Len(todo)
    BY <1>2
  <2>2. \A i \in 1..(Len(todo) - 1) :
          Without(todo, k, TodoSize(queue[k]))[i].slot = todo[Shifted(i, k)].slot
    BY <1>2, <1>4, <2>1, WithoutPlaces
  <2>. QED
    BY <1>1, <1>2, <2>2
<1>7. /\ DOMAIN ptod' = 1..(m - 1)
      /\ \A j \in 1..(m - 1) : /\ ptod'[j].id = ptod[Shifted(j, r)].id
                               /\ ptod'[j].slot = ptod[Shifted(j, r)].slot
  <2>1. /\ Without(ptod, r, PtodRoom(queue[k])) \in Seq(Record)
        /\ Len(Without(ptod, r, PtodRoom(queue[k]))) = Len(ptod) - 1
        /\ \A i \in 1..(Len(ptod) - 1) :
             Without(ptod, r, PtodRoom(queue[k]))[i].id = ptod[Shifted(i, r)].id
    BY <1>2, <1>3, <1>4, WithoutType
  <2>2. \A i \in 1..(Len(ptod) - 1) :
          Without(ptod, r, PtodRoom(queue[k]))[i].slot = ptod[Shifted(i, r)].slot
    BY <1>2, <1>3, <1>4, WithoutPlaces
  <2>3. DOMAIN Without(ptod, r, PtodRoom(queue[k])) = 1..(m - 1)
    BY <2>1
  <2>. QED
    BY <1>1, <2>1, <2>2, <2>3
<1>8. /\ \A i \in 1..(n - 1) : Shifted(i, k) \in 1..n
      /\ \A j \in 1..(m - 1) : Shifted(j, r) \in 1..m
  BY <1>2, <1>3, ShiftedIs
<1> HIDE DEF n, m, r
<1>9. ASSUME NEW i \in DOMAIN queue', NEW j \in DOMAIN ptod', queue'[i].link = ptod'[j].id
      PROVE  PairStays(i, j)
  <2>1. i \in 1..(n - 1) /\ j \in 1..(m - 1)
    BY <1>5, <1>7
  <2>2. /\ Shifted(i, k) \in DOMAIN queue /\ Shifted(j, r) \in DOMAIN ptod
        /\ queue[Shifted(i, k)].link = ptod[Shifted(j, r)].id
        /\ queue'[i].asked = queue[Shifted(i, k)].asked
        /\ todo'[i].slot = todo[Shifted(i, k)].slot
        /\ ptod'[j].slot = ptod[Shifted(j, r)].slot
    BY <1>2, <1>5, <1>6, <1>7, <1>8, <1>9, <2>1
  <2>. QED
    BY <2>2 DEF PairStays
<1>10. NamesStay
  BY <1>1, SameSlotsSameNames
<1>11. exact' /\ open' => exact /\ open
  BY <1>1
<1>. QED
  BY <1>9, <1>10, <1>11, AllStayFiled

\* Categories that are found or added leave the others.
LEMMA AddedNamesStay ==
  ASSUME IInv, SlotsWereRead, NEW category \in Names \cup {None},
         \A db \in {"todo", "ptod"} :
           \/ slots'[db] = slots[db]
           \/ \E found \in CategoryIn(slots[db], CategoryAsked(category)) :
                slots'[db] = found.slots
  PROVE  NamesStay
<1> SUFFICES ASSUME NEW db \in {"todo", "ptod"}, NEW s \in SlotIds,
                    slots[db][s].name \in Names
             PROVE  slots'[db][s] = slots[db][s]
  BY DEF NamesStay
<1>1. slots[db] \in [SlotIds -> Slot] /\ CategoriesRead(slots[db]) = slots[db]
  BY SlotsAreTyped DEF SlotsWereRead
<1>2. CategoryAsked(category) \in Names /\ slots[db][s].name # NoName
  BY CategoryAskedIsName, NoNameIsEmpty
<1>3. ASSUME NEW found \in CategoryIn(slots[db], CategoryAsked(category))
      PROVE  found.slots[s] = slots[db][s]
  BY <1>1, <1>2, CategoryInRead
<1>. QED
  BY <1>3

LEMMA AddFailsStaysFiled ==
  ASSUME IInv, TasksAreFiled, SlotsWereRead, NEW category \in Names \cup {None},
         TaskAddFails(category)
  PROVE  TasksAreFiled'
<1>1. /\ UNCHANGED <<queue, todo, ptod, open, exact>>
      /\ \/ UNCHANGED slots
         \/ \E t \in CategoryIn(slots.todo, CategoryAsked(category)) :
              slots' = [slots EXCEPT !.todo = t.slots]
         \/ \E t \in CategoryIn(slots.todo, CategoryAsked(category)),
               p \in CategoryIn(slots.ptod, CategoryAsked(category)) :
              slots' = [todo |-> t.slots, ptod |-> p.slots]
  BY DEF TaskAddFails
<1>2. slots \in [{"todo", "ptod"} -> [SlotIds -> Slot]]
  BY DEF IInv, TypeOK
<1>3. \A db \in {"todo", "ptod"} :
        \/ slots'[db] = slots[db]
        \/ \E found \in CategoryIn(slots[db], CategoryAsked(category)) :
             slots'[db] = found.slots
  BY <1>1, <1>2
<1>4. NamesStay
  BY <1>3, AddedNamesStay
<1>. QED
  BY <1>1, <1>4, NothingIsRefiled

LEMMA AddStaysFiled ==
  ASSUME IInv, IInv', TasksAreFiled, SlotsWereRead, SlotsAreSound,
         NEW category \in Names \cup {None}, NEW header \in NewHeaders,
         NEW text \in NewTexts, NEW priority \in Priorities,
         TaskAdd(header, text, category, priority)
  PROVE  TasksAreFiled'
<1> SUFFICES ASSUME exact', open' PROVE TasksAreFiled'
  BY DEF TasksAreFiled
<1> DEFINE name == CategoryAsked(category)
           n == Len(queue)
           m == Len(ptod)
           new(id) == [header |-> header, text |-> text, priority |-> priority, due |-> 0,
                       alarm |-> None, repeat |-> None,
                       asked |-> Stored[name], link |-> id, fresh |-> TRUE]
<1>1. PICK inTodo \in CategoryIn(slots.todo, name), inPtod \in CategoryIn(slots.ptod, name),
           id \in FreshIds :
        /\ SameId(inTodo, inPtod)
        /\ slots' = [todo |-> inTodo.slots, ptod |-> inPtod.slots]
        /\ todo' = With(todo, TodoSize(Last(queue)), id, inTodo.id % Slots)
        /\ ptod' = With(ptod, PtodRoom(Last(queue)), id, inPtod.id % Slots)
        /\ queue' = Append(queue, new(id))
  BY DEF TaskAdd
<1>2. exact /\ open /\ LastIsLast
  BY DEF TaskAdd, Call
<1>3. /\ queue \in Seq(Task) /\ todo \in Seq(Record) /\ ptod \in Seq(Record)
      /\ DOMAIN queue = 1..n /\ DOMAIN todo = 1..n /\ DOMAIN ptod = 1..m
      /\ n \in Nat /\ m \in Nat /\ Len(todo) = n /\ OneToOne(queue, ptod)
  BY <1>2, MemoryIsTyped
<1>4. queue # <<>> /\ ptod # <<>> /\ todo # <<>>
  <2>1. queue # <<>> /\ ptod # <<>>
    BY <1>2 DEF LastIsLast
  <2>. QED
    BY <1>3, <2>1
<1>5. /\ slots.todo \in [SlotIds -> Slot] /\ slots.ptod \in [SlotIds -> Slot]
      /\ name \in Names /\ Stored[name] \in Names
      /\ CategoriesRead(slots.todo) = slots.todo /\ CategoriesRead(slots.ptod) = slots.ptod
      /\ SoundCategories(slots.todo) /\ SoundCategories(slots.ptod)
  BY SlotsAreTyped, CategoryAskedIsName, TruncationOK DEF SlotsWereRead, SlotsAreSound
<1> DEFINE slot == inTodo.id % Slots
<1>6. /\ slot \in SlotIds /\ inPtod.id % Slots = slot
      /\ slots'.todo[slot].name = Stored[name] /\ slots'.ptod[slot].name = Stored[name]
  <2>1. inTodo.id \in Nat /\ inPtod.id \in Nat
    BY <1>5, CategoryInType
  <2>2. inTodo.id = inPtod.id
    BY <1>1 DEF SameId
  <2>3. inTodo.slots[inTodo.id % Slots].name = Stored[name]
    BY <1>5, CategoryInRead
  <2>4. inPtod.slots[inPtod.id % Slots].name = Stored[name]
    BY <1>5, CategoryInRead
  <2>5. slots'.todo = inTodo.slots /\ slots'.ptod = inPtod.slots
    BY <1>1
  <2>6. slot \in SlotIds
    BY <2>1, SlotNumbers
  <2>. QED
    BY <2>2, <2>3, <2>4, <2>5, <2>6
<1>7. TodoSize(Last(queue)) \in Int /\ PtodRoom(Last(queue)) \in Int /\ id \in Ids
  <2>1. n \in 1..n
    BY <1>3, <1>4
  <2>2. Last(queue) \in Task
    BY <1>3, <2>1 DEF Last
  <2>. QED
    BY <2>2, SizesAreNumbers DEF FreshIds
<1> DEFINE asked == Stored[name]
           sizeTodo == TodoSize(Last(queue))
           sizePtod == PtodRoom(Last(queue))
           task == new(id)
<1>8. task.asked = asked /\ task.link = id
  OBVIOUS
<1>9. /\ todo' = With(todo, sizeTodo, id, slot) /\ ptod' = With(ptod, sizePtod, id, slot)
      /\ queue' = Append(queue, task) /\ sizeTodo \in Int /\ sizePtod \in Int
  BY <1>1, <1>6, <1>7
<1>10. OneToOne(queue', ptod') /\ queue' \in Seq(Task) /\ IdsDiffer(ptod')
  BY DEF IInv, EachTaskHasItsRecord, TypeOK
<1>11. NamesStay
  <2>1. \A db \in {"todo", "ptod"} :
          \E found \in CategoryIn(slots[db], CategoryAsked(category)) :
            slots'[db] = found.slots
    BY <1>1
  <2>. QED
    BY <2>1, AddedNamesStay
<1> HIDE DEF task, asked, slot, sizeTodo, sizePtod, n, m
<1>12. /\ DOMAIN queue' = 1..(n + 1) /\ \A i \in 1..n : queue'[i] = queue[i]
       /\ queue'[n + 1] = task
  BY <1>3, <1>9, <1>10 DEF n
<1>13. /\ \A i \in 1..n : todo'[i].slot = todo[i].slot
       /\ todo'[n + 1].slot = slot
  <2>1. /\ \A i \in 1..Len(todo) : With(todo, sizeTodo, id, slot)[i].slot = todo[i].slot
        /\ With(todo, sizeTodo, id, slot)[Len(todo) + 1].slot = slot
    BY <1>3, <1>4, <1>6, <1>7, <1>9, WithPlaces
  <2>. QED
    BY <1>3, <1>9, <2>1
<1>14. /\ DOMAIN ptod' = 1..(m + 1)
       /\ \A j \in 1..m : ptod'[j].id = ptod[j].id /\ ptod'[j].slot = ptod[j].slot
       /\ ptod'[m + 1].id = id /\ ptod'[m + 1].slot = slot
  <2>1. /\ \A i \in 1..Len(ptod) : With(ptod, sizePtod, id, slot)[i].slot = ptod[i].slot
        /\ With(ptod, sizePtod, id, slot)[Len(ptod) + 1].slot = slot
    BY <1>3, <1>4, <1>6, <1>7, <1>9, WithPlaces
  <2>2. /\ With(ptod, sizePtod, id, slot) \in Seq(Record)
        /\ Len(With(ptod, sizePtod, id, slot)) = Len(ptod) + 1
        /\ \A i \in 1..Len(ptod) : With(ptod, sizePtod, id, slot)[i].id = ptod[i].id
        /\ With(ptod, sizePtod, id, slot)[Len(ptod) + 1].id = id
    <3>1. /\ ptod \in Seq(Record) /\ ptod # <<>>
          /\ sizePtod \in Int /\ id \in Ids /\ slot \in SlotIds
      BY <1>3, <1>4, <1>6, <1>7, <1>9
    <3>. QED
      BY <3>1, WithType
  <2>3. DOMAIN With(ptod, sizePtod, id, slot) = 1..(Len(ptod) + 1)
    BY <2>2
  <2>. QED
    BY <1>9, <2>1, <2>2, <2>3 DEF m
<1>15. ASSUME NEW i \in DOMAIN queue', NEW j \in DOMAIN ptod', queue'[i].link = ptod'[j].id
       PROVE  Filed(queue'[i], todo'[i], ptod'[j], slots')
  <2>1. CASE i \in 1..n
    <3>1. PICK y \in 1..m : queue[i].link = ptod[y].id
      BY <1>3, <2>1 DEF OneToOne
    <3>2. y \in DOMAIN ptod' /\ ptod'[y].id = ptod'[j].id
      BY <1>3, <1>12, <1>14, <1>15, <2>1, <3>1
    <3>3. y = j
      BY <1>10, <3>2 DEF IdsDiffer
    <3>4. /\ i \in DOMAIN queue /\ j \in DOMAIN ptod /\ queue[i].link = ptod[j].id
          /\ queue'[i].asked = queue[i].asked /\ todo'[i].slot = todo[i].slot
          /\ ptod'[j].slot = ptod[j].slot
      BY <1>3, <1>12, <1>13, <1>14, <2>1, <3>1, <3>3
    <3>5. PairStays(i, j)
      BY <3>4 DEF PairStays
    <3>. QED
      BY <1>2, <1>11, <3>5, PairStaysFiled
  <2>2. CASE i = n + 1
    <3>1. m + 1 \in DOMAIN ptod' /\ ptod'[m + 1].id = ptod'[j].id
      BY <1>3, <1>8, <1>12, <1>14, <1>15, <2>2
    <3>2. j = m + 1
      BY <1>10, <3>1 DEF IdsDiffer
    <3>3. queue'[i].asked = asked /\ todo'[i].slot = slot /\ ptod'[j].slot = slot
      BY <1>8, <1>12, <1>13, <1>14, <2>2, <3>2
    <3>4. slots'.todo[slot].name = asked /\ slots'.ptod[slot].name = asked /\ asked \in Names
      BY <1>5, <1>6 DEF asked
    <3>. QED
      BY <3>3, <3>4 DEF Filed
  <2>. QED
    BY <1>3, <1>12, <2>1, <2>2
<1>. QED
  BY <1>15 DEF TasksAreFiled

\* What is read is where the files have it.
LEMMA OpenFiles ==
  ASSUME IInv, FilesAreFiled, Open
  PROVE  TasksAreFiled'
<1> SUFFICES ASSUME exact', open', NEW i \in DOMAIN queue', NEW j \in DOMAIN ptod',
                    queue'[i].link = ptod'[j].id
             PROVE  Filed(queue'[i], todo'[i], ptod'[j], slots')
  BY DEF TasksAreFiled
<1>1. PICK pick \in Picks : queue' = QueueRead(pick)
  BY DEF Open
<1>2. /\ todo' = files.todo.list /\ ptod' = files.ptod.list /\ slots' = SlotsRead
      /\ OneToOne(queue', ptod') /\ written \in {"never", "sound"}
  BY DEF Open
<1>3. /\ DOMAIN QueueRead(pick) = DOMAIN files.todo.list
      /\ \A k \in DOMAIN files.todo.list : QueueRead(pick)[k] = TaskRead(pick, k)
  BY QueueReadIs
<1>4. i \in DOMAIN files.todo.list /\ j \in DOMAIN files.ptod.list
  BY <1>1, <1>2, <1>3
<1>5. Joined(files, i, j)
  <2>1. QueueRead(pick)[i].link = files.ptod.list[j].id
    BY <1>1, <1>2
  <2>2. OneToOne(QueueRead(pick), files.ptod.list)
    BY <1>1, <1>2
  <2>. QED
    BY <1>4, <2>1, <2>2, ReadOneToOne
<1>6. FiledInOne(files, i, j)
  BY <1>2, <1>4, <1>5 DEF FilesAreFiled, WellFiled
<1>7. queue'[i].asked = CategoriesRead(files.todo.slots)[files.todo.list[i].slot].name
  <2>1. queue'[i] = TaskRead(pick, i)
    BY <1>1, <1>3, <1>4
  <2>2. TaskRead(pick, i).asked
          = CategoriesRead(files.todo.slots)[files.todo.list[i].slot].name
    BY DEF TaskRead
  <2>. QED
    BY <2>1, <2>2
<1>8. /\ slots'.todo = CategoriesRead(files.todo.slots)
      /\ slots'.ptod = CategoriesRead(files.ptod.slots)
  BY <1>2 DEF SlotsRead
<1>. QED
  BY <1>2, <1>6, <1>7, <1>8 DEF FiledInOne, Filed

LEMMA FiledHolds ==
  ASSUME LInv, IInv', TasksAreFiled, FilesAreFiled, SlotsAreSound, [Next]_vars
  PROVE  TasksAreFiled'
<1> USE DEF LInv
<1>0. ASSUME open' = FALSE PROVE TasksAreFiled'
  BY <1>0 DEF TasksAreFiled
<1>1. CASE Open
  BY <1>1, OpenFiles
<1>2. CASE OpenFails \/ TaskEditFails \/ Write \/ WriteFails \/ UNCHANGED vars
  <2>1. UNCHANGED <<queue, todo, ptod, open, exact>> /\ UNCHANGED slots
    BY <1>2 DEF OpenFails, TaskEditFails, Write, WriteFails, memory, vars
  <2>. QED
    BY <2>1, SameSlotsSameNames, NothingIsRefiled
<1>3. CASE Close \/ WriteDies
  <2>1. open' = FALSE
    BY <1>3 DEF Close, WriteDies, Dies, Forgotten
  <2>. QED
    BY <1>0, <2>1
<1>4. ASSUME NEW category \in Names \cup {None}, NEW header \in NewHeaders,
             NEW text \in NewTexts, NEW priority \in Priorities,
             TaskAdd(header, text, category, priority)
      PROVE  TasksAreFiled'
  BY <1>4, AddStaysFiled
<1>5. ASSUME NEW category \in Names \cup {None}, TaskAddFails(category)
      PROVE  TasksAreFiled'
  BY <1>5, AddFailsStaysFiled
<1>6. ASSUME NEW k \in DOMAIN queue, NEW year \in NewYears \cup {0}, TaskSetDue(k, year)
      PROVE  TasksAreFiled'
  <2> DEFINE task == [queue[k] EXCEPT !.due = year]
  <2>1. queue[k] \in Task
    BY MemoryIsTyped
  <2>2. task.link = queue[k].link /\ task.asked = queue[k].asked
    BY <2>1 DEF Task
  <2>3. DueMoves(queue[k], year) \in Int
    BY DEF DueMoves
  <2>4. /\ Resize(k, DueMoves(queue[k], year)) /\ queue' = [queue EXCEPT ![k] = task]
        /\ exact' => exact
        /\ UNCHANGED <<open, todo, slots>>
    BY <1>6 DEF TaskSetDue
  <2> HIDE DEF task
  <2>. QED
    BY <2>2, <2>3, <2>4, SetStaysFiled
<1>7. ASSUME NEW k \in DOMAIN queue, NEW alarm \in Alarms \cup {None},
             TaskSetAlarm(k, alarm)
      PROVE  TasksAreFiled'
  <2> DEFINE task == [queue[k] EXCEPT !.alarm = alarm]
  <2>1. queue[k] \in Task
    BY MemoryIsTyped
  <2>2. task.link = queue[k].link /\ task.asked = queue[k].asked
    BY <2>1 DEF Task
  <2>3. AlarmMoves(queue[k], alarm) \in Int
    BY DEF AlarmMoves
  <2>4. /\ Resize(k, AlarmMoves(queue[k], alarm)) /\ queue' = [queue EXCEPT ![k] = task]
        /\ exact' => exact
        /\ UNCHANGED <<open, todo, slots>>
    BY <1>7 DEF TaskSetAlarm
  <2> HIDE DEF task
  <2>. QED
    BY <2>2, <2>3, <2>4, SetStaysFiled
<1>8. ASSUME NEW k \in DOMAIN queue, NEW repeat \in NewRepeats \cup {None},
             TaskSetRepeat(k, repeat)
      PROVE  TasksAreFiled'
  <2> DEFINE task == [queue[k] EXCEPT !.repeat = repeat]
  <2>1. queue[k] \in Task
    BY MemoryIsTyped
  <2>2. task.link = queue[k].link /\ task.asked = queue[k].asked
    BY <2>1 DEF Task
  <2>3. RepeatMoves(queue[k], repeat) \in Int
    BY DEF RepeatMoves
  <2>4. /\ Resize(k, RepeatMoves(queue[k], repeat)) /\ queue' = [queue EXCEPT ![k] = task]
        /\ exact' => exact
        /\ UNCHANGED <<open, todo, slots>>
    BY <1>8 DEF TaskSetRepeat
  <2> HIDE DEF task
  <2>. QED
    BY <2>2, <2>3, <2>4, SetStaysFiled
<1>9. ASSUME NEW k \in DOMAIN queue, TaskSetDies(k) \/ TaskDeleteDies(k)
      PROVE  TasksAreFiled'
  <2>1. open' = FALSE
    BY <1>9 DEF TaskSetDies, ResizeDies, TaskDeleteDies, Dies, Forgotten
  <2>. QED
    BY <1>0, <2>1
<1>10. ASSUME NEW k \in DOMAIN queue, TaskDelete(k)
       PROVE  TasksAreFiled'
  BY <1>10, DeleteStaysFiled
<1>. QED
  BY <1>1, <1>2, <1>3, <1>4, <1>5, <1>6, <1>7, <1>8, <1>9, <1>10 DEF Next

LEMMA SoundHolds ==
  ASSUME IInv, SlotsWereRead, SlotsAreSound, CategoriesAgree(files), [Next]_vars
  PROVE  SlotsAreSound' /\ CategoriesAgree(files')
<1>1. ASSUME NEW db \in {"todo", "ptod"}
      PROVE  SoundCategories(slots'[db])
  <2>1. /\ slots[db] \in [SlotIds -> Slot] /\ CategoriesRead(slots[db]) = slots[db]
        /\ SoundCategories(slots[db])
    BY SlotsAreTyped DEF SlotsWereRead, SlotsAreSound
  <2>2. SoundCategories(CategoriesRead(files[db].slots))
    BY DEF CategoriesAgree
  <2>3. SoundCategories([i \in SlotIds |-> EmptySlot])
    BY EmptySlotIsSlot DEF SoundCategories
  <2>4. ASSUME NEW name \in Names, NEW found \in CategoryIn(slots[db], name)
        PROVE  SoundCategories(found.slots)
    BY <2>1, CategoryInRead
  <2>. QED
    BY <2>1, <2>2, <2>3, <2>4, SlotsStep DEF SlotsMove
<1>2. SlotsAreSound'
  BY <1>1 DEF SlotsAreSound
<1>3. ASSUME NEW step
      PROVE  CategoriesAgree(FilesAfter(step))
  <2>1. /\ FilesAfter(step).todo.slots = slots.todo
        /\ FilesAfter(step).ptod.slots = IF step = 0 THEN files.ptod.slots ELSE slots.ptod
    BY DEF FilesAfter
  <2>2. /\ CategoriesRead(slots.todo) = slots.todo /\ CategoriesRead(slots.ptod) = slots.ptod
        /\ SoundCategories(slots.todo) /\ SoundCategories(slots.ptod)
    BY DEF SlotsWereRead, SlotsAreSound
  <2>3. SoundCategories(CategoriesRead(files.ptod.slots))
    BY DEF CategoriesAgree
  <2>. QED
    BY <2>1, <2>2, <2>3 DEF CategoriesAgree
<1>4. CategoriesAgree(files')
  <2>1. files' = files \/ \E step \in 0..Steps : files' = FilesAfter(step)
    BY DiskStep, WriteIs DEF disk, Cut
  <2>. QED
    BY <1>3, <2>1
<1>. QED
  BY <1>2, <1>4

LEMMA WriteFiles ==
  ASSUME LInv, TasksAreFiled, exact, open
  PROVE  WellFiled(FilesAfter(Steps))
<1> DEFINE pair == FilesAfter(Steps)
<1>1. /\ pair.todo.list = todo /\ pair.ptod.list = ptod
      /\ pair.todo.slots = slots.todo /\ pair.ptod.slots = slots.ptod
  BY AllIsWritten DEF LInv
<1>2. CategoriesRead(slots.todo) = slots.todo /\ CategoriesRead(slots.ptod) = slots.ptod
  BY DEF LInv, SlotsWereRead
<1>3. ASSUME NEW i \in DOMAIN todo, NEW j \in DOMAIN ptod, Joined(pair, i, j)
      PROVE  FiledInOne(pair, i, j)
  <2>1. queue[i].link = ptod[j].id
    BY <1>3, WriteLaysOut DEF LInv
  <2>2. i \in DOMAIN queue
    BY MemoryIsTyped DEF LInv
  <2>3. Filed(queue[i], todo[i], ptod[j], slots)
    BY <2>1, <2>2 DEF TasksAreFiled
  <2>. QED
    BY <1>1, <1>2, <2>3 DEF FiledInOne, Filed
<1>. QED
  BY <1>1, <1>3 DEF WellFiled

LEMMA FilesStayFiled ==
  ASSUME LInv, TasksAreFiled, FilesAreFiled, [Next]_vars
  PROVE  FilesAreFiled'
<1>1. CASE UNCHANGED disk
  BY <1>1 DEF FilesAreFiled, disk
<1>2. CASE Write
  <2>1. /\ files' = FilesAfter(Steps) /\ open
        /\ written' = "sound" <=> exact
        /\ written' # "never"
    BY <1>2, WriteIs DEF LInv
  <2>2. exact => WellFiled(FilesAfter(Steps))
    BY <2>1, WriteFiles
  <2>. QED
    BY <2>1, <2>2 DEF FilesAreFiled
<1>3. ASSUME NEW step \in 0..Steps, Cut(step)
      PROVE  FilesAreFiled'
  <2>1. written' = "torn"
    BY <1>3 DEF Cut
  <2>. QED
    BY <2>1 DEF FilesAreFiled
<1>. QED
  BY <1>1, <1>2, <1>3, DiskStep DEF LInv

\* The inductive invariant of the categories the tasks are in.
FInv ==
  /\ LInv
  /\ TasksAreFiled
  /\ SlotsAreSound
  /\ CategoriesAgree(files)
  /\ FilesAreFiled

\* If the handheld has each task in one category in both files, so it stays: adding a task
\* finds or adds the category at the same place in both, and changing, deleting, writing
\* and reading leave the tasks where they are.
THEOREM TasksAreFiledAlike ==
  ASSUME FiledInitially
  PROVE  Spec => []FiledAlike
<1>1. Init => FInv
  <2> SUFFICES ASSUME Init PROVE FInv
    OBVIOUS
  <2>1. open = FALSE /\ slots = NoSlots /\ files \in Initials
    BY DEF Init
  <2>2. TasksAreFiled
    BY <2>1 DEF TasksAreFiled
  <2>3. SlotsAreSound
    BY <2>1, EmptySlotIsSlot DEF SlotsAreSound, SoundCategories, NoSlots
  <2>4. CategoriesAgree(files) /\ WellFiled(files)
    BY <2>1 DEF FiledInitially
  <2>. QED
    BY <2>2, <2>3, <2>4, LayoutInit DEF FInv, FilesAreFiled
<1>2. FInv /\ [Next]_vars => FInv'
  <2> SUFFICES ASSUME FInv, [Next]_vars PROVE FInv'
    OBVIOUS
  <2> USE DEF FInv
  <2>1. LInv'
    BY LayoutStep
  <2>2. TasksAreFiled'
    BY <2>1, FiledHolds DEF LInv
  <2>3. SlotsAreSound' /\ CategoriesAgree(files')
    BY SoundHolds DEF LInv
  <2>4. FilesAreFiled'
    BY FilesStayFiled
  <2>. QED
    BY <2>1, <2>2, <2>3, <2>4
<1>3. FInv => FiledAlike
  BY FiledIsAlike DEF FInv, LInv
<1>. QED
  BY <1>1, <1>2, <1>3, PTL DEF Spec
=============================================================================
