---------------------------- MODULE PdbFileProofs ----------------------------
(***************************************************************************)
(* What the proofs about the memos and about the tasks of a PDB file have  *)
(* in common: the categories, and the lists from which one is removed.     *)
(***************************************************************************)
EXTENDS PdbFile, SequencesExt, SequenceTheorems, WellFoundedInduction, TLAPS

-----------------------------------------------------------------------------
(* Sets of numbers *)

\* The smallest of a set of integers is its Min.
LEMMA MinIs ==
  ASSUME NEW S \in SUBSET Int, NEW m \in S, \A k \in S : m <= k
  PROVE  Min(S) = m
<1>1. \E x \in S : \A y \in S : x <= y
  OBVIOUS
<1>2. Min(S) \in S /\ \A y \in S : Min(S) <= y
  BY <1>1, Zenon DEF Min
<1>3. Min(S) \in Int /\ m \in Int /\ m <= Min(S) /\ Min(S) <= m
  BY <1>2
<1>. QED
  BY <1>3

\* A nonempty set of natural numbers has a smallest one.
LEMMA MinOfNaturals ==
  ASSUME NEW S \in SUBSET Nat, S # {}
  PROVE  Min(S) \in S /\ \A k \in S : Min(S) <= k
<1>1. PICK x \in S : \A y \in S : ~(<<y, x>> \in OpToRel(<, Nat))
  BY NatLessThanWellFounded, WFMin
<1>2. \A y \in S : ~(y < x)
  BY <1>1 DEF OpToRel
<1>3. \E m \in S : \A y \in S : m <= y
  BY <1>2
<1>. QED
  BY <1>3, Zenon DEF Min

\* A nonempty set of the numbers up to n has a largest one.
LEMMA MaxOfRange ==
  ASSUME NEW n \in Nat, NEW S \in SUBSET (1..n), S # {}
  PROVE  Max(S) \in S /\ \A k \in S : k <= Max(S)
<1> DEFINE T == {n - k : k \in S}
<1>1. T \in SUBSET Nat /\ T # {}
  <2>1. \A k \in S : n - k \in Nat
    OBVIOUS
  <2>. QED
    BY <2>1
<1>2. Min(T) \in T /\ \A t \in T : Min(T) <= t
  BY <1>1, MinOfNaturals
<1>3. PICK m \in S : Min(T) = n - m
  BY <1>2
<1>4. \A k \in S : m >= k
  <2> TAKE k \in S
  <2>1. n - k \in T /\ k \in Int /\ m \in Int
    OBVIOUS
  <2>2. n - m <= n - k
    BY <1>2, <1>3, <2>1
  <2>. QED
    BY <2>1, <2>2
<1>5. \E x \in S : \A y \in S : x >= y
  BY <1>4
<1>6. Max(S) \in S /\ \A y \in S : Max(S) >= y
  BY <1>5, Zenon DEF Max
<1>. QED
  BY <1>6

-----------------------------------------------------------------------------
(* Categories *)

LastSlot == Slots - 1

LEMMA SlotNumbers ==
  /\ SlotIds \subseteq Nat /\ LastSlot \in SlotIds
  /\ \A id \in Nat : id % Slots \in SlotIds
  /\ \A i \in SlotIds : i % Slots = i
  /\ \A i \in SlotIds : LastSlot \in i..LastSlot
BY SlotsOK DEF SlotIds, LastSlot

LEMMA EmptySlotIsSlot == EmptySlot \in Slot /\ EmptySlot.name = NoName
BY DEF EmptySlot, Slot

LEMMA CategoriesReadType ==
  ASSUME NEW cats \in [SlotIds -> Slot]
  PROVE  CategoriesRead(cats) \in [SlotIds -> Slot]
BY EmptySlotIsSlot DEF CategoriesRead

\* Reading prunes nothing exactly where the last slot is none that is pruned.
LEMMA PrunedFromTheEnd ==
  ASSUME NEW cats \in [SlotIds -> Slot]
  PROVE  CategoriesRead(cats) = cats <=> ~Garbage(cats, LastSlot)
<1>1. ASSUME ~Garbage(cats, LastSlot) PROVE CategoriesRead(cats) = cats
  BY <1>1, SlotNumbers DEF CategoriesRead, LastSlot
<1>2. ASSUME Garbage(cats, LastSlot), CategoriesRead(cats) = cats PROVE FALSE
  <2>1. \A j \in LastSlot..LastSlot : j = LastSlot
    BY SlotNumbers
  <2>2. CategoriesRead(cats)[LastSlot] = EmptySlot
    BY <1>2, <2>1, SlotNumbers DEF CategoriesRead, LastSlot
  <2>. QED
    BY <1>2, <2>2, EmptySlotIsSlot DEF Garbage
<1>. QED
  BY <1>1, <1>2

\* What has been read is not pruned again.
LEMMA ReadOnce ==
  ASSUME NEW cats \in [SlotIds -> Slot]
  PROVE  CategoriesRead(CategoriesRead(cats)) = CategoriesRead(cats)
<1>1. \A j \in LastSlot..LastSlot : j = LastSlot
  BY SlotNumbers
<1>2. CategoriesRead(cats)[LastSlot] =
        IF Garbage(cats, LastSlot) THEN EmptySlot ELSE cats[LastSlot]
  BY <1>1, SlotNumbers DEF CategoriesRead, LastSlot
<1>3. ~Garbage(CategoriesRead(cats), LastSlot)
  BY <1>2, EmptySlotIsSlot DEF Garbage
<1>. QED
  BY <1>3, CategoriesReadType, PrunedFromTheEnd

LEMMA FirstFreeIsFree ==
  ASSUME NEW cats, Free(cats) # {}
  PROVE  FirstFree(cats) \in SlotIds /\ cats[FirstFree(cats)].name = NoName
<1>1. Free(cats) \in SUBSET Nat
  BY SlotNumbers DEF Free
<1>2. FirstFree(cats) \in Free(cats)
  BY <1>1, MinOfNaturals DEF FirstFree
<1>. QED
  BY <1>2 DEF Free, Named

\* A category that is added takes a slot of its own.
LEMMA CategoryAddIsTyped ==
  ASSUME NEW cats \in [SlotIds -> Slot], Free(cats) # {}, NEW name \in Names
  PROVE  CategoryAdd(cats, name) \in [SlotIds -> Slot]
<1>1. [name |-> Stored[name], id |-> FirstFree(cats)] \in Slot
  BY FirstFreeIsFree, SlotNumbers, TruncationOK DEF Slot
<1>. QED
  BY <1>1 DEF CategoryAdd

LEMMA CategoryAddType ==
  ASSUME NEW cats \in [SlotIds -> Slot], CategoriesRead(cats) = cats,
         Free(cats) # {}, NEW name \in Names
  PROVE  /\ CategoryAdd(cats, name) \in [SlotIds -> Slot]
         /\ CategoriesRead(CategoryAdd(cats, name)) = CategoryAdd(cats, name)
         /\ \A i \in SlotIds : CategoryAdd(cats, name)[i] =
              IF i = FirstFree(cats) THEN [name |-> Stored[name], id |-> i] ELSE cats[i]
<1> DEFINE new == CategoryAdd(cats, name)
           slot == [name |-> Stored[name], id |-> FirstFree(cats)]
<1>1. FirstFree(cats) \in SlotIds
  BY FirstFreeIsFree
<1>3. new \in [SlotIds -> Slot]
  BY CategoryAddIsTyped
<1>4. \A i \in SlotIds : new[i] = IF i = FirstFree(cats) THEN slot ELSE cats[i]
  BY DEF CategoryAdd
<1>5. ~Garbage(new, LastSlot)
  BY <1>4, SlotNumbers, PrunedFromTheEnd DEF Garbage
<1> HIDE DEF new
<1>6. CategoriesRead(new) = new
  BY <1>3, <1>5, PrunedFromTheEnd
<1>. QED
  BY <1>3, <1>4, <1>6 DEF new

LEMMA CategoryDeleteType ==
  ASSUME NEW cats \in [SlotIds -> Slot], CategoriesRead(cats) = cats, NEW id \in SlotIds
  PROVE  /\ CategoryDelete(cats, id) \in [SlotIds -> Slot]
         /\ CategoriesRead(CategoryDelete(cats, id)) = CategoryDelete(cats, id)
<1> DEFINE new == CategoryDelete(cats, id)
<1>1. new \in [SlotIds -> Slot]
  BY EmptySlotIsSlot DEF CategoryDelete
<1>2. \A i \in SlotIds : new[i] = IF i = id THEN EmptySlot ELSE cats[i]
  BY DEF CategoryDelete
<1>3. ~Garbage(new, LastSlot)
  BY <1>2, SlotNumbers, PrunedFromTheEnd, EmptySlotIsSlot DEF Garbage
<1> HIDE DEF new
<1>4. CategoriesRead(new) = new
  BY <1>1, <1>3, PrunedFromTheEnd
<1>. QED
  BY <1>1, <1>4 DEF new

LEMMA IdsAreNumbers ==
  ASSUME NEW cats \in [SlotIds -> Slot], NEW name
  PROVE  IdsOf(cats, name) \subseteq Nat
BY DEF IdsOf, Slot

\* In sound categories a name that is found is kept as it is, in the slot of its id.
LEMMA FoundIsThere ==
  ASSUME NEW cats \in [SlotIds -> Slot], SoundCategories(cats),
         NEW name \in Names, NEW id \in IdsOf(cats, name)
  PROVE  cats[id % Slots].name = name /\ Stored[name] = name
<1>1. PICK i \in SlotIds : cats[i].name = name /\ cats[i].id = id
  BY DEF IdsOf
<1>2. id = i /\ Stored[name] = name
  BY <1>1, NoNameIsEmpty DEF SoundCategories
<1>. QED
  BY <1>1, <1>2, SlotNumbers

-----------------------------------------------------------------------------
(* Lists *)

\* What is behind the element that is removed moves up.
LEMMA RemoveAtType ==
  ASSUME NEW S, NEW queue \in Seq(S), NEW k \in 1..Len(queue)
  PROVE  /\ RemoveAt(queue, k) \in Seq(S)
         /\ Len(RemoveAt(queue, k)) = Len(queue) - 1
         /\ \A i \in 1..(Len(queue) - 1) :
              RemoveAt(queue, k)[i] = IF i < k THEN queue[i] ELSE queue[i + 1]
<1> DEFINE a == SubSeq(queue, 1, k - 1)
           b == SubSeq(queue, k + 1, Len(queue))
           n == Len(queue)
<1>0. n \in Nat /\ k \in 1..n
  OBVIOUS
<1>1. /\ a \in Seq(S) /\ Len(a) = k - 1
      /\ \A i \in 1..(k - 1) : a[i] = queue[i]
  <2>1. 1 \in Int /\ k - 1 \in Int /\ \A i \in 1..(k - 1) : queue[i] \in S
    OBVIOUS
  <2>2. /\ SubSeq(queue, 1, k - 1) \in Seq(S)
        /\ Len(SubSeq(queue, 1, k - 1)) = IF 1 <= k - 1 THEN k - 1 - 1 + 1 ELSE 0
        /\ \A i \in 1..(k - 1 - 1 + 1) : SubSeq(queue, 1, k - 1)[i] = queue[1 + i - 1]
    BY <2>1, SubSeqProperties
  <2>. QED
    BY <2>2
<1>2. /\ b \in Seq(S) /\ Len(b) = n - k
      /\ \A i \in 1..(n - k) : b[i] = queue[k + i]
  <2>1. k + 1 \in Int /\ n \in Int /\ \A i \in (k + 1)..n : queue[i] \in S
    OBVIOUS
  <2>2. /\ SubSeq(queue, k + 1, n) \in Seq(S)
        /\ Len(SubSeq(queue, k + 1, n)) = IF k + 1 <= n THEN n - (k + 1) + 1 ELSE 0
        /\ \A i \in 1..(n - (k + 1) + 1) :
             SubSeq(queue, k + 1, n)[i] = queue[k + 1 + i - 1]
    BY <2>1, SubSeqProperties
  <2>. QED
    BY <2>2
<1>3. /\ a \o b \in Seq(S)
      /\ Len(a \o b) = Len(a) + Len(b)
      /\ \A i \in 1..(Len(a) + Len(b)) :
           (a \o b)[i] = IF i <= Len(a) THEN a[i] ELSE b[i - Len(a)]
  BY <1>1, <1>2, ConcatProperties
<1>4. RemoveAt(queue, k) = a \o b
  BY DEF RemoveAt
<1> HIDE DEF a, b, n
<1>5. \A i \in 1..(n - 1) : (a \o b)[i] = IF i < k THEN queue[i] ELSE queue[i + 1]
  <2> TAKE i \in 1..(n - 1)
  <2>1. CASE i < k
    BY <1>0, <1>1, <1>2, <1>3, <2>1
  <2>2. CASE ~(i < k)
    <3>1. i - (k - 1) \in 1..(n - k) /\ k + (i - (k - 1)) = i + 1 /\ ~(i <= k - 1)
      BY <1>0, <2>2
    <3>. QED
      BY <1>0, <1>1, <1>2, <1>3, <2>2, <3>1
  <2>. QED
    BY <2>1, <2>2
<1>6. RemoveAt(queue, k) \in Seq(S)
  BY <1>3, <1>4
<1>7. Len(RemoveAt(queue, k)) = n - 1
  <2>1. Len(a) = k - 1 /\ Len(b) = n - k /\ Len(a \o b) = Len(a) + Len(b)
    BY <1>1, <1>2, <1>3
  <2>2. Len(a \o b) = (k - 1) + (n - k)
    BY <2>1
  <2>3. (k - 1) + (n - k) = n - 1
    BY <1>0
  <2>. QED
    BY <1>4, <2>2, <2>3
<1>8. \A i \in 1..(n - 1) : RemoveAt(queue, k)[i] = IF i < k THEN queue[i] ELSE queue[i + 1]
  BY <1>4, <1>5, Zenon
<1>. QED
  BY <1>6, <1>7, <1>8 DEF n
=============================================================================
