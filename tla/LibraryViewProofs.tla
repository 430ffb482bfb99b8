------------------------- MODULE LibraryViewProofs -------------------------
(***************************************************************************)
(* Proofs about LibraryView: that the library page agrees with the server  *)
(* whenever nothing is under way, and that Undo does what it says.  They   *)
(* hold for every set of prompts, names and folders, any number of         *)
(* operations at a time and every MaxSteps.                                *)
(*                                                                         *)
(* PageInvariant speaks of the page at rest only and says nothing about    *)
(* how it gets there.  IInv says what holds in between: what each          *)
(* operation knows about the prompts it works on (WellFormed, ServerSide), *)
(* what the list may show of them meanwhile (Shows), that every other      *)
(* prompt is shown as stored (PageFits), and what the toast may still take *)
(* back (ToastFits, UndoneSafe).  The part about values (Calm) holds until *)
(* two operations overlap, which `tainted' records.                        *)
(***************************************************************************)
EXTENDS LibraryView, SequenceTheorems, FiniteSetTheorems, NaturalsInduction, TLAPS

AllIds == Ids \cup {Copy}

RowsOf(list) == {list[i] : i \in DOMAIN list}

(* What a list shows of the prompt with this id. *)
Of(list, i) == {row \in RowsOf(list) : row.id = i}

Distinct(list) == \A i, j \in DOMAIN list : list[i].id = list[j].id => i = j

-----------------------------------------------------------------------------
(* Lists of prompts *)

(* The operators of the model need an increasing enumeration of a finite set. *)
LEMMA IncreasingExists ==
  \A n \in Nat : \A S \in SUBSET (1..n) :
    \E f \in [1..Cardinality(S) -> S] : \A i, j \in DOMAIN f : i < j => f[i] < f[j]
<1> DEFINE Has(S) == \E f \in [1..Cardinality(S) -> S] : \A i, j \in DOMAIN f : i < j => f[i] < f[j]
           bad == {n \in Nat : \E S \in SUBSET (1..n) : ~Has(S)}
<1>1. SUFFICES ASSUME bad # {} PROVE FALSE
  OBVIOUS
<1>2. PICK n \in bad : \A k \in bad : ~(k < n)
  <2>1. bad \subseteq Nat
    OBVIOUS
  <2> HIDE DEF bad
  <2>2. IsWellFoundedOn(OpToRel(<, Nat), Nat)
    BY NatLessThanWellFounded
  <2>3. PICK m \in bad : \A k \in bad : ~(<<k, m>> \in OpToRel(<, Nat))
    BY <1>1, <2>1, <2>2, WFMin
  <2> QED BY <2>1, <2>3 DEF OpToRel
<1>3. PICK S \in SUBSET (1..n) : ~Has(S)
  BY <1>2
<1>4. n \in Nat
  BY <1>2
<1>5. CASE S = {}
  <2>1. Cardinality(S) = 0
    BY <1>5, FS_EmptySet
  <2> DEFINE none == [k \in {} |-> n]
  <2>2. none \in [1..Cardinality(S) -> S] /\ DOMAIN none = {}
    BY <2>1
  <2> HIDE DEF none
  <2>3. Has(S)
    BY <2>2
  <2> QED BY <1>3, <2>3
<1>6. CASE S # {}
  <2> DEFINE T == S \ {n}
             c == Cardinality(T)
  <2>1. n > 0
    <3>1. PICK x : x \in 1..n
      BY <1>6
    <3> QED BY <1>4, <3>1
  <2>2. n - 1 \in Nat /\ n - 1 < n
    BY <1>4, <2>1
  <2>3. n - 1 \notin bad
    BY <1>2, <2>2
  <2>4. T \in SUBSET (1..(n - 1))
    BY <1>4
  <2>5. Has(T)
    BY <2>2, <2>3, <2>4
  <2>6. n \in S
    <3> SUFFICES ASSUME n \notin S PROVE FALSE
      OBVIOUS
    <3>1. T = S
      OBVIOUS
    <3> HIDE DEF T, Has
    <3> QED BY <1>3, <2>5, <3>1
  <2>7. IsFiniteSet(T) /\ c \in Nat /\ Cardinality(S) = c + 1
    <3>1. IsFiniteSet(1..(n - 1))
      BY <2>2, FS_Interval
    <3>2. IsFiniteSet(T)
      BY <2>4, <3>1, FS_Subset
    <3>3. n \notin T /\ S = T \cup {n}
      BY <2>6
    <3> HIDE DEF T
    <3>4. Cardinality(T \cup {n}) = Cardinality(T) + 1 /\ Cardinality(T) \in Nat
      BY <3>2, <3>3, FS_AddElement, FS_CardinalityType
    <3> QED BY <3>2, <3>3, <3>4
  <2>8. PICK f \in [1..c -> T] : \A i, j \in DOMAIN f : i < j => f[i] < f[j]
    BY <2>5
  <2> HIDE DEF c
  <2> DEFINE g == [k \in 1..(c + 1) |-> IF k = c + 1 THEN n ELSE f[k]]
  <2>9. g \in [1..(c + 1) -> S]
    BY <2>6, <2>7, <2>8
  <2>10. ASSUME NEW i \in 1..(c + 1), NEW j \in 1..(c + 1), i < j PROVE g[i] < g[j]
    <3>1. i \in 1..c /\ g[i] = f[i]
      BY <2>7, <2>10
    <3>4. f[i] \in 1..(n - 1)
      <4>1. f[i] \in T
        BY <2>8, <3>1
      <4> HIDE DEF T
      <4> QED BY <2>4, <4>1
    <3>2. CASE j = c + 1
      BY <1>4, <3>1, <3>2, <3>4
    <3>3. CASE j # c + 1
      <4>1. j \in 1..c /\ g[j] = f[j]
        BY <2>7, <3>3
      <4> QED BY <2>8, <2>10, <3>1, <4>1
    <3> QED BY <3>2, <3>3
  <2> HIDE DEF g
  <2>11. DOMAIN g = 1..(c + 1)
    BY <2>9
  <2>12. \A i, j \in DOMAIN g : i < j => g[i] < g[j]
    BY <2>10, <2>11
  <2>13. Has(S)
    BY <2>7, <2>9, <2>12
  <2> HIDE DEF Has
  <2> QED BY <1>3, <2>13
<1> HIDE DEF bad, Has
<1> QED BY <1>5, <1>6

(* It lists every member once. *)
LEMMA IncreasingLists ==
  ASSUME NEW n \in Nat, NEW S \in SUBSET (1..n)
  PROVE  /\ IsFiniteSet(S) /\ Cardinality(S) \in Nat
         /\ Increasing(S) \in [1..Cardinality(S) -> S]
         /\ \A i, j \in 1..Cardinality(S) : Increasing(S)[i] = Increasing(S)[j] => i = j
         /\ \A x \in S : \E i \in 1..Cardinality(S) : Increasing(S)[i] = x
<1> DEFINE c == Cardinality(S)
           f == Increasing(S)
<1>1. IsFiniteSet(S) /\ c \in Nat
  <2>1. IsFiniteSet(1..n)
    BY FS_Interval
  <2> QED BY <2>1, FS_Subset, FS_CardinalityType
<1>2. f \in [1..c -> S] /\ \A i, j \in DOMAIN f : i < j => f[i] < f[j]
  BY IncreasingExists DEF Increasing
<1> HIDE DEF f, c
<1>3. ASSUME NEW i \in 1..c, NEW j \in 1..c, f[i] = f[j] PROVE i = j
  <2>1. f[i] \in 1..n /\ f[j] \in 1..n /\ DOMAIN f = 1..c
    BY <1>2
  <2>2. ~(i < j) /\ ~(j < i)
    BY <1>2, <1>3, <2>1
  <2> QED BY <1>1, <2>2
<1>4. ASSUME NEW x \in S, \A i \in 1..c : f[i] # x PROVE FALSE
  <2> DEFINE T == S \ {x}
             places == 1..c
  <2>1. f \in [places -> T]
    BY <1>2, <1>4
  <2>2. IsFiniteSet(T) /\ Cardinality(T) = c - 1
    BY <1>1, <1>4, FS_RemoveElement DEF c
  <2>3. IsFiniteSet(places) /\ Cardinality(places) = c
    <3>1. 1 \in Int /\ c \in Int /\ (IF 1 > c THEN 0 ELSE c - 1 + 1) = c
      BY <1>1
    <3> QED BY <3>1, FS_Interval
  <2>4. Cardinality(T) < Cardinality(places)
    BY <1>1, <2>2, <2>3
  <2> HIDE DEF T, places
  <2>5. PICK a, b \in places : a # b /\ f[a] = f[b]
    BY <2>1, <2>2, <2>3, <2>4, FS_PigeonHole
  <2> QED BY <1>3, <2>5 DEF places
<1> QED BY <1>1, <1>2, <1>3, <1>4 DEF f, c

(* The positions of a list, and the ids, are numbers from 1.                *)
LEMMA ListPositions ==
  ASSUME NEW list \in Seq(Row)
  PROVE  /\ Len(list) \in Nat /\ DOMAIN list = 1..Len(list)
         /\ \A i \in DOMAIN list : list[i] \in Row
OBVIOUS

LEMMA IdsAreNumbers == \E n \in Nat : AllIds = 1..n
<1> DEFINE c == Cardinality(Ids)
<1>1. c \in Nat
  BY IdsAssumption, FS_CardinalityType
<1>2. Ids = 1..c /\ Copy = c + 1
  BY IdsAssumption DEF Copy
<1> HIDE DEF c
<1>3. c + 1 \in Nat /\ AllIds = 1..(c + 1)
  BY <1>1, <1>2 DEF AllIds
<1> QED BY <1>3

LEMMA RowIds == \A row \in Row : row.id \in AllIds
BY DEF Row, AllIds

LEMMA IdsOfRows ==
  ASSUME NEW list
  PROVE  /\ IdsOf(list) = {row.id : row \in RowsOf(list)}
         /\ \A i : i \in IdsOf(list) <=> Of(list, i) # {}
BY DEF IdsOf, RowsOf, Of

LEMMA ListRows ==
  ASSUME NEW list \in Seq(Row)
  PROVE  /\ RowsOf(list) \subseteq Row
         /\ IdsOf(list) \subseteq AllIds
<1>1. RowsOf(list) \subseteq Row
  BY ListPositions DEF RowsOf
<1> QED BY <1>1, IdsOfRows, RowIds

LEMMA DistinctRows ==
  ASSUME NEW list, Distinct(list), NEW row \in RowsOf(list)
  PROVE  Of(list, row.id) = {row}
BY DEF Distinct, RowsOf, Of

(* What `Only' keeps. *)
LEMMA OnlyKeeps ==
  ASSUME NEW list \in Seq(Row), NEW ids
  PROVE  /\ Only(list, ids) \in Seq(Row)
         /\ RowsOf(Only(list, ids)) = {row \in RowsOf(list) : row.id \in ids}
         /\ Distinct(list) => Distinct(Only(list, ids))
<1> DEFINE places == {i \in DOMAIN list : list[i].id \in ids}
           c == Cardinality(places)
           f == Increasing(places)
<1>1. Len(list) \in Nat /\ DOMAIN list = 1..Len(list)
  BY ListPositions
<1>2. places \in SUBSET (1..Len(list))
  BY <1>1
<1> HIDE DEF places
<1>3. /\ c \in Nat /\ f \in [1..c -> places]
      /\ \A i, j \in 1..c : f[i] = f[j] => i = j
      /\ \A x \in places : \E i \in 1..c : f[i] = x
  BY <1>1, <1>2, IncreasingLists
<1>4. Only(list, ids) = [i \in 1..c |-> list[f[i]]]
  BY DEF Only, places
<1> HIDE DEF c, f
<1>5. \A i \in 1..c : f[i] \in DOMAIN list /\ list[f[i]] \in Row /\ list[f[i]].id \in ids
  BY <1>3, ListPositions DEF places
<1>6. Only(list, ids) \in Seq(Row) /\ DOMAIN Only(list, ids) = 1..c
  BY <1>3, <1>4, <1>5
<1>7. \A row \in RowsOf(Only(list, ids)) : row \in RowsOf(list) /\ row.id \in ids
  BY <1>4, <1>5, <1>6 DEF RowsOf
<1>8. ASSUME NEW row \in RowsOf(list), row.id \in ids PROVE row \in RowsOf(Only(list, ids))
  <2>1. PICK x \in DOMAIN list : list[x] = row
    BY DEF RowsOf
  <2>2. x \in places
    BY <1>8, <2>1 DEF places
  <2>3. PICK i \in 1..c : f[i] = x
    BY <1>3, <2>2
  <2>4. Only(list, ids)[i] = row
    BY <1>4, <2>1, <2>3
  <2> QED BY <1>6, <2>3, <2>4 DEF RowsOf
<1>9. ASSUME Distinct(list) PROVE Distinct(Only(list, ids))
  BY <1>3, <1>4, <1>5, <1>6, <1>9 DEF Distinct
<1> QED BY <1>6, <1>7, <1>8, <1>9

LEMMA AsListHas ==
  ASSUME NEW rows \in SUBSET Row, \A a, b \in rows : a.id = b.id => a = b
  PROVE  /\ AsList(rows) \in Seq(Row)
         /\ RowsOf(AsList(rows)) = rows
         /\ Distinct(AsList(rows))
<1> DEFINE ids == {row.id : row \in rows}
           n == Cardinality(ids)
           f == Increasing(ids)
<1>1. PICK m \in Nat : AllIds = 1..m
  BY IdsAreNumbers
<1>2. ids \in SUBSET (1..m)
  BY <1>1, RowIds
<1> HIDE DEF ids
<1>3. /\ n \in Nat /\ f \in [1..n -> ids]
      /\ \A i, j \in 1..n : f[i] = f[j] => i = j
      /\ \A x \in ids : \E i \in 1..n : f[i] = x
  BY <1>2, IncreasingLists
<1>4. AsList(rows) = [i \in 1..n |-> CHOOSE row \in rows : row.id = f[n + 1 - i]]
  BY DEF AsList, ids
<1> HIDE DEF n, f
<1>5. \A i \in 1..n : n + 1 - i \in 1..n
  BY <1>3
<1>6. \A i \in 1..n : AsList(rows)[i] \in rows /\ AsList(rows)[i].id = f[n + 1 - i]
  <2> SUFFICES ASSUME NEW i \in 1..n PROVE AsList(rows)[i] \in rows /\ AsList(rows)[i].id = f[n + 1 - i]
    OBVIOUS
  <2>1. f[n + 1 - i] \in ids
    BY <1>3, <1>5
  <2>2. \E row \in rows : row.id = f[n + 1 - i]
    BY <2>1 DEF ids
  <2>3. AsList(rows)[i] = CHOOSE row \in rows : row.id = f[n + 1 - i]
    BY <1>4
  <2> QED BY <2>2, <2>3
<1>7. AsList(rows) \in Seq(Row) /\ DOMAIN AsList(rows) = 1..n
  <2>1. DOMAIN AsList(rows) = 1..n
    BY <1>4
  <2>2. \A i \in 1..n : AsList(rows)[i] \in Row
    BY <1>6
  <2>3. AsList(rows) = [i \in 1..n |-> AsList(rows)[i]]
    BY <1>4, <2>1
  <2> QED BY <1>3, <2>1, <2>2, <2>3
<1>8. ASSUME NEW row \in rows PROVE row \in RowsOf(AsList(rows))
  <2>1. row.id \in ids
    BY DEF ids
  <2>2. PICK k \in 1..n : f[k] = row.id
    BY <1>3, <2>1
  <2>3. n + 1 - k \in 1..n /\ n + 1 - (n + 1 - k) = k
    BY <1>3, <1>5
  <2>4. AsList(rows)[n + 1 - k].id = row.id /\ AsList(rows)[n + 1 - k] \in rows
    BY <1>6, <2>2, <2>3
  <2>5. AsList(rows)[n + 1 - k] = row
    BY <2>4
  <2> QED BY <1>7, <2>3, <2>5 DEF RowsOf
<1>9. Distinct(AsList(rows))
  <2> SUFFICES ASSUME NEW i \in 1..n, NEW j \in 1..n, AsList(rows)[i].id = AsList(rows)[j].id PROVE i = j
    BY <1>7 DEF Distinct
  <2>1. f[n + 1 - i] = f[n + 1 - j]
    BY <1>6
  <2>2. n + 1 - i = n + 1 - j
    BY <1>3, <1>5, <2>1
  <2> QED BY <1>3, <2>2
<1>10. RowsOf(AsList(rows)) \subseteq rows
  BY <1>6, <1>7 DEF RowsOf
<1> QED BY <1>7, <1>8, <1>9, <1>10

LEMMA ReplaceHas ==
  ASSUME NEW list \in Seq(Row), NEW row \in Row
  PROVE  /\ Replace(list, row) \in Seq(Row)
         /\ Distinct(list) => Distinct(Replace(list, row))
         /\ \A i : Of(Replace(list, row), i) =
                     IF i = row.id /\ Of(list, i) # {} THEN {row} ELSE Of(list, i)
<1> DEFINE new == Replace(list, row)
<1>1. Len(list) \in Nat /\ DOMAIN list = 1..Len(list) /\ \A i \in DOMAIN list : list[i] \in Row
  BY ListPositions
<1>2. new = [i \in DOMAIN list |-> IF list[i].id = row.id THEN row ELSE list[i]]
  BY DEF Replace
<1>3. DOMAIN new = DOMAIN list /\ \A i \in DOMAIN list : new[i] = IF list[i].id = row.id THEN row ELSE list[i]
  BY <1>2
<1>4. new \in Seq(Row)
  BY <1>1, <1>2
<1> HIDE DEF new
<1>5. \A i \in DOMAIN list : new[i].id = list[i].id
  BY <1>3
<1>6. Distinct(list) => Distinct(new)
  BY <1>3, <1>5 DEF Distinct
<1>7. ASSUME NEW i
      PROVE  Of(new, i) = IF i = row.id /\ Of(list, i) # {} THEN {row} ELSE Of(list, i)
  <2>1. CASE i = row.id /\ Of(list, i) # {}
    <3>1. PICK k \in DOMAIN list : list[k].id = i
      BY <2>1 DEF Of, RowsOf
    <3>2. row \in Of(new, i)
      BY <1>3, <2>1, <3>1 DEF Of, RowsOf
    <3>3. \A r \in Of(new, i) : r = row
      BY <1>3, <1>5, <2>1 DEF Of, RowsOf
    <3> QED BY <2>1, <3>2, <3>3
  <2>2. CASE i # row.id
    BY <1>3, <1>5, <2>2 DEF Of, RowsOf
  <2>3. CASE Of(list, i) = {}
    <3>1. \A k \in DOMAIN list : list[k].id # i
      BY <2>3 DEF Of, RowsOf
    <3>2. Of(new, i) = {}
      BY <1>3, <1>5, <3>1 DEF Of, RowsOf
    <3> QED BY <2>3, <3>2
  <2> QED BY <2>1, <2>2, <2>3
<1> QED BY <1>4, <1>6, <1>7 DEF new

LEMMA ConcatHas ==
  ASSUME NEW a \in Seq(Row), NEW b \in Seq(Row)
  PROVE  /\ a \o b \in Seq(Row)
         /\ RowsOf(a \o b) = RowsOf(a) \cup RowsOf(b)
         /\ \A i : Of(a \o b, i) = Of(a, i) \cup Of(b, i)
         /\ IdsOf(a \o b) = IdsOf(a) \cup IdsOf(b)
         /\ Distinct(a) /\ Distinct(b) /\ IdsOf(a) \cap IdsOf(b) = {} => Distinct(a \o b)
<1> DEFINE n == Len(a)
           m == Len(b)
           c == a \o b
<1>1. n \in Nat /\ DOMAIN a = 1..n /\ m \in Nat /\ DOMAIN b = 1..m
  BY ListPositions
<1>2. c \in Seq(Row) /\ Len(c) = n + m /\ \A i \in 1..(n + m) : c[i] = IF i <= n THEN a[i] ELSE b[i - n]
  BY ConcatProperties
<1>3. DOMAIN c = 1..(n + m)
  BY <1>2
<1> HIDE DEF n, m, c
<1>4. \A i \in 1..n : i \in 1..(n + m) /\ c[i] = a[i]
  BY <1>1, <1>2
<1>5. \A i \in 1..m : n + i \in 1..(n + m) /\ c[n + i] = b[i]
  <2> SUFFICES ASSUME NEW i \in 1..m PROVE n + i \in 1..(n + m) /\ c[n + i] = b[i]
    OBVIOUS
  <2>1. n + i \in 1..(n + m) /\ ~(n + i <= n) /\ (n + i) - n = i
    BY <1>1
  <2> QED BY <1>2, <2>1
<1>6. \A k \in 1..(n + m) : k \in 1..n \/ (k - n \in 1..m /\ c[k] = b[k - n])
  <2> SUFFICES ASSUME NEW k \in 1..(n + m), k \notin 1..n PROVE k - n \in 1..m /\ c[k] = b[k - n]
    OBVIOUS
  <2>1. ~(k <= n) /\ k - n \in 1..m
    BY <1>1
  <2> QED BY <1>2, <2>1
<1>7. RowsOf(c) = RowsOf(a) \cup RowsOf(b)
  <2>1. \A r \in RowsOf(a) \cup RowsOf(b) : r \in RowsOf(c)
    BY <1>1, <1>3, <1>4, <1>5 DEF RowsOf
  <2>2. \A r \in RowsOf(c) : r \in RowsOf(a) \cup RowsOf(b)
    BY <1>1, <1>3, <1>4, <1>6 DEF RowsOf
  <2> QED BY <2>1, <2>2
<1>8. \A i : Of(c, i) = Of(a, i) \cup Of(b, i)
  BY <1>7 DEF Of
<1>9. IdsOf(c) = IdsOf(a) \cup IdsOf(b)
  BY <1>7, IdsOfRows
<1>10. ASSUME Distinct(a), Distinct(b), IdsOf(a) \cap IdsOf(b) = {} PROVE Distinct(c)
  <2> SUFFICES ASSUME NEW i \in 1..(n + m), NEW j \in 1..(n + m), c[i].id = c[j].id PROVE i = j
    BY <1>3 DEF Distinct
  <2>1. CASE i \in 1..n /\ j \in 1..n
    BY <1>1, <1>4, <1>10, <2>1 DEF Distinct
  <2>2. CASE i \notin 1..n /\ j \notin 1..n
    <3>1. i - n \in 1..m /\ j - n \in 1..m /\ b[i - n].id = b[j - n].id
      BY <1>6, <2>2
    <3>2. \A x, y \in 1..m : b[x].id = b[y].id => x = y
      BY <1>1, <1>10 DEF Distinct
    <3>3. i - n = j - n
      BY <3>1, <3>2
    <3> QED BY <1>1, <3>3
  <2>3. ASSUME NEW x \in 1..n, NEW y \in 1..(n + m), y \notin 1..n, c[x].id = c[y].id PROVE FALSE
    <3>1. c[x].id \in IdsOf(a)
      BY <1>1, <1>4 DEF IdsOf
    <3>2. c[y].id \in IdsOf(b)
      BY <1>1, <1>6, <2>3 DEF IdsOf
    <3> QED BY <1>10, <2>3, <3>1, <3>2
  <2> QED BY <2>1, <2>2, <2>3
<1> QED BY <1>2, <1>7, <1>8, <1>9, <1>10 DEF c

LEMMA One ==
  ASSUME NEW row \in Row
  PROVE  /\ <<row>> \in Seq(Row) /\ Head(<<row>>) = row /\ Len(<<row>>) = 1 /\ <<row>> # <<>>
         /\ RowsOf(<<row>>) = {row} /\ IdsOf(<<row>>) = {row.id}
         /\ Distinct(<<row>>)
<1>1. <<row>> \in Seq(Row) /\ Len(<<row>>) = 1 /\ DOMAIN <<row>> = {1} /\ <<row>>[1] = row
  OBVIOUS
<1> DEFINE list == <<row>>
<1>2. Head(list) = row
  OBVIOUS
<1>3. list # <<>>
  OBVIOUS
<1> HIDE DEF list
<1>4. RowsOf(list) = {row} /\ IdsOf(list) = {row.id} /\ Distinct(list)
  BY <1>1 DEF RowsOf, IdsOf, Distinct, list
<1> QED BY <1>1, <1>2, <1>3, <1>4 DEF list

LEMMA Nothing == RowsOf(<<>>) = {} /\ IdsOf(<<>>) = {} /\ Distinct(<<>>) /\ <<>> \in Seq(Row)
BY DEF RowsOf, IdsOf, Distinct

LEMMA AppendHas ==
  ASSUME NEW list \in Seq(Row), NEW row \in Row
  PROVE  /\ Append(list, row) \in Seq(Row) /\ Append(list, row) # <<>>
         /\ RowsOf(Append(list, row)) = RowsOf(list) \cup {row}
         /\ IdsOf(Append(list, row)) = IdsOf(list) \cup {row.id}
         /\ Distinct(list) /\ row.id \notin IdsOf(list) => Distinct(Append(list, row))
<1>1. Append(list, row) = list \o <<row>> /\ Append(list, row) # <<>>
  BY AppendIsConcat, AppendProperties
<1> DEFINE one == <<row>>
           new == Append(list, row)
<1>2. /\ one \in Seq(Row) /\ RowsOf(one) = {row} /\ IdsOf(one) = {row.id} /\ Distinct(one)
  BY One
<1>3. new = list \o one /\ new # <<>>
  BY <1>1
<1> HIDE DEF one, new
<1>4. /\ new \in Seq(Row) /\ RowsOf(new) = RowsOf(list) \cup RowsOf(one)
      /\ IdsOf(new) = IdsOf(list) \cup IdsOf(one)
      /\ Distinct(list) /\ Distinct(one) /\ IdsOf(list) \cap IdsOf(one) = {} => Distinct(new)
  BY <1>2, <1>3, ConcatHas
<1> QED BY <1>2, <1>3, <1>4 DEF new

LEMMA HeadAndTail ==
  ASSUME NEW list \in Seq(Row), list # <<>>
  PROVE  /\ Head(list) \in Row /\ Tail(list) \in Seq(Row)
         /\ Head(list) \in RowsOf(list)
         /\ RowsOf(list) = {Head(list)} \cup RowsOf(Tail(list))
         /\ IdsOf(list) = {Head(list).id} \cup IdsOf(Tail(list))
         /\ Distinct(list) => Distinct(Tail(list)) /\ Head(list).id \notin IdsOf(Tail(list))
         /\ Len(list) = 1 <=> Tail(list) = <<>>
         /\ Len(list) > 1 <=> Tail(list) # <<>>
<1> DEFINE n == Len(list)
           t == Tail(list)
<1>1. n \in Nat /\ n > 0 /\ DOMAIN list = 1..n
  BY EmptySeq, ListPositions
<1>2. Head(list) = list[1] /\ Head(list) \in Row
  BY HeadTailProperties
<1>3. t \in Seq(Row) /\ Len(t) = n - 1 /\ \A i \in 1..Len(t) : t[i] = list[i + 1]
  BY HeadTailProperties
<1>4. DOMAIN t = 1..(n - 1)
  BY <1>3
<1> HIDE DEF n, t
<1>5. \A i \in 1..(n - 1) : i + 1 \in 1..n /\ t[i] = list[i + 1]
  BY <1>1, <1>3
<1>6. \A i \in 1..n : i # 1 => i - 1 \in 1..(n - 1) /\ t[i - 1] = list[i]
  <2> SUFFICES ASSUME NEW i \in 1..n, i # 1 PROVE i - 1 \in 1..(n - 1) /\ t[i - 1] = list[i]
    OBVIOUS
  <2>1. i - 1 \in 1..(n - 1) /\ (i - 1) + 1 = i
    BY <1>1
  <2> QED BY <1>5, <2>1
<1>7. 1 \in 1..n
  BY <1>1
<1>8. RowsOf(list) = {list[1]} \cup RowsOf(t)
  <2>1. \A r \in RowsOf(list) : r \in {list[1]} \cup RowsOf(t)
    BY <1>1, <1>4, <1>6 DEF RowsOf
  <2>2. \A r \in {list[1]} \cup RowsOf(t) : r \in RowsOf(list)
    BY <1>1, <1>4, <1>5, <1>7 DEF RowsOf
  <2> QED BY <2>1, <2>2
<1>9. IdsOf(list) = {list[1].id} \cup IdsOf(t)
  BY <1>8, IdsOfRows
<1>10. ASSUME Distinct(list) PROVE Distinct(t) /\ list[1].id \notin IdsOf(t)
  <2>1. ASSUME NEW i \in 1..(n - 1), NEW j \in 1..(n - 1), t[i].id = t[j].id PROVE i = j
    <3>1. i + 1 = j + 1
      BY <1>1, <1>5, <1>10, <2>1 DEF Distinct
    <3> QED BY <3>1
  <2>2. ASSUME NEW i \in 1..(n - 1), t[i].id = list[1].id PROVE FALSE
    <3>1. i + 1 = 1
      BY <1>1, <1>5, <1>7, <1>10, <2>2 DEF Distinct
    <3> QED BY <1>1, <3>1
  <2> QED BY <1>4, <2>1, <2>2 DEF Distinct, IdsOf
<1>11. n = 1 <=> t = <<>>
  <2>1. t = <<>> <=> Len(t) = 0
    BY <1>3, EmptySeq
  <2> QED BY <1>1, <1>3, <2>1
<1>12. n > 1 <=> t # <<>>
  BY <1>1, <1>11
<1> QED BY <1>2, <1>3, <1>7, <1>8, <1>9, <1>10, <1>11, <1>12 DEF n, t

-----------------------------------------------------------------------------
(* The invariant: types, and what holds whatever overlaps *)

ReadStates == {"no", "sent", "ok", "failed"}

ReadRecord == [state : ReadStates, rows : SUBSET Row, invalidated : BOOLEAN]

DataRecord == [rows : SUBSET Row, failed : BOOLEAN, read : ReadRecord]

PageRecord ==
  [mounted : BOOLEAN, prompts : Seq(Row) \cup {None}, loading : BOOLEAN, error : BOOLEAN,
   at : {"all", "favorites", "unfiled"} \cup Folders, selected : SUBSET AllIds,
   busy : BOOLEAN, toast : Toast \cup {None}]

FolderKinds == {"renameFolder", "removeFolder"}

Patches == {"favorite", "rename", "move"}

Filing == {"batch", "undoBatch"}

Deletes == {"delete", "flush"}

(* What the answer to a request carries, by the kind of the operation. *)
Answers(job) ==
  IF job.kind \in Deletes THEN job.row = None
  ELSE job.row \in Row /\ job.row.id = (IF job.kind = "duplicate" THEN Copy ELSE Head(job.todo).id)

WellFormed(job) ==
  /\ job.kind = "favorite" => job.value \in BOOLEAN
  /\ job.kind = "rename" => job.value \in Names
  /\ job.kind \in {"move", "batch"} => job.value \in MoveChoices
  /\ job.kind \in FolderKinds => job.value \in [from : Folders, to : MoveChoices]
  /\ job.kind \notin FolderKinds => job.todo # <<>> /\ job.state \in {"sent", "ok", "failed"}
  /\ job.kind \notin FolderKinds /\ job.state = "ok" => Answers(job)
  /\ job.kind \in Patches \cup {"duplicate"} => Len(job.todo) = 1
  /\ job.kind \notin Batches => job.done = <<>> /\ job.failed = <<>>
  /\ job.kind = "flush" => ~job.mine

ServerOK ==
  /\ server \in [AllIds -> Row \cup {None}]
  /\ \A i \in AllIds : server[i] # None => server[i].id = i

DataOK ==
  /\ data \in DataRecord
  /\ \A a, b \in data.read.rows : a.id = b.id => a = b

PageOK ==
  /\ page \in PageRecord
  /\ page.toast # None => page.toast.targets # <<>>

JobsOK ==
  /\ jobs \in [Slots -> Operation \cup {None}]
  /\ \A s \in Slots : jobs[s] # None => WellFormed(jobs[s])

Types == ServerOK /\ DataOK /\ PageOK /\ JobsOK /\ pendingDelete \in Seq(Row) /\ undone \subseteq AllIds

(* A read that counts was made after the last announced change.             *)
Fresh ==
  /\ data.read.state = "no" /\ unread => data.failed
  /\ data.read.state = "ok" /\ ~data.read.invalidated => ~unread

(* A prompt whose deletion was taken back is in no deletion under way.      *)
UndoneSafe ==
  \A i \in undone :
    /\ i \notin IdsOf(pendingDelete)
    /\ \A s \in Slots : jobs[s] # None /\ jobs[s].kind \in Deletes => i \notin IdsOf(jobs[s].todo)

(* A busy page has its batch; a page that was left shows and waits for      *)
(* nothing; the Undo of a deletion offers the prompts inside their window.  *)
BusyOwned == page.busy => \E s \in Slots : jobs[s] # None /\ jobs[s].kind = "batch" /\ jobs[s].mine

GoneOwned ==
  ~page.mounted => /\ page.prompts = None /\ ~page.loading /\ page.toast = None /\ pendingDelete = <<>>
                   /\ \A s \in Slots : jobs[s] # None => ~jobs[s].mine

ToastOwned ==
  page.toast # None /\ page.toast.kind = "undoDelete" => pendingDelete \in {<<>>, page.toast.targets}

Owned == BusyOwned /\ GoneOwned /\ ToastOwned

-----------------------------------------------------------------------------
(* Operations and what they do to themselves *)

LEMMA NotNone ==
  /\ None \notin Row /\ None \notin Seq(Row) /\ None \notin Toast /\ None \notin Operation
BY NoneAssumption

LEMMA OperationIs ==
  ASSUME NEW job \in Operation
  PROVE  /\ job # None
         /\ job.kind \in Kinds /\ job.todo \in Seq(Row) /\ job.value \in Changes
         /\ job.done \in Seq(Row) /\ job.failed \in Seq(Row)
         /\ job.state \in {"sent", "ok", "failed", "reading", "read"}
         /\ job.row \in Row \cup {None} /\ job.mine \in BOOLEAN
BY NotNone DEF Operation

LEMMA JobHere ==
  ASSUME JobsOK, NEW s \in Slots, jobs[s] # None
  PROVE  jobs[s] \in Operation /\ WellFormed(jobs[s])
BY DEF JobsOK

LEMMA JobRecord ==
  ASSUME NEW kind \in Kinds, NEW todo \in Seq(Row), NEW value \in Changes
  PROVE  LET job == Job(kind, todo, value)
         IN  /\ job \in Operation
             /\ job.kind = kind /\ job.todo = todo /\ job.value = value /\ job.done = <<>>
             /\ job.failed = <<>> /\ job.state = "sent" /\ job.mine
<1> DEFINE job == Job(kind, todo, value)
<1>1. /\ job = [kind |-> kind, todo |-> todo, value |-> value, done |-> <<>>, failed |-> <<>>,
                state |-> "sent", row |-> None, mine |-> TRUE]
  BY DEF Job
<1>2. <<>> \in Seq(Row)
  BY Nothing
<1>3. job \in Operation
  BY <1>1, <1>2 DEF Operation
<1> QED BY <1>1, <1>3

LEMMA NewJob ==
  ASSUME NEW kind \in Kinds, NEW todo \in Seq(Row), NEW value \in Changes,
         kind = "favorite" => value \in BOOLEAN,
         kind = "rename" => value \in Names,
         kind \in {"move", "batch"} => value \in MoveChoices,
         kind \in FolderKinds => value \in [from : Folders, to : MoveChoices],
         kind \notin FolderKinds => todo # <<>>,
         kind \in Patches \cup {"duplicate"} => Len(todo) = 1,
         kind # "flush"
  PROVE  Job(kind, todo, value) \in Operation /\ WellFormed(Job(kind, todo, value))
<1> DEFINE job == Job(kind, todo, value)
<1>1. /\ job \in Operation
      /\ job.kind = kind /\ job.todo = todo /\ job.value = value /\ job.done = <<>>
      /\ job.failed = <<>> /\ job.state = "sent"
  BY JobRecord
<1> HIDE DEF job
<1>2. WellFormed(job)
  BY <1>1 DEF WellFormed, FolderKinds, Batches
<1> QED BY <1>1, <1>2 DEF job

(* The delete that is sent when the page goes. *)
LEMMA FlushJob ==
  ASSUME pendingDelete \in Seq(Row), pendingDelete # <<>>
  PROVE  /\ Flushed \in Operation /\ WellFormed(Flushed)
         /\ Flushed.kind = "flush" /\ Flushed.todo = pendingDelete /\ Flushed.done = <<>>
         /\ Flushed.failed = <<>> /\ Flushed.state = "sent" /\ ~Flushed.mine
<1> DEFINE job == Job("flush", pendingDelete, None)
<1>1. "flush" \in Kinds /\ None \in Changes
  BY DEF Kinds, Changes, MoveChoices
<1>2. /\ job \in Operation /\ job.kind = "flush" /\ job.todo = pendingDelete /\ job.done = <<>>
      /\ job.failed = <<>> /\ job.state = "sent"
  BY <1>1, JobRecord
<1>3. Flushed = [job EXCEPT !.mine = FALSE]
  BY DEF Flushed
<1> HIDE DEF job
<1>4. Flushed \in Operation
  BY <1>2, <1>3 DEF Operation
<1>5. /\ Flushed.kind = "flush" /\ Flushed.todo = pendingDelete /\ Flushed.done = <<>>
      /\ Flushed.failed = <<>> /\ Flushed.state = "sent" /\ ~Flushed.mine
  BY <1>2, <1>3 DEF Operation
<1>6. WellFormed(Flushed)
  BY <1>5 DEF WellFormed, FolderKinds, Patches, Batches
<1> QED BY <1>4, <1>5, <1>6

(* A request fails, at the server or on the way. *)
LEMMA FailedJob ==
  ASSUME NEW job \in Operation, WellFormed(job)
  PROVE  LET new == [job EXCEPT !.state = "failed"]
         IN  /\ new \in Operation /\ WellFormed(new)
             /\ new.kind = job.kind /\ new.todo = job.todo /\ new.value = job.value /\ new.done = job.done
             /\ new.failed = job.failed /\ new.row = job.row /\ new.mine = job.mine /\ new.state = "failed"
<1> DEFINE new == [job EXCEPT !.state = "failed"]
<1>1. new \in Operation
  BY DEF Operation
<1>2. /\ new.kind = job.kind /\ new.todo = job.todo /\ new.value = job.value /\ new.done = job.done
      /\ new.failed = job.failed /\ new.row = job.row /\ new.mine = job.mine /\ new.state = "failed"
  BY DEF Operation
<1> HIDE DEF new
<1>3. WellFormed(new)
  BY <1>2 DEF WellFormed
<1> QED BY <1>1, <1>2, <1>3 DEF new

(* A request is answered. *)
LEMMA AnsweredJob ==
  ASSUME NEW job \in Operation, WellFormed(job), NEW row \in Row \cup {None},
         job.kind \in Deletes => row = None,
         job.kind \notin Deletes \cup FolderKinds =>
           row \in Row /\ row.id = (IF job.kind = "duplicate" THEN Copy ELSE Head(job.todo).id)
  PROVE  LET new == [job EXCEPT !.state = "ok", !.row = row]
         IN  /\ new \in Operation /\ WellFormed(new)
             /\ new.kind = job.kind /\ new.todo = job.todo /\ new.value = job.value /\ new.done = job.done
             /\ new.failed = job.failed /\ new.row = row /\ new.mine = job.mine /\ new.state = "ok"
<1> DEFINE new == [job EXCEPT !.state = "ok", !.row = row]
<1>1. new \in Operation
  BY DEF Operation
<1>2. /\ new.kind = job.kind /\ new.todo = job.todo /\ new.value = job.value /\ new.done = job.done
      /\ new.failed = job.failed /\ new.row = row /\ new.mine = job.mine /\ new.state = "ok"
  BY DEF Operation
<1> HIDE DEF new
<1>3. job.kind \notin FolderKinds => Answers(new)
  BY <1>2 DEF Answers
<1>4. WellFormed(new)
  BY <1>2, <1>3 DEF WellFormed
<1> QED BY <1>1, <1>2, <1>4 DEF new

LEMMA PatchedRow ==
  ASSUME NEW job \in Operation, WellFormed(job), NEW row \in Row
  PROVE  /\ job.kind \in Patches \cup Filing => Patched(job, row) \in Row /\ Patched(job, row).id = row.id
         /\ job.kind \in Deletes => Patched(job, row) = None
         /\ job.kind = "undoBatch" => Patched(job, row).folder = Head(job.todo).folder
         /\ job.kind = "batch" => Patched(job, row).folder = job.value
<1>1. row = [id |-> row.id, name |-> row.name, favorite |-> row.favorite, folder |-> row.folder]
      /\ row.id \in Ids \cup {Copy} /\ row.name \in Names /\ row.favorite \in BOOLEAN
      /\ row.folder \in Folders \cup {None}
  BY DEF Row
<1>2. job.kind \in Kinds
  BY OperationIs
<1>3. CASE job.kind = "favorite"
  <2>1. job.value \in BOOLEAN
    BY <1>3 DEF WellFormed
  <2>2. Patched(job, row) = [row EXCEPT !.favorite = job.value]
    BY <1>3 DEF Patched
  <2> QED BY <1>1, <1>3, <2>1, <2>2 DEF Row, Deletes
<1>4. CASE job.kind = "rename"
  <2>1. job.value \in Names
    BY <1>4 DEF WellFormed
  <2>2. Patched(job, row) = [row EXCEPT !.name = job.value]
    BY <1>4 DEF Patched
  <2> QED BY <1>1, <1>4, <2>1, <2>2 DEF Row, Deletes
<1>5. CASE job.kind \in {"move", "batch"}
  <2>1. job.value \in Folders \cup {None}
    BY <1>5 DEF WellFormed, MoveChoices
  <2>2. Patched(job, row) = [row EXCEPT !.folder = job.value]
    BY <1>5 DEF Patched
  <2> QED BY <1>1, <1>5, <2>1, <2>2 DEF Row, Deletes
<1>6. CASE job.kind = "undoBatch"
  <2>1. Head(job.todo) \in Row
    BY <1>6, OperationIs, HeadAndTail DEF WellFormed, FolderKinds
  <2>2. Head(job.todo).folder \in Folders \cup {None}
    BY <2>1 DEF Row
  <2>3. Patched(job, row) = [row EXCEPT !.folder = Head(job.todo).folder]
    BY <1>6 DEF Patched
  <2> QED BY <1>1, <1>6, <2>2, <2>3 DEF Row, Deletes
<1>7. CASE job.kind \in Deletes
  BY <1>7 DEF Patched, Deletes, Patches, Filing
<1>8. CASE job.kind \notin Patches \cup Filing \cup Deletes
  BY <1>8 DEF Patches, Filing, Deletes
<1> QED BY <1>3, <1>4, <1>5, <1>6, <1>7, <1>8 DEF Patches, Filing, Deletes

(* What is done moves from the work left to the work done or failed. *)
LEMMA AdvancedJob ==
  ASSUME NEW job \in Operation, WellFormed(job), job.kind \in Batches
  PROVE  LET new == Advance(job)
         IN  /\ new \in Operation
             /\ new.kind = job.kind /\ new.todo = Tail(job.todo) /\ new.value = job.value
             /\ new.mine = job.mine /\ new.state = "sent"
             /\ new.done = IF job.state = "ok" THEN Append(job.done, Head(job.todo)) ELSE job.done
             /\ new.failed = IF job.state = "ok" THEN job.failed ELSE Append(job.failed, Head(job.todo))
             /\ Len(job.todo) > 1 => WellFormed(new)
<1> DEFINE new == Advance(job)
           j == [job EXCEPT !.todo = Tail(@), !.state = "sent", !.row = None]
           head == Head(job.todo)
<1>1. job.todo # <<>> /\ job.todo \in Seq(Row) /\ job.done \in Seq(Row) /\ job.failed \in Seq(Row)
  BY OperationIs DEF WellFormed, Batches, FolderKinds
<1>2. /\ head \in Row /\ Tail(job.todo) \in Seq(Row)
      /\ Append(job.done, head) \in Seq(Row) /\ Append(job.failed, head) \in Seq(Row)
      /\ Len(job.todo) > 1 => Tail(job.todo) # <<>>
  BY <1>1, HeadAndTail, AppendHas
<1> HIDE DEF head
<1>3. /\ j \in Operation /\ j.kind = job.kind /\ j.todo = Tail(job.todo) /\ j.value = job.value
      /\ j.mine = job.mine /\ j.state = "sent" /\ j.done = job.done /\ j.failed = job.failed
  BY <1>2 DEF Operation
<1>4. new = IF job.state = "ok" THEN [j EXCEPT !.done = Append(@, head)] ELSE [j EXCEPT !.failed = Append(@, head)]
  BY DEF Advance, Kept, head
<1> HIDE DEF j, new
<1>5. /\ new \in Operation /\ new.kind = j.kind /\ new.todo = j.todo /\ new.value = j.value
      /\ new.mine = j.mine /\ new.state = j.state
      /\ new.done = IF job.state = "ok" THEN Append(j.done, head) ELSE j.done
      /\ new.failed = IF job.state = "ok" THEN j.failed ELSE Append(j.failed, head)
  <2>1. CASE job.state = "ok"
    <3>1. new = [j EXCEPT !.done = Append(j.done, head)]
      BY <1>3, <1>4, <2>1 DEF Operation
    <3> QED BY <1>2, <1>3, <2>1, <3>1 DEF Operation
  <2>2. CASE job.state # "ok"
    <3>1. new = [j EXCEPT !.failed = Append(j.failed, head)]
      BY <1>3, <1>4, <2>2 DEF Operation
    <3> QED BY <1>2, <1>3, <2>2, <3>1 DEF Operation
  <2> QED BY <2>1, <2>2
<1>6. /\ new \in Operation
      /\ new.kind = job.kind /\ new.todo = Tail(job.todo) /\ new.value = job.value
      /\ new.mine = job.mine /\ new.state = "sent"
      /\ new.done = IF job.state = "ok" THEN Append(job.done, head) ELSE job.done
      /\ new.failed = IF job.state = "ok" THEN job.failed ELSE Append(job.failed, head)
  BY <1>3, <1>5
<1>7. Len(job.todo) > 1 => WellFormed(new)
  BY <1>2, <1>6 DEF WellFormed, Batches, FolderKinds, Patches
<1> QED BY <1>6, <1>7 DEF new, head

LEMMA SetJob ==
  ASSUME JobsOK, NEW s \in Slots, NEW job \in Operation, WellFormed(job), jobs' = [jobs EXCEPT ![s] = job]
  PROVE  JobsOK'
BY DEF JobsOK

LEMMA FreeSlot ==
  ASSUME JobsOK, NEW s \in Slots, Finish(s)
  PROVE  JobsOK'
BY DEF JobsOK, Finish

LEMMA StartedJob ==
  ASSUME JobsOK, NEW job \in Operation, WellFormed(job), Start(job)
  PROVE  JobsOK'
BY SetJob DEF Start

(* Rows of the page and of its lists.                                       *)
LEMMA ShownRows ==
  ASSUME PageOK, page.prompts # None
  PROVE  /\ page.prompts \in Seq(Row)
         /\ Visible \subseteq RowsOf(page.prompts) /\ RowsOf(page.prompts) \subseteq Row
         /\ SelectedPrompts \in Seq(Row)
         /\ RowsOf(SelectedPrompts) \subseteq RowsOf(page.prompts)
<1>1. page.prompts \in Seq(Row)
  BY DEF PageOK, PageRecord
<1>2. Visible \subseteq RowsOf(page.prompts)
  BY DEF Visible, RowsOf
<1>3. SelectedPrompts \in Seq(Row) /\ RowsOf(SelectedPrompts) \subseteq RowsOf(page.prompts)
  BY <1>1, OnlyKeeps DEF SelectedPrompts
<1> QED BY <1>1, <1>2, <1>3, ListRows

LEMMA ToastIs ==
  ASSUME PageOK, page.toast # None
  PROVE  /\ page.toast \in Toast /\ page.toast.targets \in Seq(Row) /\ page.toast.targets # <<>>
         /\ page.toast.kind \in {"undoMove", "undoDelete"}
<1>1. page.toast \in Toast
  BY DEF PageOK, PageRecord
<1> QED BY <1>1 DEF Toast, PageOK

-----------------------------------------------------------------------------
(* The operations the page starts are well formed *)

LEMMA RowJob ==
  ASSUME NEW row \in Row
  PROVE  /\ LET job == Job("favorite", <<row>>, ~row.favorite) IN job \in Operation /\ WellFormed(job)
         /\ \A name \in Names : LET job == Job("rename", <<row>>, name) IN job \in Operation /\ WellFormed(job)
         /\ \A folder \in MoveChoices : LET job == Job("move", <<row>>, folder) IN job \in Operation /\ WellFormed(job)
         /\ LET job == Job("duplicate", <<row>>, None) IN job \in Operation /\ WellFormed(job)
<1> DEFINE todo == <<row>>
<1>1. todo \in Seq(Row) /\ todo # <<>> /\ Len(todo) = 1
  BY One
<1> HIDE DEF todo
<1>2. \A kind \in {"favorite", "rename", "move", "duplicate"} : kind \in Kinds
  BY DEF Kinds
<1>3. (~row.favorite) \in BOOLEAN /\ BOOLEAN \subseteq Changes /\ Names \subseteq Changes
      /\ MoveChoices \subseteq Changes /\ None \in Changes
  BY DEF Changes, MoveChoices
<1>4. Job("favorite", todo, ~row.favorite) \in Operation /\ WellFormed(Job("favorite", todo, ~row.favorite))
  BY <1>1, <1>2, <1>3, NewJob DEF FolderKinds
<1>5. \A name \in Names : Job("rename", todo, name) \in Operation /\ WellFormed(Job("rename", todo, name))
  BY <1>1, <1>2, <1>3, NewJob DEF FolderKinds
<1>6. \A folder \in MoveChoices :
        Job("move", todo, folder) \in Operation /\ WellFormed(Job("move", todo, folder))
  BY <1>1, <1>2, <1>3, NewJob DEF FolderKinds
<1>7. Job("duplicate", todo, None) \in Operation /\ WellFormed(Job("duplicate", todo, None))
  BY <1>1, <1>2, <1>3, NewJob DEF FolderKinds
<1> QED BY <1>4, <1>5, <1>6, <1>7 DEF todo

LEMMA ListJob ==
  ASSUME NEW list \in Seq(Row), list # <<>>
  PROVE  /\ \A folder \in MoveChoices : LET job == Job("batch", list, folder) IN job \in Operation /\ WellFormed(job)
         /\ LET job == Job("undoBatch", list, None) IN job \in Operation /\ WellFormed(job)
         /\ LET job == Job("delete", list, None) IN job \in Operation /\ WellFormed(job)
<1>1. \A kind \in {"batch", "undoBatch", "delete"} : kind \in Kinds
  BY DEF Kinds
<1>2. MoveChoices \subseteq Changes /\ None \in Changes
  BY DEF Changes, MoveChoices
<1>3. \A folder \in MoveChoices :
        Job("batch", list, folder) \in Operation /\ WellFormed(Job("batch", list, folder))
  BY <1>1, <1>2, NewJob DEF FolderKinds, Patches
<1>4. Job("undoBatch", list, None) \in Operation /\ WellFormed(Job("undoBatch", list, None))
  BY <1>1, <1>2, NewJob DEF FolderKinds, Patches
<1>5. Job("delete", list, None) \in Operation /\ WellFormed(Job("delete", list, None))
  BY <1>1, <1>2, NewJob DEF FolderKinds, Patches
<1> QED BY <1>3, <1>4, <1>5

LEMMA FolderJobIs ==
  ASSUME NEW kind \in FolderKinds, NEW from \in Folders, NEW to \in MoveChoices
  PROVE  LET job == Job(kind, <<>>, [from |-> from, to |-> to])
         IN  job \in Operation /\ WellFormed(job)
<1> DEFINE value == [from |-> from, to |-> to]
<1>1. value \in [from : Folders, to : MoveChoices]
  OBVIOUS
<1> HIDE DEF value
<1>2. value \in Changes /\ kind \in Kinds /\ <<>> \in Seq(Row)
  BY <1>1, Nothing DEF Changes, FolderKinds, Kinds
<1>3. Job(kind, <<>>, value) \in Operation /\ WellFormed(Job(kind, <<>>, value))
  BY <1>1, <1>2, NewJob DEF FolderKinds, Patches
<1> QED BY <1>3 DEF value

(* What a step makes of one operation keeps it well formed.                 *)
LEMMA ServeKeeps ==
  ASSUME Types, NEW s \in Slots, Serve(s)
  PROVE  /\ ServerOK' /\ JobsOK'
         /\ jobs[s] \in Operation /\ WellFormed(jobs[s]) /\ jobs[s].state = "sent"
         /\ \/ /\ jobs[s].kind \in FolderKinds
               /\ server' = [i \in AllIds |-> Refiled(server[i], jobs[s].value.from, jobs[s].value.to)]
               /\ jobs' = [jobs EXCEPT ![s] = [jobs[s] EXCEPT !.state = "ok", !.row = None]]
            \/ /\ jobs[s].kind \notin FolderKinds /\ server[Head(jobs[s].todo).id] = None
               /\ server' = server
               /\ jobs' = [jobs EXCEPT ![s] = [jobs[s] EXCEPT !.state = "failed"]]
            \/ /\ jobs[s].kind = "duplicate" /\ server[Head(jobs[s].todo).id] # None /\ server[Copy] = None
               /\ \E copy \in Row : /\ copy.id = Copy
                                    /\ server' = [server EXCEPT ![Copy] = copy]
                                    /\ jobs' = [jobs EXCEPT ![s] = [jobs[s] EXCEPT !.state = "ok", !.row = copy]]
            \/ LET id == Head(jobs[s].todo).id
                   new == Patched(jobs[s], server[id])
               IN  /\ jobs[s].kind \in Patches \cup Filing \cup Deletes /\ server[id] # None /\ server[id] \in Row
                   /\ server' = [server EXCEPT ![id] = new]
                   /\ jobs' = [jobs EXCEPT ![s] = [jobs[s] EXCEPT !.state = "ok", !.row = new]]
                   /\ jobs[s].kind \in Deletes => new = None
                   /\ jobs[s].kind \notin Deletes => new \in Row /\ new.id = id
<1> DEFINE job == jobs[s]
           id == Head(job.todo).id
<1>1. ServerOK /\ JobsOK
  BY DEF Types
<1>2. job # None /\ job.state = "sent"
  BY DEF Serve
<1>3. job \in Operation /\ WellFormed(job)
  BY <1>1, <1>2, JobHere
<1>4. server \in [AllIds -> Row \cup {None}] /\ DOMAIN server = AllIds /\ \A i \in AllIds : server[i] # None => server[i].id = i
  BY <1>1 DEF ServerOK
<1>5. jobs \in [Slots -> Operation \cup {None}]
  BY <1>1 DEF JobsOK
<1>6. FolderJob(job) <=> job.kind \in FolderKinds
  BY DEF FolderJob, FolderKinds
<1>7. CASE job.kind \in FolderKinds
  <2>1. /\ server' = [i \in AllIds |-> Refiled(server[i], job.value.from, job.value.to)]
        /\ Answered(s, None)
    BY <1>2, <1>4, <1>6, <1>7 DEF Serve
  <2>2. jobs' = [jobs EXCEPT ![s] = [job EXCEPT !.state = "ok", !.row = None]]
    BY <1>3, <1>5, <2>1 DEF Answered, Operation
  <2>3. [job EXCEPT !.state = "ok", !.row = None] \in Operation /\ WellFormed([job EXCEPT !.state = "ok", !.row = None])
    BY <1>3, <1>7, AnsweredJob
  <2>4. JobsOK'
    BY <1>1, <2>2, <2>3, SetJob
  <2>5. job.value.to \in Folders \cup {None}
    BY <1>3, <1>7 DEF WellFormed, MoveChoices
  <2>6. \A i \in AllIds : /\ Refiled(server[i], job.value.from, job.value.to) \in Row \cup {None}
                          /\ Refiled(server[i], job.value.from, job.value.to) # None
                               => Refiled(server[i], job.value.from, job.value.to).id = i
    BY <1>4, <2>5 DEF Refiled, Row
  <2>7. ServerOK'
    BY <2>1, <2>6 DEF ServerOK
  <2> QED BY <1>2, <1>3, <1>7, <2>1, <2>2, <2>4, <2>7
<1>8. CASE job.kind \notin FolderKinds
  <2> DEFINE row == server[id]
  <2>1. Head(job.todo) \in Row /\ id \in AllIds
    BY <1>3, <1>8, OperationIs, HeadAndTail, RowIds DEF WellFormed
  <2>2. row \in Row \cup {None} /\ (row # None => row.id = id)
    BY <1>4, <2>1
  <2>3. CASE row = None
    <3>1. jobs' = [jobs EXCEPT ![s].state = "failed"] /\ server' = server
      BY <1>6, <1>8, <2>3 DEF Serve
    <3>2. jobs' = [jobs EXCEPT ![s] = [job EXCEPT !.state = "failed"]]
      BY <1>5, <3>1
    <3>3. JobsOK'
      BY <1>1, <1>3, <3>2, FailedJob, SetJob
    <3>4. ServerOK'
      BY <1>1, <3>1 DEF ServerOK
    <3> QED BY <1>2, <1>3, <1>8, <2>3, <3>1, <3>2, <3>3, <3>4
  <2>4. CASE row # None /\ job.kind = "duplicate"
    <3> DEFINE copy == [row EXCEPT !.id = Copy, !.favorite = FALSE]
    <3>1. server[Copy] = None /\ server' = [server EXCEPT ![Copy] = copy] /\ Answered(s, copy)
      BY <1>6, <1>8, <2>4 DEF Serve
    <3>2. copy \in Row /\ copy.id = Copy
      BY <2>2, <2>4 DEF Row
    <3> HIDE DEF copy
    <3>3. jobs' = [jobs EXCEPT ![s] = [job EXCEPT !.state = "ok", !.row = copy]]
      BY <1>3, <1>5, <3>1 DEF Answered, Operation
    <3>4. [job EXCEPT !.state = "ok", !.row = copy] \in Operation /\ WellFormed([job EXCEPT !.state = "ok", !.row = copy])
      BY <1>3, <2>4, <3>2, AnsweredJob DEF Deletes, FolderKinds
    <3>5. JobsOK'
      BY <1>1, <3>3, <3>4, SetJob
    <3>6. ServerOK'
      BY <1>4, <3>1, <3>2 DEF ServerOK, AllIds
    <3> QED BY <1>2, <1>3, <2>4, <3>1, <3>2, <3>3, <3>5, <3>6
  <2>5. CASE row # None /\ job.kind # "duplicate"
    <3> DEFINE new == Patched(job, row)
    <3>1. server' = [server EXCEPT ![row.id] = new] /\ Answered(s, new)
      BY <1>6, <1>8, <2>5 DEF Serve
    <3>2. job.kind \in Patches \cup Filing \cup Deletes
      BY <1>3, <1>8, <2>5, OperationIs DEF Kinds, FolderKinds, Patches, Filing, Deletes
    <3>3. /\ job.kind \in Deletes => new = None
          /\ job.kind \notin Deletes => new \in Row /\ new.id = id
      BY <1>3, <2>2, <2>5, <3>2, PatchedRow
    <3> HIDE DEF new
    <3>4. new \in Row \cup {None}
      BY <3>3
    <3>5. jobs' = [jobs EXCEPT ![s] = [job EXCEPT !.state = "ok", !.row = new]]
      BY <1>3, <1>5, <3>1 DEF Answered, Operation
    <3>6. [job EXCEPT !.state = "ok", !.row = new] \in Operation /\ WellFormed([job EXCEPT !.state = "ok", !.row = new])
      BY <1>3, <2>5, <3>3, <3>4, AnsweredJob
    <3>7. JobsOK'
      BY <1>1, <3>5, <3>6, SetJob
    <3>8. server' = [server EXCEPT ![id] = new]
      BY <2>2, <2>5, <3>1
    <3>9. ServerOK'
      BY <1>4, <2>1, <3>3, <3>4, <3>8 DEF ServerOK
    <3> QED BY <1>2, <1>3, <2>2, <2>5, <3>2, <3>3, <3>5, <3>7, <3>8, <3>9 DEF new
  <2> QED BY <2>3, <2>4, <2>5
<1> QED BY <1>7, <1>8

LEMMA FlushPops ==
  ASSUME NEW job \in Operation, WellFormed(job), job.kind = "flush", Len(job.todo) # 1
  PROVE  LET new == [job EXCEPT !.todo = Tail(@), !.state = "sent"]
         IN  /\ new \in Operation /\ WellFormed(new)
             /\ new.kind = "flush" /\ new.todo = Tail(job.todo) /\ new.done = job.done
             /\ new.failed = job.failed /\ new.state = "sent" /\ new.mine = job.mine
<1> DEFINE new == [job EXCEPT !.todo = Tail(@), !.state = "sent"]
<1>1. job.todo \in Seq(Row) /\ job.todo # <<>>
  BY OperationIs DEF WellFormed, FolderKinds
<1>2. Tail(job.todo) \in Seq(Row) /\ Tail(job.todo) # <<>>
  BY <1>1, HeadAndTail
<1>3. /\ new \in Operation /\ new.kind = "flush" /\ new.todo = Tail(job.todo) /\ new.done = job.done
      /\ new.failed = job.failed /\ new.state = "sent" /\ new.mine = job.mine
  BY <1>2 DEF Operation
<1> HIDE DEF new
<1>4. WellFormed(new)
  BY <1>2, <1>3 DEF WellFormed, FolderKinds, Batches, Patches
<1> QED BY <1>3, <1>4 DEF new

LEMMA MovesOn ==
  ASSUME NEW job \in Operation, WellFormed(job), job.kind \in FolderKinds, NEW state \in {"reading", "read"}
  PROVE  LET new == [job EXCEPT !.state = state]
         IN  /\ new \in Operation /\ WellFormed(new) /\ new.state = state
             /\ new.kind = job.kind /\ new.todo = job.todo /\ new.value = job.value /\ new.done = job.done
             /\ new.failed = job.failed /\ new.row = job.row /\ new.mine = job.mine
<1> DEFINE new == [job EXCEPT !.state = state]
<1>1. /\ new \in Operation /\ new.state = state
      /\ new.kind = job.kind /\ new.todo = job.todo /\ new.value = job.value /\ new.done = job.done
      /\ new.failed = job.failed /\ new.row = job.row /\ new.mine = job.mine
  BY DEF Operation
<1> HIDE DEF new
<1>2. WellFormed(new)
  BY <1>1 DEF WellFormed
<1> QED BY <1>1, <1>2 DEF new

LEMMA DisownedJob ==
  ASSUME NEW job \in Operation, WellFormed(job)
  PROVE  LET new == [job EXCEPT !.mine = FALSE]
         IN  /\ new \in Operation /\ WellFormed(new) /\ ~new.mine
             /\ new.kind = job.kind /\ new.todo = job.todo /\ new.value = job.value /\ new.done = job.done
             /\ new.failed = job.failed /\ new.row = job.row /\ new.state = job.state
<1> DEFINE new == [job EXCEPT !.mine = FALSE]
<1>1. /\ new \in Operation /\ ~new.mine
      /\ new.kind = job.kind /\ new.todo = job.todo /\ new.value = job.value /\ new.done = job.done
      /\ new.failed = job.failed /\ new.row = job.row /\ new.state = job.state
  BY DEF Operation
<1> HIDE DEF new
<1>2. WellFormed(new)
  <2>1. Answers(job) => Answers(new)
    BY <1>1 DEF Answers
  <2> QED BY <1>1, <2>1 DEF WellFormed
<1> QED BY <1>1, <1>2 DEF new

(* The operations Leave carries on: all of them, for nobody, and the flush. *)
LEMMA LeaveJobs ==
  ASSUME JobsOK, pendingDelete \in Seq(Row), Leave
  PROVE  /\ JobsOK'
         /\ \E old \in [Slots -> Operation \cup {None}] :
              /\ \A s \in Slots : old[s] # None => WellFormed(old[s])
              /\ jobs' = Disowned(old)
              /\ \/ pendingDelete = <<>> /\ old = jobs
                 \/ /\ pendingDelete # <<>>
                    /\ \E s \in Slots : jobs[s] = None /\ old = [jobs EXCEPT ![s] = Flushed]
<1>1. PICK old \in [Slots -> Operation \cup {None}] :
        /\ \A s \in Slots : old[s] # None => WellFormed(old[s])
        /\ jobs' = Disowned(old)
        /\ \/ pendingDelete = <<>> /\ old = jobs
           \/ /\ pendingDelete # <<>>
              /\ \E s \in Slots : jobs[s] = None /\ old = [jobs EXCEPT ![s] = Flushed]
  <2>1. CASE pendingDelete = <<>>
    BY <2>1 DEF Leave, JobsOK
  <2>2. CASE pendingDelete # <<>>
    <3>1. PICK s \in Slots : jobs[s] = None /\ jobs' = Disowned([jobs EXCEPT ![s] = Flushed])
      BY <2>2 DEF Leave
    <3>2. Flushed \in Operation /\ WellFormed(Flushed)
      BY <2>2, FlushJob
    <3> DEFINE old == [jobs EXCEPT ![s] = Flushed]
    <3>3. old \in [Slots -> Operation \cup {None}] /\ \A t \in Slots : old[t] # None => WellFormed(old[t])
      BY <3>2 DEF JobsOK
    <3> QED BY <2>2, <3>1, <3>3
  <2> QED BY <2>1, <2>2
<1>2. \A s \in Slots : jobs'[s] = IF old[s] = None THEN None ELSE [old[s] EXCEPT !.mine = FALSE]
  BY <1>1 DEF Disowned
<1>3. \A s \in Slots : old[s] # None => jobs'[s] \in Operation /\ WellFormed(jobs'[s])
  <2> SUFFICES ASSUME NEW s \in Slots, old[s] # None PROVE jobs'[s] \in Operation /\ WellFormed(jobs'[s])
    OBVIOUS
  <2>1. old[s] \in Operation /\ WellFormed(old[s]) /\ jobs'[s] = [old[s] EXCEPT !.mine = FALSE]
    BY <1>1, <1>2
  <2> QED BY <2>1, DisownedJob
<1>4. jobs' \in [Slots -> Operation \cup {None}]
  <2>1. jobs' = [s \in Slots |-> jobs'[s]]
    BY <1>1 DEF Disowned
  <2>2. \A s \in Slots : jobs'[s] \in Operation \cup {None}
    BY <1>2, <1>3
  <2> QED BY <2>1, <2>2
<1>5. JobsOK'
  BY <1>2, <1>3, <1>4 DEF JobsOK
<1> QED BY <1>1, <1>5

LEMMA BatchKeeps ==
  ASSUME JobsOK, NEW s \in Slots, BatchAdvances(s)
  PROVE  /\ JobsOK' /\ jobs' = [jobs EXCEPT ![s] = Advance(jobs[s])]
         /\ jobs[s] \in Operation /\ WellFormed(jobs[s]) /\ jobs[s].kind \in Batches
<1>1. jobs[s] \in Operation /\ WellFormed(jobs[s]) /\ jobs[s].kind \in Batches /\ Len(jobs[s].todo) > 1
  BY JobHere DEF BatchAdvances
<1>2. jobs' = [jobs EXCEPT ![s] = Advance(jobs[s])]
  BY DEF BatchAdvances
<1>3. Advance(jobs[s]) \in Operation /\ WellFormed(Advance(jobs[s]))
  BY <1>1, AdvancedJob
<1> QED BY <1>1, <1>2, <1>3, SetJob

LEMMA ReadDoneJobs ==
  ASSUME JobsOK, ReadDone
  PROVE  /\ JobsOK'
         /\ \A s \in Slots : IF Waits(jobs[s]) THEN jobs'[s] = [jobs[s] EXCEPT !.state = "read"] ELSE jobs'[s] = jobs[s]
<1>1. /\ jobs' = [s \in Slots |-> IF Waits(jobs[s]) THEN [jobs[s] EXCEPT !.state = "read"] ELSE jobs[s]]
  BY DEF ReadDone
<1>2. \A s \in Slots : IF Waits(jobs[s]) THEN jobs'[s] = [jobs[s] EXCEPT !.state = "read"] ELSE jobs'[s] = jobs[s]
  BY <1>1
<1>3. \A s \in Slots : jobs'[s] \in Operation \cup {None} /\ (jobs'[s] # None => WellFormed(jobs'[s]))
  <2> SUFFICES ASSUME NEW s \in Slots
               PROVE  jobs'[s] \in Operation \cup {None} /\ (jobs'[s] # None => WellFormed(jobs'[s]))
    OBVIOUS
  <2>1. CASE Waits(jobs[s])
    <3>1. jobs[s] \in Operation /\ WellFormed(jobs[s]) /\ jobs[s].state = "reading"
      BY <2>1, JobHere DEF Waits
    <3>2. jobs[s].kind \in FolderKinds
      BY <3>1 DEF WellFormed
    <3>3. jobs'[s] = [jobs[s] EXCEPT !.state = "read"]
      BY <1>2, <2>1
    <3> QED BY <3>1, <3>2, <3>3, MovesOn
  <2>2. CASE ~Waits(jobs[s])
    BY <1>2, <2>2 DEF JobsOK
  <2> QED BY <2>1, <2>2
<1>4. JobsOK'
  <2>1. jobs' \in [Slots -> Operation \cup {None}]
    BY <1>1, <1>3
  <2> QED BY <1>3, <2>1 DEF JobsOK
<1> QED BY <1>2, <1>4

LEMMA EarlierDelete ==
  ASSUME JobsOK, pendingDelete \in Seq(Row), CommitEarlier
  PROVE  JobsOK'
<1>1. CASE pendingDelete = <<>>
  BY <1>1 DEF CommitEarlier, JobsOK
<1>2. CASE pendingDelete # <<>>
  <2>1. Start(Job("delete", pendingDelete, None))
    BY <1>2 DEF CommitEarlier
  <2> QED BY <1>2, <2>1, ListJob, StartedJob
<1> QED BY <1>1, <1>2

LEMMA JobTypes ==
  ASSUME Types, Next
  PROVE  JobsOK'
<1>1. JobsOK /\ PageOK /\ pendingDelete \in Seq(Row)
  BY DEF Types
<1>2. ASSUME UNCHANGED jobs PROVE JobsOK'
  BY <1>1, <1>2 DEF JobsOK
<1>3. CASE Reading \/ LoseRead
  <2>1. CASE ReadDone
    BY <1>1, <2>1, ReadDoneJobs
  <2>2. CASE ServeRead \/ ReadAgain \/ LoseRead
    BY <1>2, <2>2 DEF ServeRead, ReadAgain, LoseRead
  <2> QED BY <1>3, <2>1, <2>2 DEF Reading
<1>4. ASSUME NEW s \in Slots, Serve(s) PROVE JobsOK'
  BY <1>4, ServeKeeps
<1>5. ASSUME NEW s \in Slots, Lose(s) PROVE JobsOK'
  <2>1. jobs' = [jobs EXCEPT ![s] = [jobs[s] EXCEPT !.state = "failed"]] /\ jobs[s] # None
    BY <1>1, <1>5 DEF Lose, JobsOK
  <2> QED BY <1>1, <2>1, JobHere, FailedJob, SetJob
<1>6. ASSUME NEW s \in Slots, Answer(s) PROVE JobsOK'
  <2>1. CASE UpdateAnswer(s) \/ UpdateFails(s) \/ DuplicateAnswer(s) \/ BatchEnds(s) \/ FolderFails(s) \/ FolderDone(s)
    <3>1. Finish(s)
      BY <2>1 DEF UpdateAnswer, UpdateFails, DuplicateAnswer, BatchEnds, FolderFails, FolderDone
    <3> QED BY <1>1, <3>1, FreeSlot
  <2>2. CASE BatchAdvances(s)
    BY <1>1, <2>2, BatchKeeps
  <2>3. CASE FolderAnswer(s)
    <3>1. jobs[s] # None /\ jobs[s].kind \in FolderKinds
      BY <2>3 DEF FolderAnswer, Success, FolderKinds
    <3>2. jobs' = [jobs EXCEPT ![s] = [jobs[s] EXCEPT !.state = "reading"]]
      BY <1>1, <2>3 DEF FolderAnswer, JobsOK
    <3> QED BY <1>1, <3>1, <3>2, JobHere, MovesOn, SetJob
  <2>4. CASE FlushEnds(s)
    <3>1. jobs[s] # None /\ jobs[s].kind = "flush"
      BY <2>4 DEF FlushEnds
    <3>2. CASE Len(jobs[s].todo) = 1
      <4>1. Finish(s)
        BY <1>1, <2>4, <3>2 DEF FlushEnds, Finish, JobsOK
      <4> QED BY <1>1, <4>1, FreeSlot
    <3>3. CASE Len(jobs[s].todo) # 1
      <4>1. jobs' = [jobs EXCEPT ![s] = [jobs[s] EXCEPT !.todo = Tail(@), !.state = "sent"]]
        <5>1. jobs' = [jobs EXCEPT ![s] = IF Len(jobs[s].todo) = 1 THEN None
                                          ELSE [jobs[s] EXCEPT !.todo = Tail(@), !.state = "sent"]]
          BY <2>4 DEF FlushEnds
        <5> QED BY <3>3, <5>1
      <4> QED BY <1>1, <3>1, <3>3, <4>1, JobHere, FlushPops, SetJob
    <3> QED BY <3>2, <3>3
  <2> QED BY <1>6, <2>1, <2>2, <2>3, <2>4 DEF Answer
<1>7. ASSUME Loaded, NEW row \in Visible, Operate(row) PROVE JobsOK'
  <2>1. row \in Row
    BY <1>1, <1>7, ShownRows DEF Loaded
  <2>2. CASE ToggleFavorite(row)
    BY <1>1, <2>1, <2>2, RowJob, StartedJob DEF ToggleFavorite
  <2>3. CASE Duplicate(row)
    BY <1>1, <2>1, <2>3, RowJob, StartedJob DEF Duplicate
  <2>4. CASE Remove(row)
    BY <1>1, <2>4, EarlierDelete DEF Remove, RemoveMany
  <2>5. CASE ToggleSelected(row)
    BY <1>2, <2>5 DEF ToggleSelected
  <2>6. ASSUME NEW name \in Names, Rename(row, name) PROVE JobsOK'
    BY <1>1, <2>1, <2>6, RowJob, StartedJob DEF Rename
  <2>7. ASSUME NEW folder \in MoveChoices, Move(row, folder) PROVE JobsOK'
    BY <1>1, <2>1, <2>7, RowJob, StartedJob DEF Move
  <2> QED BY <1>7, <2>2, <2>3, <2>4, <2>5, <2>6, <2>7 DEF Operate
<1>8. CASE Batch
  <2>1. CASE SelectVisible \/ ClearSelection
    BY <1>2, <2>1 DEF SelectVisible, ClearSelection
  <2>2. CASE DeleteSelected
    BY <1>1, <2>2, EarlierDelete DEF DeleteSelected, RemoveMany
  <2>3. CASE UndoMove
    <3>1. page.toast # None /\ Start(Job("undoBatch", page.toast.targets, None))
      BY <2>3 DEF UndoMove
    <3> QED BY <1>1, <3>1, ToastIs, ListJob, StartedJob
  <2>4. ASSUME NEW folder \in MoveChoices, MoveSelected(folder) PROVE JobsOK'
    <3>1. page.prompts # None /\ SelectedPrompts # <<>> /\ Start(Job("batch", SelectedPrompts, folder))
      BY <2>4 DEF MoveSelected, BatchForm, Loaded
    <3> QED BY <1>1, <3>1, ShownRows, ListJob, StartedJob
  <2> QED BY <1>8, <2>1, <2>2, <2>3, <2>4 DEF Batch
<1>9. ASSUME NEW folder \in RenameChoices, RenameFolder(folder) PROVE JobsOK'
  <2>1. page.at \in Folders /\ folder \in MoveChoices
    BY <1>9 DEF RenameFolder, FolderMenu, RenameChoices, MoveChoices
  <2> QED BY <1>1, <1>9, <2>1, FolderJobIs, StartedJob DEF RenameFolder, FolderKinds
<1>10. CASE RemoveFolder
  <2>1. page.at \in Folders /\ None \in MoveChoices
    BY <1>10 DEF RemoveFolder, FolderMenu, MoveChoices
  <2> QED BY <1>1, <1>10, <2>1, FolderJobIs, StartedJob DEF RemoveFolder, FolderKinds
<1>11. CASE DeleteTimer
  BY <1>1, <1>11, ListJob, StartedJob DEF DeleteTimer
<1>12. CASE UndoDelete \/ ToastExpires \/ Return \/ TryAgain
  BY <1>2, <1>12 DEF UndoDelete, ToastExpires, Return, TryAgain
<1>13. CASE PageHide
  BY <1>1, <1>13, FlushJob, StartedJob DEF PageHide, Flush
<1>14. ASSUME NEW at \in Links, ChangeView(at) PROVE JobsOK'
  BY <1>2, <1>14 DEF ChangeView
<1>15. CASE Leave
  BY <1>1, <1>15, LeaveJobs
<1> QED BY <1>3, <1>4, <1>5, <1>6, <1>7, <1>8, <1>9, <1>10, <1>11, <1>12, <1>13, <1>14, <1>15 DEF Next

-----------------------------------------------------------------------------
(* What an answer does to the page *)

(* The status of the page: all but its list, its toast and its view.        *)
Status(p) == <<p.mounted, p.loading, p.error>>

LEMMA Updated ==
  ASSUME PageOK, NEW job \in Operation, NEW row \in Row
  PROVE  LET new == Update(job, Replace(page.prompts, row))
         IN  /\ new \in Seq(Row) \cup {None}
             /\ new = IF job.mine /\ page.prompts # None THEN Replace(page.prompts, row) ELSE page.prompts
<1>1. page.prompts \in Seq(Row) \cup {None}
  BY DEF PageOK, PageRecord
<1>2. page.prompts # None => Replace(page.prompts, row) \in Seq(Row)
  BY <1>1, ReplaceHas
<1> QED BY <1>1, <1>2 DEF Update

LEMMA UpdateAnswerPage ==
  ASSUME PageOK, JobsOK, NEW s \in Slots, UpdateAnswer(s)
  PROVE  /\ PageOK' /\ jobs[s] # None /\ jobs[s].row \in Row
         /\ page'.prompts = IF jobs[s].mine /\ page.prompts # None THEN Replace(page.prompts, jobs[s].row)
                            ELSE page.prompts
         /\ page'.toast = IF jobs[s].kind = "move" /\ jobs[s].mine THEN None ELSE page.toast
         /\ Status(page') = Status(page) /\ page'.busy = page.busy
<1> DEFINE job == jobs[s]
           list == Update(job, Replace(page.prompts, job.row))
           p == [page EXCEPT !.prompts = list]
<1>1. job # None /\ job \in Operation /\ WellFormed(job) /\ job.kind \in Patches /\ job.state = "ok"
  BY JobHere DEF UpdateAnswer, Success, Patches
<1>2. job.row \in Row
  BY <1>1 DEF WellFormed, Answers, Patches, FolderKinds, Deletes
<1>3. list \in Seq(Row) \cup {None} /\ list = IF job.mine /\ page.prompts # None THEN Replace(page.prompts, job.row) ELSE page.prompts
  BY <1>1, <1>2, Updated
<1>4. page' = IF job.kind = "move" THEN Toasting(job, p, Plain) ELSE p
  BY DEF UpdateAnswer
<1> HIDE DEF list
<1>5. p \in PageRecord /\ p.prompts = list /\ p.toast = page.toast /\ Status(p) = Status(page) /\ p.busy = page.busy
  BY <1>3 DEF PageOK, PageRecord, Status
<1> HIDE DEF p
<1>6. page' = IF job.kind = "move" /\ job.mine THEN [p EXCEPT !.toast = None] ELSE p
  BY <1>4 DEF Toasting, Plain
<1>7. /\ page' \in PageRecord /\ page'.prompts = p.prompts /\ Status(page') = Status(p) /\ page'.busy = p.busy
      /\ page'.toast = IF jobs[s].kind = "move" /\ jobs[s].mine THEN None ELSE p.toast
  BY <1>5, <1>6 DEF PageRecord, Status
<1>8. PageOK'
  BY <1>5, <1>7 DEF PageOK
<1> QED BY <1>1, <1>2, <1>3, <1>5, <1>7, <1>8

LEMMA UpdateFailsPage ==
  ASSUME PageOK, JobsOK, NEW s \in Slots, UpdateFails(s)
  PROVE  /\ PageOK' /\ jobs[s] # None /\ Head(jobs[s].todo) \in Row
         /\ page'.prompts = IF jobs[s].kind = "favorite" /\ jobs[s].mine /\ page.prompts # None
                            THEN Replace(page.prompts, Head(jobs[s].todo)) ELSE page.prompts
         /\ page'.toast = IF jobs[s].mine THEN None ELSE page.toast
         /\ Status(page') = Status(page) /\ page'.busy = page.busy
<1> DEFINE job == jobs[s]
           list == Update(job, Replace(page.prompts, Head(job.todo)))
           p == Toasting(job, page, Plain)
<1>1. job # None /\ job \in Operation /\ WellFormed(job) /\ job.kind \in Patches \cup {"duplicate"}
  BY JobHere DEF UpdateFails, Failure, Patches
<1>2. Head(job.todo) \in Row
  BY <1>1, OperationIs, HeadAndTail DEF WellFormed, Patches, FolderKinds
<1>3. list \in Seq(Row) \cup {None} /\ list = IF job.mine /\ page.prompts # None THEN Replace(page.prompts, Head(job.todo)) ELSE page.prompts
  BY <1>1, <1>2, Updated
<1>4. p = IF job.mine THEN [page EXCEPT !.toast = None] ELSE page
  BY DEF Toasting, Plain
<1>5. p \in PageRecord /\ p.prompts = page.prompts /\ p.toast = (IF job.mine THEN None ELSE page.toast)
      /\ Status(p) = Status(page) /\ p.busy = page.busy
  <2> HIDE DEF p
  <2> QED BY <1>4 DEF PageOK, PageRecord, Status
<1>6. page' = IF job.kind = "favorite" THEN [p EXCEPT !.prompts = Update(job, Replace(@, Head(job.todo)))] ELSE p
  BY DEF UpdateFails
<1> HIDE DEF p
<1>7. page' = IF job.kind = "favorite" THEN [p EXCEPT !.prompts = list] ELSE p
  <2>1. [p EXCEPT !.prompts = Update(job, Replace(@, Head(job.todo)))] = [p EXCEPT !.prompts = list]
    BY <1>5
  <2> QED BY <1>6, <2>1
<1> HIDE DEF list
<1>8. /\ page' \in PageRecord /\ page'.prompts = (IF job.kind = "favorite" THEN list ELSE page.prompts)
      /\ Status(page') = Status(p) /\ page'.busy = p.busy /\ page'.toast = p.toast
  BY <1>3, <1>5, <1>7 DEF PageRecord, Status
<1>9. PageOK'
  BY <1>5, <1>8 DEF PageOK
<1> QED BY <1>1, <1>2, <1>3, <1>5, <1>8, <1>9

LEMMA DuplicateAnswerPage ==
  ASSUME PageOK, JobsOK, NEW s \in Slots, DuplicateAnswer(s)
  PROVE  /\ PageOK' /\ jobs[s] # None /\ jobs[s].row \in Row /\ jobs[s].row.id = Copy
         /\ page'.prompts = IF jobs[s].mine /\ page.prompts # None THEN <<jobs[s].row>> \o page.prompts
                            ELSE page.prompts
         /\ page'.toast = IF jobs[s].mine THEN None ELSE page.toast
         /\ Status(page') = Status(page) /\ page'.busy = page.busy
<1> DEFINE job == jobs[s]
           list == Update(job, <<job.row>> \o page.prompts)
           p == [page EXCEPT !.prompts = list]
<1>1. job # None /\ job \in Operation /\ WellFormed(job) /\ job.kind = "duplicate" /\ job.state = "ok"
  BY JobHere DEF DuplicateAnswer, Success
<1>2. job.row \in Row /\ job.row.id = Copy
  BY <1>1 DEF WellFormed, Answers, FolderKinds, Deletes
<1>3. list \in Seq(Row) \cup {None} /\ list = IF job.mine /\ page.prompts # None THEN <<job.row>> \o page.prompts ELSE page.prompts
  <2>1. page.prompts \in Seq(Row) \cup {None}
    BY DEF PageOK, PageRecord
  <2>2. page.prompts # None => <<job.row>> \o page.prompts \in Seq(Row)
    BY <1>2, <2>1, One, ConcatHas
  <2> QED BY <2>1, <2>2 DEF Update
<1>4. page' = Toasting(job, p, Plain)
  BY DEF DuplicateAnswer
<1> HIDE DEF list
<1>5. p \in PageRecord /\ p.prompts = list /\ p.toast = page.toast /\ Status(p) = Status(page) /\ p.busy = page.busy
  BY <1>3 DEF PageOK, PageRecord, Status
<1> HIDE DEF p
<1>6. page' = IF job.mine THEN [p EXCEPT !.toast = None] ELSE p
  BY <1>4 DEF Toasting, Plain
<1>7. /\ page' \in PageRecord /\ page'.prompts = p.prompts /\ Status(page') = Status(p) /\ page'.busy = p.busy
      /\ page'.toast = IF jobs[s].mine THEN None ELSE p.toast
  BY <1>5, <1>6 DEF PageRecord, Status
<1>8. PageOK'
  BY <1>5, <1>7 DEF PageOK
<1> QED BY <1>1, <1>2, <1>3, <1>5, <1>7, <1>8

(* What the answer to one request of a batch leaves of the list.            *)
BatchList(job) ==
  IF job.state = "ok" /\ job.kind # "delete" /\ job.mine /\ page.prompts # None
  THEN Replace(page.prompts, job.row) ELSE page.prompts

LEMMA BatchListIs ==
  ASSUME PageOK, NEW job \in Operation, WellFormed(job), job.kind \in Batches, NEW new \in Operation, new.mine = job.mine
  PROVE  LET p == IF job.state = "ok" /\ job.kind # "delete"
                  THEN [page EXCEPT !.prompts = Update(new, Replace(@, job.row))] ELSE page
         IN  /\ p \in PageRecord /\ p.prompts = BatchList(job) /\ p.toast = page.toast
             /\ Status(p) = Status(page) /\ p.busy = page.busy
             /\ job.state = "ok" /\ job.kind # "delete" => job.row \in Row /\ job.row.id = Head(job.todo).id
<1> DEFINE list == Update(new, Replace(page.prompts, job.row))
           p == IF job.state = "ok" /\ job.kind # "delete"
                THEN [page EXCEPT !.prompts = Update(new, Replace(@, job.row))] ELSE page
<1>1. job.state = "ok" /\ job.kind # "delete" => job.row \in Row /\ job.row.id = Head(job.todo).id
  BY DEF WellFormed, Answers, Batches, FolderKinds, Deletes
<1>2. CASE job.state = "ok" /\ job.kind # "delete"
  <2>1. list \in Seq(Row) \cup {None} /\ list = BatchList(job)
    BY <1>1, <1>2, Updated DEF BatchList
  <2>2. p = [page EXCEPT !.prompts = list]
    BY <1>2 DEF PageOK, PageRecord
  <2> HIDE DEF list, p
  <2>3. p \in PageRecord /\ p.prompts = BatchList(job) /\ p.toast = page.toast /\ Status(p) = Status(page) /\ p.busy = page.busy
    BY <2>1, <2>2 DEF PageOK, PageRecord, Status
  <2> QED BY <1>1, <2>3 DEF p
<1>3. CASE ~(job.state = "ok" /\ job.kind # "delete")
  BY <1>3 DEF BatchList, PageOK
<1> QED BY <1>2, <1>3

LEMMA BatchAdvancesPage ==
  ASSUME PageOK, JobsOK, NEW s \in Slots, BatchAdvances(s)
  PROVE  /\ PageOK' /\ page'.prompts = BatchList(jobs[s]) /\ page'.toast = page.toast
         /\ Status(page') = Status(page) /\ page'.busy = page.busy
         /\ jobs[s].state = "ok" /\ jobs[s].kind # "delete" =>
              jobs[s].row \in Row /\ jobs[s].row.id = Head(jobs[s].todo).id
<1>1. jobs[s] \in Operation /\ WellFormed(jobs[s]) /\ jobs[s].kind \in Batches
  BY BatchKeeps
<1>2. page' = IF jobs[s].state = "ok" /\ jobs[s].kind # "delete"
              THEN [page EXCEPT !.prompts = Update(jobs[s], Replace(@, jobs[s].row))] ELSE page
  BY DEF BatchAdvances
<1>3. /\ page' \in PageRecord /\ page'.prompts = BatchList(jobs[s]) /\ page'.toast = page.toast
      /\ Status(page') = Status(page) /\ page'.busy = page.busy
      /\ jobs[s].state = "ok" /\ jobs[s].kind # "delete" =>
              jobs[s].row \in Row /\ jobs[s].row.id = Head(jobs[s].todo).id
  BY <1>1, <1>2, BatchListIs
<1> QED BY <1>3 DEF PageOK

LEMMA BatchEndsPage ==
  ASSUME PageOK, JobsOK, NEW s \in Slots, BatchEnds(s)
  PROVE  LET job == jobs[s]
             new == Advance(job)
         IN  /\ PageOK' /\ job \in Operation /\ WellFormed(job) /\ job.kind \in Batches
             /\ page'.prompts = IF job.kind = "delete" /\ new.failed # <<>> /\ job.mine /\ page.prompts # None
                                THEN new.failed \o page.prompts ELSE BatchList(job)
             /\ page'.toast = IF ~job.mine THEN page.toast
                              ELSE IF job.kind = "batch"
                              THEN IF new.done = <<>> THEN None ELSE [kind |-> "undoMove", targets |-> new.done]
                              ELSE IF new.failed = <<>> THEN page.toast ELSE None
             /\ Status(page') = Status(page)
             /\ page'.busy = IF job.kind = "batch" /\ job.mine THEN FALSE ELSE page.busy
             /\ job.state = "ok" /\ job.kind # "delete" => job.row \in Row /\ job.row.id = Head(job.todo).id
<1> DEFINE job == jobs[s]
           new == Advance(job)
           p == IF job.state = "ok" /\ new.kind # "delete"
                THEN [page EXCEPT !.prompts = Update(new, Replace(@, job.row))] ELSE page
<1>1. job # None /\ job \in Operation /\ WellFormed(job) /\ job.kind \in Batches
  BY JobHere DEF BatchEnds
<1>2. new \in Operation /\ new.kind = job.kind /\ new.mine = job.mine
  BY <1>1, AdvancedJob
<1>3. new.done \in Seq(Row) /\ new.failed \in Seq(Row) /\ IdsOf(new.failed) \subseteq AllIds
  BY <1>2, OperationIs, ListRows
<1>4. page' = CASE new.kind = "batch" ->
                           Toasting(new, IF new.mine THEN BatchResult(p, new) ELSE p,
                                    IF new.done = <<>> THEN Plain ELSE [kind |-> "undoMove", targets |-> new.done])
                [] new.kind # "batch" /\ new.failed = <<>> -> p
                [] new.kind = "undoBatch" /\ new.failed # <<>> -> Toasting(new, p, Plain)
                [] new.kind = "delete" /\ new.failed # <<>> ->
                     Toasting(new, [p EXCEPT !.prompts = Update(new, new.failed \o @)], Plain)
  BY DEF BatchEnds
<1> HIDE DEF new
<1>5. /\ p \in PageRecord /\ p.prompts = BatchList(job) /\ p.toast = page.toast
      /\ Status(p) = Status(page) /\ p.busy = page.busy
      /\ job.state = "ok" /\ job.kind # "delete" => job.row \in Row /\ job.row.id = Head(job.todo).id
  BY <1>1, <1>2, BatchListIs
<1> HIDE DEF p
<1>6. CASE ~job.mine
  <2>1. page' = p \/ page' = [p EXCEPT !.prompts = Update(new, new.failed \o @)]
    <3>1. \A q, toast : Toasting(new, q, toast) = q
      BY <1>2, <1>6 DEF Toasting
    <3>2. CASE job.kind = "batch"
      <4>1. page' = Toasting(new, IF new.mine THEN BatchResult(p, new) ELSE p,
                             IF new.done = <<>> THEN Plain ELSE [kind |-> "undoMove", targets |-> new.done])
        BY <1>2, <1>4, <3>2
      <4>2. ~new.mine
        BY <1>2, <1>6
      <4> QED BY <4>1, <4>2, Zenon DEF Toasting
    <3>3. CASE job.kind # "batch" /\ new.failed = <<>>
      BY <1>2, <1>4, <3>3
    <3>4. CASE job.kind # "batch" /\ new.failed # <<>>
      <4>1. job.kind \in {"undoBatch", "delete"}
        BY <1>1, <3>4 DEF Batches
      <4>2. CASE job.kind = "undoBatch"
        <5>1. page' = Toasting(new, p, Plain)
          BY <1>2, <1>4, <3>4, <4>2
        <5> QED BY <3>1, <5>1, Zenon
      <4>3. CASE job.kind = "delete"
        <5>1. page' = Toasting(new, [p EXCEPT !.prompts = Update(new, new.failed \o @)], Plain)
          BY <1>2, <1>4, <3>4, <4>3
        <5> QED BY <3>1, <5>1, Zenon
      <4> QED BY <4>1, <4>2, <4>3
    <3> QED BY <3>2, <3>3, <3>4
  <2>2. Update(new, new.failed \o p.prompts) = page.prompts
    BY <1>2, <1>6 DEF Update
  <2>3. BatchList(job) = page.prompts
    BY <1>6 DEF BatchList
  <2>4. page' \in PageRecord /\ page'.prompts = page.prompts /\ page'.toast = page.toast /\ Status(page') = Status(page) /\ page'.busy = page.busy
    BY <1>5, <2>1, <2>2, <2>3 DEF PageRecord, Status
  <2>5. PageOK'
    BY <2>4 DEF PageOK
  <2> QED BY <1>1, <1>5, <1>6, <2>3, <2>4, <2>5 DEF new
<1>7. CASE job.mine /\ job.kind = "batch"
  <2> DEFINE toast == IF new.done = <<>> THEN None ELSE [kind |-> "undoMove", targets |-> new.done]
  <2>1. toast \in Toast \cup {None} /\ (toast # None => toast.targets # <<>>)
    BY <1>3 DEF Toast
  <2> DEFINE q == BatchResult(p, new)
  <2>2. page' = [q EXCEPT !.toast = toast]
    <3>1. page' = Toasting(new, IF new.mine THEN BatchResult(p, new) ELSE p, toast)
      BY <1>2, <1>4, <1>7 DEF Plain
    <3>2. new.mine
      BY <1>2, <1>7
    <3> QED BY <3>1, <3>2, Zenon DEF Toasting
  <2>5. q \in PageRecord /\ q.prompts = p.prompts /\ Status(q) = Status(p) /\ q.busy = FALSE
    BY <1>3, <1>5 DEF PageRecord, Status, BatchResult
  <2> HIDE DEF toast, q
  <2>3. /\ page' \in PageRecord /\ page'.prompts = p.prompts /\ page'.toast = toast
        /\ Status(page') = Status(p) /\ page'.busy = FALSE
    BY <2>1, <2>2, <2>5 DEF PageRecord, Status
  <2>4. PageOK'
    BY <2>1, <2>3 DEF PageOK
  <2> QED BY <1>1, <1>5, <1>7, <2>3, <2>4 DEF new, toast
<1>8. CASE job.mine /\ job.kind # "batch" /\ new.failed = <<>>
  <2>1. page' = p
    BY <1>2, <1>4, <1>8
  <2>2. PageOK'
    BY <1>5, <2>1 DEF PageOK
  <2> QED BY <1>1, <1>5, <1>8, <2>1, <2>2 DEF new
<1>9. CASE job.mine /\ job.kind = "undoBatch" /\ new.failed # <<>>
  <2>1. page' = [p EXCEPT !.toast = None]
    BY <1>2, <1>4, <1>9 DEF Toasting, Plain
  <2>2. page' \in PageRecord /\ page'.prompts = p.prompts /\ page'.toast = None /\ Status(page') = Status(p) /\ page'.busy = p.busy
    BY <1>5, <2>1 DEF PageRecord, Status
  <2>3. PageOK'
    BY <2>2 DEF PageOK
  <2> QED BY <1>1, <1>5, <1>9, <2>2, <2>3 DEF new
<1>10. CASE job.mine /\ job.kind = "delete" /\ new.failed # <<>>
  <2> DEFINE list == Update(new, new.failed \o p.prompts)
             q == [p EXCEPT !.prompts = list]
  <2>1. BatchList(job) = page.prompts
    BY <1>10 DEF BatchList
  <2>2. page.prompts \in Seq(Row) \cup {None}
    BY DEF PageOK, PageRecord
  <2>3. page.prompts # None => new.failed \o page.prompts \in Seq(Row)
    BY <1>3, <2>2, ConcatHas
  <2>4. list \in Seq(Row) \cup {None}
        /\ list = IF page.prompts # None THEN new.failed \o page.prompts ELSE page.prompts
    BY <1>2, <1>5, <1>10, <2>1, <2>2, <2>3 DEF Update
  <2>5. page' = Toasting(new, [p EXCEPT !.prompts = Update(new, new.failed \o @)], Plain)
    BY <1>2, <1>4, <1>10
  <2>6. q = [p EXCEPT !.prompts = Update(new, new.failed \o @)]
    BY <1>5 DEF PageRecord
  <2> HIDE DEF list
  <2>7. q \in PageRecord /\ q.prompts = list /\ q.toast = p.toast /\ Status(q) = Status(p) /\ q.busy = p.busy
    BY <1>5, <2>4 DEF PageRecord, Status
  <2> HIDE DEF q
  <2>8. page' = [q EXCEPT !.toast = None]
    BY <1>2, <1>10, <2>5, <2>6 DEF Toasting, Plain
  <2>9. page' \in PageRecord /\ page'.prompts = list /\ page'.toast = None /\ Status(page') = Status(p) /\ page'.busy = p.busy
    BY <2>7, <2>8 DEF PageRecord, Status
  <2>10. PageOK'
    BY <2>9 DEF PageOK
  <2> QED BY <1>1, <1>5, <1>10, <2>1, <2>4, <2>9, <2>10 DEF new
<1> QED BY <1>1, <1>6, <1>7, <1>8, <1>9, <1>10 DEF Batches

LEMMA NewPageIs ==
  /\ NewPage \in PageRecord /\ NewPage.prompts = None /\ NewPage.toast = None /\ NewPage.busy = FALSE
  /\ Status(NewPage) = <<TRUE, TRUE, FALSE>>
BY DEF NewPage, PageRecord, Status

LEMMA FolderFailsPage ==
  ASSUME PageOK, NEW s \in Slots, FolderFails(s)
  PROVE  /\ PageOK' /\ page'.prompts = page.prompts /\ Status(page') = Status(page) /\ page'.busy = page.busy
         /\ page'.toast = IF jobs[s].mine THEN None ELSE page.toast
<1>1. page' = IF jobs[s].mine THEN [page EXCEPT !.toast = None] ELSE page
  BY DEF FolderFails, Toasting, Plain
<1>2. page' \in PageRecord /\ page'.prompts = page.prompts /\ Status(page') = Status(page) /\ page'.busy = page.busy
      /\ page'.toast = IF jobs[s].mine THEN None ELSE page.toast
  BY <1>1 DEF PageOK, PageRecord, Status
<1> QED BY <1>2 DEF PageOK

LEMMA FolderDonePage ==
  ASSUME PageOK, JobsOK, NEW s \in Slots, FolderDone(s)
  PROVE  /\ PageOK'
         /\ jobs[s] \in Operation /\ jobs[s].kind \in FolderKinds /\ jobs[s].state = "read"
         /\ page.mounted => /\ page'.prompts = page.prompts /\ Status(page') = Status(page) /\ page'.busy = page.busy
                            /\ page'.toast = IF jobs[s].mine THEN None ELSE page.toast
         /\ ~page.mounted => /\ page'.prompts = None /\ page'.toast = None /\ page'.busy = FALSE
                             /\ Status(page') = <<TRUE, TRUE, FALSE>>
<1> DEFINE job == jobs[s]
           there == IF job.value.to = None THEN "unfiled" ELSE job.value.to
           old == IF page.mounted THEN page ELSE NewPage
           p == [old EXCEPT !.at = there]
<1>1. job # None /\ job.state = "read" /\ job \in Operation /\ WellFormed(job)
  BY JobHere DEF FolderDone
<1>2. job.kind \in FolderKinds
  BY <1>1 DEF WellFormed
<1>3. job.value.to \in MoveChoices
  BY <1>1, <1>2 DEF WellFormed
<1>4. there \in {"all", "favorites", "unfiled"} \cup Folders
  BY <1>3 DEF MoveChoices
<1>5. page' = Toasting(job, p, Plain)
  BY DEF FolderDone
<1>6. old \in PageRecord
  BY NewPageIs DEF PageOK
<1> HIDE DEF there, old
<1>7. /\ p \in PageRecord /\ p.prompts = old.prompts /\ Status(p) = Status(old) /\ p.busy = old.busy /\ p.toast = old.toast
  BY <1>4, <1>6 DEF PageRecord, Status
<1> HIDE DEF p
<1>8. page' = IF job.mine THEN [p EXCEPT !.toast = None] ELSE p
  BY <1>5 DEF Toasting, Plain
<1>9. /\ page' \in PageRecord /\ page'.prompts = old.prompts /\ Status(page') = Status(old) /\ page'.busy = old.busy
      /\ page'.toast = IF job.mine THEN None ELSE old.toast
  BY <1>7, <1>8 DEF PageRecord, Status
<1>10. CASE page.mounted
  <2>1. old = page
    BY <1>10 DEF old
  <2>2. PageOK'
    BY <1>9, <2>1 DEF PageOK
  <2> QED BY <1>1, <1>2, <1>9, <1>10, <2>1, <2>2
<1>11. CASE ~page.mounted
  <2>1. old = NewPage
    BY <1>11 DEF old
  <2>2. page'.toast = None
    BY <1>9, <2>1, NewPageIs
  <2>3. PageOK'
    BY <1>9, <2>2 DEF PageOK
  <2> QED BY <1>1, <1>2, <1>9, <1>11, <2>1, <2>2, <2>3, NewPageIs
<1> QED BY <1>10, <1>11

Awaited == page.loading \/ \E s \in Slots : Waits(jobs[s]) /\ jobs[s].mine

LEMMA ReadDonePage ==
  ASSUME PageOK, DataOK, ReadDone
  PROVE  LET ok == data.read.state = "ok"
             rows == Shown(data.read.rows)
         IN  /\ PageOK' /\ page'.toast = page.toast /\ page'.busy = page.busy
             /\ ~Awaited => page' = page
             /\ Awaited => Status(page') = <<page.mounted, FALSE, ~ok>>
             /\ Awaited /\ ok => page'.prompts = AsList(rows)
             /\ ~(Awaited /\ ok) => page'.prompts = page.prompts
             /\ rows \in SUBSET Row /\ \A a, b \in rows : a.id = b.id => a = b
<1> DEFINE ok == data.read.state = "ok"
           rows == Shown(data.read.rows)
           list == AsList(rows)
<1>1. rows \in SUBSET Row /\ \A a, b \in rows : a.id = b.id => a = b
  BY DEF DataOK, DataRecord, ReadRecord, Shown
<1>2. page' = IF ~Awaited THEN page
              ELSE IF ok THEN [page EXCEPT !.loading = FALSE, !.error = FALSE, !.prompts = list]
              ELSE [page EXCEPT !.loading = FALSE, !.error = TRUE]
  BY DEF ReadDone, Awaited
<1> HIDE DEF rows
<1>3. list \in Seq(Row)
  BY <1>1, AsListHas
<1> HIDE DEF list
<1>4. /\ page' \in PageRecord /\ page'.toast = page.toast /\ page'.busy = page.busy
      /\ ~Awaited => page' = page
      /\ Awaited => Status(page') = <<page.mounted, FALSE, ~ok>>
      /\ Awaited /\ ok => page'.prompts = list
      /\ ~(Awaited /\ ok) => page'.prompts = page.prompts
  <2>1. CASE ~Awaited
    BY <1>2, <2>1 DEF PageOK
  <2>2. CASE Awaited /\ ok
    <3>1. page' = [page EXCEPT !.loading = FALSE, !.error = FALSE, !.prompts = list]
      BY <1>2, <2>2
    <3> QED BY <1>3, <2>2, <3>1 DEF PageOK, PageRecord, Status
  <2>3. CASE Awaited /\ ~ok
    <3>1. page' = [page EXCEPT !.loading = FALSE, !.error = TRUE]
      BY <1>2, <2>3
    <3> QED BY <2>3, <3>1 DEF PageOK, PageRecord, Status
  <2> QED BY <2>1, <2>2, <2>3
<1>5. PageOK'
  BY <1>4 DEF PageOK
<1> QED BY <1>1, <1>4, <1>5 DEF rows, list

LEMMA RemoveManyPage ==
  ASSUME PageOK, NEW p \in PageRecord, page.prompts # None, NEW targets \in Seq(Row), targets # <<>>, RemoveMany(p, targets),
         p.prompts = page.prompts, Status(p) = Status(page), p.busy = page.busy
  PROVE  /\ PageOK' /\ page'.prompts = Only(page.prompts, IdsOf(page.prompts) \ IdsOf(targets))
         /\ page'.toast = [kind |-> "undoDelete", targets |-> targets] /\ page'.toast # None
         /\ page'.toast.kind = "undoDelete" /\ page'.toast.targets = targets
         /\ Status(page') = Status(page) /\ page'.busy = page.busy
<1> DEFINE toast == [kind |-> "undoDelete", targets |-> targets]
           list == Only(page.prompts, IdsOf(page.prompts) \ IdsOf(targets))
<1>1. toast \in Toast /\ toast # None /\ toast.targets = targets /\ toast.kind = "undoDelete"
  <2>1. toast \in Toast
    BY DEF Toast
  <2> QED BY <2>1, NotNone
<1>2. list \in Seq(Row)
  BY ShownRows, OnlyKeeps
<1>3. page' = [p EXCEPT !.prompts = list, !.toast = toast]
  BY DEF RemoveMany, PageRecord
<1> HIDE DEF toast, list
<1>4. page' \in PageRecord /\ page'.prompts = list /\ page'.toast = toast /\ Status(page') = Status(p) /\ page'.busy = p.busy
  BY <1>1, <1>2, <1>3 DEF PageRecord, Status
<1>5. PageOK'
  BY <1>1, <1>4 DEF PageOK
<1> QED BY <1>1, <1>4, <1>5 DEF toast, list

LEMMA RemovePage ==
  ASSUME PageOK, NEW row \in Visible, Remove(row)
  PROVE  /\ RemoveMany(page, <<row>>) /\ page.prompts # None /\ row \in RowsOf(page.prompts)
         /\ row \in Row /\ <<row>> \in Seq(Row) /\ <<row>> # <<>> /\ page \in PageRecord
<1>1. page.prompts # None /\ RemoveMany(page, <<row>>)
  BY DEF Remove, PromptMenu, RowShown, Loaded
<1>2. row \in RowsOf(page.prompts) /\ row \in Row
  BY <1>1, ShownRows
<1> QED BY <1>1, <1>2, One DEF PageOK

LEMMA DeleteSelectedPage ==
  ASSUME PageOK, DeleteSelected
  PROVE  \E p \in PageRecord :
           /\ RemoveMany(p, SelectedPrompts) /\ page.prompts # None
           /\ SelectedPrompts \in Seq(Row) /\ SelectedPrompts # <<>>
           /\ p.prompts = page.prompts /\ Status(p) = Status(page) /\ p.busy = page.busy
<1> DEFINE p == [page EXCEPT !.selected = {}]
<1>1. page.prompts # None /\ RemoveMany(p, SelectedPrompts) /\ SelectedPrompts # <<>>
  BY DEF DeleteSelected, BatchForm, Loaded
<1>2. p \in PageRecord /\ p.prompts = page.prompts /\ Status(p) = Status(page) /\ p.busy = page.busy
  BY DEF PageOK, PageRecord, Status
<1> QED BY <1>1, <1>2, ShownRows

(* What the user changes on the page without an operation of its own.       *)
LEMMA TogglePage ==
  ASSUME PageOK, NEW row \in Visible, ToggleFavorite(row)
  PROVE  LET new == [row EXCEPT !.favorite = ~@]
         IN  /\ PageOK' /\ new \in Row /\ new.id = row.id /\ row \in Row /\ row \in RowsOf(page.prompts)
             /\ page.mounted /\ page.prompts # None /\ ~page.error
             /\ page'.prompts = Replace(page.prompts, new)
             /\ page'.toast = page.toast /\ Status(page') = Status(page) /\ page'.busy = page.busy
<1> DEFINE new == [row EXCEPT !.favorite = ~@]
<1>1. page.mounted /\ page.prompts # None /\ ~page.error
  BY DEF ToggleFavorite, Star, RowShown, Loaded
<1>2. row \in Row /\ row \in RowsOf(page.prompts) /\ page.prompts \in Seq(Row)
  BY <1>1, ShownRows
<1>3. new \in Row /\ new.id = row.id
  BY <1>2 DEF Row
<1>4. page' = [page EXCEPT !.prompts = Replace(@, new)]
  BY DEF ToggleFavorite
<1> HIDE DEF new
<1>5. Replace(page.prompts, new) \in Seq(Row)
  BY <1>2, <1>3, ReplaceHas
<1>6. /\ page' \in PageRecord /\ page'.prompts = Replace(page.prompts, new)
      /\ page'.toast = page.toast /\ Status(page') = Status(page) /\ page'.busy = page.busy
  BY <1>4, <1>5 DEF PageOK, PageRecord, Status
<1>7. PageOK'
  BY <1>6 DEF PageOK
<1> QED BY <1>1, <1>2, <1>3, <1>6, <1>7 DEF new

(* The view and the selection.                                              *)
Looks ==
  \/ Loaded /\ \E row \in Visible : ToggleSelected(row)
  \/ SelectVisible \/ ClearSelection
  \/ \E at \in Links : ChangeView(at)

LEMMA LooksPage ==
  ASSUME PageOK, DataOK, Looks
  PROVE  /\ PageOK' /\ page'.prompts = page.prompts /\ page'.toast = page.toast
         /\ Status(page') = Status(page) /\ page'.busy = page.busy
         /\ UNCHANGED <<server, data, pendingDelete, jobs, unread, tainted, silent, undone, before>>
<1>1. ASSUME NEW selected \in SUBSET AllIds, page' = [page EXCEPT !.selected = selected]
      PROVE  /\ page' \in PageRecord /\ page'.prompts = page.prompts /\ page'.toast = page.toast
             /\ Status(page') = Status(page) /\ page'.busy = page.busy
  BY <1>1 DEF PageOK, PageRecord, Status
<1>2. page.selected \subseteq AllIds
  BY DEF PageOK, PageRecord
<1>3. ASSUME page' \in PageRecord, page'.toast = page.toast PROVE PageOK'
  BY <1>3 DEF PageOK
<1>4. ASSUME Loaded, NEW row \in Visible, ToggleSelected(row)
      PROVE  /\ page' \in PageRecord /\ page'.prompts = page.prompts /\ page'.toast = page.toast
             /\ Status(page') = Status(page) /\ page'.busy = page.busy
             /\ UNCHANGED <<server, data, pendingDelete, jobs, unread, tainted, silent, undone, before>>
  <2> DEFINE new == IF row.id \in page.selected THEN page.selected \ {row.id} ELSE page.selected \cup {row.id}
  <2>1. row.id \in AllIds
    BY <1>4, ShownRows, RowIds DEF Loaded
  <2>2. new \in SUBSET AllIds
    BY <1>2, <2>1
  <2>3. page' = [page EXCEPT !.selected = new]
    BY <1>4 DEF ToggleSelected
  <2> HIDE DEF new
  <2> QED BY <1>1, <1>4, <2>2, <2>3 DEF ToggleSelected
<1>5. CASE SelectVisible
  <2> DEFINE ids == {row.id : row \in Visible}
             new == IF ids \subseteq page.selected THEN page.selected \ ids ELSE page.selected \cup ids
  <2>1. ids \subseteq AllIds
    BY <1>5, ShownRows, RowIds DEF SelectVisible, SelectionBar, Loaded
  <2>2. new \in SUBSET AllIds
    BY <1>2, <2>1
  <2>3. page' = [page EXCEPT !.selected = new]
    BY <1>5 DEF SelectVisible
  <2> HIDE DEF new
  <2>4. UNCHANGED <<server, data, pendingDelete, jobs, unread, tainted, silent, undone, before>>
    BY <1>5 DEF SelectVisible
  <2> QED BY <1>1, <1>3, <2>2, <2>3, <2>4
<1>6. CASE ClearSelection
  <2>1. page' = [page EXCEPT !.selected = {}] /\ {} \in SUBSET AllIds
    BY <1>6 DEF ClearSelection
  <2>2. UNCHANGED <<server, data, pendingDelete, jobs, unread, tainted, silent, undone, before>>
    BY <1>6 DEF ClearSelection
  <2> QED BY <1>1, <1>3, <2>1, <2>2
<1>7. ASSUME NEW at \in Links, ChangeView(at)
      PROVE  /\ page' \in PageRecord /\ page'.prompts = page.prompts /\ page'.toast = page.toast
             /\ Status(page') = Status(page) /\ page'.busy = page.busy
             /\ UNCHANGED <<server, data, pendingDelete, jobs, unread, tainted, silent, undone, before>>
  <2>1. FoldersInUse \subseteq Folders \cup {None}
    BY DEF FoldersInUse, DataOK, DataRecord, Row
  <2>2. at \in {"all", "favorites", "unfiled"} \cup Folders
    BY <2>1 DEF Links
  <2>3. page' = [page EXCEPT !.at = at]
    BY <1>7 DEF ChangeView
  <2> QED BY <1>7, <2>2, <2>3 DEF ChangeView, PageOK, PageRecord, Status
<1> QED BY <1>3, <1>4, <1>5, <1>6, <1>7 DEF Looks

LEMMA LeavePage ==
  ASSUME Leave
  PROVE  /\ PageOK' /\ page'.prompts = None /\ page'.toast = None /\ page'.busy = FALSE
         /\ Status(page') = <<FALSE, FALSE, FALSE>>
<1>1. page' = [NewPage EXCEPT !.mounted = FALSE, !.loading = FALSE]
  BY DEF Leave
<1>2. /\ page' \in PageRecord /\ page'.prompts = None /\ page'.toast = None /\ page'.busy = FALSE
      /\ Status(page') = <<FALSE, FALSE, FALSE>>
  <2> DEFINE new == NewPage
  <2>1. new \in PageRecord /\ new.prompts = None /\ new.toast = None /\ new.busy = FALSE /\ Status(new) = <<TRUE, TRUE, FALSE>>
    BY NewPageIs
  <2>2. page' = [new EXCEPT !.mounted = FALSE, !.loading = FALSE]
    BY <1>1
  <2> HIDE DEF new
  <2> QED BY <2>1, <2>2 DEF PageRecord, Status
<1> QED BY <1>2 DEF PageOK

LEMMA PageTypes ==
  ASSUME Types, Next
  PROVE  PageOK'
<1>1. JobsOK /\ PageOK /\ DataOK
  BY DEF Types
<1>2. ASSUME UNCHANGED page PROVE PageOK'
  BY <1>1, <1>2 DEF PageOK
<1>3. ASSUME page' = [page EXCEPT !.toast = None] PROVE PageOK'
  <2>1. page' \in PageRecord /\ page'.toast = None
    BY <1>1, <1>3 DEF PageOK, PageRecord
  <2> QED BY <2>1 DEF PageOK
<1>4. CASE Reading \/ LoseRead
  BY <1>1, <1>2, <1>4, ReadDonePage DEF Reading, ServeRead, ReadAgain, LoseRead
<1>5. ASSUME NEW s \in Slots, Serve(s) \/ Lose(s) PROVE PageOK'
  BY <1>2, <1>5 DEF Serve, Lose
<1>6. ASSUME NEW s \in Slots, Answer(s) PROVE PageOK'
  <2>1. CASE UpdateAnswer(s)
    BY <1>1, <2>1, UpdateAnswerPage
  <2>2. CASE UpdateFails(s)
    BY <1>1, <2>2, UpdateFailsPage
  <2>3. CASE DuplicateAnswer(s)
    BY <1>1, <2>3, DuplicateAnswerPage
  <2>4. CASE BatchAdvances(s)
    BY <1>1, <2>4, BatchAdvancesPage
  <2>5. CASE BatchEnds(s)
    BY <1>1, <2>5, BatchEndsPage
  <2>6. CASE FolderAnswer(s) \/ FlushEnds(s)
    BY <1>2, <2>6 DEF FolderAnswer, FlushEnds
  <2>7. CASE FolderFails(s)
    BY <1>1, <2>7, FolderFailsPage
  <2>8. CASE FolderDone(s)
    BY <1>1, <2>8, FolderDonePage
  <2> QED BY <1>6, <2>1, <2>2, <2>3, <2>4, <2>5, <2>6, <2>7, <2>8 DEF Answer
<1>7. ASSUME Loaded, NEW row \in Visible, Operate(row) PROVE PageOK'
  <2>1. CASE ToggleFavorite(row)
    BY <1>1, <2>1, TogglePage
  <2>2. CASE Remove(row)
    BY <1>1, <2>2, RemovePage, RemoveManyPage
  <2>3. CASE ToggleSelected(row)
    BY <1>1, <1>7, <2>3, LooksPage DEF Looks
  <2>4. CASE Duplicate(row) \/ (\E name \in Names : Rename(row, name)) \/ \E folder \in MoveChoices : Move(row, folder)
    BY <1>2, <2>4 DEF Duplicate, Rename, Move
  <2> QED BY <1>7, <2>1, <2>2, <2>3, <2>4 DEF Operate
<1>8. CASE Batch
  <2>1. CASE SelectVisible \/ ClearSelection
    BY <1>1, <2>1, LooksPage DEF Looks
  <2>2. CASE DeleteSelected
    BY <1>1, <2>2, DeleteSelectedPage, RemoveManyPage
  <2>3. CASE UndoMove
    BY <1>3, <2>3 DEF UndoMove
  <2>4. ASSUME NEW folder \in MoveChoices, MoveSelected(folder) PROVE PageOK'
    <3>1. page' = [page EXCEPT !.busy = TRUE]
      BY <2>4 DEF MoveSelected
    <3> QED BY <1>1, <3>1 DEF PageOK, PageRecord
  <2> QED BY <1>8, <2>1, <2>2, <2>3, <2>4 DEF Batch
<1>9. CASE (\E folder \in RenameChoices : RenameFolder(folder)) \/ RemoveFolder \/ DeleteTimer \/ PageHide
  BY <1>2, <1>9 DEF RenameFolder, RemoveFolder, DeleteTimer, PageHide
<1>10. CASE UndoDelete
  <2> DEFINE list == IF page.prompts = None THEN None ELSE page.toast.targets \o page.prompts
  <2>1. page' = [page EXCEPT !.toast = None, !.prompts = list]
    BY <1>1, <1>10 DEF UndoDelete, PageOK, PageRecord
  <2>2. list \in Seq(Row) \cup {None}
    BY <1>1, <1>10, ToastIs, ConcatHas DEF UndoDelete, PageOK, PageRecord
  <2> HIDE DEF list
  <2>3. page' \in PageRecord /\ page'.toast = None
    BY <1>1, <2>1, <2>2 DEF PageOK, PageRecord
  <2> QED BY <2>3 DEF PageOK
<1>11. CASE ToastExpires
  BY <1>3, <1>11 DEF ToastExpires
<1>12. CASE \E at \in Links : ChangeView(at)
  BY <1>1, <1>12, LooksPage DEF Looks
<1>13. CASE Leave
  BY <1>13, LeavePage
<1>14. CASE Return
  BY <1>14, NewPageIs DEF Return, PageOK
<1>15. CASE TryAgain
  <2>1. page' = [page EXCEPT !.loading = TRUE]
    BY <1>15 DEF TryAgain
  <2> QED BY <1>1, <2>1 DEF PageOK, PageRecord
<1> QED BY <1>4, <1>5, <1>6, <1>7, <1>8, <1>9, <1>10, <1>11, <1>12, <1>13, <1>14, <1>15 DEF Next

-----------------------------------------------------------------------------
(* The shared read *)

LEMMA IdleIs ==
  LET sent == [Idle EXCEPT !.state = "sent"]
  IN  /\ Idle \in ReadRecord /\ Idle.state = "no" /\ Idle.rows = {}
      /\ sent \in ReadRecord /\ sent.state = "sent" /\ sent.rows = {} /\ sent.invalidated = FALSE
BY DEF Idle, ReadRecord, ReadStates

LEMMA LoadIs ==
  ASSUME DataOK
  PROVE  /\ Load \in DataRecord /\ \A a, b \in Load.read.rows : a.id = b.id => a = b
         /\ Load.failed = data.failed
         /\ data.read.state = "no" => Load.read.state = "sent"
         /\ data.read.state # "no" => Load = data
<1> DEFINE sent == [Idle EXCEPT !.state = "sent"]
<1>1. sent \in ReadRecord /\ sent.state = "sent" /\ sent.rows = {}
  BY IdleIs
<1>2. Load = IF data.read.state = "no" THEN [data EXCEPT !.read = sent] ELSE data
  BY DEF Load
<1> HIDE DEF sent
<1>3. CASE data.read.state = "no"
  <2>1. Load = [data EXCEPT !.read = sent]
    BY <1>2, <1>3
  <2>2. Load \in DataRecord /\ Load.read = sent /\ Load.failed = data.failed
    BY <1>1, <2>1 DEF DataOK, DataRecord
  <2> QED BY <1>1, <1>3, <2>2
<1>4. CASE data.read.state # "no"
  BY <1>2, <1>4 DEF DataOK
<1> QED BY <1>3, <1>4

LEMMA RefreshIs ==
  ASSUME DataOK
  PROVE  /\ Refresh \in DataRecord /\ \A a, b \in Refresh.read.rows : a.id = b.id => a = b
         /\ Refresh.failed = data.failed
         /\ data.read.state = "no" => Refresh.read.state = "sent"
         /\ data.read.state # "no" => Refresh.read.state = data.read.state /\ Refresh.read.invalidated
<1>1. CASE data.read.state = "no"
  BY <1>1, LoadIs DEF Refresh
<1>2. CASE data.read.state # "no"
  <2> DEFINE read == [data.read EXCEPT !.invalidated = TRUE]
  <2>1. read \in ReadRecord /\ read.state = data.read.state /\ read.rows = data.read.rows /\ read.invalidated
    BY DEF DataOK, DataRecord, ReadRecord
  <2>2. Refresh = [data EXCEPT !.read = read]
    BY <1>2 DEF Refresh, DataOK, DataRecord
  <2> HIDE DEF read
  <2>3. Refresh \in DataRecord /\ Refresh.read = read /\ Refresh.failed = data.failed
    BY <2>1, <2>2 DEF DataOK, DataRecord
  <2> QED BY <1>2, <2>1, <2>3 DEF DataOK
<1> QED BY <1>1, <1>2

LEMMA ServeReadIs ==
  ASSUME DataOK, ServerOK, ServeRead
  PROVE  DataOK' /\ data'.read.state = "ok" /\ data'.read.rows = Rows
<1> DEFINE read == [data.read EXCEPT !.state = "ok", !.rows = Rows]
<1>1. data \in DataRecord /\ data.read \in ReadRecord
  BY DEF DataOK, DataRecord
<1>2. Rows \subseteq Row /\ \A a, b \in Rows : a.id = b.id => a = b
  BY DEF Rows, ServerOK, AllIds
<1>3. read \in ReadRecord /\ read.state = "ok" /\ read.rows = Rows
  BY <1>1, <1>2 DEF ReadRecord, ReadStates
<1>4. data' = [data EXCEPT !.read = read]
  BY <1>1 DEF ServeRead, DataRecord, ReadRecord
<1> HIDE DEF read
<1>5. data' \in DataRecord /\ data'.read = read
  BY <1>1, <1>3, <1>4 DEF DataRecord
<1> QED BY <1>2, <1>3, <1>5 DEF DataOK

LEMMA LoseReadIs ==
  ASSUME DataOK, LoseRead
  PROVE  DataOK' /\ data'.read.state = "failed"
<1> DEFINE read == [data.read EXCEPT !.state = "failed", !.rows = {}]
<1>1. data \in DataRecord /\ data.read \in ReadRecord
  BY DEF DataOK, DataRecord
<1>2. read \in ReadRecord /\ read.state = "failed" /\ read.rows = {}
  BY <1>1 DEF ReadRecord, ReadStates
<1>3. data' = [data EXCEPT !.read = read]
  BY <1>1 DEF LoseRead, DataRecord, ReadRecord
<1> HIDE DEF read
<1>4. data' \in DataRecord /\ data'.read = read
  BY <1>1, <1>2, <1>3 DEF DataRecord
<1> QED BY <1>2, <1>4 DEF DataOK

LEMMA ReadAgainIs ==
  ASSUME DataOK, ReadAgain
  PROVE  DataOK' /\ data'.read.state = "sent"
<1> DEFINE sent == [Idle EXCEPT !.state = "sent"]
<1>1. sent \in ReadRecord /\ sent.state = "sent" /\ sent.rows = {}
  BY IdleIs
<1>2. data' = [data EXCEPT !.read = sent]
  BY DEF ReadAgain
<1> HIDE DEF sent
<1>3. data' \in DataRecord /\ data'.read = sent
  BY <1>1, <1>2 DEF DataOK, DataRecord
<1> QED BY <1>1, <1>3 DEF DataOK

LEMMA ReadDoneIs ==
  ASSUME DataOK, ReadDone
  PROVE  DataOK' /\ data'.read.state = "no" /\ data'.failed = (data.read.state # "ok")
<1>1. data' = [read |-> Idle, failed |-> ~(data.read.state = "ok"),
               rows |-> IF data.read.state = "ok" THEN data.read.rows ELSE data.rows]
  BY DEF ReadDone
<1>2. data.read.rows \subseteq Row /\ data.rows \subseteq Row
  BY DEF DataOK, DataRecord, ReadRecord
<1>3. data' \in DataRecord /\ data'.read = Idle /\ data'.failed = (data.read.state # "ok")
  BY <1>1, <1>2, IdleIs DEF DataRecord
<1> QED BY <1>3, IdleIs DEF DataOK

LEMMA DataSteps ==
  ASSUME Next
  PROVE  \/ UNCHANGED <<data, unread>>
         \/ data' = Load /\ unread' = unread
         \/ data' = Refresh
         \/ Reading \/ LoseRead
<1>1. ASSUME NEW s \in Slots, Answer(s) PROVE UNCHANGED <<data, unread>> \/ data' = Refresh
  BY <1>1 DEF Answer, UpdateAnswer, UpdateFails, DuplicateAnswer, BatchAdvances, BatchEnds, FolderAnswer, FolderFails,
              FolderDone, FlushEnds, NotifyLibraryChanged, Quiet
<1>2. ASSUME NEW s \in Slots, Serve(s) \/ Lose(s) PROVE UNCHANGED <<data, unread>>
  BY <1>2 DEF Serve, Lose
<1>3. ASSUME NEW row \in Visible, Operate(row) PROVE UNCHANGED <<data, unread>>
  BY <1>3 DEF Operate, ToggleFavorite, Duplicate, Remove, RemoveMany, ToggleSelected, Rename, Move
<1>4. CASE Batch
  BY <1>4 DEF Batch, SelectVisible, ClearSelection, DeleteSelected, RemoveMany, UndoMove, MoveSelected
<1>5. CASE (\E folder \in RenameChoices : RenameFolder(folder)) \/ RemoveFolder \/ DeleteTimer \/ PageHide
  BY <1>5 DEF RenameFolder, RemoveFolder, DeleteTimer, PageHide
<1>6. CASE UndoDelete \/ ToastExpires \/ \E at \in Links : ChangeView(at)
  BY <1>6 DEF UndoDelete, ToastExpires, ChangeView
<1>7. CASE Leave \/ Return \/ TryAgain
  BY <1>7 DEF Leave, Return, TryAgain
<1> QED BY <1>1, <1>2, <1>3, <1>4, <1>5, <1>6, <1>7 DEF Next

LEMMA DataTypes ==
  ASSUME Types, Next
  PROVE  DataOK'
<1>1. DataOK /\ ServerOK
  BY DEF Types
<1>2. CASE data' = data
  BY <1>1, <1>2 DEF DataOK
<1>3. CASE data' = Load
  BY <1>1, <1>3, LoadIs DEF DataOK
<1>4. CASE data' = Refresh
  BY <1>1, <1>4, RefreshIs DEF DataOK
<1>5. CASE Reading \/ LoseRead
  BY <1>1, <1>5, ServeReadIs, LoseReadIs, ReadAgainIs, ReadDoneIs DEF Reading
<1> QED BY <1>2, <1>3, <1>4, <1>5, DataSteps

LEMMA FreshKept ==
  ASSUME Types, Fresh, Next
  PROVE  Fresh'
<1>1. DataOK /\ ServerOK
  BY DEF Types
<1>2. CASE UNCHANGED <<data, unread>>
  BY <1>2 DEF Fresh
<1>3. CASE data' = Load /\ unread' = unread
  BY <1>1, <1>3, LoadIs DEF Fresh
<1>4. CASE data' = Refresh
  BY <1>1, <1>4, RefreshIs DEF Fresh
<1>5. CASE ServeRead
  BY <1>1, <1>5, ServeReadIs DEF Fresh, ServeRead
<1>6. CASE LoseRead
  BY <1>1, <1>6, LoseReadIs DEF Fresh
<1>7. CASE ReadAgain
  BY <1>1, <1>7, ReadAgainIs DEF Fresh
<1>8. CASE ReadDone
  BY <1>1, <1>8, ReadDoneIs DEF Fresh, ReadDone
<1> QED BY <1>2, <1>3, <1>4, <1>5, <1>6, <1>7, <1>8, DataSteps DEF Reading

LEMMA ServerTypes ==
  ASSUME Types, Next
  PROVE  ServerOK' /\ (server' = server \/ \E s \in Slots : Serve(s))
<1>1. ASSUME NEW s \in Slots, Answer(s) \/ Lose(s) PROVE server' = server
  BY <1>1 DEF Answer, UpdateAnswer, UpdateFails, DuplicateAnswer, BatchAdvances, BatchEnds, FolderAnswer, FolderFails,
              FolderDone, FlushEnds, Lose
<1>2. ASSUME NEW row \in Visible, Operate(row) PROVE server' = server
  BY <1>2 DEF Operate, ToggleFavorite, Duplicate, Remove, RemoveMany, ToggleSelected, Rename, Move
<1>3. ASSUME Batch PROVE server' = server
  BY <1>3 DEF Batch, SelectVisible, ClearSelection, DeleteSelected, RemoveMany, UndoMove, MoveSelected
<1>4. ASSUME (\E folder \in RenameChoices : RenameFolder(folder)) \/ RemoveFolder \/ DeleteTimer \/ PageHide
      PROVE  server' = server
  BY <1>4 DEF RenameFolder, RemoveFolder, DeleteTimer, PageHide
<1>5. ASSUME UndoDelete \/ ToastExpires \/ \E at \in Links : ChangeView(at) PROVE server' = server
  BY <1>5 DEF UndoDelete, ToastExpires, ChangeView
<1>6. ASSUME Leave \/ Return \/ TryAgain \/ Reading \/ LoseRead PROVE server' = server
  BY <1>6 DEF Leave, Return, TryAgain, Reading, ServeRead, ReadAgain, ReadDone, LoseRead
<1>7. server' = server \/ \E s \in Slots : Serve(s)
  BY <1>1, <1>2, <1>3, <1>4, <1>5, <1>6 DEF Next
<1>8. ServerOK'
  BY <1>7, ServeKeeps DEF Types, ServerOK
<1> QED BY <1>7, <1>8

-----------------------------------------------------------------------------
(* The Undo window and the deletions taken back                            *)

LEMMA RemovalOf ==
  ASSUME PageOK, JobsOK, pendingDelete \in Seq(Row),
         (Loaded /\ \E row \in Visible : Remove(row)) \/ DeleteSelected
  PROVE  \E p \in PageRecord, targets \in Seq(Row) :
           /\ RemoveMany(p, targets) /\ targets # <<>> /\ page.prompts # None /\ page.mounted
           /\ p.prompts = page.prompts /\ Status(p) = Status(page) /\ p.busy = page.busy
           /\ Distinct(page.prompts) => Distinct(targets)
           /\ RowsOf(targets) \subseteq RowsOf(page.prompts)
<1>1. CASE Loaded /\ \E row \in Visible : Remove(row)
  <2>1. PICK row \in Visible : Remove(row)
    BY <1>1
  <2>2. /\ RemoveMany(page, <<row>>) /\ page.prompts # None /\ row \in RowsOf(page.prompts)
        /\ row \in Row /\ page \in PageRecord /\ <<row>> \in Seq(Row) /\ <<row>> # <<>>
    BY <2>1, RemovePage
  <2>3. RowsOf(<<row>>) = {row} /\ Distinct(<<row>>)
    BY <2>2, One
  <2> DEFINE targets == <<row>>
  <2>4. RowsOf(targets) \subseteq RowsOf(page.prompts)
    BY <2>2, <2>3
  <2>5. page.mounted
    BY <1>1 DEF Loaded
  <2> HIDE DEF targets
  <2>6. RemoveMany(page, targets) /\ targets \in Seq(Row) /\ targets # <<>> /\ Distinct(targets)
    BY <2>2, <2>3 DEF targets
  <2> QED BY <2>2, <2>4, <2>5, <2>6
<1>2. CASE DeleteSelected
  <2>1. PICK p \in PageRecord :
           /\ RemoveMany(p, SelectedPrompts) /\ page.prompts # None
           /\ SelectedPrompts \in Seq(Row) /\ SelectedPrompts # <<>>
           /\ p.prompts = page.prompts /\ Status(p) = Status(page) /\ p.busy = page.busy
    BY <1>2, DeleteSelectedPage
  <2>2. page.mounted
    BY <1>2 DEF DeleteSelected, BatchForm, Loaded
  <2>3. page.prompts \in Seq(Row) /\ RowsOf(SelectedPrompts) \subseteq RowsOf(page.prompts)
    BY <2>1, ShownRows
  <2>4. Distinct(page.prompts) => Distinct(SelectedPrompts)
    BY <2>3, OnlyKeeps DEF SelectedPrompts
  <2> QED BY <2>1, <2>2, <2>3, <2>4
<1> QED BY <1>1, <1>2

(* Every step keeps the Undo window and the deletions taken back, empties   *)
(* the window, takes a deletion back or removes prompts.                    *)
LEMMA WindowSteps ==
  ASSUME Next
  PROVE  \/ UNCHANGED <<pendingDelete, undone>>
         \/ pendingDelete' = <<>> /\ undone' = undone
         \/ UndoDelete
         \/ (Loaded /\ \E row \in Visible : Remove(row)) \/ DeleteSelected
<1> DEFINE Done == \/ UNCHANGED <<pendingDelete, undone>>
                   \/ pendingDelete' = <<>> /\ undone' = undone
<1>1. ASSUME NEW s \in Slots, Serve(s) \/ Lose(s) \/ Answer(s) PROVE Done
  BY <1>1 DEF Serve, Lose, Answer, UpdateAnswer, UpdateFails, DuplicateAnswer, BatchAdvances, BatchEnds, FolderAnswer,
              FolderFails, FolderDone, FlushEnds
<1>2. ASSUME NEW row \in Visible, Operate(row) PROVE Done \/ Remove(row)
  BY <1>2 DEF Operate, ToggleFavorite, Duplicate, ToggleSelected, Rename, Move
<1>3. ASSUME Batch PROVE Done \/ DeleteSelected
  BY <1>3 DEF Batch, SelectVisible, ClearSelection, UndoMove, MoveSelected
<1>4. ASSUME (\E folder \in RenameChoices : RenameFolder(folder)) \/ RemoveFolder \/ DeleteTimer \/ PageHide PROVE Done
  BY <1>4 DEF RenameFolder, RemoveFolder, DeleteTimer, PageHide, Flush
<1>5. ASSUME ToastExpires \/ \E at \in Links : ChangeView(at) PROVE Done
  BY <1>5 DEF ToastExpires, ChangeView
<1>6. ASSUME Leave \/ Return \/ TryAgain \/ Reading \/ LoseRead PROVE Done
  BY <1>6 DEF Leave, Return, TryAgain, Reading, ServeRead, ReadAgain, ReadDone, LoseRead
<1> QED BY <1>1, <1>2, <1>3, <1>4, <1>5, <1>6 DEF Next

LEMMA TypesKept ==
  ASSUME Types, Next
  PROVE  Types'
<1>1. ServerOK' /\ DataOK' /\ PageOK' /\ JobsOK'
  BY ServerTypes, DataTypes, PageTypes, JobTypes
<1>2. PageOK /\ JobsOK /\ pendingDelete \in Seq(Row) /\ undone \subseteq AllIds
  BY DEF Types
<1>3. pendingDelete' \in Seq(Row) /\ undone' \subseteq AllIds
  <2>1. CASE (pendingDelete' = <<>> /\ undone' = undone) \/ UNCHANGED <<pendingDelete, undone>>
    BY <1>2, <2>1, Nothing
  <2>2. CASE UndoDelete
    <3>1. IdsOf(pendingDelete) \subseteq AllIds
      BY <1>2, ListRows
    <3>2. pendingDelete' = <<>> /\ undone' \subseteq undone \cup IdsOf(pendingDelete)
      BY <2>2 DEF UndoDelete, StopTimer
    <3> QED BY <1>2, <3>1, <3>2, Nothing
  <2>3. CASE (Loaded /\ \E row \in Visible : Remove(row)) \/ DeleteSelected
    <3>1. PICK p \in PageRecord, targets \in Seq(Row) : RemoveMany(p, targets)
      BY <1>2, <2>3, RemovalOf
    <3>2. pendingDelete' = targets /\ undone' \subseteq undone
      BY <3>1 DEF RemoveMany
    <3> QED BY <1>2, <3>2
  <2> QED BY <2>1, <2>2, <2>3, WindowSteps
<1> QED BY <1>1, <1>3 DEF Types

-----------------------------------------------------------------------------
(* How an operation goes on: it keeps its kind and its page, and touches    *)
(* no prompt it did not touch before.                                       *)
Onward(old, new) ==
  new # None =>
    /\ old # None /\ new.kind = old.kind /\ new.mine = old.mine
    /\ Touches(new) \subseteq Touches(old) /\ IdsOf(new.todo) \subseteq IdsOf(old.todo)

LEMMA NoTouch == Touches(None) = {}
BY DEF Touches

LEMMA TouchesIs ==
  ASSUME NEW job \in Operation
  PROVE  /\ job.kind \in FolderKinds => Touches(job) = AllIds
         /\ job.kind \notin FolderKinds =>
              Touches(job) = IdsOf(job.todo) \cup IdsOf(job.done) \cup IdsOf(job.failed)
                               \cup (IF job.kind = "duplicate" THEN {Copy} ELSE {})
         /\ Touches(job) \subseteq AllIds
         /\ IdsOf(job.todo) \subseteq AllIds
         /\ WellFormed(job) /\ job.kind \notin FolderKinds =>
              Head(job.todo) \in Row /\ Head(job.todo).id \in Touches(job) /\ Head(job.todo).id \in IdsOf(job.todo)
         /\ WellFormed(job) => Touches(job) # {}
<1>1. job # None /\ job.todo \in Seq(Row) /\ job.done \in Seq(Row) /\ job.failed \in Seq(Row)
  BY OperationIs
<1>2. job.kind \in FolderKinds => Touches(job) = AllIds
  BY <1>1 DEF Touches, FolderJob, FolderKinds, AllIds
<1>3. job.kind \notin FolderKinds =>
              Touches(job) = IdsOf(job.todo) \cup IdsOf(job.done) \cup IdsOf(job.failed)
                               \cup (IF job.kind = "duplicate" THEN {Copy} ELSE {})
  BY <1>1 DEF Touches, FolderJob, FolderKinds
<1>4. IdsOf(job.todo) \subseteq AllIds /\ IdsOf(job.done) \subseteq AllIds /\ IdsOf(job.failed) \subseteq AllIds
  BY <1>1, ListRows
<1>5. Copy \in AllIds
  BY DEF AllIds
<1>6. WellFormed(job) /\ job.kind \notin FolderKinds =>
              Head(job.todo) \in Row /\ Head(job.todo).id \in IdsOf(job.todo)
  <2> SUFFICES ASSUME WellFormed(job), job.kind \notin FolderKinds
               PROVE  Head(job.todo) \in Row /\ Head(job.todo).id \in IdsOf(job.todo)
    OBVIOUS
  <2>1. job.todo # <<>>
    BY DEF WellFormed
  <2> QED BY <1>1, <2>1, HeadAndTail
<1> QED BY <1>2, <1>3, <1>4, <1>5, <1>6

LEMMA SameTouches ==
  ASSUME NEW job \in Operation, NEW new \in Operation,
         new.kind = job.kind, new.todo = job.todo, new.done = job.done, new.failed = job.failed
  PROVE  Touches(new) = Touches(job)
BY OperationIs DEF Touches, FolderJob

LEMMA AdvanceTouches ==
  ASSUME NEW job \in Operation, WellFormed(job), job.kind \in Batches
  PROVE  Touches(Advance(job)) = Touches(job) /\ IdsOf(Advance(job).todo) \subseteq IdsOf(job.todo)
<1> DEFINE new == Advance(job)
           head == Head(job.todo)
<1>1. /\ new \in Operation /\ new.kind = job.kind /\ new.todo = Tail(job.todo)
      /\ new.done = IF job.state = "ok" THEN Append(job.done, head) ELSE job.done
      /\ new.failed = IF job.state = "ok" THEN job.failed ELSE Append(job.failed, head)
  BY AdvancedJob
<1>2. job.todo # <<>> /\ job.kind \notin FolderKinds
  BY DEF WellFormed, Batches, FolderKinds
<1>3. job.todo \in Seq(Row) /\ job.done \in Seq(Row) /\ job.failed \in Seq(Row)
  BY OperationIs
<1>4. head \in Row /\ IdsOf(job.todo) = {head.id} \cup IdsOf(Tail(job.todo))
  BY <1>2, <1>3, HeadAndTail
<1> HIDE DEF new, head
<1>5. IdsOf(Append(job.done, head)) = IdsOf(job.done) \cup {head.id}
      /\ IdsOf(Append(job.failed, head)) = IdsOf(job.failed) \cup {head.id}
  BY <1>3, <1>4, AppendHas
<1>6. IdsOf(new.todo) \cup IdsOf(new.done) \cup IdsOf(new.failed)
        = IdsOf(job.todo) \cup IdsOf(job.done) \cup IdsOf(job.failed)
  BY <1>1, <1>4, <1>5
<1>7. Touches(new) = Touches(job)
  BY <1>1, <1>2, <1>6, TouchesIs
<1> QED BY <1>1, <1>4, <1>7 DEF new

LEMMA StepOf ==
  ASSUME Types, NEW s \in Slots, Serve(s) \/ Lose(s) \/ Answer(s)
  PROVE  /\ jobs[s] \in Operation /\ WellFormed(jobs[s])
         /\ \A t \in Slots : t # s => jobs'[t] = jobs[t]
         /\ Onward(jobs[s], jobs'[s])
         /\ jobs'[s] # None /\ Waits(jobs'[s]) => FolderAnswer(s)
<1>1. JobsOK /\ jobs \in [Slots -> Operation \cup {None}]
  BY DEF Types, JobsOK
<1>2. jobs[s] # None
  BY DEF Serve, Lose, Answer, UpdateAnswer, UpdateFails, DuplicateAnswer, BatchAdvances, BatchEnds, FolderAnswer,
         FolderFails, FolderDone, FlushEnds, Success, Failure
<1>3. jobs[s] \in Operation /\ WellFormed(jobs[s])
  BY <1>1, <1>2, JobHere
<1>4. ASSUME NEW new \in Operation, jobs' = [jobs EXCEPT ![s] = new], new.state # "reading",
             new.kind = jobs[s].kind, new.todo = jobs[s].todo, new.done = jobs[s].done, new.failed = jobs[s].failed,
             new.mine = jobs[s].mine
      PROVE  /\ \A t \in Slots : t # s => jobs'[t] = jobs[t]
             /\ Onward(jobs[s], jobs'[s]) /\ ~Waits(jobs'[s])
  <2>1. Touches(new) = Touches(jobs[s])
    BY <1>3, <1>4, SameTouches
  <2>2. jobs'[s] = new /\ \A t \in Slots : t # s => jobs'[t] = jobs[t]
    BY <1>1, <1>4
  <2> QED BY <1>2, <1>4, <2>1, <2>2 DEF Onward, Waits
<1>5. ASSUME Finish(s) PROVE jobs'[s] = None /\ \A t \in Slots : t # s => jobs'[t] = jobs[t]
  BY <1>1, <1>5 DEF Finish
<1>6. CASE Serve(s)
  <2>1. PICK row \in Row \cup {None}, state \in {"ok", "failed"} :
          \/ jobs' = [jobs EXCEPT ![s] = [jobs[s] EXCEPT !.state = "ok", !.row = row]]
          \/ jobs' = [jobs EXCEPT ![s] = [jobs[s] EXCEPT !.state = "failed"]]
    BY <1>6, ServeKeeps
  <2>2. CASE jobs' = [jobs EXCEPT ![s] = [jobs[s] EXCEPT !.state = "ok", !.row = row]]
    <3> DEFINE new == [jobs[s] EXCEPT !.state = "ok", !.row = row]
    <3>1. /\ new \in Operation /\ new.state # "reading" /\ new.kind = jobs[s].kind /\ new.todo = jobs[s].todo
          /\ new.done = jobs[s].done /\ new.failed = jobs[s].failed /\ new.mine = jobs[s].mine
      BY <1>3 DEF Operation
    <3> HIDE DEF new
    <3>2. jobs' = [jobs EXCEPT ![s] = new]
      BY <2>2 DEF new
    <3> QED BY <1>3, <1>4, <3>1, <3>2
  <2>3. CASE jobs' = [jobs EXCEPT ![s] = [jobs[s] EXCEPT !.state = "failed"]]
    <3> DEFINE new == [jobs[s] EXCEPT !.state = "failed"]
    <3>1. /\ new \in Operation /\ new.state # "reading" /\ new.kind = jobs[s].kind /\ new.todo = jobs[s].todo
          /\ new.done = jobs[s].done /\ new.failed = jobs[s].failed /\ new.mine = jobs[s].mine
      BY <1>3 DEF Operation
    <3> HIDE DEF new
    <3>2. jobs' = [jobs EXCEPT ![s] = new]
      BY <2>3 DEF new
    <3> QED BY <1>3, <1>4, <3>1, <3>2
  <2> QED BY <2>1, <2>2, <2>3
<1>7. CASE Lose(s)
  <2> DEFINE new == [jobs[s] EXCEPT !.state = "failed"]
  <2>1. jobs' = [jobs EXCEPT ![s] = new]
    BY <1>1, <1>7 DEF Lose
  <2>2. /\ new \in Operation /\ new.state # "reading" /\ new.kind = jobs[s].kind /\ new.todo = jobs[s].todo
        /\ new.done = jobs[s].done /\ new.failed = jobs[s].failed /\ new.mine = jobs[s].mine
    BY <1>3 DEF Operation
  <2> HIDE DEF new
  <2> QED BY <1>3, <1>4, <2>1, <2>2
<1>8. CASE UpdateAnswer(s) \/ UpdateFails(s) \/ DuplicateAnswer(s) \/ BatchEnds(s) \/ FolderFails(s) \/ FolderDone(s)
  <2>1. Finish(s)
    BY <1>8 DEF UpdateAnswer, UpdateFails, DuplicateAnswer, BatchEnds, FolderFails, FolderDone
  <2> QED BY <1>3, <1>5, <2>1 DEF Onward
<1>9. CASE BatchAdvances(s)
  <2>1. jobs' = [jobs EXCEPT ![s] = Advance(jobs[s])] /\ jobs[s].kind \in Batches
    BY <1>1, <1>9, BatchKeeps
  <2> DEFINE new == Advance(jobs[s])
  <2>2. new \in Operation /\ new.kind = jobs[s].kind /\ new.mine = jobs[s].mine /\ new.state = "sent"
    BY <1>3, <2>1, AdvancedJob
  <2>3. Touches(new) = Touches(jobs[s]) /\ IdsOf(new.todo) \subseteq IdsOf(jobs[s].todo)
    BY <1>3, <2>1, AdvanceTouches
  <2>4. jobs'[s] = new /\ \A t \in Slots : t # s => jobs'[t] = jobs[t]
    BY <1>1, <2>1
  <2> HIDE DEF new
  <2> QED BY <1>2, <1>3, <2>2, <2>3, <2>4 DEF Onward, Waits
<1>10. CASE FolderAnswer(s)
  <2> DEFINE new == [jobs[s] EXCEPT !.state = "reading"]
  <2>1. jobs' = [jobs EXCEPT ![s] = new]
    BY <1>1, <1>10 DEF FolderAnswer
  <2>2. /\ new \in Operation /\ new.kind = jobs[s].kind /\ new.todo = jobs[s].todo
        /\ new.done = jobs[s].done /\ new.failed = jobs[s].failed /\ new.mine = jobs[s].mine
    BY <1>3 DEF Operation
  <2> HIDE DEF new
  <2>3. Touches(new) = Touches(jobs[s])
    BY <1>3, <2>2, SameTouches
  <2>4. jobs'[s] = new /\ \A t \in Slots : t # s => jobs'[t] = jobs[t]
    BY <1>1, <2>1
  <2> QED BY <1>2, <1>3, <1>10, <2>2, <2>3, <2>4 DEF Onward
<1>11. CASE FlushEnds(s)
  <2>1. jobs[s].kind = "flush"
        /\ jobs' = [jobs EXCEPT ![s] = IF Len(jobs[s].todo) = 1 THEN None
                                       ELSE [jobs[s] EXCEPT !.todo = Tail(@), !.state = "sent"]]
    BY <1>11 DEF FlushEnds
  <2>2. CASE Len(jobs[s].todo) = 1
    <3>1. Finish(s)
      BY <2>1, <2>2 DEF Finish
    <3> QED BY <1>3, <1>5, <3>1 DEF Onward
  <2>3. CASE Len(jobs[s].todo) # 1
    <3> DEFINE new == [jobs[s] EXCEPT !.todo = Tail(@), !.state = "sent"]
    <3>1. /\ new \in Operation /\ new.kind = "flush" /\ new.todo = Tail(jobs[s].todo) /\ new.done = jobs[s].done
          /\ new.failed = jobs[s].failed /\ new.state = "sent" /\ new.mine = jobs[s].mine
      BY <1>3, <2>1, <2>3, FlushPops
    <3>2. jobs'[s] = new /\ \A t \in Slots : t # s => jobs'[t] = jobs[t]
      BY <1>1, <2>1, <2>3
    <3> HIDE DEF new
    <3>3. jobs[s].todo # <<>> /\ jobs[s].todo \in Seq(Row)
      BY <1>3, <2>1, OperationIs DEF WellFormed, FolderKinds
    <3>4. IdsOf(new.todo) \subseteq IdsOf(jobs[s].todo)
      BY <3>1, <3>3, HeadAndTail
    <3>5. Touches(new) \subseteq Touches(jobs[s])
      BY <1>3, <2>1, <3>1, <3>4, TouchesIs DEF FolderKinds
    <3> QED BY <1>2, <1>3, <2>1, <3>1, <3>2, <3>4, <3>5 DEF Onward, Waits
  <2> QED BY <2>2, <2>3
<1> QED BY <1>6, <1>7, <1>8, <1>9, <1>10, <1>11 DEF Answer

LEMMA ReadDoneOnward ==
  ASSUME Types, ReadDone
  PROVE  \A s \in Slots : Onward(jobs[s], jobs'[s]) /\ ~Waits(jobs'[s])
<1> SUFFICES ASSUME NEW s \in Slots PROVE Onward(jobs[s], jobs'[s]) /\ ~Waits(jobs'[s])
  OBVIOUS
<1>1. JobsOK
  BY DEF Types
<1>2. CASE Waits(jobs[s])
  <2> DEFINE new == [jobs[s] EXCEPT !.state = "read"]
  <2>1. jobs[s] \in Operation /\ jobs[s] # None
    BY <1>1, <1>2, JobHere DEF Waits
  <2>2. jobs'[s] = new
    BY <1>1, <1>2, ReadDoneJobs
  <2>3. /\ new \in Operation /\ new.kind = jobs[s].kind /\ new.todo = jobs[s].todo /\ new.state = "read"
        /\ new.done = jobs[s].done /\ new.failed = jobs[s].failed /\ new.mine = jobs[s].mine
    BY <2>1 DEF Operation
  <2> HIDE DEF new
  <2>4. Touches(new) = Touches(jobs[s])
    BY <2>1, <2>3, SameTouches
  <2> QED BY <2>1, <2>2, <2>3, <2>4 DEF Onward, Waits
<1>3. CASE ~Waits(jobs[s])
  <2>1. jobs'[s] = jobs[s]
    BY <1>1, <1>3, ReadDoneJobs
  <2> QED BY <1>3, <2>1 DEF Onward
<1> QED BY <1>2, <1>3

-----------------------------------------------------------------------------
(* How operations begin *)

(* The operation begins in a free slot.                                     *)
Entered(job) == \E s \in Slots : jobs[s] = None /\ jobs' = [jobs EXCEPT ![s] = job]

LEMMA EnteredIs ==
  ASSUME JobsOK, NEW job, Entered(job)
  PROVE  \E s \in Slots : jobs[s] = None /\ jobs'[s] = job /\ \A t \in Slots : t # s => jobs'[t] = jobs[t]
BY DEF Entered, JobsOK

LEMMA StartIs ==
  ASSUME NEW job, Start(job)
  PROVE  Entered(job) /\ tainted' = (tainted \/ Overlaps(job))
BY DEF Start, Entered

Plainly(job) == job \in Operation /\ WellFormed(job) /\ job.mine /\ job.kind \notin Deletes /\ Entered(job)

Deleting(job) ==
  /\ job \in Operation /\ WellFormed(job) /\ job.kind \in Deletes /\ job.todo = pendingDelete /\ pendingDelete # <<>>
  /\ Entered(job)

LEMMA DeleteJob ==
  ASSUME pendingDelete \in Seq(Row), pendingDelete # <<>>, Start(Job("delete", pendingDelete, None))
  PROVE  Deleting(Job("delete", pendingDelete, None)) /\ Job("delete", pendingDelete, None).mine
<1> DEFINE job == Job("delete", pendingDelete, None)
<1>1. job \in Operation /\ WellFormed(job)
  BY ListJob
<1>2. job.kind = "delete" /\ job.todo = pendingDelete /\ job.mine
  BY DEF Job
<1> HIDE DEF job
<1>3. Start(job)
  BY DEF job
<1>4. Deleting(job)
  BY <1>1, <1>2, <1>3, StartIs DEF Deleting, Deletes
<1> QED BY <1>2, <1>4 DEF job

LEMMA PlainJob ==
  ASSUME NEW kind \in Kinds \ Deletes, NEW todo, NEW value,
         Job(kind, todo, value) \in Operation /\ WellFormed(Job(kind, todo, value)), Start(Job(kind, todo, value))
  PROVE  Plainly(Job(kind, todo, value))
<1> DEFINE job == Job(kind, todo, value)
<1>1. job.kind = kind /\ job.mine
  BY DEF Job
<1>2. job \in Operation /\ WellFormed(job) /\ Entered(job)
  BY StartIs
<1> HIDE DEF job
<1>3. Plainly(job)
  BY <1>1, <1>2 DEF Plainly
<1> QED BY <1>3 DEF job

(* What a step makes of the operations under way.                           *)
LEMMA JobSteps ==
  ASSUME Types, Next
  PROVE  \/ jobs' = jobs
         \/ \E s \in Slots : Serve(s) \/ Lose(s) \/ Answer(s)
         \/ ReadDone
         \/ Leave
         \/ \E job : Plainly(job)
         \/ \E job : Deleting(job)
<1> DEFINE Done == jobs' = jobs \/ (\E job : Plainly(job)) \/ (\E job : Deleting(job))
<1>1. PageOK /\ JobsOK /\ pendingDelete \in Seq(Row)
  BY DEF Types
<1>2. {"favorite", "rename", "move", "duplicate", "batch", "undoBatch", "renameFolder", "removeFolder"} \subseteq Kinds \ Deletes
  BY DEF Kinds, Deletes
<1>3. ASSUME Loaded, NEW row \in Visible, Operate(row) PROVE Done
  <2>1. row \in Row
    BY <1>1, <1>3, ShownRows DEF Loaded
  <2>2. CASE ToggleFavorite(row)
    <3>1. Start(Job("favorite", <<row>>, ~row.favorite))
      BY <2>2 DEF ToggleFavorite
    <3>2. Plainly(Job("favorite", <<row>>, ~row.favorite))
      BY <1>2, <2>1, <3>1, RowJob, PlainJob
    <3> QED BY <3>2
  <2>3. CASE Duplicate(row)
    <3>1. Start(Job("duplicate", <<row>>, None))
      BY <2>3 DEF Duplicate
    <3>2. Plainly(Job("duplicate", <<row>>, None))
      BY <1>2, <2>1, <3>1, RowJob, PlainJob
    <3> QED BY <3>2
  <2>4. CASE Remove(row)
    <3>1. CommitEarlier
      BY <2>4 DEF Remove, RemoveMany
    <3> QED BY <1>1, <3>1, DeleteJob DEF CommitEarlier
  <2>5. CASE ToggleSelected(row)
    BY <2>5 DEF ToggleSelected
  <2>6. ASSUME NEW name \in Names, Rename(row, name) PROVE Done
    <3>1. Start(Job("rename", <<row>>, name))
      BY <2>6 DEF Rename
    <3>2. Plainly(Job("rename", <<row>>, name))
      BY <1>2, <2>1, <3>1, RowJob, PlainJob
    <3> QED BY <3>2
  <2>7. ASSUME NEW folder \in MoveChoices, Move(row, folder) PROVE Done
    <3>1. Start(Job("move", <<row>>, folder))
      BY <2>7 DEF Move
    <3>2. Plainly(Job("move", <<row>>, folder))
      BY <1>2, <2>1, <3>1, RowJob, PlainJob
    <3> QED BY <3>2
  <2> QED BY <1>3, <2>2, <2>3, <2>4, <2>5, <2>6, <2>7 DEF Operate
<1>4. ASSUME Batch PROVE Done
  <2>1. CASE SelectVisible \/ ClearSelection
    BY <2>1 DEF SelectVisible, ClearSelection
  <2>2. CASE DeleteSelected
    <3>1. CommitEarlier
      BY <2>2 DEF DeleteSelected, RemoveMany
    <3> QED BY <1>1, <3>1, DeleteJob DEF CommitEarlier
  <2>3. CASE UndoMove
    <3>1. page.toast # None /\ Start(Job("undoBatch", page.toast.targets, None))
      BY <2>3 DEF UndoMove
    <3>2. Plainly(Job("undoBatch", page.toast.targets, None))
      BY <1>1, <1>2, <3>1, ToastIs, ListJob, PlainJob
    <3> QED BY <3>2
  <2>4. ASSUME NEW folder \in MoveChoices, MoveSelected(folder) PROVE Done
    <3>1. page.prompts # None /\ SelectedPrompts # <<>> /\ Start(Job("batch", SelectedPrompts, folder))
      BY <2>4 DEF MoveSelected, BatchForm, Loaded
    <3>2. Plainly(Job("batch", SelectedPrompts, folder))
      BY <1>1, <1>2, <3>1, ShownRows, ListJob, PlainJob
    <3> QED BY <3>2
  <2> QED BY <1>4, <2>1, <2>2, <2>3, <2>4 DEF Batch
<1>5. ASSUME NEW folder \in RenameChoices, RenameFolder(folder) PROVE Done
  <2>1. page.at \in Folders /\ folder \in MoveChoices /\ Start(Job("renameFolder", <<>>, [from |-> page.at, to |-> folder]))
    BY <1>5 DEF RenameFolder, FolderMenu, RenameChoices, MoveChoices
  <2>2. Plainly(Job("renameFolder", <<>>, [from |-> page.at, to |-> folder]))
    BY <1>2, <2>1, FolderJobIs, PlainJob DEF FolderKinds
  <2> QED BY <2>2
<1>6. ASSUME RemoveFolder PROVE Done
  <2>1. page.at \in Folders /\ None \in MoveChoices /\ Start(Job("removeFolder", <<>>, [from |-> page.at, to |-> None]))
    BY <1>6 DEF RemoveFolder, FolderMenu, MoveChoices
  <2>2. Plainly(Job("removeFolder", <<>>, [from |-> page.at, to |-> None]))
    BY <1>2, <2>1, FolderJobIs, PlainJob DEF FolderKinds
  <2> QED BY <2>2
<1>7. ASSUME DeleteTimer PROVE Done
  BY <1>1, <1>7, DeleteJob DEF DeleteTimer
<1>8. ASSUME PageHide PROVE Done
  <2>1. pendingDelete # <<>> /\ Start(Flushed)
    BY <1>8 DEF PageHide, Flush
  <2>2. Deleting(Flushed)
    BY <1>1, <2>1, FlushJob, StartIs DEF Deleting, Deletes
  <2> QED BY <2>2
<1>9. ASSUME UndoDelete \/ ToastExpires \/ Return \/ TryAgain \/ (\E at \in Links : ChangeView(at))
              \/ ServeRead \/ ReadAgain \/ LoseRead
      PROVE  Done
  BY <1>9 DEF UndoDelete, ToastExpires, Return, TryAgain, ChangeView, ServeRead, ReadAgain, LoseRead
<1> HIDE DEF Done
<1>10. Done \/ (\E s \in Slots : Serve(s) \/ Lose(s) \/ Answer(s)) \/ ReadDone \/ Leave
  BY <1>3, <1>4, <1>5, <1>6, <1>7, <1>8, <1>9 DEF Next, Reading
<1> QED BY <1>10 DEF Done

(* Prompts under deletion were inside their window or under deletion before. *)
LEMMA DeletesFrom ==
  ASSUME Types, Next, NEW s \in Slots, jobs'[s] # None, jobs'[s].kind \in Deletes
  PROVE  \/ /\ jobs[s] # None /\ jobs[s].kind \in Deletes
            /\ IdsOf(jobs'[s].todo) \subseteq IdsOf(jobs[s].todo)
         \/ IdsOf(jobs'[s].todo) = IdsOf(pendingDelete)
<1>1. JobsOK /\ pendingDelete \in Seq(Row)
  BY DEF Types
<1>2. CASE jobs' = jobs
  BY <1>2
<1>3. ASSUME Onward(jobs[s], jobs'[s]) \/ jobs'[s] = jobs[s]
      PROVE  /\ jobs[s] # None /\ jobs[s].kind \in Deletes
             /\ IdsOf(jobs'[s].todo) \subseteq IdsOf(jobs[s].todo)
  BY <1>3 DEF Onward
<1>4. ASSUME NEW t \in Slots, Serve(t) \/ Lose(t) \/ Answer(t)
      PROVE  Onward(jobs[s], jobs'[s]) \/ jobs'[s] = jobs[s]
  BY <1>4, StepOf
<1>5. CASE ReadDone
  BY <1>3, <1>5, ReadDoneOnward
<1>6. CASE Leave
  <2>1. PICK old \in [Slots -> Operation \cup {None}] :
              /\ \A t \in Slots : old[t] # None => WellFormed(old[t])
              /\ jobs' = Disowned(old)
              /\ \/ pendingDelete = <<>> /\ old = jobs
                 \/ /\ pendingDelete # <<>>
                    /\ \E t \in Slots : jobs[t] = None /\ old = [jobs EXCEPT ![t] = Flushed]
    BY <1>1, <1>6, LeaveJobs
  <2>2. jobs'[s] = IF old[s] = None THEN None ELSE [old[s] EXCEPT !.mine = FALSE]
    BY <2>1 DEF Disowned
  <2>3. old[s] # None /\ old[s] \in Operation /\ WellFormed(old[s]) /\ jobs'[s] = [old[s] EXCEPT !.mine = FALSE]
    BY <2>1, <2>2
  <2>4. jobs'[s].kind = old[s].kind /\ jobs'[s].todo = old[s].todo
    BY <2>3, DisownedJob
  <2>5. CASE old = jobs
    BY <2>3, <2>4, <2>5
  <2>6. ASSUME NEW t \in Slots, pendingDelete # <<>>, jobs[t] = None, old = [jobs EXCEPT ![t] = Flushed]
        PROVE  \/ jobs[s] # None /\ jobs[s] = old[s]
               \/ old[s].todo = pendingDelete
    BY <1>1, <2>3, <2>6, FlushJob DEF JobsOK
  <2> QED BY <2>1, <2>3, <2>4, <2>5, <2>6
<1>7. ASSUME NEW job, Plainly(job) PROVE jobs'[s] = jobs[s]
  BY <1>1, <1>7, EnteredIs DEF Plainly
<1>8. ASSUME NEW job, Deleting(job) PROVE jobs'[s] = jobs[s] \/ jobs'[s].todo = pendingDelete
  BY <1>1, <1>8, EnteredIs DEF Deleting
<1> QED BY <1>2, <1>3, <1>4, <1>5, <1>6, <1>7, <1>8, JobSteps

LEMMA UndoneSafeKept ==
  ASSUME Types, UndoneSafe, Next
  PROVE  UndoneSafe'
<1>1. PageOK /\ JobsOK /\ pendingDelete \in Seq(Row)
  BY DEF Types
<1>2. ASSUME NEW i \in undone, NEW s \in Slots, jobs'[s] # None, jobs'[s].kind \in Deletes
      PROVE  i \notin IdsOf(jobs'[s].todo)
  BY <1>2, DeletesFrom DEF UndoneSafe
<1>3. CASE UNCHANGED <<pendingDelete, undone>>
  BY <1>2, <1>3 DEF UndoneSafe
<1>4. CASE pendingDelete' = <<>> /\ undone' = undone
  BY <1>2, <1>4, Nothing DEF UndoneSafe
<1>5. CASE (Loaded /\ \E row \in Visible : Remove(row)) \/ DeleteSelected
  <2>1. PICK p \in PageRecord, targets \in Seq(Row) : RemoveMany(p, targets)
    BY <1>1, <1>5, RemovalOf
  <2>2. pendingDelete' = targets /\ undone' = undone \ IdsOf(targets)
    BY <2>1 DEF RemoveMany
  <2> QED BY <1>2, <2>2 DEF UndoneSafe
<1>6. CASE UndoDelete
  <2>1. jobs' = jobs /\ pendingDelete' = <<>>
        /\ undone' = undone \cup (IdsOf(pendingDelete) \ UNION {Touches(jobs[s]) : s \in Slots})
    BY <1>6 DEF UndoDelete, StopTimer
  <2>2. ASSUME NEW i \in undone', NEW s \in Slots, jobs[s] # None, jobs[s].kind \in Deletes
        PROVE  i \notin IdsOf(jobs[s].todo)
    <3>1. jobs[s] \in Operation /\ WellFormed(jobs[s])
      BY <1>1, <2>2, JobHere
    <3>2. IdsOf(jobs[s].todo) \subseteq Touches(jobs[s])
      BY <2>2, <3>1, TouchesIs DEF Deletes, FolderKinds
    <3>3. CASE i \in undone
      BY <2>2, <3>3 DEF UndoneSafe
    <3> QED BY <2>1, <3>2, <3>3
  <2> QED BY <2>1, <2>2, Nothing DEF UndoneSafe
<1> QED BY <1>3, <1>4, <1>5, <1>6, WindowSteps

-----------------------------------------------------------------------------
(* The page and its operations belong together *)

LEMMA AnswerPage ==
  ASSUME Types, NEW s \in Slots, Answer(s)
  PROVE  /\ pendingDelete' = pendingDelete
         /\ \/ page'.toast = page.toast \/ page'.toast = None
            \/ page'.toast # None /\ page'.toast.kind = "undoMove"
         /\ Status(page') = Status(page) \/ (FolderDone(s) /\ ~page.mounted /\ page'.mounted)
         /\ (page'.toast = page.toast /\ page'.prompts = page.prompts)
              \/ jobs[s].mine \/ (FolderDone(s) /\ ~page.mounted /\ page'.mounted)
         /\ page'.busy => page.busy /\ (jobs'[s] # None \/ jobs[s].kind # "batch" \/ ~jobs[s].mine)
<1>1. PageOK /\ JobsOK
  BY DEF Types
<1>2. pendingDelete' = pendingDelete
  BY DEF Answer, UpdateAnswer, UpdateFails, DuplicateAnswer, BatchAdvances, BatchEnds, FolderAnswer, FolderFails,
         FolderDone, FlushEnds
<1>3. CASE UpdateAnswer(s)
  <2>1. jobs[s].kind # "batch"
    BY <1>3 DEF UpdateAnswer, Success
  <2> QED BY <1>1, <1>2, <1>3, <2>1, UpdateAnswerPage
<1>4. CASE UpdateFails(s)
  <2>1. jobs[s].kind # "batch"
    BY <1>4 DEF UpdateFails, Failure
  <2> QED BY <1>1, <1>2, <1>4, <2>1, UpdateFailsPage
<1>5. CASE DuplicateAnswer(s)
  <2>1. jobs[s].kind # "batch"
    BY <1>5 DEF DuplicateAnswer, Success
  <2> QED BY <1>1, <1>2, <1>5, <2>1, DuplicateAnswerPage
<1>6. CASE BatchAdvances(s)
  <2>1. jobs'[s] = Advance(jobs[s]) /\ Advance(jobs[s]) \in Operation
    BY <1>1, <1>6, BatchKeeps, AdvancedJob DEF JobsOK
  <2>2. jobs'[s] # None
    BY <2>1, OperationIs
  <2>3. ~jobs[s].mine => BatchList(jobs[s]) = page.prompts
    BY DEF BatchList
  <2> QED BY <1>1, <1>2, <1>6, <2>2, <2>3, BatchAdvancesPage
<1>7. CASE BatchEnds(s)
  <2> DEFINE new == Advance(jobs[s])
             toast == [kind |-> "undoMove", targets |-> new.done]
  <2>1. /\ jobs[s] \in Operation
        /\ page'.prompts = IF jobs[s].kind = "delete" /\ new.failed # <<>> /\ jobs[s].mine /\ page.prompts # None
                                THEN new.failed \o page.prompts ELSE BatchList(jobs[s])
        /\ page'.toast = IF ~jobs[s].mine THEN page.toast
                              ELSE IF jobs[s].kind = "batch"
                              THEN IF new.done = <<>> THEN None ELSE [kind |-> "undoMove", targets |-> new.done]
                              ELSE IF new.failed = <<>> THEN page.toast ELSE None
        /\ Status(page') = Status(page)
        /\ page'.busy = IF jobs[s].kind = "batch" /\ jobs[s].mine THEN FALSE ELSE page.busy
    BY <1>1, <1>7, BatchEndsPage
  <2>2. ~jobs[s].mine => BatchList(jobs[s]) = page.prompts
    BY DEF BatchList
  <2>3. toast # None /\ toast.kind = "undoMove"
    <3>1. jobs[s] \in Operation /\ WellFormed(jobs[s]) /\ jobs[s].kind \in Batches
      BY <1>1, <1>7, BatchEndsPage
    <3>2. new \in Operation
      BY <3>1, AdvancedJob
    <3>3. new.done \in Seq(Row)
      BY <3>2, OperationIs
    <3> HIDE DEF new
    <3>4. toast \in Toast
      BY <3>3 DEF Toast
    <3> QED BY <3>4, NotNone
  <2> HIDE DEF new
  <2>4. jobs[s].mine \in BOOLEAN
    BY <2>1, OperationIs
  <2> QED BY <1>2, <2>1, <2>2, <2>3, <2>4
<1>8. CASE FolderAnswer(s) \/ FlushEnds(s)
  <2>1. page' = page /\ jobs[s].kind # "batch"
    BY <1>8 DEF FolderAnswer, FlushEnds, Success
  <2> QED BY <1>2, <2>1
<1>9. CASE FolderFails(s)
  <2>1. jobs[s].kind # "batch"
    BY <1>9 DEF FolderFails, Failure
  <2> QED BY <1>1, <1>2, <1>9, <2>1, FolderFailsPage
<1>10. CASE FolderDone(s)
  <2>1. jobs[s].kind # "batch" /\ jobs[s] \in Operation
    BY <1>1, <1>10, FolderDonePage DEF FolderKinds
  <2>2. jobs[s].mine \in BOOLEAN
    BY <2>1, OperationIs
  <2>3. ~page.mounted => page'.mounted
    BY <1>1, <1>10, FolderDonePage DEF Status
  <2>4. page.mounted \in BOOLEAN
    BY <1>1 DEF PageOK, PageRecord
  <2> QED BY <1>1, <1>2, <1>10, <2>1, <2>2, <2>3, <2>4, FolderDonePage
<1> QED BY <1>3, <1>4, <1>5, <1>6, <1>7, <1>8, <1>9, <1>10 DEF Answer

LEMMA StatusIs ==
  ASSUME NEW p, NEW q, Status(p) = Status(q)
  PROVE  p.mounted = q.mounted /\ p.loading = q.loading /\ p.error = q.error
BY DEF Status

(* A step that starts an operation or changes the page only.                *)
LEMMA OwnedStays ==
  ASSUME Types, Owned, page'.mounted, page.mounted,
         page'.busy => page.busy,
         \A s \in Slots : jobs[s] # None => jobs'[s] = jobs[s],
         \/ page'.toast = None
         \/ page'.toast = page.toast /\ pendingDelete' \in {pendingDelete, <<>>}
         \/ page'.toast.targets = pendingDelete'
  PROVE  Owned'
<1>1. BusyOwned'
  BY DEF Owned, BusyOwned
<1>2. GoneOwned'
  BY DEF GoneOwned
<1>3. ToastOwned'
  BY DEF Owned, ToastOwned
<1> QED BY <1>1, <1>2, <1>3 DEF Owned

LEMMA FreeIsFree ==
  ASSUME JobsOK, NEW job, Entered(job)
  PROVE  \A s \in Slots : jobs[s] # None => jobs'[s] = jobs[s]
BY EnteredIs

LEMMA OwnedKept ==
  ASSUME Types, Owned, Next
  PROVE  Owned'
<1>1. PageOK /\ JobsOK /\ DataOK /\ pendingDelete \in Seq(Row) /\ BusyOwned /\ GoneOwned /\ ToastOwned
  BY DEF Types, Owned
<1>2. ASSUME Status(page') = Status(page), page'.toast = page.toast, page'.busy = page.busy, pendingDelete' = pendingDelete,
             jobs' = jobs, page'.prompts = page.prompts
      PROVE  Owned'
  <2>1. page'.mounted = page.mounted /\ page'.loading = page.loading
    BY <1>2, StatusIs
  <2> QED BY <1>1, <1>2, <2>1 DEF Owned, BusyOwned, GoneOwned, ToastOwned
<1>3. ASSUME UNCHANGED <<page, pendingDelete, jobs>> PROVE Owned'
  BY <1>2, <1>3
<1>4. ASSUME NEW s \in Slots, Serve(s) \/ Lose(s) PROVE Owned'
  <2>1. page' = page /\ pendingDelete' = pendingDelete
    BY <1>4 DEF Serve, Lose
  <2>2. jobs[s] \in Operation /\ (\A t \in Slots : t # s => jobs'[t] = jobs[t]) /\ Onward(jobs[s], jobs'[s])
    BY <1>4, StepOf
  <2>3. jobs'[s] # None
    <3>1. CASE Serve(s)
      <4>1. PICK new : jobs' = [jobs EXCEPT ![s] = new] /\ new.kind = jobs[s].kind /\ new \in Operation
        <5>1. \/ \E row \in Row \cup {None} : jobs' = [jobs EXCEPT ![s] = [jobs[s] EXCEPT !.state = "ok", !.row = row]]
              \/ jobs' = [jobs EXCEPT ![s] = [jobs[s] EXCEPT !.state = "failed"]]
          BY <3>1, ServeKeeps
        <5>2. \A row \in Row \cup {None} : /\ [jobs[s] EXCEPT !.state = "ok", !.row = row] \in Operation
                                           /\ [jobs[s] EXCEPT !.state = "ok", !.row = row].kind = jobs[s].kind
          BY <2>2 DEF Operation
        <5>3. [jobs[s] EXCEPT !.state = "failed"] \in Operation /\ [jobs[s] EXCEPT !.state = "failed"].kind = jobs[s].kind
          BY <2>2 DEF Operation
        <5> QED BY <5>1, <5>2, <5>3
      <4> QED BY <1>1, <4>1, OperationIs DEF JobsOK
    <3>2. CASE Lose(s)
      <4>1. jobs'[s] = [jobs[s] EXCEPT !.state = "failed"]
        BY <1>1, <3>2 DEF Lose, JobsOK
      <4>2. jobs'[s] \in Operation
        BY <2>2, <4>1 DEF Operation
      <4> QED BY <4>2, OperationIs
    <3> QED BY <1>4, <3>1, <3>2
  <2>4. \A t \in Slots : (jobs'[t] # None <=> jobs[t] # None)
                         /\ (jobs[t] # None => jobs'[t].kind = jobs[t].kind /\ jobs'[t].mine = jobs[t].mine)
    BY <2>2, <2>3, OperationIs DEF Onward
  <2>5. BusyOwned'
    BY <1>1, <2>1, <2>4 DEF BusyOwned
  <2>6. GoneOwned'
    BY <1>1, <2>1, <2>4 DEF GoneOwned
  <2>7. ToastOwned'
    BY <1>1, <2>1 DEF ToastOwned
  <2> QED BY <2>5, <2>6, <2>7 DEF Owned
<1>5. ASSUME NEW s \in Slots, Answer(s) PROVE Owned'
  <2>1. /\ pendingDelete' = pendingDelete
        /\ \/ page'.toast = page.toast \/ page'.toast = None
           \/ page'.toast # None /\ page'.toast.kind = "undoMove"
        /\ Status(page') = Status(page) \/ (FolderDone(s) /\ ~page.mounted /\ page'.mounted)
        /\ (page'.toast = page.toast /\ page'.prompts = page.prompts)
             \/ jobs[s].mine \/ (FolderDone(s) /\ ~page.mounted /\ page'.mounted)
        /\ page'.busy => page.busy /\ (jobs'[s] # None \/ jobs[s].kind # "batch" \/ ~jobs[s].mine)
    BY <1>5, AnswerPage
  <2>2. jobs[s] \in Operation /\ (\A t \in Slots : t # s => jobs'[t] = jobs[t]) /\ Onward(jobs[s], jobs'[s])
    BY <1>5, StepOf
  <2>3. jobs[s] # None
    BY <2>2, OperationIs
  <2>4. BusyOwned'
    <3> SUFFICES ASSUME page'.busy PROVE \E t \in Slots : jobs'[t] # None /\ jobs'[t].kind = "batch" /\ jobs'[t].mine
      BY DEF BusyOwned
    <3>1. PICK t \in Slots : jobs[t] # None /\ jobs[t].kind = "batch" /\ jobs[t].mine
      BY <1>1, <2>1 DEF BusyOwned
    <3>2. jobs'[t] # None
      BY <2>1, <2>2, <3>1
    <3>3. jobs'[t].kind = "batch" /\ jobs'[t].mine
      BY <2>2, <3>1, <3>2 DEF Onward
    <3> QED BY <3>2, <3>3
  <2>5. GoneOwned'
    <3> SUFFICES ASSUME ~page'.mounted
                 PROVE  /\ page'.prompts = None /\ ~page'.loading /\ page'.toast = None /\ pendingDelete' = <<>>
                        /\ \A t \in Slots : jobs'[t] # None => ~jobs'[t].mine
      BY DEF GoneOwned
    <3>1. page'.mounted = page.mounted /\ page'.loading = page.loading
      BY <2>1, StatusIs
    <3>2. ~jobs[s].mine
      BY <1>1, <2>3, <3>1 DEF GoneOwned
    <3> QED BY <1>1, <2>1, <2>2, <3>1, <3>2 DEF GoneOwned, Onward
  <2>6. ToastOwned'
    BY <1>1, <2>1 DEF ToastOwned
  <2> QED BY <2>4, <2>5, <2>6 DEF Owned
<1>6. CASE ReadDone
  <2>1. pendingDelete' = pendingDelete
    BY <1>6 DEF ReadDone
  <2>2. /\ page'.toast = page.toast /\ page'.busy = page.busy
        /\ ~Awaited => page' = page
        /\ Awaited => Status(page') = <<page.mounted, FALSE, ~(data.read.state = "ok")>>
    BY <1>1, <1>6, ReadDonePage
  <2>3. \A s \in Slots : Onward(jobs[s], jobs'[s])
    BY <1>6, ReadDoneOnward
  <2>4. \A s \in Slots : jobs[s] # None => jobs'[s] # None
    <3> SUFFICES ASSUME NEW s \in Slots, jobs[s] # None PROVE jobs'[s] # None
      OBVIOUS
    <3>1. CASE Waits(jobs[s])
      <4>1. jobs'[s] = [jobs[s] EXCEPT !.state = "read"] /\ jobs[s] \in Operation
        BY <1>1, <1>6, <3>1, ReadDoneJobs, JobHere
      <4>2. jobs'[s] \in Operation
        BY <4>1 DEF Operation
      <4> QED BY <4>2, OperationIs
    <3>2. CASE ~Waits(jobs[s])
      BY <1>1, <1>6, <3>2, ReadDoneJobs
    <3> QED BY <3>1, <3>2
  <2>5. BusyOwned'
    BY <1>1, <2>2, <2>3, <2>4 DEF BusyOwned, Onward
  <2>6. GoneOwned'
    <3> SUFFICES ASSUME ~page'.mounted
                 PROVE  /\ page'.prompts = None /\ ~page'.loading /\ page'.toast = None /\ pendingDelete' = <<>>
                        /\ \A t \in Slots : jobs'[t] # None => ~jobs'[t].mine
      BY DEF GoneOwned
    <3>1. ~page.mounted
      BY <2>2 DEF Status
    <3>2. ~Awaited
      BY <1>1, <3>1 DEF GoneOwned, Awaited, Waits
    <3> QED BY <1>1, <2>1, <2>2, <2>3, <3>1, <3>2 DEF GoneOwned, Onward
  <2>7. ToastOwned'
    BY <1>1, <2>1, <2>2 DEF ToastOwned
  <2> QED BY <2>5, <2>6, <2>7 DEF Owned
<1>7. CASE ServeRead \/ ReadAgain \/ LoseRead
  BY <1>3, <1>7 DEF ServeRead, ReadAgain, LoseRead
<1>8. CASE (Loaded /\ \E row \in Visible : Remove(row)) \/ DeleteSelected
  <2>1. PICK p \in PageRecord, targets \in Seq(Row) :
           /\ RemoveMany(p, targets) /\ targets # <<>> /\ page.prompts # None /\ page.mounted
           /\ p.prompts = page.prompts /\ Status(p) = Status(page) /\ p.busy = page.busy
    BY <1>1, <1>8, RemovalOf
  <2>2. /\ page'.toast # None /\ page'.toast.targets = targets /\ Status(page') = Status(page) /\ page'.busy = page.busy
    BY <1>1, <2>1, RemoveManyPage
  <2>3. page'.mounted
    BY <2>1, <2>2, StatusIs
  <2>4. pendingDelete' = targets /\ CommitEarlier
    BY <2>1 DEF RemoveMany
  <2>5. \A s \in Slots : jobs[s] # None => jobs'[s] = jobs[s]
    BY <1>1, <2>4, StartIs, FreeIsFree DEF CommitEarlier
  <2> QED BY <2>1, <2>2, <2>3, <2>4, <2>5, OwnedStays
<1>9. CASE Loaded /\ \E row \in Visible : \/ ToggleFavorite(row) \/ Duplicate(row)
                                          \/ (\E name \in Names : Rename(row, name))
                                          \/ (\E folder \in MoveChoices : Move(row, folder))
  <2>1. page.mounted
    BY <1>9 DEF Loaded
  <2>2. \E job : Start(job)
    BY <1>9 DEF ToggleFavorite, Duplicate, Rename, Move
  <2>3. \A s \in Slots : jobs[s] # None => jobs'[s] = jobs[s]
    BY <1>1, <2>2, StartIs, FreeIsFree
  <2>4. pendingDelete' = pendingDelete
    BY <1>9 DEF ToggleFavorite, Duplicate, Rename, Move
  <2>5. page'.mounted /\ page'.toast = page.toast /\ page'.busy = page.busy
    <3>1. PICK row \in Visible : \/ ToggleFavorite(row) \/ page' = page
      BY <1>9 DEF Duplicate, Rename, Move
    <3>2. CASE ToggleFavorite(row)
      BY <1>1, <2>1, <3>2, TogglePage, StatusIs
    <3> QED BY <2>1, <3>1, <3>2
  <2> QED BY <2>1, <2>3, <2>4, <2>5, OwnedStays
<1>10. CASE Looks
  BY <1>1, <1>2, <1>10, LooksPage
<1>11. CASE UndoMove
  <2>1. page.mounted /\ page' = [page EXCEPT !.toast = None] /\ pendingDelete' = pendingDelete
        /\ Start(Job("undoBatch", page.toast.targets, None))
    BY <1>11 DEF UndoMove
  <2>2. page'.mounted /\ page'.toast = None /\ page'.busy = page.busy
    BY <1>1, <2>1 DEF PageOK, PageRecord
  <2>3. \A s \in Slots : jobs[s] # None => jobs'[s] = jobs[s]
    BY <1>1, <2>1, StartIs, FreeIsFree
  <2> QED BY <2>1, <2>2, <2>3, OwnedStays
<1>12. ASSUME NEW folder \in MoveChoices, MoveSelected(folder) PROVE Owned'
  <2> DEFINE job == Job("batch", SelectedPrompts, folder)
  <2>1. page.mounted /\ page.prompts # None /\ page' = [page EXCEPT !.busy = TRUE] /\ pendingDelete' = pendingDelete
        /\ Start(job) /\ SelectedPrompts # <<>>
    BY <1>12 DEF MoveSelected, BatchForm, Loaded
  <2>2. page'.mounted /\ page'.toast = page.toast
    BY <1>1, <2>1 DEF PageOK, PageRecord
  <2>3. job \in Operation /\ job.kind = "batch" /\ job.mine
    BY <1>1, <2>1, ShownRows, ListJob DEF Job
  <2>4. job # None
    BY <2>3, OperationIs
  <2> HIDE DEF job
  <2>5. BusyOwned'
    BY <1>1, <2>1, <2>3, <2>4, StartIs, EnteredIs DEF BusyOwned
  <2>6. GoneOwned'
    BY <2>2 DEF GoneOwned
  <2>7. ToastOwned'
    BY <1>1, <2>1, <2>2 DEF ToastOwned
  <2> QED BY <2>5, <2>6, <2>7 DEF Owned
<1>13. CASE (\E folder \in RenameChoices : RenameFolder(folder)) \/ RemoveFolder
  <2>1. page.mounted /\ page' = page /\ pendingDelete' = pendingDelete /\ \E job : Start(job)
    BY <1>13 DEF RenameFolder, RemoveFolder, FolderMenu, Loaded
  <2>2. \A s \in Slots : jobs[s] # None => jobs'[s] = jobs[s]
    BY <1>1, <2>1, StartIs, FreeIsFree
  <2> QED BY <2>1, <2>2, OwnedStays
<1>14. CASE DeleteTimer \/ PageHide
  <2>1. page' = page /\ pendingDelete' = <<>> /\ pendingDelete # <<>> /\ \E job : Start(job)
    BY <1>14 DEF DeleteTimer, PageHide, Flush
  <2>2. page.mounted
    BY <1>1, <2>1 DEF GoneOwned
  <2>3. \A s \in Slots : jobs[s] # None => jobs'[s] = jobs[s]
    BY <1>1, <2>1, StartIs, FreeIsFree
  <2> QED BY <2>1, <2>2, <2>3, OwnedStays
<1>15. CASE UndoDelete
  <2>1. page.mounted /\ jobs' = jobs
        /\ page' = [page EXCEPT !.toast = None, !.prompts = IF @ = None THEN None ELSE page.toast.targets \o @]
    BY <1>15 DEF UndoDelete
  <2>2. page'.mounted /\ page'.toast = None /\ page'.busy = page.busy
    BY <1>1, <2>1 DEF PageOK, PageRecord
  <2> QED BY <2>1, <2>2, OwnedStays
<1>16. CASE ToastExpires
  <2>1. page.mounted /\ page' = [page EXCEPT !.toast = None] /\ jobs' = jobs
    BY <1>16 DEF ToastExpires
  <2>2. page'.mounted /\ page'.toast = None /\ page'.busy = page.busy
    BY <1>1, <2>1 DEF PageOK, PageRecord
  <2> QED BY <2>1, <2>2, OwnedStays
<1>17. CASE Leave
  <2>1. /\ page'.prompts = None /\ page'.toast = None /\ page'.busy = FALSE /\ Status(page') = <<FALSE, FALSE, FALSE>>
    BY <1>17, LeavePage
  <2>2. page'.loading = FALSE /\ pendingDelete' = <<>>
    BY <1>17, <2>1 DEF Status, Leave
  <2>3. \A s \in Slots : jobs'[s] # None => ~jobs'[s].mine
    <3>1. PICK old \in [Slots -> Operation \cup {None}] :
              (\A s \in Slots : old[s] # None => WellFormed(old[s])) /\ jobs' = Disowned(old)
      BY <1>1, <1>17, LeaveJobs
    <3> SUFFICES ASSUME NEW s \in Slots, jobs'[s] # None PROVE ~jobs'[s].mine
      OBVIOUS
    <3>2. jobs'[s] = IF old[s] = None THEN None ELSE [old[s] EXCEPT !.mine = FALSE]
      BY <3>1 DEF Disowned
    <3>3. old[s] \in Operation /\ WellFormed(old[s]) /\ jobs'[s] = [old[s] EXCEPT !.mine = FALSE]
      BY <3>1, <3>2
    <3> QED BY <3>3, DisownedJob
  <2>4. BusyOwned' /\ GoneOwned' /\ ToastOwned'
    BY <2>1, <2>2, <2>3 DEF BusyOwned, GoneOwned, ToastOwned
  <2> QED BY <2>4 DEF Owned
<1>18. CASE Return
  <2>1. page' = NewPage
    BY <1>18 DEF Return
  <2>2. page'.toast = None /\ page'.busy = FALSE /\ page'.mounted
    BY <2>1, NewPageIs DEF Status
  <2>3. BusyOwned' /\ GoneOwned' /\ ToastOwned'
    BY <2>2 DEF BusyOwned, GoneOwned, ToastOwned
  <2> QED BY <2>3 DEF Owned
<1>19. CASE TryAgain
  <2>1. page.mounted /\ page' = [page EXCEPT !.loading = TRUE] /\ jobs' = jobs /\ pendingDelete' = pendingDelete
    BY <1>19 DEF TryAgain
  <2>2. page'.mounted /\ page'.toast = page.toast /\ page'.busy = page.busy
    BY <1>1, <2>1 DEF PageOK, PageRecord
  <2> QED BY <2>1, <2>2, OwnedStays
<1> QED BY <1>4, <1>5, <1>6, <1>7, <1>8, <1>9, <1>10, <1>11, <1>12, <1>13, <1>14, <1>15, <1>16, <1>17, <1>18, <1>19
        DEF Next, Reading, Operate, Batch, Looks

-----------------------------------------------------------------------------
(* While nothing overlapped: what the list, the operations, the toast and   *)
(* the server have to do with each other.  The parts take the values they   *)
(* relate, so that a step may be followed in several moves.                 *)

(* No two operations work on one prompt.                                    *)
Apart(js) == \A s, t \in Slots : s # t => Touches(js[s]) \cap Touches(js[t]) = {}

(* An open page carries out its own operations and deletions sent before.   *)
Mine(mounted, js) ==
  mounted => \A s \in Slots : js[s] # None => js[s].mine \/ js[s].kind = "flush"

(* A page that loads or shows an error has no or few operations.            *)
Quieter(p, js) ==
  /\ p.loading => \A s \in Slots : js[s] = None
  /\ p.loading /\ p.prompts # None => p.error
  /\ p.error => \A s \in Slots : js[s] # None => js[s].kind \in FolderKinds \cup Deletes

Stored(srv) == {srv[i] : i \in AllIds} \ {None}

(* A read the page waits for has what the server has.                       *)
Reads(loading, js, read, srv) ==
  (loading \/ \E s \in Slots : Waits(js[s])) /\ read.state = "ok" /\ ~read.invalidated
    => read.rows = Stored(srv)

(* Each prompt of a batch is to be done, done or failed, once.              *)
InOrder(job) ==
  /\ Distinct(job.todo) /\ Distinct(job.done) /\ Distinct(job.failed)
  /\ IdsOf(job.todo) \cap (IdsOf(job.done) \cup IdsOf(job.failed)) = {}
  /\ IdsOf(job.done) \cap IdsOf(job.failed) = {}

(* What the server has of the prompts of an operation.                      *)
ServerSide(job, srv, bef) ==
  /\ InOrder(job)
  /\ job.kind \in Patches \cup Filing /\ job.state = "ok" => srv[Head(job.todo).id] = job.row
  /\ job.kind = "favorite" /\ job.state # "ok" => srv[Head(job.todo).id] = Head(job.todo)
  /\ job.kind \in Filing => \A row \in RowsOf(job.todo) \cup RowsOf(job.done) : row.folder = bef[row.id].folder
  /\ job.kind = "undoBatch" =>
       /\ \A row \in RowsOf(job.done) : srv[row.id] # None /\ srv[row.id].folder = row.folder
       /\ job.state = "ok" => job.row.folder = Head(job.todo).folder
  /\ job.kind = "delete" => \A row \in RowsOf(job.done) : srv[row.id] = None
  /\ job.kind \in Deletes /\ job.state = "ok" => srv[Head(job.todo).id] = None
  /\ job.kind = "flush" /\ job.state = "failed" => srv[Head(job.todo).id] = None
  /\ job.kind = "duplicate" => srv[Copy] = IF job.state = "ok" THEN job.row ELSE None

(* The prompts the list may show otherwise than the server has them.        *)
Unsure(job) ==
  IF job = None THEN {}
  ELSE IF job.kind = "favorite" THEN IdsOf(job.todo)
  ELSE IF job.kind \in {"rename", "move"} \cup Filing
  THEN IF job.state = "ok" THEN {Head(job.todo).id} ELSE {}
  ELSE IF job.kind = "duplicate" THEN IF job.state = "ok" THEN {Copy} ELSE {}
  ELSE IF job.kind \in Deletes THEN IdsOf(job.todo) \cup IdsOf(job.failed)
  ELSE IF job.state \in {"ok", "reading"} THEN AllIds ELSE {}

(* What the list shows of the prompts of an operation.                      *)
Shows(job, list, pend) ==
  /\ job.kind \in Patches \cup Filing => \A i \in Unsure(job) : i \in IdsOf(pend) \/ Of(list, i) # {}
  /\ job.kind = "duplicate" => Copy \notin IdsOf(pend) /\ Of(list, Copy) = {}
  /\ job.kind \in Deletes => \A i \in Touches(job) : i \notin IdsOf(pend) /\ Of(list, i) = {}

InStep(list, i, srv) == Of(list, i) = {srv[i]} \ {None}

(* The list and the server.                                                 *)
PageFits(list, pend, err, js, srv) ==
  list # None =>
    /\ Distinct(list)
    /\ \A i \in IdsOf(pend) : Of(list, i) = {}
    /\ \A s \in Slots : js[s] # None => Shows(js[s], list, pend)
    /\ ~err => \A i \in AllIds \ IdsOf(pend) : (\A s \in Slots : i \notin Unsure(js[s])) => InStep(list, i, srv)

TouchedBy(js, kinds, i) == \E s \in Slots : js[s] # None /\ js[s].kind \in kinds /\ i \in Touches(js[s])

(* What the toast offers to undo, and the server.                           *)
ToastFits(toast, pend, js, srv, bef) ==
  /\ Distinct(pend)
  /\ toast # None => Distinct(toast.targets)
  /\ toast # None /\ toast.kind = "undoMove" =>
       \A row \in RowsOf(toast.targets) : row.folder = bef[row.id].folder \/ TouchedBy(js, {"batch"}, row.id)
  /\ toast # None /\ toast.kind = "undoDelete" /\ pend = <<>> =>
       \A row \in RowsOf(toast.targets) :
         srv[row.id] = None \/ TouchedBy(js, Deletes \cup {"duplicate"}, row.id)

ServedWell(js, srv, bef) == \A s \in Slots : js[s] # None => ServerSide(js[s], srv, bef)

Calm(srv, read, p, pend, js, bef) ==
  /\ Apart(js) /\ Mine(p.mounted, js) /\ Quieter(p, js) /\ Reads(p.loading, js, read, srv)
  /\ PageFits(p.prompts, pend, p.error, js, srv)
  /\ ToastFits(p.toast, pend, js, srv, bef)
  /\ ServedWell(js, srv, bef)

CalmNow == ~tainted => Calm(server, data.read, page, pendingDelete, jobs, before)

IInv == Types /\ Fresh /\ UndoneSafe /\ Owned /\ CalmNow

-----------------------------------------------------------------------------
(* Each part, followed in one move *)

Healthy(js) == \A s \in Slots : js[s] # None => js[s] \in Operation /\ WellFormed(js[s])

LEMMA HealthyJobs == JobsOK => Healthy(jobs)
BY DEF JobsOK, Healthy

LEMMA UnsureTouched ==
  ASSUME NEW job \in Operation, WellFormed(job)
  PROVE  Unsure(job) \subseteq Touches(job)
<1>1. job.kind \in Kinds
  BY OperationIs
<1>2. CASE job.kind \in FolderKinds
  <2>1. Touches(job) = AllIds
    BY <1>2, TouchesIs
  <2>2. job.kind \notin {"favorite", "duplicate"} \cup {"rename", "move"} \cup Filing \cup Deletes
    BY <1>2 DEF FolderKinds, Filing, Deletes
  <2> QED BY <2>1, <2>2 DEF Unsure
<1>3. CASE job.kind \notin FolderKinds
  <2>1. /\ Touches(job) = IdsOf(job.todo) \cup IdsOf(job.done) \cup IdsOf(job.failed)
                               \cup (IF job.kind = "duplicate" THEN {Copy} ELSE {})
        /\ Head(job.todo).id \in Touches(job)
    BY <1>3, TouchesIs
  <2>2. job.kind \in {"favorite", "duplicate"} \cup {"rename", "move"} \cup Filing \cup Deletes
    BY <1>1, <1>3 DEF Kinds, FolderKinds, Filing, Deletes
  <2> QED BY <2>1, <2>2 DEF Unsure
<1> QED BY <1>2, <1>3

LEMMA NoneUnsure == Unsure(None) = {}
BY DEF Unsure

LEMMA ShowsKept ==
  ASSUME NEW job \in Operation, WellFormed(job), NEW list, NEW pend, NEW list2, NEW pend2,
         \A i \in Touches(job) : Of(list2, i) = Of(list, i) /\ (i \in IdsOf(pend2) <=> i \in IdsOf(pend)),
         Shows(job, list, pend)
  PROVE  Shows(job, list2, pend2)
<1>1. Unsure(job) \subseteq Touches(job)
  BY UnsureTouched
<1>2. job.kind = "duplicate" => Copy \in Touches(job)
  BY TouchesIs DEF FolderKinds
<1> QED BY <1>1, <1>2 DEF Shows

LEMMA ServerSideKept ==
  ASSUME NEW job \in Operation, WellFormed(job), NEW srv, NEW bef, NEW srv2, NEW bef2,
         \A i \in Touches(job) : srv2[i] = srv[i] /\ bef2[i] = bef[i],
         ServerSide(job, srv, bef)
  PROVE  ServerSide(job, srv2, bef2)
<1>1. CASE job.kind \in FolderKinds
  BY <1>1 DEF ServerSide, FolderKinds, Patches, Filing, Deletes
<1>2. CASE job.kind \notin FolderKinds
  <2>1. /\ Touches(job) = IdsOf(job.todo) \cup IdsOf(job.done) \cup IdsOf(job.failed)
                               \cup (IF job.kind = "duplicate" THEN {Copy} ELSE {})
        /\ Head(job.todo).id \in Touches(job)
    BY <1>2, TouchesIs
  <2>2. \A row \in RowsOf(job.todo) \cup RowsOf(job.done) : row.id \in Touches(job)
    BY <2>1, IdsOfRows
  <2>3. job.kind = "duplicate" => Copy \in Touches(job)
    BY <2>1
  <2>4. \A row \in RowsOf(job.todo) \cup RowsOf(job.done) : srv2[row.id] = srv[row.id] /\ bef2[row.id] = bef[row.id]
    BY <2>2
  <2>5. srv2[Head(job.todo).id] = srv[Head(job.todo).id]
    BY <2>1
  <2>6. job.kind = "duplicate" => srv2[Copy] = srv[Copy]
    BY <2>3
  <2> QED BY <2>4, <2>5, <2>6 DEF ServerSide
<1> QED BY <1>1, <1>2

LEMMA ApartKept ==
  ASSUME NEW js, NEW js2, Apart(js), \A s \in Slots : Touches(js2[s]) \subseteq Touches(js[s])
  PROVE  Apart(js2)
BY DEF Apart

LEMMA ApartEnters ==
  ASSUME NEW js, NEW js2, NEW s \in Slots, Apart(js), \A t \in Slots : t # s => js2[t] = js[t],
         \A t \in Slots : Touches(js[t]) \cap Touches(js2[s]) = {}
  PROVE  Apart(js2)
BY DEF Apart

(* A move of the list, the window, the operations and the server which      *)
(* leaves all but the prompts of T alone.                                   *)
Moves(list, pend, err, js, srv, list2, pend2, js2, srv2, T) ==
  /\ list2 # None => /\ list # None /\ Distinct(list2)
                     /\ \A i \in AllIds \ T : Of(list2, i) = Of(list, i)
                     /\ \A i \in IdsOf(pend2) \cap T : Of(list2, i) = {}
  /\ \A i \in AllIds \ T : srv2[i] = srv[i] /\ (i \in IdsOf(pend2) <=> i \in IdsOf(pend))
  /\ IdsOf(pend2) \subseteq AllIds
  /\ \A s \in Slots :
       \/ js2[s] = js[s] /\ Touches(js[s]) \cap T = {}
       \/ /\ Unsure(js[s]) \subseteq T
          /\ list2 # None /\ js2[s] # None => Shows(js2[s], list2, pend2)
  /\ list2 # None /\ ~err =>
       \A i \in (T \cap AllIds) \ IdsOf(pend2) : (\A s \in Slots : i \notin Unsure(js2[s])) => InStep(list2, i, srv2)

LEMMA PageMoves ==
  ASSUME NEW list, NEW pend, NEW err, NEW js, NEW srv, NEW list2, NEW pend2, NEW js2, NEW srv2, NEW T,
         PageFits(list, pend, err, js, srv), Healthy(js),
         Moves(list, pend, err, js, srv, list2, pend2, js2, srv2, T)
  PROVE  PageFits(list2, pend2, err, js2, srv2)
<1> SUFFICES ASSUME list2 # None
             PROVE  /\ Distinct(list2)
                    /\ \A i \in IdsOf(pend2) : Of(list2, i) = {}
                    /\ \A s \in Slots : js2[s] # None => Shows(js2[s], list2, pend2)
                    /\ ~err => \A i \in AllIds \ IdsOf(pend2) :
                                 (\A s \in Slots : i \notin Unsure(js2[s])) => InStep(list2, i, srv2)
  BY DEF PageFits
<1>1. list # None /\ Distinct(list2)
  BY DEF Moves
<1>2. ASSUME NEW i \in IdsOf(pend2) PROVE Of(list2, i) = {}
  <2>1. CASE i \in T
    BY <2>1 DEF Moves
  <2>2. CASE i \notin T
    <3>1. i \in AllIds \ T
      BY <2>2 DEF Moves
    <3>2. i \in IdsOf(pend) /\ Of(list2, i) = Of(list, i)
      BY <3>1 DEF Moves
    <3> QED BY <1>1, <3>2 DEF PageFits
  <2> QED BY <2>1, <2>2
<1>3. ASSUME NEW s \in Slots, js2[s] # None PROVE Shows(js2[s], list2, pend2)
  <2> SUFFICES ASSUME js2[s] = js[s], Touches(js[s]) \cap T = {} PROVE Shows(js[s], list2, pend2)
    BY <1>3 DEF Moves
  <2>1. js[s] \in Operation /\ WellFormed(js[s]) /\ Shows(js[s], list, pend)
    BY <1>1, <1>3 DEF Healthy, PageFits
  <2>2. Touches(js[s]) \subseteq AllIds \ T
    BY <2>1, TouchesIs
  <2>3. \A i \in Touches(js[s]) : Of(list2, i) = Of(list, i) /\ (i \in IdsOf(pend2) <=> i \in IdsOf(pend))
    BY <2>2 DEF Moves
  <2> QED BY <2>1, <2>3, ShowsKept
<1>4. ASSUME ~err, NEW i \in AllIds \ IdsOf(pend2), \A s \in Slots : i \notin Unsure(js2[s])
      PROVE  InStep(list2, i, srv2)
  <2>1. CASE i \in T
    BY <1>4, <2>1 DEF Moves
  <2>2. CASE i \notin T
    <3>1. ASSUME NEW s \in Slots PROVE i \notin Unsure(js[s])
      BY <1>4, <2>2 DEF Moves
    <3>2. i \in AllIds \ IdsOf(pend) /\ srv2[i] = srv[i] /\ Of(list2, i) = Of(list, i)
      BY <2>2 DEF Moves
    <3>3. InStep(list, i, srv)
      BY <1>1, <1>4, <3>1, <3>2 DEF PageFits
    <3> QED BY <3>2, <3>3 DEF InStep
  <2> QED BY <2>1, <2>2
<1> QED BY <1>1, <1>2, <1>3, <1>4

LEMMA NoToast ==
  ASSUME NEW pend, NEW js, NEW srv, NEW bef, Distinct(pend)
  PROVE  ToastFits(None, pend, js, srv, bef)
BY DEF ToastFits

LEMMA ReadsKept ==
  ASSUME NEW loading, NEW js, NEW read, NEW srv, NEW loading2, NEW js2, NEW read2, NEW srv2,
         Reads(loading, js, read, srv),
         loading2 => loading, \A s \in Slots : Waits(js2[s]) => Waits(js[s]),
         read2 = read \/ read2.state # "ok" \/ read2.invalidated,
         (loading2 \/ \E s \in Slots : Waits(js2[s])) => srv2 = srv
  PROVE  Reads(loading2, js2, read2, srv2)
BY DEF Reads

-----------------------------------------------------------------------------
(* A step of one operation *)

Now == Calm(server, data.read, page, pendingDelete, jobs, before)

Later == Calm(server', data'.read, page', pendingDelete', jobs', before')

LEMMA CalmIs ==
  ASSUME Types, Now
  PROVE  /\ Apart(jobs) /\ Mine(page.mounted, jobs) /\ Quieter(page, jobs) /\ Reads(page.loading, jobs, data.read, server)
         /\ PageFits(page.prompts, pendingDelete, page.error, jobs, server)
         /\ ToastFits(page.toast, pendingDelete, jobs, server, before)
         /\ ServedWell(jobs, server, before) /\ Healthy(jobs) /\ JobsOK /\ PageOK /\ ServerOK
         /\ IdsOf(pendingDelete) \subseteq AllIds /\ Distinct(pendingDelete)
<1>1. JobsOK /\ PageOK /\ ServerOK /\ pendingDelete \in Seq(Row)
  BY DEF Types
<1>2. IdsOf(pendingDelete) \subseteq AllIds
  BY <1>1, ListRows
<1> QED BY <1>1, <1>2, HealthyJobs DEF Now, Calm, ToastFits

(* A prompt only this operation works on.                                   *)
LEMMA InStepBefore ==
  ASSUME Types, Now, page.prompts # None, ~page.error, NEW s \in Slots, NEW i \in Touches(jobs[s]),
         i \notin IdsOf(pendingDelete), i \notin Unsure(jobs[s]), jobs[s] # None
  PROVE  InStep(page.prompts, i, server)
<1>1. Apart(jobs) /\ Healthy(jobs) /\ PageFits(page.prompts, pendingDelete, page.error, jobs, server)
  BY CalmIs
<1>2. i \in AllIds
  BY <1>1, TouchesIs DEF Healthy
<1>3. ASSUME NEW t \in Slots PROVE i \notin Unsure(jobs[t])
  <2>1. CASE t = s
    BY <2>1
  <2>2. CASE t # s
    <3>1. i \notin Touches(jobs[t])
      BY <1>1, <2>2 DEF Apart
    <3>2. CASE jobs[t] = None
      BY <3>2, NoneUnsure
    <3>3. CASE jobs[t] # None
      <4>1. Unsure(jobs[t]) \subseteq Touches(jobs[t])
        BY <1>1, <3>3, UnsureTouched DEF Healthy
      <4> QED BY <3>1, <4>1
    <3> QED BY <3>2, <3>3
  <2> QED BY <2>1, <2>2
<1> QED BY <1>1, <1>2, <1>3 DEF PageFits

LEMMA StepCalm ==
  ASSUME Types, Owned, Now, NEW s \in Slots, Serve(s) \/ Lose(s) \/ Answer(s),
         pendingDelete' = pendingDelete, before' = before, Status(page') = Status(page),
         page'.prompts # None => page.prompts # None,
         \A i \in AllIds \ Touches(jobs[s]) : server'[i] = server[i],
         page'.prompts # None =>
           /\ Distinct(page'.prompts)
           /\ \A i \in AllIds \ Touches(jobs[s]) : Of(page'.prompts, i) = Of(page.prompts, i)
           /\ \A i \in IdsOf(pendingDelete) \cap Touches(jobs[s]) : Of(page'.prompts, i) = {}
           /\ jobs'[s] # None => Shows(jobs'[s], page'.prompts, pendingDelete)
           /\ ~page.error =>
                \A i \in Touches(jobs[s]) \ IdsOf(pendingDelete) :
                  i \notin Unsure(jobs'[s]) => InStep(page'.prompts, i, server'),
         ToastFits(page'.toast, pendingDelete, jobs', server', before),
         jobs'[s] # None => ServerSide(jobs'[s], server', before)
  PROVE  Later
<1> DEFINE T == Touches(jobs[s])
<1>1. /\ Apart(jobs) /\ Mine(page.mounted, jobs) /\ Quieter(page, jobs)
      /\ PageFits(page.prompts, pendingDelete, page.error, jobs, server)
      /\ ServedWell(jobs, server, before) /\ Healthy(jobs) /\ IdsOf(pendingDelete) \subseteq AllIds
  BY CalmIs
<1>2. /\ jobs[s] \in Operation /\ WellFormed(jobs[s])
      /\ \A t \in Slots : t # s => jobs'[t] = jobs[t]
      /\ Onward(jobs[s], jobs'[s])
      /\ jobs'[s] # None /\ Waits(jobs'[s]) => FolderAnswer(s)
  BY StepOf
<1>3. jobs[s] # None /\ T \subseteq AllIds /\ T # {} /\ Unsure(jobs[s]) \subseteq T
  BY <1>2, OperationIs, TouchesIs, UnsureTouched
<1>4. page'.mounted = page.mounted /\ page'.loading = page.loading /\ page'.error = page.error
  BY StatusIs
<1>5. ~page.loading
  BY <1>1, <1>3 DEF Quieter
<1>6. \A t \in Slots : Touches(jobs'[t]) \subseteq Touches(jobs[t])
  BY <1>2, NoTouch DEF Onward
<1>7. Apart(jobs')
  BY <1>1, <1>6, ApartKept
<1>8. Mine(page'.mounted, jobs')
  BY <1>1, <1>2, <1>4 DEF Mine, Onward
<1>9. Quieter(page', jobs')
  BY <1>1, <1>2, <1>4, <1>5 DEF Quieter, Onward
<1>10. Reads(page'.loading, jobs', data'.read, server')
  <2> SUFFICES ASSUME NEW t \in Slots, Waits(jobs'[t]) PROVE data'.read.state # "ok" \/ data'.read.invalidated
    BY <1>4, <1>5 DEF Reads
  <2>1. CASE t = s
    <3>1. FolderAnswer(s)
      BY <1>2, <2>1 DEF Waits
    <3>2. data' = Refresh /\ DataOK
      BY <3>1 DEF FolderAnswer, Types
    <3>3. CASE data.read.state = "no"
      <4>1. data'.read.state = "sent"
        BY <3>2, <3>3, RefreshIs
      <4> QED BY <4>1
    <3>4. CASE data.read.state # "no"
      BY <3>2, <3>4, RefreshIs
    <3> QED BY <3>3, <3>4
  <2>2. CASE t # s
    <3>1. Waits(jobs[t])
      BY <1>2, <2>2
    <3>2. jobs[t] \in Operation /\ WellFormed(jobs[t]) /\ jobs[t].state = "reading"
      BY <1>1, <3>1 DEF Waits, Healthy
    <3>3. jobs[t].kind \in FolderKinds
      BY <3>2 DEF WellFormed
    <3>4. Touches(jobs[t]) = AllIds
      BY <3>2, <3>3, TouchesIs
    <3> QED BY <1>1, <1>3, <2>2, <3>4 DEF Apart
  <2> QED BY <2>1, <2>2
<1>11. \A t \in Slots : t # s => Touches(jobs[t]) \cap T = {}
  BY <1>1 DEF Apart
<1>12. PageFits(page'.prompts, pendingDelete', page'.error, jobs', server')
  <2>1. \A t \in Slots :
           \/ jobs'[t] = jobs[t] /\ Touches(jobs[t]) \cap T = {}
           \/ /\ Unsure(jobs[t]) \subseteq T
              /\ page'.prompts # None /\ jobs'[t] # None => Shows(jobs'[t], page'.prompts, pendingDelete)
    BY <1>2, <1>3, <1>11
  <2>2. page'.prompts # None /\ ~page.error =>
           \A i \in (T \cap AllIds) \ IdsOf(pendingDelete) :
             (\A t \in Slots : i \notin Unsure(jobs'[t])) => InStep(page'.prompts, i, server')
    OBVIOUS
  <2>3. Moves(page.prompts, pendingDelete, page.error, jobs, server, page'.prompts, pendingDelete, jobs', server', T)
    BY <1>1, <2>1, <2>2 DEF Moves
  <2> HIDE DEF T
  <2>4. PageFits(page'.prompts, pendingDelete, page.error, jobs', server')
    BY <1>1, <2>3, PageMoves
  <2> QED BY <1>4, <2>4
<1>13. ServedWell(jobs', server', before)
  <2> SUFFICES ASSUME NEW t \in Slots, t # s, jobs[t] # None PROVE ServerSide(jobs[t], server', before)
    BY <1>2 DEF ServedWell
  <2>1. jobs[t] \in Operation /\ WellFormed(jobs[t]) /\ ServerSide(jobs[t], server, before)
    BY <1>1 DEF Healthy, ServedWell
  <2>2. \A i \in Touches(jobs[t]) : server'[i] = server[i]
    BY <1>11, <2>1, TouchesIs
  <2> QED BY <2>1, <2>2, ServerSideKept
<1> QED BY <1>4, <1>7, <1>8, <1>9, <1>10, <1>12, <1>13 DEF Later, Calm

(* The page an operation belongs to is open when it shows something.        *)
LEMMA MineHere ==
  ASSUME Types, Owned, Now, NEW s \in Slots, jobs[s] # None, jobs[s].kind # "flush"
  PROVE  jobs[s].mine \/ (page.prompts = None /\ page.toast = None)
BY CalmIs DEF Mine, Owned, GoneOwned

(* Who works on a prompt, when one operation goes on.                       *)
LEMMA StillTouched ==
  ASSUME NEW s \in Slots, \A t \in Slots : t # s => jobs'[t] = jobs[t],
         jobs'[s] # None, jobs'[s].kind = jobs[s].kind, Touches(jobs'[s]) = Touches(jobs[s])
  PROVE  \A kinds, i : TouchedBy(jobs, kinds, i) => TouchedBy(jobs', kinds, i)
BY DEF TouchedBy

LEMMA ToastStays ==
  ASSUME Types, Now,
         \A i \in AllIds : TouchedBy(jobs, {"batch"}, i) => TouchedBy(jobs', {"batch"}, i),
         \A i \in AllIds :
           server[i] = None \/ TouchedBy(jobs, Deletes \cup {"duplicate"}, i) =>
             server'[i] = None \/ TouchedBy(jobs', Deletes \cup {"duplicate"}, i)
  PROVE  ToastFits(page.toast, pendingDelete, jobs', server', before)
<1>1. ToastFits(page.toast, pendingDelete, jobs, server, before) /\ PageOK
  BY CalmIs
<1>2. page.toast # None => \A row \in RowsOf(page.toast.targets) : row.id \in AllIds
  BY <1>1, ToastIs, ListRows, RowIds
<1> QED BY <1>1, <1>2 DEF ToastFits

LEMMA LoseCalm ==
  ASSUME Types, Owned, Now, NEW s \in Slots, Lose(s), ~tainted'
  PROVE  Later
<1> DEFINE job == jobs[s]
           new == [job EXCEPT !.state = "failed"]
<1>1. /\ PageFits(page.prompts, pendingDelete, page.error, jobs, server)
      /\ ToastFits(page.toast, pendingDelete, jobs, server, before)
      /\ ServedWell(jobs, server, before) /\ PageOK /\ JobsOK
  BY CalmIs
<1>2. job \in Operation /\ WellFormed(job) /\ \A t \in Slots : t # s => jobs'[t] = jobs[t]
  BY StepOf
<1>3. job # None /\ jobs' = [jobs EXCEPT ![s] = new]
  BY <1>1 DEF Lose, JobsOK
<1>4. job.state = "sent" /\ job.kind # "flush"
  BY DEF Lose
<1>5. UNCHANGED <<server, data, page, pendingDelete, before>>
  BY DEF Lose
<1>6. /\ new \in Operation /\ new.kind = job.kind /\ new.todo = job.todo /\ new.done = job.done
      /\ new.failed = job.failed /\ new.row = job.row /\ new.state = "failed" /\ WellFormed(new)
  BY <1>2, FailedJob
<1>7. jobs'[s] = new
  BY <1>1, <1>3 DEF JobsOK
<1> HIDE DEF new
<1>8. new # None /\ Touches(new) = Touches(job)
  BY <1>2, <1>6, OperationIs, SameTouches
<1>9. Unsure(new) = Unsure(job)
  BY <1>3, <1>4, <1>6, <1>8 DEF Unsure
<1>10. page.prompts # None => Shows(new, page.prompts, pendingDelete)
  <2> SUFFICES ASSUME page.prompts # None PROVE Shows(new, page.prompts, pendingDelete)
    OBVIOUS
  <2>1. Shows(job, page.prompts, pendingDelete)
    BY <1>1, <1>3 DEF PageFits
  <2> QED BY <1>6, <1>8, <1>9, <2>1 DEF Shows
<1>11. ServerSide(new, server, before)
  <2>1. ServerSide(job, server, before)
    BY <1>1, <1>3 DEF ServedWell
  <2>2. InOrder(new)
    BY <1>6, <2>1 DEF ServerSide, InOrder
  <2> QED BY <1>4, <1>6, <2>1, <2>2 DEF ServerSide
<1>12. \A i \in Touches(job) \ IdsOf(pendingDelete) :
         page.prompts # None /\ ~page.error /\ i \notin Unsure(new) => InStep(page.prompts, i, server)
  BY <1>3, <1>9, InStepBefore
<1>13. ToastFits(page.toast, pendingDelete, jobs', server, before)
  <2>1. \A kinds, i : TouchedBy(jobs, kinds, i) => TouchedBy(jobs', kinds, i)
    BY <1>2, <1>6, <1>7, <1>8, StillTouched
  <2>2. server' = server
    BY <1>5
  <2>3. ToastFits(page.toast, pendingDelete, jobs', server', before)
    BY <2>1, <2>2, ToastStays
  <2> QED BY <2>2, <2>3
<1>14. page.prompts # None => Distinct(page.prompts) /\ \A i \in IdsOf(pendingDelete) : Of(page.prompts, i) = {}
  BY <1>1 DEF PageFits
<1> QED BY <1>5, <1>7, <1>8, <1>10, <1>11, <1>12, <1>13, <1>14, StepCalm

-----------------------------------------------------------------------------
(* The server carries out a request *)

(* What a step needs of the prompts of an operation it leaves as they were. *)
LEMMA PageAsBefore ==
  ASSUME Types, Now, page.prompts # None
  PROVE  Distinct(page.prompts) /\ \A i \in IdsOf(pendingDelete) : Of(page.prompts, i) = {}
BY CalmIs DEF PageFits

LEMMA ServeFolderCalm ==
  ASSUME Types, Owned, Now, NEW s \in Slots, Serve(s), jobs[s].kind \in FolderKinds,
         server' = [i \in AllIds |-> Refiled(server[i], jobs[s].value.from, jobs[s].value.to)],
         jobs' = [jobs EXCEPT ![s] = [jobs[s] EXCEPT !.state = "ok", !.row = None]]
  PROVE  Later
<1> DEFINE job == jobs[s]
           new == [job EXCEPT !.state = "ok", !.row = None]
<1>1. /\ ToastFits(page.toast, pendingDelete, jobs, server, before)
      /\ ServedWell(jobs, server, before) /\ PageOK /\ JobsOK
  BY CalmIs
<1>2. job \in Operation /\ WellFormed(job) /\ \A t \in Slots : t # s => jobs'[t] = jobs[t]
  BY StepOf
<1>3. job # None
  BY <1>2, OperationIs
<1>4. UNCHANGED <<page, pendingDelete, before>>
  BY DEF Serve
<1>5. /\ new \in Operation /\ new.kind = job.kind /\ new.todo = job.todo /\ new.done = job.done
      /\ new.failed = job.failed /\ new.state = "ok"
  BY <1>2 DEF Operation
<1>6. jobs'[s] = new
  BY <1>1 DEF JobsOK
<1> HIDE DEF new
<1>7. new # None /\ Touches(new) = AllIds /\ Touches(job) = AllIds
  BY <1>2, <1>5, OperationIs, TouchesIs
<1>8. Unsure(new) = AllIds
  BY <1>5, <1>7 DEF Unsure, FolderKinds, Filing, Deletes
<1>9. \A list : Shows(new, list, pendingDelete)
  BY <1>5 DEF Shows, FolderKinds, Filing, Patches, Deletes
<1>10. ServerSide(new, server', before)
  <2>1. InOrder(new)
    BY <1>1, <1>3, <1>5 DEF ServedWell, ServerSide, InOrder
  <2> QED BY <1>5, <2>1 DEF ServerSide, FolderKinds, Filing, Patches, Deletes
<1>11. ToastFits(page.toast, pendingDelete, jobs', server', before)
  <2>1. \A kinds, i : TouchedBy(jobs, kinds, i) => TouchedBy(jobs', kinds, i)
    BY <1>2, <1>5, <1>6, <1>7, StillTouched
  <2>3. \A i \in AllIds : server[i] = None => server'[i] = None
    BY DEF Refiled
  <2> QED BY <2>1, <2>3, ToastStays
<1>12. page.prompts # None => Distinct(page.prompts) /\ \A i \in IdsOf(pendingDelete) : Of(page.prompts, i) = {}
  BY PageAsBefore
<1> QED BY <1>4, <1>6, <1>7, <1>8, <1>9, <1>10, <1>11, <1>12, StepCalm

LEMMA ServeFailsCalm ==
  ASSUME Types, Owned, Now, NEW s \in Slots, Serve(s), jobs[s].kind \notin FolderKinds,
         server[Head(jobs[s].todo).id] = None, server' = server,
         jobs' = [jobs EXCEPT ![s] = [jobs[s] EXCEPT !.state = "failed"]]
  PROVE  Later
<1> DEFINE job == jobs[s]
           new == [job EXCEPT !.state = "failed"]
<1>1. /\ PageFits(page.prompts, pendingDelete, page.error, jobs, server)
      /\ ToastFits(page.toast, pendingDelete, jobs, server, before)
      /\ ServedWell(jobs, server, before) /\ PageOK /\ JobsOK
  BY CalmIs
<1>2. job \in Operation /\ WellFormed(job) /\ \A t \in Slots : t # s => jobs'[t] = jobs[t]
  BY StepOf
<1>3. job # None /\ job.state = "sent"
  BY <1>2, OperationIs DEF Serve
<1>5. UNCHANGED <<page, pendingDelete, before>>
  BY DEF Serve
<1>6. /\ new \in Operation /\ new.kind = job.kind /\ new.todo = job.todo /\ new.done = job.done
      /\ new.failed = job.failed /\ new.row = job.row /\ new.state = "failed" /\ WellFormed(new)
  BY <1>2, FailedJob
<1>7. jobs'[s] = new
  BY <1>1 DEF JobsOK
<1> HIDE DEF new
<1>8. new # None /\ Touches(new) = Touches(job)
  BY <1>2, <1>6, OperationIs, SameTouches
<1>9. Unsure(new) = Unsure(job)
  BY <1>3, <1>6, <1>8 DEF Unsure
<1>10. page.prompts # None => Shows(new, page.prompts, pendingDelete)
  <2> SUFFICES ASSUME page.prompts # None PROVE Shows(new, page.prompts, pendingDelete)
    OBVIOUS
  <2>1. Shows(job, page.prompts, pendingDelete)
    BY <1>1, <1>3 DEF PageFits
  <2> QED BY <1>6, <1>8, <1>9, <2>1 DEF Shows
<1>11. ServerSide(new, server, before)
  <2>1. ServerSide(job, server, before)
    BY <1>1, <1>3 DEF ServedWell
  <2>2. InOrder(new)
    BY <1>6, <2>1 DEF ServerSide, InOrder
  <2> QED BY <1>3, <1>6, <2>1, <2>2 DEF ServerSide
<1>12. \A i \in Touches(job) \ IdsOf(pendingDelete) :
         page.prompts # None /\ ~page.error /\ i \notin Unsure(new) => InStep(page.prompts, i, server)
  BY <1>3, <1>9, InStepBefore
<1>13. ToastFits(page.toast, pendingDelete, jobs', server, before)
  <2>1. \A kinds, i : TouchedBy(jobs, kinds, i) => TouchedBy(jobs', kinds, i)
    BY <1>2, <1>6, <1>7, <1>8, StillTouched
  <2>2. ToastFits(page.toast, pendingDelete, jobs', server', before)
    BY <2>1, ToastStays
  <2> QED BY <2>2
<1>14. page.prompts # None => Distinct(page.prompts) /\ \A i \in IdsOf(pendingDelete) : Of(page.prompts, i) = {}
  BY PageAsBefore
<1> QED BY <1>5, <1>7, <1>8, <1>10, <1>11, <1>12, <1>13, <1>14, StepCalm

LEMMA ServeCopyCalm ==
  ASSUME Types, Owned, Now, NEW s \in Slots, Serve(s), jobs[s].kind = "duplicate",
         NEW copy \in Row, copy.id = Copy, server[Copy] = None, server' = [server EXCEPT ![Copy] = copy],
         jobs' = [jobs EXCEPT ![s] = [jobs[s] EXCEPT !.state = "ok", !.row = copy]]
  PROVE  Later
<1> DEFINE job == jobs[s]
           new == [job EXCEPT !.state = "ok", !.row = copy]
<1>1. /\ PageFits(page.prompts, pendingDelete, page.error, jobs, server)
      /\ ToastFits(page.toast, pendingDelete, jobs, server, before)
      /\ ServedWell(jobs, server, before) /\ PageOK /\ JobsOK /\ ServerOK
  BY CalmIs
<1>2. job \in Operation /\ WellFormed(job) /\ \A t \in Slots : t # s => jobs'[t] = jobs[t]
  BY StepOf
<1>3. job # None /\ job.state = "sent"
  BY <1>2, OperationIs DEF Serve
<1>5. UNCHANGED <<page, pendingDelete, before>>
  BY DEF Serve
<1>6. /\ new \in Operation /\ new.kind = "duplicate" /\ new.todo = job.todo /\ new.done = job.done
      /\ new.failed = job.failed /\ new.row = copy /\ new.state = "ok"
  BY <1>2 DEF Operation
<1>7. jobs'[s] = new
  BY <1>1 DEF JobsOK
<1> HIDE DEF new
<1>8. new # None /\ Touches(new) = Touches(job) /\ Copy \in Touches(job)
  BY <1>2, <1>6, OperationIs, SameTouches, TouchesIs DEF FolderKinds
<1>9. Unsure(new) = {Copy} /\ Unsure(job) = {}
  BY <1>3, <1>6, <1>8 DEF Unsure, Filing
<1>10. \A i \in AllIds : i # Copy => server'[i] = server[i]
  OBVIOUS
<1>11. server'[Copy] = copy
  BY <1>1 DEF ServerOK, AllIds
<1>12. page.prompts # None => Shows(new, page.prompts, pendingDelete)
  <2> SUFFICES ASSUME page.prompts # None PROVE Shows(new, page.prompts, pendingDelete)
    OBVIOUS
  <2>1. Shows(job, page.prompts, pendingDelete)
    BY <1>1, <1>3 DEF PageFits
  <2> QED BY <1>6, <2>1 DEF Shows, Patches, Filing, Deletes
<1>13. ServerSide(new, server', before)
  <2>1. ServerSide(job, server, before)
    BY <1>1, <1>3 DEF ServedWell
  <2>2. InOrder(new)
    BY <1>6, <2>1 DEF ServerSide, InOrder
  <2> QED BY <1>6, <1>11, <2>2 DEF ServerSide, Patches, Filing, Deletes
<1>14. \A i \in Touches(job) \ IdsOf(pendingDelete) :
         page.prompts # None /\ ~page.error /\ i \notin Unsure(new) => InStep(page.prompts, i, server')
  <2> SUFFICES ASSUME NEW i \in Touches(job) \ IdsOf(pendingDelete), page.prompts # None, ~page.error, i # Copy
               PROVE  InStep(page.prompts, i, server')
    BY <1>9
  <2>1. InStep(page.prompts, i, server)
    BY <1>3, <1>9, InStepBefore
  <2>2. server'[i] = server[i]
    BY <1>2, <1>10, TouchesIs
  <2> QED BY <2>1, <2>2 DEF InStep
<1>15. ToastFits(page.toast, pendingDelete, jobs', server', before)
  <2>1. \A kinds, i : TouchedBy(jobs, kinds, i) => TouchedBy(jobs', kinds, i)
    BY <1>2, <1>6, <1>7, <1>8, StillTouched
  <2>3. TouchedBy(jobs', Deletes \cup {"duplicate"}, Copy)
    BY <1>6, <1>7, <1>8 DEF TouchedBy
  <2> QED BY <1>10, <2>1, <2>3, ToastStays
<1>16. page.prompts # None => Distinct(page.prompts) /\ \A i \in IdsOf(pendingDelete) : Of(page.prompts, i) = {}
  BY PageAsBefore
<1>17. \A i \in AllIds \ Touches(job) : server'[i] = server[i]
  BY <1>8, <1>10
<1> QED BY <1>5, <1>7, <1>8, <1>12, <1>13, <1>14, <1>15, <1>16, <1>17, StepCalm

LEMMA ServePatchCalm ==
  ASSUME Types, Owned, Now, NEW s \in Slots, Serve(s), NEW row,
         jobs[s].kind \in Patches \cup Filing \cup Deletes, server[Head(jobs[s].todo).id] # None,
         server' = [server EXCEPT ![Head(jobs[s].todo).id] = row],
         jobs' = [jobs EXCEPT ![s] = [jobs[s] EXCEPT !.state = "ok", !.row = row]],
         jobs[s].kind \in Deletes => row = None,
         jobs[s].kind \notin Deletes => row \in Row,
         jobs[s].kind = "undoBatch" => row.folder = Head(jobs[s].todo).folder
  PROVE  Later
<1> DEFINE job == jobs[s]
           id == Head(job.todo).id
           new == [job EXCEPT !.state = "ok", !.row = row]
<1>1. /\ PageFits(page.prompts, pendingDelete, page.error, jobs, server)
      /\ ToastFits(page.toast, pendingDelete, jobs, server, before)
      /\ ServedWell(jobs, server, before) /\ PageOK /\ JobsOK /\ ServerOK /\ Quieter(page, jobs)
  BY CalmIs
<1>2. job \in Operation /\ WellFormed(job) /\ \A t \in Slots : t # s => jobs'[t] = jobs[t]
  BY StepOf
<1>3. job # None /\ job.state = "sent"
  BY <1>2, OperationIs DEF Serve
<1>4. job.kind \notin FolderKinds /\ job.kind # "duplicate"
  BY DEF FolderKinds, Patches, Filing, Deletes
<1>5. UNCHANGED <<page, pendingDelete, before>>
  BY DEF Serve
<1>6. /\ new \in Operation /\ new.kind = job.kind /\ new.todo = job.todo /\ new.done = job.done
      /\ new.failed = job.failed /\ new.row = row /\ new.state = "ok"
  BY <1>2, NotNone DEF Operation
<1>7. jobs'[s] = new
  BY <1>1 DEF JobsOK
<1> HIDE DEF new
<1>8. /\ new # None /\ Touches(new) = Touches(job)
      /\ Touches(job) = IdsOf(job.todo) \cup IdsOf(job.done) \cup IdsOf(job.failed)
      /\ id \in Touches(job) /\ id \in IdsOf(job.todo) /\ id \in AllIds /\ Head(job.todo) \in Row /\ Touches(job) \subseteq AllIds
  BY <1>2, <1>4, <1>6, OperationIs, SameTouches, TouchesIs
<1>9. Unsure(job) \subseteq Unsure(new) /\ id \in Unsure(new)
      /\ (job.kind \notin Deletes \cup {"favorite"} => Unsure(new) = {id} /\ Unsure(job) = {})
      /\ (job.kind \in Deletes \cup {"favorite"} => Unsure(new) = Unsure(job))
  <2>1. job.kind \in {"favorite"} \cup ({"rename", "move"} \cup Filing) \cup Deletes
    BY DEF Patches
  <2> QED BY <1>3, <1>6, <1>8, <2>1 DEF Unsure, Filing, Deletes
<1>10. \A i \in AllIds : i # id => server'[i] = server[i]
  OBVIOUS
<1>11. server'[id] = row
  BY <1>1, <1>8 DEF ServerOK
<1>12. page.prompts # None => Shows(new, page.prompts, pendingDelete)
  <2> SUFFICES ASSUME page.prompts # None PROVE Shows(new, page.prompts, pendingDelete)
    OBVIOUS
  <2>1. Shows(job, page.prompts, pendingDelete)
    BY <1>1, <1>3 DEF PageFits
  <2>2. CASE job.kind \in Deletes \cup {"favorite"}
    BY <1>4, <1>6, <1>8, <1>9, <2>1, <2>2 DEF Shows
  <2>3. CASE job.kind \notin Deletes \cup {"favorite"}
    <3>1. ~page.error
      BY <1>1, <1>3, <1>4, <2>3 DEF Quieter
    <3>2. ASSUME id \notin IdsOf(pendingDelete) PROVE Of(page.prompts, id) # {}
      <4>1. InStep(page.prompts, id, server)
        BY <1>3, <1>8, <1>9, <2>3, <3>1, <3>2, InStepBefore
      <4> QED BY <4>1 DEF InStep
    <3> QED BY <1>4, <1>6, <1>9, <2>3, <3>2 DEF Shows
  <2> QED BY <2>2, <2>3
<1>13. ServerSide(new, server', before)
  <2>1. ServerSide(job, server, before)
    BY <1>1, <1>3 DEF ServedWell
  <2>2. InOrder(new)
    BY <1>6, <2>1 DEF ServerSide, InOrder
  <2>3. \A r \in RowsOf(job.done) : r.id \in AllIds /\ r.id # id
    <3>1. \A r \in RowsOf(job.done) : r.id \in IdsOf(job.done)
      BY IdsOfRows
    <3> QED BY <1>8, <2>1, <3>1 DEF ServerSide, InOrder
  <2>4. \A r \in RowsOf(job.done) : server'[r.id] = server[r.id]
    BY <1>10, <2>3
  <2> QED BY <1>4, <1>6, <1>11, <2>1, <2>2, <2>4 DEF ServerSide
<1>14. \A i \in Touches(job) \ IdsOf(pendingDelete) :
         page.prompts # None /\ ~page.error /\ i \notin Unsure(new) => InStep(page.prompts, i, server')
  <2> SUFFICES ASSUME NEW i \in Touches(job) \ IdsOf(pendingDelete), page.prompts # None, ~page.error, i \notin Unsure(new)
               PROVE  InStep(page.prompts, i, server')
    OBVIOUS
  <2>1. InStep(page.prompts, i, server)
    BY <1>3, <1>9, InStepBefore
  <2>2. server'[i] = server[i]
    BY <1>8, <1>9, <1>10
  <2> QED BY <2>1, <2>2 DEF InStep
<1>15. ToastFits(page.toast, pendingDelete, jobs', server', before)
  <2>1. \A kinds, i : TouchedBy(jobs, kinds, i) => TouchedBy(jobs', kinds, i)
    BY <1>2, <1>6, <1>7, <1>8, StillTouched
  <2>3. \A i \in AllIds : server[i] = None => server'[i] = None
    BY <1>10
  <2> QED BY <2>1, <2>3, ToastStays
<1>16. page.prompts # None => Distinct(page.prompts) /\ \A i \in IdsOf(pendingDelete) : Of(page.prompts, i) = {}
  BY PageAsBefore
<1>17. \A i \in AllIds \ Touches(job) : server'[i] = server[i]
  BY <1>8, <1>10
<1> HIDE DEF id
<1> QED BY <1>5, <1>7, <1>8, <1>12, <1>13, <1>14, <1>15, <1>16, <1>17, StepCalm

LEMMA ServeCalm ==
  ASSUME Types, Owned, Now, NEW s \in Slots, Serve(s)
  PROVE  Later
<1>1. jobs[s] \in Operation /\ WellFormed(jobs[s])
  BY ServeKeeps
<1>2. CASE /\ jobs[s].kind \in FolderKinds
           /\ server' = [i \in AllIds |-> Refiled(server[i], jobs[s].value.from, jobs[s].value.to)]
           /\ jobs' = [jobs EXCEPT ![s] = [jobs[s] EXCEPT !.state = "ok", !.row = None]]
  BY <1>2, ServeFolderCalm
<1>3. CASE /\ jobs[s].kind \notin FolderKinds /\ server[Head(jobs[s].todo).id] = None
           /\ server' = server
           /\ jobs' = [jobs EXCEPT ![s] = [jobs[s] EXCEPT !.state = "failed"]]
  BY <1>3, ServeFailsCalm
<1>4. CASE /\ jobs[s].kind = "duplicate" /\ server[Head(jobs[s].todo).id] # None /\ server[Copy] = None
           /\ \E copy \in Row : /\ copy.id = Copy
                                /\ server' = [server EXCEPT ![Copy] = copy]
                                /\ jobs' = [jobs EXCEPT ![s] = [jobs[s] EXCEPT !.state = "ok", !.row = copy]]
  BY <1>4, ServeCopyCalm
<1>5. CASE LET id == Head(jobs[s].todo).id
               new == Patched(jobs[s], server[id])
           IN  /\ jobs[s].kind \in Patches \cup Filing \cup Deletes /\ server[id] # None /\ server[id] \in Row
               /\ server' = [server EXCEPT ![id] = new]
               /\ jobs' = [jobs EXCEPT ![s] = [jobs[s] EXCEPT !.state = "ok", !.row = new]]
               /\ jobs[s].kind \in Deletes => new = None
               /\ jobs[s].kind \notin Deletes => new \in Row /\ new.id = id
  <2> DEFINE new == Patched(jobs[s], server[Head(jobs[s].todo).id])
  <2>1. jobs[s].kind = "undoBatch" => new.folder = Head(jobs[s].todo).folder
    BY <1>1, <1>5, PatchedRow
  <2> HIDE DEF new
  <2>2. /\ jobs[s].kind \in Patches \cup Filing \cup Deletes /\ server[Head(jobs[s].todo).id] # None
        /\ server' = [server EXCEPT ![Head(jobs[s].todo).id] = new]
        /\ jobs' = [jobs EXCEPT ![s] = [jobs[s] EXCEPT !.state = "ok", !.row = new]]
        /\ jobs[s].kind \in Deletes => new = None
        /\ jobs[s].kind \notin Deletes => new \in Row
    BY <1>5 DEF new
  <2> QED BY <2>1, <2>2, ServePatchCalm
<1> QED BY <1>2, <1>3, <1>4, <1>5, ServeKeeps

-----------------------------------------------------------------------------
(* The page takes an answer *)

LEMMA SingleTouches ==
  ASSUME NEW job \in Operation, WellFormed(job), job.kind \in Patches \cup {"duplicate"}
  PROVE  /\ IdsOf(job.todo) = {Head(job.todo).id} /\ Head(job.todo) \in Row
         /\ Touches(job) = {Head(job.todo).id} \cup (IF job.kind = "duplicate" THEN {Copy} ELSE {})
         /\ job.kind # "flush" /\ job.kind \notin Deletes
<1>1. job.todo # <<>> /\ Len(job.todo) = 1 /\ job.done = <<>> /\ job.failed = <<>> /\ job.kind \notin FolderKinds
  BY DEF WellFormed, FolderKinds, Patches, Batches
<1>2. job.todo \in Seq(Row)
  BY OperationIs
<1>3. Tail(job.todo) = <<>> /\ IdsOf(job.todo) = {Head(job.todo).id} \cup IdsOf(Tail(job.todo)) /\ Head(job.todo) \in Row
  BY <1>1, <1>2, HeadAndTail
<1>4. IdsOf(job.todo) = {Head(job.todo).id}
  BY <1>3, Nothing
<1> QED BY <1>1, <1>3, <1>4, Nothing, TouchesIs DEF Patches, Deletes

LEMMA UpdateAnswerCalm ==
  ASSUME Types, Owned, Now, NEW s \in Slots, UpdateAnswer(s)
  PROVE  Later
<1> DEFINE job == jobs[s]
           id == Head(job.todo).id
<1>1. /\ PageFits(page.prompts, pendingDelete, page.error, jobs, server)
      /\ ToastFits(page.toast, pendingDelete, jobs, server, before) /\ Distinct(pendingDelete)
      /\ ServedWell(jobs, server, before) /\ PageOK /\ JobsOK
  BY CalmIs
<1>2. Answer(s) /\ job \in Operation /\ WellFormed(job) /\ \A t \in Slots : t # s => jobs'[t] = jobs[t]
  BY StepOf DEF Answer
<1>3. job # None /\ job.state = "ok" /\ job.kind \in Patches /\ jobs'[s] = None
  BY <1>1 DEF UpdateAnswer, Success, Patches, Finish, JobsOK
<1>4. UNCHANGED <<server, pendingDelete, before>>
  BY DEF UpdateAnswer
<1>5. /\ IdsOf(job.todo) = {id} /\ Touches(job) = {id} /\ job.kind # "flush" /\ job.kind \notin Deletes /\ job.kind # "duplicate"
  BY <1>2, <1>3, SingleTouches DEF Patches
<1>6. /\ job.row \in Row
      /\ page'.prompts = IF job.mine /\ page.prompts # None THEN Replace(page.prompts, job.row) ELSE page.prompts
      /\ page'.toast = IF job.kind = "move" /\ job.mine THEN None ELSE page.toast
      /\ Status(page') = Status(page)
  BY <1>1, UpdateAnswerPage
<1>7. job.row.id = id
  BY <1>2, <1>3, <1>5 DEF WellFormed, Answers, FolderKinds, Patches
<1>8. job.mine \/ (page.prompts = None /\ page.toast = None)
  BY <1>3, <1>5, MineHere
<1>9. server[id] = job.row
  BY <1>1, <1>3 DEF ServedWell, ServerSide
<1>10. ASSUME page'.prompts # None
       PROVE  /\ page.prompts # None /\ Distinct(page'.prompts)
              /\ \A i : Of(page'.prompts, i) = IF i = id /\ Of(page.prompts, i) # {} THEN {job.row} ELSE Of(page.prompts, i)
  <2>1. page.prompts # None /\ page'.prompts = Replace(page.prompts, job.row)
    BY <1>6, <1>8, <1>10
  <2>2. page.prompts \in Seq(Row) /\ Distinct(page.prompts)
    BY <1>1, <2>1, ShownRows DEF PageFits
  <2>3. PICK list \in Seq(Row), row \in Row : list = page.prompts /\ row = job.row
    BY <1>6, <2>2
  <2>4. /\ Distinct(Replace(list, row))
        /\ \A i : Of(Replace(list, row), i) = IF i = row.id /\ Of(list, i) # {} THEN {row} ELSE Of(list, i)
    BY <2>2, <2>3, ReplaceHas
  <2>5. page'.prompts = Replace(list, row) /\ id = row.id
    BY <1>7, <2>1, <2>3
  <2> QED BY <2>1, <2>3, <2>4, <2>5
<1>11. ASSUME page'.prompts # None
       PROVE  \A i \in IdsOf(pendingDelete) : Of(page'.prompts, i) = {}
  BY <1>10, <1>11, PageAsBefore
<1>12. ASSUME page'.prompts # None, id \notin IdsOf(pendingDelete)
       PROVE  InStep(page'.prompts, id, server)
  <2>1. id \in Unsure(job)
    BY <1>3, <1>5 DEF Unsure, Patches
  <2>2. Of(page.prompts, id) # {}
    BY <1>1, <1>3, <1>10, <1>12, <2>1 DEF PageFits, Shows
  <2>3. Of(page'.prompts, id) = {job.row}
    BY <1>10, <1>12, <2>2
  <2> QED BY <1>6, <1>9, <2>3, NotNone DEF InStep
<1>13. ToastFits(page'.toast, pendingDelete, jobs', server', before)
  <2>1. CASE page'.toast = None
    BY <1>1, <2>1, NoToast
  <2>2. CASE page'.toast = page.toast
    <3>1. \A i : /\ TouchedBy(jobs, {"batch"}, i) => TouchedBy(jobs', {"batch"}, i)
                 /\ TouchedBy(jobs, Deletes \cup {"duplicate"}, i) => TouchedBy(jobs', Deletes \cup {"duplicate"}, i)
      BY <1>2, <1>3, <1>5 DEF TouchedBy, Patches
    <3>2. ToastFits(page.toast, pendingDelete, jobs', server', before)
      BY <1>4, <3>1, ToastStays
    <3> QED BY <2>2, <3>2
  <2> QED BY <1>6, <2>1, <2>2
<1> HIDE DEF id
<1> QED BY <1>2, <1>3, <1>4, <1>5, <1>6, <1>10, <1>11, <1>12, <1>13, StepCalm

LEMMA UpdateFailsCalm ==
  ASSUME Types, Owned, Now, NEW s \in Slots, UpdateFails(s)
  PROVE  Later
<1> DEFINE job == jobs[s]
           id == Head(job.todo).id
<1>1. /\ PageFits(page.prompts, pendingDelete, page.error, jobs, server)
      /\ Distinct(pendingDelete)
      /\ ServedWell(jobs, server, before) /\ PageOK /\ JobsOK
  BY CalmIs
<1>2. Answer(s) /\ job \in Operation /\ WellFormed(job) /\ \A t \in Slots : t # s => jobs'[t] = jobs[t]
  BY StepOf DEF Answer
<1>3. job # None /\ job.state = "failed" /\ job.kind \in Patches \cup {"duplicate"} /\ jobs'[s] = None
  BY <1>1 DEF UpdateFails, Failure, Patches, Finish, JobsOK
<1>4. UNCHANGED <<server, pendingDelete, before>>
  BY DEF UpdateFails
<1>5. /\ IdsOf(job.todo) = {id} /\ id \in Touches(job) /\ job.kind # "flush"
      /\ job.kind # "duplicate" => Touches(job) = {id}
  BY <1>2, <1>3, SingleTouches
<1>6. /\ Head(job.todo) \in Row
      /\ page'.prompts = IF job.kind = "favorite" /\ job.mine /\ page.prompts # None
                         THEN Replace(page.prompts, Head(job.todo)) ELSE page.prompts
      /\ page'.toast = IF job.mine THEN None ELSE page.toast
      /\ Status(page') = Status(page)
  BY <1>1, UpdateFailsPage
<1>7. job.mine \/ (page.prompts = None /\ page.toast = None)
  BY <1>3, <1>5, MineHere
<1>8. page'.toast = None
  BY <1>6, <1>7
<1>9. ToastFits(page'.toast, pendingDelete, jobs', server', before)
  BY <1>1, <1>8, NoToast
<1>10. CASE job.kind = "favorite"
  <2>1. server[id] = Head(job.todo)
    BY <1>1, <1>3, <1>10 DEF ServedWell, ServerSide
  <2>2. ASSUME page'.prompts # None
        PROVE  /\ page.prompts # None /\ Distinct(page'.prompts)
               /\ \A i : Of(page'.prompts, i) =
                           IF i = id /\ Of(page.prompts, i) # {} THEN {Head(job.todo)} ELSE Of(page.prompts, i)
    <3>1. page.prompts # None /\ page'.prompts = Replace(page.prompts, Head(job.todo))
      BY <1>6, <1>7, <1>10, <2>2
    <3>2. page.prompts \in Seq(Row) /\ Distinct(page.prompts)
      BY <1>1, <3>1, ShownRows DEF PageFits
    <3>3. PICK row \in Row : row = Head(job.todo)
      BY <1>6
    <3>4. PICK list \in Seq(Row) : list = page.prompts
      BY <3>2
    <3>5. /\ Distinct(Replace(list, row))
          /\ \A i : Of(Replace(list, row), i) = IF i = row.id /\ Of(list, i) # {} THEN {row} ELSE Of(list, i)
      BY <3>2, <3>4, ReplaceHas
    <3>6. page'.prompts = Replace(list, row) /\ id = row.id
      BY <3>1, <3>3, <3>4
    <3> QED BY <3>1, <3>3, <3>4, <3>5, <3>6
  <2>3. ASSUME page'.prompts # None
        PROVE  \A i \in IdsOf(pendingDelete) : Of(page'.prompts, i) = {}
    BY <2>2, <2>3, PageAsBefore
  <2>4. ASSUME page'.prompts # None, id \notin IdsOf(pendingDelete)
        PROVE  InStep(page'.prompts, id, server)
    <3>1. id \in Unsure(job)
      BY <1>3, <1>5, <1>10 DEF Unsure
    <3>2. Of(page.prompts, id) # {}
      BY <1>1, <1>3, <1>10, <2>2, <2>4, <3>1 DEF PageFits, Shows, Patches
    <3>3. Of(page'.prompts, id) = {Head(job.todo)}
      BY <2>2, <2>4, <3>2
    <3> QED BY <1>6, <2>1, <3>3, NotNone DEF InStep
  <2>5. Touches(job) = {id}
    BY <1>5, <1>10
  <2> HIDE DEF id
  <2> QED BY <1>2, <1>3, <1>4, <1>6, <1>9, <2>2, <2>3, <2>4, <2>5, StepCalm
<1>11. CASE job.kind # "favorite"
  <2>1. page'.prompts = page.prompts
    BY <1>6, <1>11
  <2>2. Unsure(job) = {}
    BY <1>3, <1>11 DEF Unsure, Patches
  <2>3. \A i \in Touches(job) \ IdsOf(pendingDelete) :
          page.prompts # None /\ ~page.error => InStep(page.prompts, i, server)
    BY <1>3, <2>2, InStepBefore
  <2>4. page.prompts # None => Distinct(page.prompts) /\ \A i \in IdsOf(pendingDelete) : Of(page.prompts, i) = {}
    BY PageAsBefore
  <2> QED BY <1>2, <1>3, <1>4, <1>6, <1>9, <2>1, <2>3, <2>4, StepCalm
<1> QED BY <1>10, <1>11

LEMMA DuplicateAnswerCalm ==
  ASSUME Types, Owned, Now, NEW s \in Slots, DuplicateAnswer(s)
  PROVE  Later
<1> DEFINE job == jobs[s]
           one == <<job.row>>
<1>1. /\ PageFits(page.prompts, pendingDelete, page.error, jobs, server)
      /\ Distinct(pendingDelete)
      /\ ServedWell(jobs, server, before) /\ PageOK /\ JobsOK
  BY CalmIs
<1>2. Answer(s) /\ job \in Operation /\ WellFormed(job) /\ \A t \in Slots : t # s => jobs'[t] = jobs[t]
  BY StepOf DEF Answer
<1>3. job # None /\ job.state = "ok" /\ job.kind = "duplicate" /\ jobs'[s] = None
  BY <1>1 DEF DuplicateAnswer, Success, Finish, JobsOK
<1>4. UNCHANGED <<server, pendingDelete, before>>
  BY DEF DuplicateAnswer
<1>5. Copy \in Touches(job)
  BY <1>2, <1>3, SingleTouches
<1>6. /\ job.row \in Row /\ job.row.id = Copy
      /\ page'.prompts = IF job.mine /\ page.prompts # None THEN one \o page.prompts ELSE page.prompts
      /\ page'.toast = IF job.mine THEN None ELSE page.toast
      /\ Status(page') = Status(page)
  BY <1>1, DuplicateAnswerPage
<1>7. job.mine \/ (page.prompts = None /\ page.toast = None)
  BY <1>3, MineHere
<1>8. page'.toast = None
  BY <1>6, <1>7
<1>9. ToastFits(page'.toast, pendingDelete, jobs', server', before)
  BY <1>1, <1>8, NoToast
<1>10. server[Copy] = job.row
  BY <1>1, <1>3 DEF ServedWell, ServerSide
<1>11. one \in Seq(Row) /\ RowsOf(one) = {job.row} /\ IdsOf(one) = {Copy} /\ Distinct(one)
  BY <1>6, One
<1>12. Of(one, Copy) = {job.row} /\ \A i : i # Copy => Of(one, i) = {}
  BY <1>6, <1>11 DEF Of
<1> HIDE DEF one
<1>13. Unsure(job) = {Copy}
  BY <1>3 DEF Unsure, Filing
<1>14. ASSUME page'.prompts # None
       PROVE  /\ page.prompts # None /\ Distinct(page'.prompts)
              /\ Of(page'.prompts, Copy) = {job.row} /\ Copy \notin IdsOf(pendingDelete)
              /\ \A i : i # Copy => Of(page'.prompts, i) = Of(page.prompts, i)
  <2>1. page.prompts # None /\ page'.prompts = one \o page.prompts
    BY <1>6, <1>7, <1>14
  <2>2. page.prompts \in Seq(Row) /\ Distinct(page.prompts)
    BY <1>1, <2>1, ShownRows DEF PageFits
  <2>3. Shows(job, page.prompts, pendingDelete)
    BY <1>1, <1>3, <2>1 DEF PageFits
  <2>4. Copy \notin IdsOf(pendingDelete) /\ Of(page.prompts, Copy) = {}
    BY <1>3, <2>3 DEF Shows
  <2>5. IdsOf(one) \cap IdsOf(page.prompts) = {}
    BY <1>11, <2>4, IdsOfRows
  <2>6. Distinct(page'.prompts) /\ \A i : Of(page'.prompts, i) = Of(one, i) \cup Of(page.prompts, i)
    BY <1>11, <2>1, <2>2, <2>5, ConcatHas
  <2> QED BY <1>12, <2>1, <2>4, <2>6
<1>15. ASSUME page'.prompts # None
       PROVE  \A i \in IdsOf(pendingDelete) : Of(page'.prompts, i) = {}
  BY <1>14, <1>15, PageAsBefore
<1>16. ASSUME page'.prompts # None, ~page.error, NEW i \in Touches(job) \ IdsOf(pendingDelete)
       PROVE  InStep(page'.prompts, i, server)
  <2>1. CASE i = Copy
    BY <1>6, <1>10, <1>14, <1>16, <2>1, NotNone DEF InStep
  <2>2. CASE i # Copy
    <3>1. InStep(page.prompts, i, server)
      BY <1>3, <1>13, <1>14, <1>16, <2>2, InStepBefore
    <3> QED BY <1>14, <1>16, <2>2, <3>1 DEF InStep
  <2> QED BY <2>1, <2>2
<1>17. page'.prompts # None => \A i \in AllIds \ Touches(job) : Of(page'.prompts, i) = Of(page.prompts, i)
  BY <1>5, <1>14
<1> QED BY <1>2, <1>3, <1>4, <1>6, <1>9, <1>14, <1>15, <1>16, <1>17, StepCalm

-----------------------------------------------------------------------------
(* A batch goes on *)

(* What the server has of a batch after one answer.                         *)
LEMMA AdvanceServed ==
  ASSUME NEW job \in Operation, WellFormed(job), job.kind \in Batches, job.state \in {"ok", "failed"},
         NEW srv, NEW bef, ServerSide(job, srv, bef)
  PROVE  ServerSide(Advance(job), srv, bef)
<1> DEFINE new == Advance(job)
           head == Head(job.todo)
           rest == Tail(job.todo)
<1>1. /\ new \in Operation /\ new.kind = job.kind /\ new.todo = rest /\ new.state = "sent"
      /\ new.done = IF job.state = "ok" THEN Append(job.done, head) ELSE job.done
      /\ new.failed = IF job.state = "ok" THEN job.failed ELSE Append(job.failed, head)
  BY AdvancedJob
<1>2. job.todo # <<>> /\ job.todo \in Seq(Row) /\ job.done \in Seq(Row) /\ job.failed \in Seq(Row)
  BY OperationIs DEF WellFormed, Batches, FolderKinds
<1>3. InOrder(job)
  BY DEF ServerSide
<1>4. /\ head \in Row /\ RowsOf(job.todo) = {head} \cup RowsOf(rest) /\ IdsOf(job.todo) = {head.id} \cup IdsOf(rest)
      /\ Distinct(rest) /\ head.id \notin IdsOf(rest)
  BY <1>2, <1>3, HeadAndTail DEF InOrder
<1> HIDE DEF new, head, rest
<1>5. /\ RowsOf(Append(job.done, head)) = RowsOf(job.done) \cup {head}
      /\ IdsOf(Append(job.done, head)) = IdsOf(job.done) \cup {head.id}
      /\ IdsOf(Append(job.failed, head)) = IdsOf(job.failed) \cup {head.id}
      /\ Distinct(job.done) /\ head.id \notin IdsOf(job.done) => Distinct(Append(job.done, head))
      /\ Distinct(job.failed) /\ head.id \notin IdsOf(job.failed) => Distinct(Append(job.failed, head))
  BY <1>2, <1>4, AppendHas
<1>6. InOrder(new)
  <2>1. head.id \notin IdsOf(job.done) /\ head.id \notin IdsOf(job.failed)
    BY <1>3, <1>4 DEF InOrder
  <2>2. CASE job.state = "ok"
    BY <1>1, <1>3, <1>4, <1>5, <2>1, <2>2 DEF InOrder
  <2>3. CASE job.state # "ok"
    BY <1>1, <1>3, <1>4, <1>5, <2>1, <2>3 DEF InOrder
  <2> QED BY <2>2, <2>3
<1>7. RowsOf(new.todo) \cup RowsOf(new.done) \subseteq RowsOf(job.todo) \cup RowsOf(job.done)
  BY <1>1, <1>4, <1>5
<1>8. \A row \in RowsOf(new.done) : row \in RowsOf(job.done) \/ (row = head /\ job.state = "ok")
  BY <1>1, <1>5
<1>9. job.kind \in Filing =>
        \A row \in RowsOf(new.todo) \cup RowsOf(new.done) : row.folder = bef[row.id].folder
  BY <1>7 DEF ServerSide
<1>10. job.kind = "undoBatch" =>
         \A row \in RowsOf(new.done) : srv[row.id] # None /\ srv[row.id].folder = row.folder
  <2> SUFFICES ASSUME job.kind = "undoBatch", NEW row \in RowsOf(new.done)
               PROVE  srv[row.id] # None /\ srv[row.id].folder = row.folder
    OBVIOUS
  <2>1. CASE row \in RowsOf(job.done)
    BY <2>1 DEF ServerSide
  <2>2. CASE row = head /\ job.state = "ok"
    <3>1. job.row \in Row
      BY <2>2 DEF WellFormed, Answers, FolderKinds, Deletes
    <3>2. srv[head.id] = job.row /\ job.row.folder = head.folder
      BY <2>2 DEF ServerSide, Filing, head
    <3> QED BY <2>2, <3>1, <3>2, NotNone
  <2> QED BY <1>8, <2>1, <2>2
<1>11. job.kind = "delete" => \A row \in RowsOf(new.done) : srv[row.id] = None
  BY <1>8 DEF ServerSide, Deletes, head
<1>12. job.kind \notin {"favorite", "duplicate", "flush"}
  BY DEF Batches
<1>13. ServerSide(new, srv, bef)
  BY <1>1, <1>6, <1>9, <1>10, <1>11, <1>12 DEF ServerSide
<1> QED BY <1>13 DEF new

(* What the list shows of a prompt of a batch after one answer.             *)
LEMMA BatchInStep ==
  ASSUME Types, Owned, Now, NEW s \in Slots, jobs[s] # None, jobs[s].kind \in Batches, jobs[s].state \in {"ok", "failed"},
         page.prompts # None
  PROVE  /\ BatchList(jobs[s]) # None /\ Distinct(BatchList(jobs[s]))
         /\ \A i \in AllIds \ Touches(jobs[s]) : Of(BatchList(jobs[s]), i) = Of(page.prompts, i)
         /\ \A i \in IdsOf(pendingDelete) : Of(BatchList(jobs[s]), i) = {}
         /\ ~page.error =>
              \A i \in Touches(jobs[s]) \ IdsOf(pendingDelete) :
                i \notin Unsure(Advance(jobs[s])) => InStep(BatchList(jobs[s]), i, server)
         /\ jobs[s].mine
<1> DEFINE job == jobs[s]
           id == Head(job.todo).id
           list == BatchList(job)
           new == Advance(job)
<1>1. /\ PageFits(page.prompts, pendingDelete, page.error, jobs, server)
      /\ ServedWell(jobs, server, before) /\ PageOK /\ JobsOK /\ Healthy(jobs)
  BY CalmIs
<1>2. job \in Operation /\ WellFormed(job) /\ ServerSide(job, server, before) /\ Shows(job, page.prompts, pendingDelete)
  BY <1>1 DEF Healthy, ServedWell, PageFits
<1>3. job.mine
  BY MineHere DEF Batches
<1>4. page.prompts \in Seq(Row) /\ Distinct(page.prompts) /\ \A i \in IdsOf(pendingDelete) : Of(page.prompts, i) = {}
  BY <1>1, ShownRows, PageAsBefore
<1>5. /\ new \in Operation /\ new.kind = job.kind /\ new.todo = Tail(job.todo) /\ new.state = "sent"
      /\ new.failed = IF job.state = "ok" THEN job.failed ELSE Append(job.failed, Head(job.todo))
  BY <1>2, AdvancedJob
<1>6. job.kind \notin FolderKinds /\ job.kind \notin Patches \cup {"duplicate", "flush"}
  BY DEF Batches, FolderKinds, Patches
<1>7. /\ Touches(job) = IdsOf(job.todo) \cup IdsOf(job.done) \cup IdsOf(job.failed)
      /\ id \in Touches(job)
  BY <1>2, <1>6, TouchesIs
<1>8. job.todo # <<>> /\ job.todo \in Seq(Row) /\ job.failed \in Seq(Row)
  BY <1>2, <1>6, OperationIs DEF WellFormed
<1>9. Head(job.todo) \in Row /\ IdsOf(job.todo) = {id} \cup IdsOf(Tail(job.todo))
  BY <1>8, HeadAndTail
<1>10. IdsOf(Append(job.failed, Head(job.todo))) = IdsOf(job.failed) \cup {id}
  BY <1>8, <1>9, AppendHas
<1>11. new # None
  BY <1>5, OperationIs
<1> HIDE DEF new, id
<1>12. CASE job.kind # "delete" /\ job.state = "ok"
  <2>1. job.row \in Row /\ job.row.id = id
    BY <1>2, <1>6, <1>12 DEF WellFormed, Answers, Deletes, id
  <2>2. list = Replace(page.prompts, job.row)
    BY <1>3, <1>12 DEF BatchList
  <2> HIDE DEF list
  <2>3. /\ list \in Seq(Row) /\ Distinct(list)
        /\ \A i : Of(list, i) = IF i = id /\ Of(page.prompts, i) # {} THEN {job.row} ELSE Of(page.prompts, i)
    <3>1. /\ Replace(page.prompts, job.row) \in Seq(Row) /\ Distinct(Replace(page.prompts, job.row))
          /\ \A i : Of(Replace(page.prompts, job.row), i) =
                      IF i = job.row.id /\ Of(page.prompts, i) # {} THEN {job.row} ELSE Of(page.prompts, i)
      BY <1>4, <2>1, ReplaceHas
    <3> QED BY <2>1, <2>2, <3>1
  <2>4. list # None
    BY <2>3, NotNone
  <2>5. Unsure(job) = {id} /\ job.kind \in Filing
    BY <1>2, <1>12, OperationIs DEF Unsure, Filing, Batches, id
  <2>6. server[id] = job.row
    BY <1>2, <1>12, <2>5 DEF ServerSide, id
  <2>7. ASSUME ~page.error, NEW i \in Touches(job) \ IdsOf(pendingDelete) PROVE InStep(list, i, server)
    <3>1. CASE i = id
      <4>1. Of(page.prompts, id) # {}
        BY <1>2, <2>5, <2>7, <3>1 DEF Shows
      <4> QED BY <2>1, <2>3, <2>6, <3>1, <4>1, NotNone DEF InStep
    <3>2. CASE i # id
      <4>1. InStep(page.prompts, i, server)
        BY <2>5, <2>7, <3>2, InStepBefore
      <4> QED BY <2>3, <3>2, <4>1 DEF InStep
    <3> QED BY <3>1, <3>2
  <2> QED BY <1>3, <1>4, <1>7, <2>3, <2>4, <2>7 DEF list
<1>13. CASE ~(job.kind # "delete" /\ job.state = "ok")
  <2>1. list = page.prompts
    BY <1>13 DEF BatchList
  <2> HIDE DEF list
  <2>2. ASSUME ~page.error, NEW i \in Touches(job) \ IdsOf(pendingDelete), i \notin Unsure(new)
        PROVE  InStep(page.prompts, i, server)
    <3>1. CASE i \notin Unsure(job)
      BY <2>2, <3>1, InStepBefore
    <3>2. CASE i \in Unsure(job)
      <4>1. job.kind = "delete"
        BY <1>13, <3>2 DEF Unsure, Batches, Filing
      <4>2. Unsure(job) = IdsOf(job.todo) \cup IdsOf(job.failed) /\ Unsure(new) = IdsOf(new.todo) \cup IdsOf(new.failed)
        BY <1>5, <1>11, <4>1 DEF Unsure, Filing, Deletes
      <4>3. i = id /\ job.state = "ok"
        BY <1>5, <1>9, <1>10, <2>2, <3>2, <4>2
      <4>4. server[i] = None
        BY <1>2, <4>1, <4>3 DEF ServerSide, Deletes, id
      <4>5. Of(page.prompts, i) = {}
        BY <1>2, <2>2, <4>1 DEF Shows, Deletes
      <4> QED BY <4>4, <4>5 DEF InStep
    <3> QED BY <3>1, <3>2
  <2> QED BY <1>3, <1>4, <2>1, <2>2 DEF list, new
<1> QED BY <1>12, <1>13

-----------------------------------------------------------------------------
LEMMA BatchAdvancesCalm ==
  ASSUME Types, Owned, Now, NEW s \in Slots, BatchAdvances(s)
  PROVE  Later
<1> DEFINE job == jobs[s]
           new == Advance(job)
           list == BatchList(job)
<1>1. /\ PageFits(page.prompts, pendingDelete, page.error, jobs, server)
      /\ ServedWell(jobs, server, before) /\ PageOK /\ JobsOK
  BY CalmIs
<1>2. Answer(s) /\ job \in Operation /\ WellFormed(job) /\ \A t \in Slots : t # s => jobs'[t] = jobs[t]
  BY StepOf DEF Answer
<1>3. job # None /\ job.kind \in Batches /\ job.state \in {"ok", "failed"}
  BY DEF BatchAdvances
<1>4. UNCHANGED <<server, pendingDelete, before>>
  BY DEF BatchAdvances
<1>5. page'.prompts = list /\ page'.toast = page.toast /\ Status(page') = Status(page)
  BY <1>1, BatchAdvancesPage
<1>6. jobs'[s] = new
  BY <1>1, BatchKeeps DEF JobsOK
<1>7. new \in Operation /\ new.kind = job.kind /\ new.state = "sent"
  BY <1>2, <1>3, AdvancedJob
<1>8. new # None /\ Touches(new) = Touches(job)
  BY <1>2, <1>3, <1>7, OperationIs, AdvanceTouches
<1>9. ServerSide(new, server, before)
  BY <1>1, <1>2, <1>3, AdvanceServed DEF ServedWell
<1>10. page.prompts = None => list = None
  BY DEF BatchList
<1>11. page.prompts # None =>
         /\ Distinct(list)
         /\ \A i \in AllIds \ Touches(job) : Of(list, i) = Of(page.prompts, i)
         /\ \A i \in IdsOf(pendingDelete) : Of(list, i) = {}
         /\ ~page.error =>
              \A i \in Touches(job) \ IdsOf(pendingDelete) : i \notin Unsure(new) => InStep(list, i, server)
  BY <1>3, BatchInStep
<1>12. page.prompts # None => Shows(new, list, pendingDelete)
  <2> SUFFICES ASSUME page.prompts # None PROVE Shows(new, list, pendingDelete)
    OBVIOUS
  <2>1. CASE job.kind = "delete"
    <3>1. list = page.prompts
      BY <2>1 DEF BatchList
    <3>2. Shows(job, page.prompts, pendingDelete)
      BY <1>1, <1>3 DEF PageFits
    <3> HIDE DEF new, list
    <3> QED BY <1>7, <1>8, <2>1, <3>1, <3>2 DEF Shows, Deletes, Patches, Filing
  <2>2. CASE job.kind \in Filing
    <3> HIDE DEF new, list
    <3>1. Unsure(new) = {}
      BY <1>7, <1>8, <2>2 DEF Unsure, Filing
    <3> QED BY <1>7, <2>2, <3>1 DEF Shows, Deletes, Filing
  <2> QED BY <1>3, <2>1, <2>2 DEF Batches, Filing
<1>13. ToastFits(page.toast, pendingDelete, jobs', server', before)
  <2> HIDE DEF new, list
  <2>1. \A kinds, i : TouchedBy(jobs, kinds, i) => TouchedBy(jobs', kinds, i)
    BY <1>2, <1>6, <1>7, <1>8, StillTouched
  <2> QED BY <1>4, <2>1, ToastStays
<1> HIDE DEF new, list
<1> QED BY <1>2, <1>4, <1>5, <1>6, <1>8, <1>9, <1>10, <1>11, <1>12, <1>13, StepCalm

LEMMA BatchEndsCalm ==
  ASSUME Types, Owned, Now, NEW s \in Slots, BatchEnds(s), ~tainted'
  PROVE  Later
<1> DEFINE job == jobs[s]
           new == Advance(job)
           list == BatchList(job)
<1>1. /\ PageFits(page.prompts, pendingDelete, page.error, jobs, server)
      /\ ToastFits(page.toast, pendingDelete, jobs, server, before)
      /\ ServedWell(jobs, server, before) /\ PageOK /\ JobsOK /\ Distinct(pendingDelete)
  BY CalmIs
<1>2. Answer(s) /\ job \in Operation /\ WellFormed(job) /\ \A t \in Slots : t # s => jobs'[t] = jobs[t]
  BY StepOf DEF Answer
<1>3. job # None /\ job.kind \in Batches /\ job.state \in {"ok", "failed"} /\ Len(job.todo) = 1
  BY DEF BatchEnds
<1>4. UNCHANGED <<server, pendingDelete, before>>
  BY DEF BatchEnds
<1>5. jobs'[s] = None
  BY <1>1 DEF BatchEnds, Finish, JobsOK
<1>6. /\ page'.prompts = IF job.kind = "delete" /\ new.failed # <<>> /\ job.mine /\ page.prompts # None
                         THEN new.failed \o page.prompts ELSE list
      /\ page'.toast = IF ~job.mine THEN page.toast
                       ELSE IF job.kind = "batch"
                       THEN IF new.done = <<>> THEN None ELSE [kind |-> "undoMove", targets |-> new.done]
                       ELSE IF new.failed = <<>> THEN page.toast ELSE None
      /\ Status(page') = Status(page)
  BY <1>1, BatchEndsPage
<1>7. /\ new \in Operation /\ new.kind = job.kind /\ new.todo = Tail(job.todo) /\ new.state = "sent"
  BY <1>2, <1>3, AdvancedJob
<1>8. new # None /\ Touches(new) = Touches(job)
  BY <1>2, <1>3, <1>7, OperationIs, AdvanceTouches
<1>9. ServerSide(new, server, before)
  BY <1>1, <1>2, <1>3, AdvanceServed DEF ServedWell
<1>10. page.prompts = None => list = None
  BY DEF BatchList
<1>11. page.prompts # None =>
         /\ Distinct(list)
         /\ \A i \in AllIds \ Touches(job) : Of(list, i) = Of(page.prompts, i)
         /\ \A i \in IdsOf(pendingDelete) : Of(list, i) = {}
         /\ ~page.error =>
              \A i \in Touches(job) \ IdsOf(pendingDelete) : i \notin Unsure(new) => InStep(list, i, server)
         /\ job.mine
  BY <1>3, BatchInStep
<1>12. job.kind = "delete" => ~Stale(new.failed) /\ list = page.prompts
  <2>1. tainted' = (tainted \/ (new.kind = "delete" /\ Stale(new.failed)))
    BY DEF BatchEnds
  <2>2. job.kind = "delete" => list = page.prompts
    BY DEF BatchList
  <2> HIDE DEF new
  <2> QED BY <1>7, <2>1, <2>2
<1>13. job.kind # "flush" /\ (job.mine \/ page.toast = None)
  BY <1>3, MineHere DEF Batches
<1>14. page.prompts # None => Shows(job, page.prompts, pendingDelete)
  BY <1>1, <1>3 DEF PageFits
<1> HIDE DEF new, list
<1>15. job.kind \notin FolderKinds \cup {"duplicate"} /\ new.done \in Seq(Row) /\ new.failed \in Seq(Row) /\ job.todo \in Seq(Row)
  BY <1>2, <1>3, <1>7, OperationIs DEF Batches, FolderKinds
<1>16. new.todo = <<>>
  <2>1. job.todo # <<>>
    BY <1>2, <1>15 DEF WellFormed
  <2> QED BY <1>3, <1>7, <1>15, <2>1, HeadAndTail
<1>17. /\ Touches(job) = IdsOf(new.done) \cup IdsOf(new.failed)
       /\ IdsOf(new.done) \cap IdsOf(new.failed) = {} /\ Distinct(new.done) /\ Distinct(new.failed)
  BY <1>7, <1>8, <1>9, <1>15, <1>16, TouchesIs, Nothing DEF ServerSide, InOrder
<1>18. ASSUME job.kind = "delete", NEW i \in IdsOf(new.done) PROVE server[i] = None
  BY <1>7, <1>9, <1>18, IdsOfRows DEF ServerSide
<1>19. ASSUME job.kind = "delete", NEW row \in RowsOf(new.failed) PROVE server[row.id] = row
  BY <1>12, <1>19 DEF Stale, RowsOf
<1>20. ToastFits(page'.toast, pendingDelete, jobs', server', before)
  <2>1. CASE page'.toast = None
    BY <1>1, <2>1, NoToast
  <2>2. CASE job.kind = "batch" /\ page'.toast = [kind |-> "undoMove", targets |-> new.done]
    <3>1. \A row \in RowsOf(new.done) : row.folder = before[row.id].folder
      BY <1>7, <1>9, <2>2 DEF ServerSide, Filing
    <3>2. page'.toast.kind = "undoMove" /\ page'.toast.targets = new.done
      BY <2>2
    <3> QED BY <1>1, <1>17, <3>1, <3>2 DEF ToastFits
  <2>3. CASE job.kind # "batch" /\ page'.toast = page.toast /\ new.failed = <<>>
    <3>1. \A i \in AllIds : TouchedBy(jobs, {"batch"}, i) => TouchedBy(jobs', {"batch"}, i)
      BY <1>2, <2>3 DEF TouchedBy
    <3>2. ASSUME NEW i \in AllIds, server[i] = None \/ TouchedBy(jobs, Deletes \cup {"duplicate"}, i)
          PROVE  server'[i] = None \/ TouchedBy(jobs', Deletes \cup {"duplicate"}, i)
      <4>1. CASE server[i] = None
        BY <1>4, <4>1
      <4>2. CASE TouchedBy(jobs, Deletes \cup {"duplicate"}, i)
        <5>1. PICK t \in Slots : jobs[t] # None /\ jobs[t].kind \in Deletes \cup {"duplicate"} /\ i \in Touches(jobs[t])
          BY <4>2 DEF TouchedBy
        <5>2. CASE t = s
          <6>1. job.kind = "delete"
            BY <1>13, <1>15, <5>1, <5>2 DEF Deletes
          <6>2. i \in IdsOf(new.done)
            BY <1>17, <2>3, <5>1, <5>2, Nothing
          <6> QED BY <1>4, <1>18, <6>1, <6>2
        <5>3. CASE t # s
          BY <1>2, <5>1, <5>3 DEF TouchedBy
        <5> QED BY <5>2, <5>3
      <4> QED BY <3>2, <4>1, <4>2
    <3> QED BY <2>3, <3>1, <3>2, ToastStays
  <2> QED BY <1>6, <1>13, <2>1, <2>2, <2>3
<1>21. CASE job.kind \in Filing
  <2>1. Unsure(new) = {}
    BY <1>7, <1>8, <1>21 DEF Unsure, Filing
  <2>2. page'.prompts = list
    BY <1>6, <1>21 DEF Filing
  <2> QED BY <1>2, <1>4, <1>5, <1>6, <1>10, <1>11, <1>20, <2>1, <2>2, StepCalm
<1>22. CASE job.kind = "delete"
  <2>1. ASSUME page.prompts # None, NEW i \in Touches(job) PROVE Of(page.prompts, i) = {} /\ i \notin IdsOf(pendingDelete)
    BY <1>14, <1>22, <2>1 DEF Shows, Deletes
  <2>2. CASE new.failed = <<>> \/ page.prompts = None
    <3>1. page'.prompts = page.prompts
      BY <1>6, <1>12, <1>22, <2>2
    <3>2. page.prompts # None => \A i \in Touches(job) : InStep(page.prompts, i, server)
      BY <1>17, <1>18, <1>22, <2>1, <2>2, Nothing DEF InStep
    <3>3. page.prompts # None => Distinct(page.prompts) /\ \A i \in IdsOf(pendingDelete) : Of(page.prompts, i) = {}
      BY PageAsBefore
    <3> QED BY <1>2, <1>4, <1>5, <1>6, <1>20, <3>1, <3>2, <3>3, StepCalm
  <2>3. CASE new.failed # <<>> /\ page.prompts # None
    <3>1. page'.prompts = new.failed \o page.prompts
      BY <1>6, <1>11, <1>22, <2>3
    <3>2. page.prompts \in Seq(Row) /\ Distinct(page.prompts) /\ \A i \in IdsOf(pendingDelete) : Of(page.prompts, i) = {}
      BY <1>1, <2>3, ShownRows, PageAsBefore
    <3>3. IdsOf(new.failed) \cap IdsOf(page.prompts) = {}
      BY <1>17, <2>1, <2>3, IdsOfRows
    <3>4. Distinct(page'.prompts) /\ \A i : Of(page'.prompts, i) = Of(new.failed, i) \cup Of(page.prompts, i)
      BY <1>15, <1>17, <3>1, <3>2, <3>3, ConcatHas
    <3>5. \A i : i \notin IdsOf(new.failed) => Of(new.failed, i) = {}
      BY IdsOfRows
    <3>6. IdsOf(new.failed) \subseteq Touches(job)
      BY <1>17
    <3>7. \A i \in AllIds \ Touches(job) : Of(page'.prompts, i) = Of(page.prompts, i)
      BY <3>4, <3>5, <3>6
    <3>8. \A i \in IdsOf(pendingDelete) : Of(page'.prompts, i) = {}
      BY <2>1, <2>3, <3>2, <3>4, <3>5, <3>6
    <3>9. ASSUME NEW i \in Touches(job) PROVE InStep(page'.prompts, i, server)
      <4>1. CASE i \in IdsOf(new.failed)
        <5>1. PICK row \in RowsOf(new.failed) : row.id = i
          BY <4>1, IdsOfRows
        <5>2. Of(new.failed, i) = {row} /\ row \in Row
          BY <1>15, <1>17, <5>1, DistinctRows, ListRows
        <5>3. server[i] = row
          BY <1>19, <1>22, <5>1
        <5> QED BY <2>1, <2>3, <3>4, <5>2, <5>3, NotNone DEF InStep
      <4>2. CASE i \notin IdsOf(new.failed)
        <5>1. server[i] = None
          BY <1>17, <1>18, <1>22, <3>9, <4>2
        <5> QED BY <2>1, <2>3, <3>4, <3>5, <4>2, <5>1 DEF InStep
      <4> QED BY <4>1, <4>2
    <3> QED BY <1>2, <1>4, <1>5, <1>6, <1>20, <2>3, <3>4, <3>7, <3>8, <3>9, StepCalm
  <2> QED BY <2>2, <2>3
<1> QED BY <1>3, <1>21, <1>22 DEF Batches, Filing

-----------------------------------------------------------------------------
(* Folders, and deletions sent when the page went *)

LEMMA FolderAnswerCalm ==
  ASSUME Types, Owned, Now, NEW s \in Slots, FolderAnswer(s)
  PROVE  Later
<1> DEFINE job == jobs[s]
           new == [job EXCEPT !.state = "reading"]
<1>1. ServedWell(jobs, server, before) /\ JobsOK
  BY CalmIs
<1>2. Answer(s) /\ job \in Operation /\ WellFormed(job) /\ \A t \in Slots : t # s => jobs'[t] = jobs[t]
  BY StepOf DEF Answer
<1>3. job # None /\ job.kind \in FolderKinds /\ jobs'[s] = new
  BY <1>1 DEF FolderAnswer, Success, FolderKinds, JobsOK
<1>4. UNCHANGED <<server, page, pendingDelete, before>>
  BY DEF FolderAnswer
<1>5. /\ new \in Operation /\ new.kind = job.kind /\ new.todo = job.todo /\ new.done = job.done
      /\ new.failed = job.failed /\ new.state = "reading"
  BY <1>2, <1>3, MovesOn
<1> HIDE DEF new
<1>6. new # None /\ Touches(new) = AllIds /\ Touches(job) = AllIds
  BY <1>2, <1>3, <1>5, OperationIs, TouchesIs
<1>7. Unsure(new) = AllIds
  BY <1>3, <1>5, <1>6 DEF Unsure, FolderKinds, Filing, Deletes
<1>8. \A list : Shows(new, list, pendingDelete)
  BY <1>3, <1>5 DEF Shows, FolderKinds, Filing, Patches, Deletes
<1>9. ServerSide(new, server', before)
  <2>1. InOrder(new)
    BY <1>1, <1>3, <1>5 DEF ServedWell, ServerSide, InOrder
  <2> QED BY <1>3, <1>5, <2>1 DEF ServerSide, FolderKinds, Filing, Patches, Deletes
<1>10. ToastFits(page.toast, pendingDelete, jobs', server', before)
  <2>1. \A kinds, i : TouchedBy(jobs, kinds, i) => TouchedBy(jobs', kinds, i)
    BY <1>2, <1>3, <1>5, <1>6, StillTouched
  <2> QED BY <1>4, <2>1, ToastStays
<1>11. page.prompts # None => Distinct(page.prompts) /\ \A i \in IdsOf(pendingDelete) : Of(page.prompts, i) = {}
  BY PageAsBefore
<1> QED BY <1>2, <1>3, <1>4, <1>6, <1>7, <1>8, <1>9, <1>10, <1>11, StepCalm

(* An operation that leaves the list as it was and shows what is stored.    *)
LEMMA FolderLeavesCalm ==
  ASSUME Types, Owned, Now, NEW s \in Slots, FolderFails(s) \/ FolderDone(s), page.mounted
  PROVE  Later
<1> DEFINE job == jobs[s]
<1>1. PageOK /\ JobsOK /\ Distinct(pendingDelete)
  BY CalmIs
<1>2. Answer(s) /\ job \in Operation /\ WellFormed(job) /\ \A t \in Slots : t # s => jobs'[t] = jobs[t]
  BY StepOf DEF Answer
<1>3. job # None /\ job.kind \in FolderKinds /\ job.state \in {"failed", "read"}
  BY <1>1, <1>2, OperationIs, FolderDonePage DEF FolderFails, Failure, FolderKinds
<1>4. UNCHANGED <<server, pendingDelete, before>> /\ jobs'[s] = None
  BY <1>1 DEF FolderFails, FolderDone, Finish, JobsOK
<1>5. page'.prompts = page.prompts /\ Status(page') = Status(page) /\ page'.toast = IF job.mine THEN None ELSE page.toast
  BY <1>1, FolderFailsPage, FolderDonePage
<1>6. page'.toast = None
  BY <1>3, <1>5, MineHere DEF FolderKinds
<1>7. ToastFits(page'.toast, pendingDelete, jobs', server', before)
  BY <1>1, <1>6, NoToast
<1>8. Unsure(job) = {}
  BY <1>3 DEF Unsure, FolderKinds, Filing, Deletes
<1>9. \A i \in Touches(job) \ IdsOf(pendingDelete) :
        page.prompts # None /\ ~page.error => InStep(page.prompts, i, server)
  BY <1>3, <1>8, InStepBefore
<1>10. page.prompts # None => Distinct(page.prompts) /\ \A i \in IdsOf(pendingDelete) : Of(page.prompts, i) = {}
  BY PageAsBefore
<1> QED BY <1>2, <1>4, <1>5, <1>7, <1>9, <1>10, StepCalm

LEMMA FlushEndsCalm ==
  ASSUME Types, Owned, Now, NEW s \in Slots, FlushEnds(s)
  PROVE  Later
<1> DEFINE job == jobs[s]
           head == Head(job.todo)
           new == jobs'[s]
<1>1. ServedWell(jobs, server, before) /\ JobsOK /\ PageFits(page.prompts, pendingDelete, page.error, jobs, server)
  BY CalmIs
<1>2. Answer(s) /\ job \in Operation /\ WellFormed(job) /\ \A t \in Slots : t # s => jobs'[t] = jobs[t]
  BY StepOf DEF Answer
<1>3. job # None /\ job.kind = "flush" /\ job.state \in {"ok", "failed"}
  BY DEF FlushEnds
<1>4. UNCHANGED <<server, page, pendingDelete, before>>
  BY DEF FlushEnds
<1>5. /\ job.todo \in Seq(Row) /\ job.todo # <<>> /\ job.done = <<>> /\ job.failed = <<>> /\ job.kind \notin FolderKinds
  BY <1>2, <1>3, OperationIs DEF WellFormed, FolderKinds, Batches
<1>6. Touches(job) = IdsOf(job.todo)
  <2>1. IdsOf(job.done) = {} /\ IdsOf(job.failed) = {}
    BY <1>5, Nothing
  <2>2. Touches(job) = IdsOf(job.todo) \cup IdsOf(job.done) \cup IdsOf(job.failed)
                         \cup (IF job.kind = "duplicate" THEN {Copy} ELSE {})
    BY <1>2, <1>5, TouchesIs
  <2> QED BY <1>3, <2>1, <2>2
<1>7. ServerSide(job, server, before) /\ server[head.id] = None
  BY <1>1, <1>3 DEF ServedWell, ServerSide, Deletes
<1>8. Distinct(job.todo)
  BY <1>7 DEF ServerSide, InOrder
<1>9. IdsOf(job.todo) = {head.id} \cup IdsOf(Tail(job.todo)) /\ Distinct(Tail(job.todo)) /\ (Len(job.todo) = 1 <=> Tail(job.todo) = <<>>)
  BY <1>5, <1>8, HeadAndTail
<1>10. jobs'[s] = IF Len(job.todo) = 1 THEN None ELSE [job EXCEPT !.todo = Tail(@), !.state = "sent"]
  BY <1>1 DEF FlushEnds, JobsOK
<1>11. /\ Len(job.todo) = 1 => new = None
       /\ Len(job.todo) # 1 => /\ new \in Operation /\ new.kind = "flush" /\ new.todo = Tail(job.todo) /\ new.state = "sent"
                               /\ new.done = <<>> /\ new.failed = <<>> /\ new # None
  <2>1. CASE Len(job.todo) = 1
    BY <1>10, <2>1
  <2>2. CASE Len(job.todo) # 1
    <3>1. new = [job EXCEPT !.todo = Tail(@), !.state = "sent"]
      BY <1>10, <2>2
    <3>2. LET next == [job EXCEPT !.todo = Tail(@), !.state = "sent"]
          IN  /\ next \in Operation /\ next.kind = "flush" /\ next.todo = Tail(job.todo) /\ next.state = "sent"
              /\ next.done = job.done /\ next.failed = job.failed
      BY <1>2, <1>3, <2>2, FlushPops
    <3> HIDE DEF new
    <3> QED BY <1>5, <2>2, <3>1, <3>2, OperationIs
  <2> QED BY <2>1, <2>2
<1> HIDE DEF new, head
<1>12. new # None => Touches(new) = IdsOf(Tail(job.todo)) /\ Unsure(new) = IdsOf(Tail(job.todo))
  BY <1>11, TouchesIs, Nothing DEF Unsure, Filing, Deletes, FolderKinds
<1>13. new = None => IdsOf(Tail(job.todo)) = {}
  BY <1>9, <1>11, Nothing
<1>14. page.prompts # None => \A i \in Touches(job) : Of(page.prompts, i) = {} /\ i \notin IdsOf(pendingDelete)
  BY <1>1, <1>3 DEF PageFits, Shows, Deletes
<1>15. ASSUME page.prompts # None, NEW i \in Touches(job), i \notin Unsure(new) PROVE InStep(page.prompts, i, server)
  <2>1. i = head.id
    BY <1>6, <1>9, <1>12, <1>13, <1>15
  <2> QED BY <1>7, <1>14, <1>15, <2>1 DEF InStep
<1>16. new # None => ServerSide(new, server, before)
  BY <1>9, <1>11, Nothing DEF ServerSide, InOrder, Patches, Filing, Deletes
<1>17. new # None /\ page.prompts # None => Shows(new, page.prompts, pendingDelete)
  BY <1>6, <1>9, <1>11, <1>12, <1>14 DEF Shows, Patches, Filing
<1>18. ToastFits(page.toast, pendingDelete, jobs', server', before)
  <2>1. \A i \in AllIds : TouchedBy(jobs, {"batch"}, i) => TouchedBy(jobs', {"batch"}, i)
    BY <1>2, <1>3 DEF TouchedBy
  <2>2. ASSUME NEW i \in AllIds, server[i] = None \/ TouchedBy(jobs, Deletes \cup {"duplicate"}, i)
        PROVE  server'[i] = None \/ TouchedBy(jobs', Deletes \cup {"duplicate"}, i)
    <3>1. CASE server[i] = None
      BY <1>4, <3>1
    <3>2. CASE server[i] # None
      <4>1. PICK t \in Slots : jobs[t] # None /\ jobs[t].kind \in Deletes \cup {"duplicate"} /\ i \in Touches(jobs[t])
        BY <2>2, <3>2 DEF TouchedBy
      <4>2. CASE t = s
        <5>1. i \in IdsOf(Tail(job.todo))
          BY <1>6, <1>7, <1>9, <3>2, <4>1, <4>2
        <5>2. new # None /\ i \in Touches(new) /\ new.kind = "flush"
          BY <1>11, <1>12, <1>13, <5>1
        <5> QED BY <5>2 DEF TouchedBy, Deletes, new
      <4>3. CASE t # s
        BY <1>2, <4>1, <4>3 DEF TouchedBy
      <4> QED BY <4>2, <4>3
    <3> QED BY <3>1, <3>2
  <2> QED BY <2>1, <2>2, ToastStays
<1>19. page.prompts # None => Distinct(page.prompts) /\ \A i \in IdsOf(pendingDelete) : Of(page.prompts, i) = {}
  BY PageAsBefore
<1> QED BY <1>2, <1>4, <1>15, <1>16, <1>17, <1>18, <1>19, StepCalm DEF new

LEMMA AnswerCalm ==
  ASSUME Types, Owned, Now, NEW s \in Slots, Answer(s), ~tainted', page.mounted \/ ~FolderDone(s)
  PROVE  Later
<1>1. CASE FolderFails(s) /\ ~page.mounted
  <2> DEFINE job == jobs[s]
  <2>1. PageOK /\ JobsOK /\ Distinct(pendingDelete)
    BY CalmIs
  <2>2. job \in Operation /\ WellFormed(job) /\ \A t \in Slots : t # s => jobs'[t] = jobs[t]
    BY StepOf
  <2>3. UNCHANGED <<server, pendingDelete, before>> /\ jobs'[s] = None
    BY <1>1, <2>1 DEF FolderFails, Finish, JobsOK
  <2>4. page.prompts = None /\ page.toast = None
    BY <1>1 DEF Owned, GoneOwned
  <2>5. page'.prompts = None /\ Status(page') = Status(page) /\ page'.toast = None
    BY <1>1, <2>1, <2>4, FolderFailsPage
  <2>6. ToastFits(page'.toast, pendingDelete, jobs', server', before)
    BY <2>1, <2>5, NoToast
  <2> QED BY <2>3, <2>5, <2>6, StepCalm
<1> QED BY <1>1, UpdateAnswerCalm, UpdateFailsCalm, DuplicateAnswerCalm, BatchAdvancesCalm, BatchEndsCalm,
           FolderAnswerCalm, FolderLeavesCalm, FlushEndsCalm DEF Answer

-----------------------------------------------------------------------------
(* Reads, and what only the page knows *)

LEMMA SameCalm ==
  ASSUME Types, Now, UNCHANGED <<server, pendingDelete, jobs, before>>, Status(page') = Status(page),
         page'.prompts = page.prompts, page'.toast \in {page.toast, None},
         Reads(page.loading, jobs, data'.read, server)
  PROVE  Later
<1>1. /\ Apart(jobs) /\ Mine(page.mounted, jobs) /\ Quieter(page, jobs)
      /\ PageFits(page.prompts, pendingDelete, page.error, jobs, server)
      /\ ToastFits(page.toast, pendingDelete, jobs, server, before)
      /\ ServedWell(jobs, server, before) /\ Distinct(pendingDelete)
  BY CalmIs
<1>2. page'.mounted = page.mounted /\ page'.loading = page.loading /\ page'.error = page.error
  BY StatusIs
<1>3. Quieter(page', jobs)
  BY <1>1, <1>2 DEF Quieter
<1>4. ToastFits(page'.toast, pendingDelete, jobs, server, before)
  BY <1>1, NoToast
<1> QED BY <1>1, <1>2, <1>3, <1>4 DEF Later, Calm

LEMMA LooksCalm ==
  ASSUME Types, Now, Looks
  PROVE  Later
<1>1. /\ page'.prompts = page.prompts /\ page'.toast = page.toast /\ Status(page') = Status(page)
      /\ UNCHANGED <<server, data, pendingDelete, jobs, before>>
  BY LooksPage DEF Types
<1>2. Reads(page.loading, jobs, data.read, server)
  BY CalmIs
<1> QED BY <1>1, <1>2, SameCalm

LEMMA ToastExpiresCalm ==
  ASSUME Types, Now, ToastExpires
  PROVE  Later
<1>1. page' = [page EXCEPT !.toast = None] /\ UNCHANGED <<server, data, pendingDelete, jobs, before>>
  BY DEF ToastExpires
<1>2. page'.prompts = page.prompts /\ page'.toast = None /\ Status(page') = Status(page)
  BY <1>1 DEF Types, PageOK, PageRecord, Status
<1>3. Reads(page.loading, jobs, data.read, server)
  BY CalmIs
<1> QED BY <1>1, <1>2, <1>3, SameCalm

LEMMA ReadStepsCalm ==
  ASSUME Types, Now, ServeRead \/ LoseRead \/ ReadAgain
  PROVE  Later
<1>1. UNCHANGED <<server, page, pendingDelete, jobs, before>>
  BY DEF ServeRead, LoseRead, ReadAgain
<1>2. Reads(page.loading, jobs, data'.read, server)
  <2>1. CASE ServeRead
    <3>1. data'.read.rows = Rows
      BY <2>1, ServeReadIs DEF Types
    <3>2. Rows = Stored(server)
      BY DEF Rows, Stored, AllIds
    <3> QED BY <3>1, <3>2 DEF Reads
  <2>2. CASE LoseRead
    BY <2>2, LoseReadIs DEF Types, Reads
  <2>3. CASE ReadAgain
    BY <2>3, ReadAgainIs DEF Types, Reads
  <2> QED BY <2>1, <2>2, <2>3
<1> QED BY <1>1, <1>2, SameCalm

(* A page opened with nothing under way.                                    *)
LEMMA AfreshCalm ==
  ASSUME \A s \in Slots : jobs'[s] = None, data'.read.state # "ok", pendingDelete' = <<>>,
         page'.prompts = None, page'.toast = None
  PROVE  Later
<1>1. Apart(jobs')
  BY NoTouch DEF Apart
<1>2. Quieter(page', jobs') /\ Mine(page'.mounted, jobs') /\ ServedWell(jobs', server', before')
  BY DEF Quieter, Mine, ServedWell
<1>3. PageFits(page'.prompts, pendingDelete', page'.error, jobs', server')
  BY DEF PageFits
<1>4. ToastFits(page'.toast, pendingDelete', jobs', server', before')
  BY Nothing, NoToast
<1>5. Reads(page'.loading, jobs', data'.read, server')
  BY DEF Reads
<1> QED BY <1>1, <1>2, <1>3, <1>4, <1>5 DEF Later, Calm

LEMMA ReturnCalm ==
  ASSUME Types, Owned, Return, ~tainted'
  PROVE  Later
<1>1. data.read.state = "no" /\ \A s \in Slots : jobs[s] = None
  BY DEF Return, Unsettled
<1>2. data' = Load /\ page' = NewPage /\ jobs' = jobs /\ pendingDelete' = pendingDelete /\ ~page.mounted
  BY DEF Return
<1>3. data'.read.state = "sent"
  BY <1>1, <1>2, LoadIs DEF Types
<1>4. pendingDelete = <<>>
  BY <1>2 DEF Owned, GoneOwned
<1> QED BY <1>1, <1>2, <1>3, <1>4, NewPageIs, AfreshCalm

LEMMA FolderDoneAfresh ==
  ASSUME Types, Owned, NEW s \in Slots, FolderDone(s), ~page.mounted, ~tainted'
  PROVE  Later
<1>1. data.read.state = "no" /\ \A t \in Slots \ {s} : jobs[t] = None
  BY DEF FolderDone, Unsettled
<1>2. data' = Refresh /\ jobs' = [jobs EXCEPT ![s] = None] /\ pendingDelete' = pendingDelete
  BY DEF FolderDone, NotifyLibraryChanged, Finish
<1>3. data'.read.state = "sent"
  BY <1>1, <1>2, RefreshIs DEF Types
<1>4. pendingDelete = <<>>
  BY DEF Owned, GoneOwned
<1>5. page'.prompts = None /\ page'.toast = None
  BY FolderDonePage DEF Types
<1>6. \A t \in Slots : jobs'[t] = None
  BY <1>1, <1>2 DEF Types, JobsOK
<1> QED BY <1>2, <1>3, <1>4, <1>5, <1>6, AfreshCalm

LEMMA TryAgainCalm ==
  ASSUME Types, Now, TryAgain, ~tainted'
  PROVE  Later
<1>1. data.read.state = "no" /\ \A s \in Slots : jobs[s] = None
  BY DEF TryAgain, Unsettled
<1>2. data' = Load /\ page' = [page EXCEPT !.loading = TRUE] /\ page.error /\ UNCHANGED <<server, pendingDelete, jobs, before>>
  BY DEF TryAgain
<1>3. data'.read.state = "sent"
  BY <1>1, <1>2, LoadIs DEF Types
<1>4. /\ page'.prompts = page.prompts /\ page'.toast = page.toast /\ page'.loading
      /\ page'.mounted = page.mounted /\ page'.error = page.error
  BY <1>2 DEF Types, PageOK, PageRecord
<1>5. /\ Apart(jobs) /\ Mine(page.mounted, jobs)
      /\ PageFits(page.prompts, pendingDelete, page.error, jobs, server)
      /\ ToastFits(page.toast, pendingDelete, jobs, server, before)
      /\ ServedWell(jobs, server, before)
  BY CalmIs
<1>6. Quieter(page', jobs)
  BY <1>1, <1>2, <1>4 DEF Quieter
<1>7. Reads(page'.loading, jobs', data'.read, server')
  BY <1>3 DEF Reads
<1> QED BY <1>2, <1>4, <1>5, <1>6, <1>7 DEF Later, Calm

(* An operation that waits for a read works alone.                          *)
LEMMA WaitsAlone ==
  ASSUME Types, Now, NEW s \in Slots, Waits(jobs[s])
  PROVE  jobs[s].kind \in FolderKinds /\ \A t \in Slots : t # s => jobs[t] = None
<1>1. Apart(jobs) /\ Healthy(jobs)
  BY CalmIs
<1>2. jobs[s] # None /\ jobs[s].state = "reading" /\ jobs[s] \in Operation /\ WellFormed(jobs[s])
  BY <1>1 DEF Waits, Healthy
<1>3. jobs[s].kind \in FolderKinds
  BY <1>2 DEF WellFormed
<1>4. Touches(jobs[s]) = AllIds
  BY <1>2, <1>3, TouchesIs
<1>5. ASSUME NEW t \in Slots, t # s, jobs[t] # None PROVE FALSE
  <2>1. Touches(jobs[t]) # {} /\ Touches(jobs[t]) \subseteq AllIds
    BY <1>1, <1>5, TouchesIs DEF Healthy
  <2>2. Touches(jobs[s]) \cap Touches(jobs[t]) = {}
    BY <1>1, <1>5 DEF Apart
  <2> QED BY <1>4, <2>1, <2>2
<1> QED BY <1>3, <1>5

LEMMA ReadDoneCalm ==
  ASSUME Types, Owned, Now, ReadDone
  PROVE  Later
<1> DEFINE ok == data.read.state = "ok"
           rows == Shown(data.read.rows)
<1>1. /\ Apart(jobs) /\ Mine(page.mounted, jobs) /\ Quieter(page, jobs) /\ Reads(page.loading, jobs, data.read, server)
      /\ PageFits(page.prompts, pendingDelete, page.error, jobs, server)
      /\ ToastFits(page.toast, pendingDelete, jobs, server, before)
      /\ ServedWell(jobs, server, before) /\ Healthy(jobs) /\ JobsOK /\ PageOK /\ ServerOK /\ DataOK
  BY CalmIs DEF Types
<1>2. UNCHANGED <<server, pendingDelete, before>>
  BY DEF ReadDone
<1>3. /\ page'.toast = page.toast
      /\ ~Awaited => page' = page
      /\ Awaited => Status(page') = <<page.mounted, FALSE, ~ok>>
      /\ Awaited /\ ok => page'.prompts = AsList(rows)
      /\ ~(Awaited /\ ok) => page'.prompts = page.prompts
      /\ rows \in SUBSET Row /\ \A a, b \in rows : a.id = b.id => a = b
  BY <1>1, ReadDonePage
<1>4. \A s \in Slots : IF Waits(jobs[s]) THEN jobs'[s] = [jobs[s] EXCEPT !.state = "read"] ELSE jobs'[s] = jobs[s]
  BY <1>1, ReadDoneJobs
<1>5. \A s \in Slots : Onward(jobs[s], jobs'[s]) /\ ~Waits(jobs'[s])
  BY ReadDoneOnward
<1>6. ASSUME NEW s \in Slots, jobs'[s] # jobs[s]
      PROVE  /\ jobs[s] # None /\ jobs'[s] # None /\ jobs'[s].kind = jobs[s].kind /\ jobs[s].kind \in FolderKinds
             /\ jobs'[s] \in Operation /\ Touches(jobs'[s]) = Touches(jobs[s])
             /\ jobs'[s].todo = jobs[s].todo /\ jobs'[s].done = jobs[s].done /\ jobs'[s].failed = jobs[s].failed
             /\ \A t \in Slots : t # s => jobs[t] = None
             /\ Waits(jobs[s])
  <2> DEFINE new == [jobs[s] EXCEPT !.state = "read"]
  <2>1. Waits(jobs[s]) /\ jobs'[s] = new
    BY <1>4, <1>6
  <2>2. jobs[s] # None /\ jobs[s] \in Operation /\ WellFormed(jobs[s]) /\ jobs[s].kind \in FolderKinds
        /\ \A t \in Slots : t # s => jobs[t] = None
    BY <1>1, <2>1, WaitsAlone DEF Waits, Healthy
  <2>3. /\ new \in Operation /\ new.kind = jobs[s].kind /\ new.todo = jobs[s].todo
        /\ new.done = jobs[s].done /\ new.failed = jobs[s].failed
    BY <2>2, MovesOn
  <2> HIDE DEF new
  <2>4. Touches(new) = Touches(jobs[s]) /\ new # None
    BY <2>2, <2>3, SameTouches, OperationIs
  <2> QED BY <2>1, <2>2, <2>3, <2>4
<1>7. ASSUME NEW s \in Slots PROVE (jobs'[s] = None <=> jobs[s] = None) /\ Touches(jobs'[s]) = Touches(jobs[s])
                                   /\ (jobs[s] # None => jobs'[s].kind = jobs[s].kind /\ jobs'[s].mine = jobs[s].mine)
  BY <1>5, <1>6 DEF Onward
<1>8. Apart(jobs')
  BY <1>1, <1>7, ApartKept
<1>9. /\ page'.mounted = page.mounted /\ ~page'.loading
      /\ Awaited => page'.error = ~ok
      /\ ~Awaited => page'.error = page.error
  <2>1. Awaited => page'.mounted = page.mounted /\ page'.loading = FALSE /\ page'.error = ~ok
    BY <1>3 DEF Status
  <2>2. ~Awaited => ~page.loading /\ page' = page
    BY <1>3 DEF Awaited
  <2> QED BY <2>1, <2>2
<1>10. Mine(page'.mounted, jobs')
  BY <1>1, <1>7, <1>9 DEF Mine
<1>11. ASSUME Awaited, NEW s \in Slots, jobs'[s] # None PROVE jobs'[s].kind \in FolderKinds
  <2>1. ~page.loading
    BY <1>1, <1>7, <1>11 DEF Quieter
  <2>2. PICK t \in Slots : Waits(jobs[t])
    BY <1>11, <2>1 DEF Awaited
  <2>3. t = s /\ jobs[t].kind \in FolderKinds
    BY <1>7, <1>11, <2>2, WaitsAlone
  <2> QED BY <1>7, <1>11, <2>3
<1>12. Quieter(page', jobs')
  <2>1. CASE Awaited
    BY <1>9, <1>11, <2>1 DEF Quieter
  <2>2. CASE ~Awaited
    BY <1>1, <1>7, <1>9, <2>2 DEF Quieter
  <2> QED BY <2>1, <2>2
<1>13. Reads(page'.loading, jobs', data'.read, server')
  BY <1>5, <1>9 DEF Reads
<1>14. ToastFits(page'.toast, pendingDelete', jobs', server', before')
  <2>1. \A kinds, i : TouchedBy(jobs, kinds, i) => TouchedBy(jobs', kinds, i)
    BY <1>7 DEF TouchedBy
  <2> QED BY <1>2, <1>3, <2>1, ToastStays
<1>15. ServedWell(jobs', server', before')
  <2> SUFFICES ASSUME NEW s \in Slots, jobs'[s] # None PROVE ServerSide(jobs'[s], server, before)
    BY <1>2 DEF ServedWell
  <2>1. ServerSide(jobs[s], server, before)
    BY <1>1, <1>7 DEF ServedWell
  <2>2. CASE jobs'[s] = jobs[s]
    BY <2>1, <2>2
  <2>3. CASE jobs'[s] # jobs[s]
    <3>1. InOrder(jobs'[s])
      BY <1>6, <2>1, <2>3 DEF ServerSide, InOrder
    <3>2. jobs'[s].kind \in FolderKinds
      BY <1>6, <2>3
    <3> QED BY <3>1, <3>2 DEF ServerSide, FolderKinds, Filing, Patches, Deletes
  <2> QED BY <2>2, <2>3
<1>16. PageFits(page'.prompts, pendingDelete', page'.error, jobs', server')
  <2>1. \A list, s : s \in Slots /\ jobs'[s] # None /\ Awaited => Shows(jobs'[s], list, pendingDelete)
    BY <1>11 DEF Shows, FolderKinds, Filing, Patches, Deletes
  <2>2. CASE Awaited /\ ok
    <3> DEFINE list == AsList(rows)
    <3>1. list \in Seq(Row) /\ RowsOf(list) = rows /\ Distinct(list)
      BY <1>3, AsListHas
    <3>2. page'.prompts = list
      BY <1>3, <2>2
    <3> HIDE DEF list
    <3>3. data.read.rows = Stored(server)
      BY <1>1, <2>2 DEF Reads, Awaited, ReadDone
    <3>4. \A i \in IdsOf(pendingDelete) : Of(list, i) = {}
      BY <3>1 DEF Of, Shown
    <3>5. ASSUME NEW i \in AllIds \ IdsOf(pendingDelete) PROVE InStep(list, i, server)
      <4>1. RowsOf(list) = {row \in Stored(server) : row.id \notin IdsOf(pendingDelete)}
        BY <3>1, <3>3 DEF Shown
      <4>2. Of(list, i) = {row \in Stored(server) : row.id = i}
        BY <4>1 DEF Of
      <4>3. \A row \in Stored(server) : row.id = i => row = server[i]
        BY <1>1 DEF Stored, ServerOK
      <4>4. server[i] # None => server[i] \in Stored(server) /\ server[i].id = i
        BY <1>1 DEF Stored, ServerOK
      <4>5. None \notin Stored(server)
        BY DEF Stored
      <4> QED BY <4>2, <4>3, <4>4, <4>5 DEF InStep
    <3> QED BY <1>2, <2>1, <2>2, <3>1, <3>2, <3>4, <3>5 DEF PageFits
  <2>3. CASE Awaited /\ ~ok
    <3>1. page'.prompts = page.prompts /\ page'.error
      BY <1>3, <1>9, <2>3
    <3>2. page.prompts # None => Distinct(page.prompts) /\ \A i \in IdsOf(pendingDelete) : Of(page.prompts, i) = {}
      BY PageAsBefore
    <3> QED BY <1>2, <2>1, <2>3, <3>1, <3>2 DEF PageFits
  <2>4. CASE ~Awaited
    <3>1. page' = page
      BY <1>3, <2>4
    <3>2. CASE \A s \in Slots : jobs'[s] = jobs[s]
      BY <1>1, <1>2, <3>1, <3>2 DEF PageFits
    <3>3. CASE \E s \in Slots : jobs'[s] # jobs[s]
      <4>1. PICK s \in Slots : Waits(jobs[s])
        BY <1>6, <3>3
      <4>2. jobs[s] # None /\ ~jobs[s].mine /\ jobs[s].kind \in FolderKinds
        BY <2>4, <4>1, WaitsAlone DEF Awaited, Waits
      <4>3. page.prompts = None
        BY <4>2, MineHere DEF FolderKinds
      <4> QED BY <3>1, <4>3 DEF PageFits
    <3> QED BY <3>2, <3>3
  <2> QED BY <2>2, <2>3, <2>4
<1> QED BY <1>8, <1>10, <1>12, <1>13, <1>14, <1>15, <1>16 DEF Later, Calm

-----------------------------------------------------------------------------
(* An operation begins *)

(* What the list shows of a prompt no operation works on.                   *)
LEMMA FreeInStep ==
  ASSUME Types, Now, page.prompts # None, ~page.error, NEW i \in AllIds, i \notin IdsOf(pendingDelete),
         \A t \in Slots : i \notin Touches(jobs[t])
  PROVE  InStep(page.prompts, i, server)
<1>1. Healthy(jobs) /\ PageFits(page.prompts, pendingDelete, page.error, jobs, server)
  BY CalmIs
<1>2. ASSUME NEW t \in Slots PROVE i \notin Unsure(jobs[t])
  <2>1. CASE jobs[t] = None
    BY <2>1, NoneUnsure
  <2>2. CASE jobs[t] # None
    <3>1. Unsure(jobs[t]) \subseteq Touches(jobs[t])
      BY <1>1, <2>2, UnsureTouched DEF Healthy
    <3> QED BY <3>1
  <2> QED BY <2>1, <2>2
<1> QED BY <1>1, <1>2 DEF PageFits

(* A prompt in the list, no operation on it and no error: it is stored so.  *)
LEMMA ShownIsStored ==
  ASSUME Types, Now, page.prompts # None, ~page.error, NEW row \in RowsOf(page.prompts),
         \A t \in Slots : row.id \notin Touches(jobs[t])
  PROVE  /\ server[row.id] = row /\ row \in Row /\ row.id \in AllIds /\ row.id \notin IdsOf(pendingDelete)
         /\ Of(page.prompts, row.id) = {row}
<1>1. PageFits(page.prompts, pendingDelete, page.error, jobs, server) /\ PageOK
  BY CalmIs
<1>2. row \in Row /\ row.id \in AllIds
  BY <1>1, ShownRows, RowIds
<1>3. Of(page.prompts, row.id) = {row}
  BY <1>1, DistinctRows DEF PageFits
<1>4. row.id \notin IdsOf(pendingDelete)
  BY <1>1, <1>3 DEF PageFits
<1>5. InStep(page.prompts, row.id, server)
  BY <1>2, <1>4, FreeInStep
<1> QED BY <1>2, <1>3, <1>4, <1>5 DEF InStep

LEMMA EnterCalm ==
  ASSUME Types, Owned, Now, NEW job, Plainly(job), ~Overlaps(job), job.state = "sent",
         UNCHANGED <<server, data, pendingDelete>>, Status(page') = Status(page),
         \A i \in AllIds \ Touches(job) : before'[i] = before[i],
         page'.prompts # None =>
           /\ page.prompts # None /\ Distinct(page'.prompts)
           /\ \A i \in AllIds \ Touches(job) : Of(page'.prompts, i) = Of(page.prompts, i)
           /\ \A i \in IdsOf(pendingDelete) \cap Touches(job) : Of(page'.prompts, i) = {}
           /\ Shows(job, page'.prompts, pendingDelete)
           /\ ~page.error =>
                \A i \in Touches(job) \ IdsOf(pendingDelete) : i \notin Unsure(job) => InStep(page'.prompts, i, server),
         ToastFits(page'.toast, pendingDelete, jobs', server, before'),
         ServerSide(job, server, before')
  PROVE  Later
<1> DEFINE T == Touches(job)
<1>1. /\ Apart(jobs) /\ Mine(page.mounted, jobs) /\ Quieter(page, jobs) /\ Reads(page.loading, jobs, data.read, server)
      /\ PageFits(page.prompts, pendingDelete, page.error, jobs, server)
      /\ ServedWell(jobs, server, before) /\ Healthy(jobs) /\ JobsOK /\ IdsOf(pendingDelete) \subseteq AllIds
  BY CalmIs
<1>2. job \in Operation /\ WellFormed(job) /\ job.mine /\ job.kind \in Kinds \ Deletes /\ job # None
  BY OperationIs DEF Plainly
<1>3. /\ ~page.loading
      /\ \A t \in Slots : Touches(jobs[t]) \cap T = {}
      /\ job.kind \notin FolderKinds => ~page.error
  BY <1>2 DEF Overlaps, FolderKinds, Deletes
<1>4. PICK s \in Slots : jobs[s] = None /\ jobs'[s] = job /\ \A t \in Slots : t # s => jobs'[t] = jobs[t]
  BY <1>1, EnteredIs DEF Plainly
<1>5. page'.mounted = page.mounted /\ page'.loading = page.loading /\ page'.error = page.error
  BY StatusIs
<1>6. Apart(jobs')
  BY <1>1, <1>3, <1>4, ApartEnters
<1>7. Mine(page'.mounted, jobs')
  BY <1>1, <1>2, <1>4, <1>5 DEF Mine
<1>8. Quieter(page', jobs')
  BY <1>1, <1>3, <1>4, <1>5 DEF Quieter
<1>9. ~Waits(job)
  BY DEF Waits
<1>10. Reads(page'.loading, jobs', data'.read, server')
  BY <1>1, <1>4, <1>5, <1>9 DEF Reads
<1>11. T \subseteq AllIds
  BY <1>2, TouchesIs
<1>12. PageFits(page'.prompts, pendingDelete', page'.error, jobs', server')
  <2>1. \A t \in Slots :
           \/ jobs'[t] = jobs[t] /\ Touches(jobs[t]) \cap T = {}
           \/ /\ Unsure(jobs[t]) \subseteq T
              /\ page'.prompts # None /\ jobs'[t] # None => Shows(jobs'[t], page'.prompts, pendingDelete)
    BY <1>3, <1>4, NoneUnsure
  <2>2. page'.prompts # None /\ ~page.error =>
           \A i \in (T \cap AllIds) \ IdsOf(pendingDelete) :
             (\A t \in Slots : i \notin Unsure(jobs'[t])) => InStep(page'.prompts, i, server')
    BY <1>4
  <2>3. Moves(page.prompts, pendingDelete, page.error, jobs, server, page'.prompts, pendingDelete, jobs', server', T)
    BY <1>1, <2>1, <2>2 DEF Moves
  <2> HIDE DEF T
  <2>4. PageFits(page'.prompts, pendingDelete, page.error, jobs', server')
    BY <1>1, <2>3, PageMoves
  <2> QED BY <1>5, <2>4
<1>13. ServedWell(jobs', server', before')
  <2> SUFFICES ASSUME NEW t \in Slots, t # s, jobs[t] # None PROVE ServerSide(jobs[t], server, before')
    BY <1>4 DEF ServedWell
  <2>1. jobs[t] \in Operation /\ WellFormed(jobs[t]) /\ ServerSide(jobs[t], server, before)
    BY <1>1 DEF Healthy, ServedWell
  <2>2. \A i \in Touches(jobs[t]) : before'[i] = before[i]
    BY <1>3, <2>1, TouchesIs
  <2> QED BY <2>1, <2>2, ServerSideKept
<1> QED BY <1>5, <1>6, <1>7, <1>8, <1>10, <1>12, <1>13 DEF Later, Calm

LEMMA EnterToast ==
  ASSUME Types, Now, NEW job, Plainly(job), UNCHANGED <<server, pendingDelete>>,
         \/ before' = before
         \/ job.kind = "batch" /\ \A i \in AllIds \ Touches(job) : before'[i] = before[i],
         page'.toast \in {page.toast, None}
  PROVE  ToastFits(page'.toast, pendingDelete, jobs', server, before')
<1>1. ToastFits(page.toast, pendingDelete, jobs, server, before) /\ PageOK /\ JobsOK /\ Distinct(pendingDelete)
  BY CalmIs
<1> SUFFICES ASSUME page'.toast = page.toast PROVE ToastFits(page.toast, pendingDelete, jobs', server, before')
  BY <1>1, NoToast
<1>2. PICK s \in Slots : jobs[s] = None /\ jobs'[s] = job /\ \A t \in Slots : t # s => jobs'[t] = jobs[t]
  BY <1>1, EnteredIs DEF Plainly
<1>3. job # None
  BY OperationIs DEF Plainly
<1>4. \A kinds, i : TouchedBy(jobs, kinds, i) => TouchedBy(jobs', kinds, i)
  BY <1>2 DEF TouchedBy
<1>5. \A i \in AllIds : before'[i] = before[i] \/ TouchedBy(jobs', {"batch"}, i)
  BY <1>2, <1>3 DEF TouchedBy
<1>6. page.toast # None => \A row \in RowsOf(page.toast.targets) : row.id \in AllIds
  BY <1>1, ToastIs, ListRows, RowIds
<1> QED BY <1>1, <1>4, <1>5, <1>6 DEF ToastFits

(* A new operation on some prompts has nothing done or failed.              *)
LEMMA NewInOrder ==
  ASSUME NEW kind, NEW todo, NEW value, Distinct(todo)
  PROVE  InOrder(Job(kind, todo, value))
BY Nothing DEF InOrder, Job

LEMMA RenameMoveCalm ==
  ASSUME Types, Owned, Now, NEW row \in RowsOf(page.prompts), Loaded, ~page.error, NEW kind \in {"rename", "move"}, NEW value,
         Job(kind, <<row>>, value) \in Operation, WellFormed(Job(kind, <<row>>, value)),
         Start(Job(kind, <<row>>, value)), ~tainted',
         UNCHANGED <<server, data, page, pendingDelete, before>>
  PROVE  Later
<1> DEFINE job == Job(kind, <<row>>, value)
<1>1. PageOK /\ page.prompts # None /\ row \in Row
  BY CalmIs, ShownRows DEF Loaded
<1>2. /\ job.kind = kind /\ job.todo = <<row>> /\ job.state = "sent"
      /\ Head(<<row>>) = row /\ Distinct(<<row>>)
  BY <1>1, One DEF Job
<1>3. Plainly(job) /\ ~Overlaps(job)
  BY PlainJob, StartIs DEF Kinds, Deletes
<1>4. ServerSide(job, server, before)
  <2>1. InOrder(job)
    BY <1>2, NewInOrder
  <2> HIDE DEF job
  <2> QED BY <1>2, <2>1 DEF ServerSide, Patches, Filing, Deletes
<1> HIDE DEF job
<1>5. job \in Operation /\ WellFormed(job) /\ job # None
  BY OperationIs DEF job
<1>6. Touches(job) = {row.id} /\ \A t \in Slots : row.id \notin Touches(jobs[t])
  <2>1. Touches(job) = {row.id}
    BY <1>2, <1>5, SingleTouches DEF Patches
  <2> QED BY <2>1, <1>3 DEF Overlaps
<1>7. Unsure(job) = {}
  BY <1>2, <1>5 DEF Unsure
<1>8. Shows(job, page.prompts, pendingDelete)
  BY <1>2, <1>7 DEF Shows, Deletes
<1>9. \A i \in Touches(job) \ IdsOf(pendingDelete) : InStep(page.prompts, i, server)
  <2>1. row.id \in AllIds
    BY <1>1, RowIds
  <2> QED BY <1>1, <1>6, <2>1, FreeInStep
<1>10. Distinct(page.prompts) /\ \A i \in IdsOf(pendingDelete) : Of(page.prompts, i) = {}
  BY <1>1, PageAsBefore
<1>11. ToastFits(page'.toast, pendingDelete, jobs', server, before')
  BY <1>3, EnterToast
<1> QED BY <1>1, <1>2, <1>3, <1>4, <1>8, <1>9, <1>10, <1>11, EnterCalm

LEMMA DuplicateCalm ==
  ASSUME Types, Owned, Now, Loaded, NEW row \in Visible, Duplicate(row), ~tainted'
  PROVE  Later
<1> DEFINE job == Job("duplicate", <<row>>, None)
<1>1. PageOK /\ page.prompts # None /\ row \in Row /\ row \in RowsOf(page.prompts) /\ ~page.error
  BY CalmIs, ShownRows DEF Loaded, Duplicate, PromptMenu, RowShown
<1>2. /\ job.kind = "duplicate" /\ job.todo = <<row>> /\ job.state = "sent"
      /\ Head(<<row>>) = row /\ Distinct(<<row>>)
  BY <1>1, One DEF Job
<1>3. Plainly(job) /\ ~Overlaps(job)
  <2>1. job \in Operation /\ WellFormed(job) /\ Start(job)
    BY <1>1, RowJob DEF Duplicate
  <2> QED BY <2>1, PlainJob, StartIs DEF Kinds, Deletes
<1>4. server[Copy] = None /\ UNCHANGED <<server, data, page, pendingDelete, before>>
  BY DEF Duplicate
<1>5. InOrder(job)
  BY <1>2, NewInOrder
<1> HIDE DEF job
<1>6. job \in Operation /\ WellFormed(job) /\ job # None
  BY <1>3, OperationIs DEF Plainly
<1>7. Touches(job) = {row.id, Copy} /\ \A t \in Slots : Touches(jobs[t]) \cap {row.id, Copy} = {}
  <2>1. Touches(job) = {row.id} \cup {Copy}
    BY <1>2, <1>6, SingleTouches
  <2> QED BY <2>1, <1>3 DEF Overlaps
<1>8. ServerSide(job, server, before)
  BY <1>2, <1>4, <1>5 DEF ServerSide, Patches, Filing, Deletes
<1>9. Unsure(job) = {}
  BY <1>2, <1>6 DEF Unsure, Filing
<1>10. \A i \in Touches(job) \ IdsOf(pendingDelete) : InStep(page.prompts, i, server)
  <2>1. row.id \in AllIds /\ Copy \in AllIds
    BY <1>1, RowIds DEF AllIds
  <2> QED BY <1>1, <1>7, <2>1, FreeInStep
<1>11. Copy \notin IdsOf(pendingDelete)
  BY <1>2, <1>3, <1>7 DEF Overlaps
<1>12. Shows(job, page.prompts, pendingDelete)
  <2>1. Of(page.prompts, Copy) = {}
    BY <1>4, <1>7, <1>10, <1>11 DEF InStep
  <2> QED BY <1>2, <1>11, <2>1 DEF Shows, Patches, Filing, Deletes
<1>13. Distinct(page.prompts) /\ \A i \in IdsOf(pendingDelete) : Of(page.prompts, i) = {}
  BY <1>1, PageAsBefore
<1>14. ToastFits(page'.toast, pendingDelete, jobs', server, before')
  BY <1>3, <1>4, EnterToast
<1> QED BY <1>1, <1>2, <1>3, <1>4, <1>8, <1>10, <1>12, <1>13, <1>14, EnterCalm

LEMMA ToggleCalm ==
  ASSUME Types, Owned, Now, Loaded, NEW row \in Visible, ToggleFavorite(row), ~tainted'
  PROVE  Later
<1> DEFINE job == Job("favorite", <<row>>, ~row.favorite)
           new == [row EXCEPT !.favorite = ~@]
           id == row.id
<1>1. /\ PageOK /\ new \in Row /\ new.id = id /\ row \in Row /\ row \in RowsOf(page.prompts)
      /\ page.prompts # None /\ ~page.error
      /\ page'.prompts = Replace(page.prompts, new)
      /\ page'.toast = page.toast /\ Status(page') = Status(page)
  BY CalmIs, TogglePage
<1>2. /\ job.kind = "favorite" /\ job.todo = <<row>> /\ job.state = "sent"
      /\ Head(<<row>>) = row /\ Distinct(<<row>>)
  BY <1>1, One DEF Job
<1>3. Plainly(job) /\ ~Overlaps(job)
  <2>1. job \in Operation /\ WellFormed(job) /\ Start(job)
    BY <1>1, RowJob DEF ToggleFavorite
  <2> QED BY <2>1, PlainJob, StartIs DEF Kinds, Deletes
<1>4. UNCHANGED <<server, data, pendingDelete, before>>
  BY DEF ToggleFavorite
<1>5. InOrder(job)
  BY <1>2, NewInOrder
<1> HIDE DEF job, new
<1>6. job \in Operation /\ WellFormed(job) /\ job # None
  BY <1>3, OperationIs DEF Plainly
<1>7. Touches(job) = {id} /\ IdsOf(job.todo) = {id} /\ \A t \in Slots : id \notin Touches(jobs[t])
  <2>1. Touches(job) = {id} /\ IdsOf(job.todo) = {id}
    BY <1>2, <1>6, SingleTouches DEF Patches
  <2> QED BY <2>1, <1>3 DEF Overlaps
<1>8. server[id] = row /\ Of(page.prompts, id) = {row} /\ id \notin IdsOf(pendingDelete)
  BY <1>1, <1>7, ShownIsStored
<1>9. ServerSide(job, server, before)
  BY <1>2, <1>5, <1>8 DEF ServerSide, Patches, Filing, Deletes
<1>10. Unsure(job) = {id}
  BY <1>2, <1>6, <1>7 DEF Unsure
<1>11. page.prompts \in Seq(Row) /\ Distinct(page.prompts) /\ \A i \in IdsOf(pendingDelete) : Of(page.prompts, i) = {}
  BY <1>1, ShownRows, PageAsBefore
<1>12. /\ Distinct(page'.prompts)
       /\ \A i : Of(page'.prompts, i) = IF i = id /\ Of(page.prompts, i) # {} THEN {new} ELSE Of(page.prompts, i)
  <2>1. /\ Distinct(Replace(page.prompts, new))
        /\ \A i : Of(Replace(page.prompts, new), i) =
                    IF i = new.id /\ Of(page.prompts, i) # {} THEN {new} ELSE Of(page.prompts, i)
    BY <1>1, <1>11, ReplaceHas
  <2> QED BY <1>1, <2>1
<1>13. Shows(job, page'.prompts, pendingDelete)
  BY <1>2, <1>8, <1>10, <1>12 DEF Shows, Deletes
<1>14. ToastFits(page'.toast, pendingDelete, jobs', server, before')
  BY <1>1, <1>3, <1>4, EnterToast
<1>15. \A i \in AllIds \ Touches(job) : Of(page'.prompts, i) = Of(page.prompts, i)
  BY <1>7, <1>12
<1>16. IdsOf(pendingDelete) \cap Touches(job) = {}
  BY <1>7, <1>8
<1> QED BY <1>1, <1>2, <1>3, <1>4, <1>7, <1>9, <1>10, <1>12, <1>13, <1>14, <1>15, <1>16, EnterCalm

LEMMA FolderCalm ==
  ASSUME Types, Owned, Now, (\E folder \in RenameChoices : RenameFolder(folder)) \/ RemoveFolder, ~tainted'
  PROVE  Later
<1>1. PICK kind \in FolderKinds, to \in MoveChoices :
        Start(Job(kind, <<>>, [from |-> page.at, to |-> to])) /\ page.at \in Folders
  BY DEF RenameFolder, RemoveFolder, FolderKinds, MoveChoices, RenameChoices, FolderMenu
<1> DEFINE job == Job(kind, <<>>, [from |-> page.at, to |-> to])
<1>2. job \in Operation /\ WellFormed(job)
  BY <1>1, FolderJobIs
<1>3. Plainly(job) /\ ~Overlaps(job)
  BY <1>1, <1>2, PlainJob, StartIs DEF Kinds, Deletes, FolderKinds
<1>4. job.kind = kind /\ job.state = "sent" /\ InOrder(job)
  BY Nothing, NewInOrder DEF Job
<1>5. UNCHANGED <<server, data, page, pendingDelete, before>>
  BY DEF RenameFolder, RemoveFolder
<1> HIDE DEF job
<1>6. Touches(job) = AllIds /\ Unsure(job) = {}
  <2>1. Touches(job) = AllIds
    BY <1>1, <1>2, <1>4, TouchesIs
  <2> QED BY <1>2, <1>4, <2>1, OperationIs DEF Unsure, FolderKinds, Filing, Deletes
<1>7. \A t \in Slots : Touches(jobs[t]) \cap AllIds = {}
  BY <1>3, <1>6 DEF Overlaps
<1>8. ServerSide(job, server, before) /\ Shows(job, page.prompts, pendingDelete)
  BY <1>4 DEF ServerSide, Shows, FolderKinds, Patches, Filing, Deletes
<1>9. page.prompts # None /\ ~page.error =>
        \A i \in Touches(job) \ IdsOf(pendingDelete) : InStep(page.prompts, i, server)
  BY <1>6, <1>7, FreeInStep
<1>10. page.prompts # None => Distinct(page.prompts) /\ \A i \in IdsOf(pendingDelete) : Of(page.prompts, i) = {}
  BY PageAsBefore
<1>11. ToastFits(page'.toast, pendingDelete, jobs', server, before')
  BY <1>3, <1>5, EnterToast
<1> QED BY <1>3, <1>4, <1>5, <1>6, <1>8, <1>9, <1>10, <1>11, EnterCalm

LEMMA MoveSelectedCalm ==
  ASSUME Types, Owned, Now, NEW folder \in MoveChoices, MoveSelected(folder), ~tainted'
  PROVE  Later
<1> DEFINE list == SelectedPrompts
           job == Job("batch", list, folder)
<1>1. PageOK /\ page.prompts # None /\ list # <<>> /\ Start(job)
  BY CalmIs DEF MoveSelected, BatchForm, Loaded
<1>2. page.prompts \in Seq(Row) /\ Distinct(page.prompts) /\ \A i \in IdsOf(pendingDelete) : Of(page.prompts, i) = {}
  BY <1>1, ShownRows, PageAsBefore
<1>3. list \in Seq(Row) /\ RowsOf(list) \subseteq RowsOf(page.prompts) /\ Distinct(list)
  BY <1>1, <1>2, ShownRows, OnlyKeeps DEF SelectedPrompts
<1> HIDE DEF list
<1>4. Plainly(job) /\ ~Overlaps(job)
  <2>1. job \in Operation /\ WellFormed(job)
    BY <1>1, <1>3, ListJob
  <2> QED BY <1>1, <2>1, PlainJob, StartIs DEF Kinds, Deletes
<1>5. job.kind = "batch" /\ job.todo = list /\ job.state = "sent" /\ job.done = <<>> /\ job.failed = <<>>
  BY DEF Job
<1>6. InOrder(job)
  BY <1>3, NewInOrder
<1> HIDE DEF job
<1>7. job \in Operation /\ WellFormed(job) /\ job # None
  BY <1>4, OperationIs DEF Plainly
<1>8. Touches(job) = IdsOf(list) /\ \A t \in Slots : Touches(jobs[t]) \cap Touches(job) = {}
  <2>1. Touches(job) = IdsOf(list) \cup IdsOf(<<>>) \cup IdsOf(<<>>)
    BY <1>5, <1>7, TouchesIs DEF FolderKinds
  <2> QED BY <1>4, <2>1, Nothing DEF Overlaps
<1>9. ~page.error
  BY <1>4, <1>5 DEF Overlaps
<1>10. UNCHANGED <<server, data, pendingDelete>>
  BY DEF MoveSelected
<1>11. before' = [i \in DOMAIN server |-> IF i \in IdsOf(list) THEN server[i] ELSE before[i]]
  BY DEF MoveSelected, list
<1>12. page'.prompts = page.prompts /\ page'.toast = page.toast /\ Status(page') = Status(page)
  <2>1. page' = [page EXCEPT !.busy = TRUE]
    BY DEF MoveSelected
  <2> QED BY <1>1, <2>1 DEF PageOK, PageRecord, Status
<1>13. DOMAIN server = AllIds
  BY DEF Types, ServerOK
<1>14. \A i \in AllIds \ Touches(job) : before'[i] = before[i]
  BY <1>8, <1>11, <1>13
<1>15. ASSUME NEW row \in RowsOf(list) PROVE row.folder = before'[row.id].folder
  <2>1. row.id \in IdsOf(list)
    BY <1>15, IdsOfRows
  <2>2. server[row.id] = row /\ row.id \in AllIds
    BY <1>1, <1>3, <1>8, <1>9, <1>15, <2>1, ShownIsStored
  <2> QED BY <1>11, <1>13, <2>1, <2>2
<1>16. ServerSide(job, server, before')
  BY <1>5, <1>6, <1>15, Nothing DEF ServerSide, Patches, Filing, Deletes
<1>17. Unsure(job) = {}
  BY <1>5, <1>7 DEF Unsure, Filing
<1>18. Shows(job, page.prompts, pendingDelete)
  BY <1>5, <1>17 DEF Shows, Deletes
<1>19. \A i \in Touches(job) \ IdsOf(pendingDelete) : InStep(page.prompts, i, server)
  <2>1. Touches(job) \subseteq AllIds
    BY <1>7, TouchesIs
  <2> QED BY <1>1, <1>8, <1>9, <2>1, FreeInStep
<1>20. ToastFits(page'.toast, pendingDelete, jobs', server, before')
  BY <1>4, <1>5, <1>10, <1>12, <1>14, EnterToast
<1> QED BY <1>1, <1>2, <1>4, <1>5, <1>10, <1>12, <1>14, <1>16, <1>18, <1>19, <1>20, EnterCalm

LEMMA UndoMoveCalm ==
  ASSUME Types, Owned, Now, UndoMove, ~tainted'
  PROVE  Later
<1> DEFINE list == page.toast.targets
           job == Job("undoBatch", list, None)
<1>1. PageOK /\ page.toast # None /\ page.toast.kind = "undoMove" /\ Start(job)
      /\ ToastFits(page.toast, pendingDelete, jobs, server, before)
  BY CalmIs DEF UndoMove
<1>2. list \in Seq(Row) /\ list # <<>> /\ Distinct(list)
  BY <1>1, ToastIs DEF ToastFits
<1>3. \A row \in RowsOf(list) : row.folder = before[row.id].folder \/ TouchedBy(jobs, {"batch"}, row.id)
  BY <1>1 DEF ToastFits
<1>4. /\ UNCHANGED <<server, data, pendingDelete, before>>
      /\ page'.prompts = page.prompts /\ page'.toast = None /\ Status(page') = Status(page)
  BY <1>1 DEF UndoMove, PageOK, PageRecord, Status
<1> HIDE DEF list
<1>5. Plainly(job) /\ ~Overlaps(job)
  <2>1. job \in Operation /\ WellFormed(job)
    BY <1>2, ListJob
  <2> QED BY <1>1, <2>1, PlainJob, StartIs DEF Kinds, Deletes
<1>6. job.kind = "undoBatch" /\ job.todo = list /\ job.state = "sent" /\ job.done = <<>> /\ job.failed = <<>>
  BY DEF Job
<1>7. InOrder(job)
  BY <1>2, NewInOrder
<1> HIDE DEF job
<1>8. job \in Operation /\ WellFormed(job) /\ job # None
  BY <1>5, OperationIs DEF Plainly
<1>9. Touches(job) = IdsOf(list) /\ \A t \in Slots : Touches(jobs[t]) \cap Touches(job) = {}
  <2>1. Touches(job) = IdsOf(list) \cup IdsOf(<<>>) \cup IdsOf(<<>>)
    BY <1>6, <1>8, TouchesIs DEF FolderKinds
  <2> QED BY <1>5, <2>1, Nothing DEF Overlaps
<1>10. ~page.error
  BY <1>5, <1>6 DEF Overlaps
<1>11. \A row \in RowsOf(list) : row.folder = before[row.id].folder
  <2>1. \A row \in RowsOf(list) : row.id \in IdsOf(list)
    BY IdsOfRows
  <2> QED BY <1>3, <1>9, <2>1 DEF TouchedBy
<1>12. ServerSide(job, server, before')
  BY <1>4, <1>6, <1>7, <1>11, Nothing DEF ServerSide, Patches, Filing, Deletes
<1>13. Unsure(job) = {}
  BY <1>6, <1>8 DEF Unsure, Filing
<1>14. Shows(job, page.prompts, pendingDelete)
  BY <1>6, <1>13 DEF Shows, Deletes
<1>15. page.prompts # None => \A i \in Touches(job) \ IdsOf(pendingDelete) : InStep(page.prompts, i, server)
  <2>1. Touches(job) \subseteq AllIds
    BY <1>8, TouchesIs
  <2> QED BY <1>9, <1>10, <2>1, FreeInStep
<1>16. page.prompts # None => Distinct(page.prompts) /\ \A i \in IdsOf(pendingDelete) : Of(page.prompts, i) = {}
  BY PageAsBefore
<1>17. ToastFits(page'.toast, pendingDelete, jobs', server, before')
  BY <1>4, <1>5, EnterToast
<1> QED BY <1>4, <1>5, <1>6, <1>12, <1>14, <1>15, <1>16, <1>17, EnterCalm

-----------------------------------------------------------------------------
(* Deletions *)

(* The request of a deletion whose window ended has not been answered.      *)
LEMMA SentDelete ==
  ASSUME Types, NEW job, Deleting(job), job.done = <<>>, job.failed = <<>>
  PROVE  /\ Touches(job) = IdsOf(pendingDelete) /\ Unsure(job) = IdsOf(pendingDelete)
         /\ Distinct(pendingDelete) /\ job.state = "sent" => \A srv, bef : ServerSide(job, srv, bef)
<1>1. job \in Operation /\ job.kind \in Deletes /\ job.todo = pendingDelete
  BY DEF Deleting
<1>2. job # None /\ job.kind \notin FolderKinds /\ job.kind # "duplicate"
  BY <1>1, OperationIs DEF Deletes, FolderKinds
<1>3. Touches(job) = IdsOf(pendingDelete)
  <2>1. Touches(job) = IdsOf(pendingDelete) \cup IdsOf(<<>>) \cup IdsOf(<<>>)
    BY <1>1, <1>2, TouchesIs
  <2> QED BY <2>1, Nothing
<1>4. Unsure(job) = IdsOf(pendingDelete)
  <2>1. Unsure(job) = IdsOf(pendingDelete) \cup IdsOf(<<>>)
    BY <1>1, <1>2 DEF Unsure, Filing, Deletes
  <2> QED BY <2>1, Nothing
<1>5. ASSUME Distinct(pendingDelete), job.state = "sent" PROVE \A srv, bef : ServerSide(job, srv, bef)
  <2>1. InOrder(job)
    BY <1>1, <1>5, Nothing DEF InOrder
  <2>2. RowsOf(job.done) = {}
    BY Nothing
  <2> QED BY <1>1, <1>5, <2>1, <2>2 DEF ServerSide, Patches, Filing, Deletes
<1> QED BY <1>3, <1>4, <1>5

LEMMA WindowEnds ==
  ASSUME Types, Owned, Now, NEW job, Deleting(job), job.state = "sent", job.done = <<>>, job.failed = <<>>,
         job.mine \/ job.kind = "flush", ~Overlaps(job)
  PROVE  Calm(server, data.read, page, <<>>, jobs', before)
<1> DEFINE T == Touches(job)
<1>1. /\ Apart(jobs) /\ Mine(page.mounted, jobs) /\ Quieter(page, jobs) /\ Reads(page.loading, jobs, data.read, server)
      /\ PageFits(page.prompts, pendingDelete, page.error, jobs, server)
      /\ ToastFits(page.toast, pendingDelete, jobs, server, before)
      /\ ServedWell(jobs, server, before) /\ Healthy(jobs) /\ JobsOK /\ PageOK
      /\ IdsOf(pendingDelete) \subseteq AllIds /\ Distinct(pendingDelete)
  BY CalmIs
<1>2. job \in Operation /\ job.kind \in Deletes /\ pendingDelete # <<>> /\ job # None
  BY OperationIs DEF Deleting
<1>3. /\ T = IdsOf(pendingDelete) /\ Unsure(job) = T
      /\ ServerSide(job, server, before)
  BY <1>1, SentDelete
<1>4. ~page.loading /\ \A t \in Slots : Touches(jobs[t]) \cap T = {}
  BY DEF Overlaps
<1>5. PICK s \in Slots : jobs[s] = None /\ jobs'[s] = job /\ \A t \in Slots : t # s => jobs'[t] = jobs[t]
  BY <1>1, EnteredIs DEF Deleting
<1>6. Apart(jobs')
  BY <1>1, <1>4, <1>5, ApartEnters
<1>7. Mine(page.mounted, jobs')
  BY <1>1, <1>5 DEF Mine
<1>8. Quieter(page, jobs')
  BY <1>1, <1>2, <1>4, <1>5 DEF Quieter
<1>9. Reads(page.loading, jobs', data.read, server)
  BY <1>1, <1>5 DEF Reads, Waits
<1> HIDE DEF T
<1>10. PageFits(page.prompts, <<>>, page.error, jobs', server)
  <2>1. page.prompts # None => Distinct(page.prompts) /\ \A i \in T : Of(page.prompts, i) = {}
    BY <1>1, <1>3 DEF PageFits
  <2>2. page.prompts # None => Shows(job, page.prompts, <<>>)
    BY <1>2, <1>3, <2>1, Nothing DEF Shows, Deletes, Patches, Filing, T
  <2>3. \A t \in Slots :
           \/ jobs'[t] = jobs[t] /\ Touches(jobs[t]) \cap T = {}
           \/ /\ Unsure(jobs[t]) \subseteq T
              /\ page.prompts # None /\ jobs'[t] # None => Shows(jobs'[t], page.prompts, <<>>)
    BY <1>4, <1>5, <2>2, NoneUnsure
  <2>4. \A i \in T : ~(\A t \in Slots : i \notin Unsure(jobs'[t]))
    BY <1>3, <1>5
  <2>5. \A i \in AllIds \ T : i \in IdsOf(<<>>) <=> i \in IdsOf(pendingDelete)
    BY <1>3, Nothing
  <2>6. Moves(page.prompts, pendingDelete, page.error, jobs, server, page.prompts, <<>>, jobs', server, T)
    BY <2>1, <2>3, <2>4, <2>5, Nothing DEF Moves
  <2> QED BY <1>1, <2>6, PageMoves
<1>11. ToastFits(page.toast, <<>>, jobs', server, before)
  <2>1. \A kinds, i : TouchedBy(jobs, kinds, i) => TouchedBy(jobs', kinds, i)
    BY <1>5 DEF TouchedBy
  <2>2. \A i \in T : TouchedBy(jobs', Deletes \cup {"duplicate"}, i)
    BY <1>2, <1>5 DEF TouchedBy, T
  <2>3. page.toast # None /\ page.toast.kind = "undoDelete" => page.toast.targets = pendingDelete
    BY <1>2 DEF Owned, ToastOwned
  <2>4. \A row \in RowsOf(pendingDelete) : row.id \in T
    BY <1>3, IdsOfRows
  <2> QED BY <1>1, <2>1, <2>2, <2>3, <2>4, Nothing DEF ToastFits
<1>12. ServedWell(jobs', server, before)
  BY <1>1, <1>3, <1>5 DEF ServedWell
<1> QED BY <1>6, <1>7, <1>8, <1>9, <1>10, <1>11, <1>12 DEF Calm

(* The deletion inside its window goes to the server.                       *)
LEMMA DeletionSent ==
  ASSUME Types, Owned, Now, ~tainted', pendingDelete # <<>>,
         Start(Job("delete", pendingDelete, None)) \/ Start(Flushed)
  PROVE  Calm(server, data.read, page, <<>>, jobs', before)
<1>0. pendingDelete \in Seq(Row)
  BY DEF Types
<1>1. CASE Start(Job("delete", pendingDelete, None))
  <2> DEFINE job == Job("delete", pendingDelete, None)
  <2>1. Deleting(job) /\ job.mine /\ ~Overlaps(job)
    BY <1>0, <1>1, DeleteJob, StartIs
  <2>2. job.state = "sent" /\ job.done = <<>> /\ job.failed = <<>>
    BY DEF Job
  <2> HIDE DEF job
  <2> QED BY <2>1, <2>2, WindowEnds
<1>2. CASE Start(Flushed)
  <2> DEFINE job == Flushed
  <2>1. /\ job \in Operation /\ WellFormed(job) /\ job.kind = "flush" /\ job.todo = pendingDelete
        /\ job.done = <<>> /\ job.failed = <<>> /\ job.state = "sent"
    BY <1>0, FlushJob
  <2>2. Entered(job) /\ ~Overlaps(job)
    BY <1>2, StartIs
  <2> HIDE DEF job
  <2>3. Deleting(job)
    BY <2>1, <2>2 DEF Deleting, Deletes
  <2> QED BY <2>1, <2>2, <2>3, WindowEnds
<1> QED BY <1>1, <1>2

LEMMA WindowClosedCalm ==
  ASSUME Types, Owned, Now, DeleteTimer \/ PageHide, ~tainted'
  PROVE  Later
<1>1. /\ UNCHANGED <<server, data, page, before>> /\ pendingDelete' = <<>> /\ pendingDelete # <<>>
      /\ Start(Job("delete", pendingDelete, None)) \/ Start(Flushed)
  BY DEF DeleteTimer, PageHide, Flush
<1>2. Calm(server, data.read, page, <<>>, jobs', before)
  BY <1>1, DeletionSent
<1> QED BY <1>1, <1>2 DEF Later

LEMMA RemovalCalm ==
  ASSUME Types, Owned, Now, (Loaded /\ \E row \in Visible : Remove(row)) \/ DeleteSelected, ~tainted'
  PROVE  Later
<1>0. PageOK /\ JobsOK /\ pendingDelete \in Seq(Row)
  BY DEF Types
<1>1. PICK p \in PageRecord, targets \in Seq(Row) :
           /\ RemoveMany(p, targets) /\ targets # <<>> /\ page.prompts # None /\ page.mounted
           /\ p.prompts = page.prompts /\ Status(p) = Status(page) /\ p.busy = page.busy
           /\ Distinct(page.prompts) => Distinct(targets)
           /\ RowsOf(targets) \subseteq RowsOf(page.prompts)
  BY <1>0, RemovalOf
<1> DEFINE list == Only(page.prompts, IdsOf(page.prompts) \ IdsOf(targets))
<1>2. /\ page'.prompts = list /\ page'.toast # None
      /\ page'.toast.kind = "undoDelete" /\ page'.toast.targets = targets /\ Status(page') = Status(page)
  BY <1>0, <1>1, RemoveManyPage
<1>3. CommitEarlier /\ pendingDelete' = targets /\ UNCHANGED <<server, data, before>>
  BY <1>1 DEF RemoveMany
<1>4. Calm(server, data.read, page, <<>>, jobs', before)
  <2>1. CASE pendingDelete = <<>>
    <3>1. jobs' = jobs
      BY <1>3, <2>1 DEF CommitEarlier
    <3> QED BY <2>1, <3>1 DEF Now
  <2>2. CASE pendingDelete # <<>>
    BY <1>3, <2>2, DeletionSent DEF CommitEarlier
  <2> QED BY <2>1, <2>2
<1>5. /\ Apart(jobs') /\ Mine(page.mounted, jobs') /\ Quieter(page, jobs') /\ Reads(page.loading, jobs', data.read, server)
      /\ PageFits(page.prompts, <<>>, page.error, jobs', server)
      /\ ServedWell(jobs', server, before)
  BY <1>4 DEF Calm
<1>6. page'.mounted = page.mounted /\ page'.loading = page.loading /\ page'.error = page.error
  BY <1>2, StatusIs
<1>7. Distinct(page.prompts) /\ Distinct(targets) /\ page.prompts \in Seq(Row)
  BY <1>0, <1>1, <1>5, ShownRows DEF PageFits
<1>8. /\ Distinct(list)
      /\ RowsOf(list) = {row \in RowsOf(page.prompts) : row.id \in IdsOf(page.prompts) \ IdsOf(targets)}
  BY <1>7, OnlyKeeps
<1> HIDE DEF list
<1>9. \A row \in RowsOf(page.prompts) : row.id \in IdsOf(page.prompts)
  BY IdsOfRows
<1>10. \A i : Of(list, i) = IF i \in IdsOf(targets) THEN {} ELSE Of(page.prompts, i)
  BY <1>8, <1>9 DEF Of
<1>11. \A i \in IdsOf(targets) : Of(page.prompts, i) # {}
  <2> SUFFICES ASSUME NEW i \in IdsOf(targets) PROVE Of(page.prompts, i) # {}
    OBVIOUS
  <2>1. PICK row \in RowsOf(targets) : row.id = i
    BY IdsOfRows
  <2>2. row \in Of(page.prompts, i)
    BY <1>1, <2>1 DEF Of
  <2> QED BY <2>2
<1>12. Quieter(page', jobs')
  BY <1>1, <1>5, <1>6 DEF Quieter
<1>13. PageFits(list, targets, page.error, jobs', server)
  <2>1. ASSUME NEW s \in Slots, jobs'[s] # None PROVE Shows(jobs'[s], list, targets)
    <3>1. Shows(jobs'[s], page.prompts, <<>>)
      BY <1>1, <1>5, <2>1 DEF PageFits
    <3> QED BY <1>10, <1>11, <3>1, Nothing DEF Shows
  <2>2. ASSUME ~page.error, NEW i \in AllIds \ IdsOf(targets), \A s \in Slots : i \notin Unsure(jobs'[s])
        PROVE  InStep(list, i, server)
    <3>1. InStep(page.prompts, i, server)
      BY <1>1, <1>5, <2>2, Nothing DEF PageFits
    <3> QED BY <1>10, <3>1 DEF InStep
  <2> QED BY <1>8, <1>10, <2>1, <2>2 DEF PageFits
<1>14. ToastFits(page'.toast, targets, jobs', server, before)
  BY <1>1, <1>2, <1>7 DEF ToastFits
<1> QED BY <1>2, <1>3, <1>5, <1>6, <1>12, <1>13, <1>14 DEF Later, Calm

LEMMA UndoDeleteCalm ==
  ASSUME Types, Owned, Now, UndoDelete, ~tainted'
  PROVE  Later
<1> DEFINE targets == page.toast.targets
           T == IdsOf(targets)
<1>1. /\ Apart(jobs) /\ Mine(page.mounted, jobs) /\ Quieter(page, jobs) /\ Reads(page.loading, jobs, data.read, server)
      /\ PageFits(page.prompts, pendingDelete, page.error, jobs, server)
      /\ ToastFits(page.toast, pendingDelete, jobs, server, before)
      /\ ServedWell(jobs, server, before) /\ Healthy(jobs) /\ PageOK /\ JobsOK
      /\ IdsOf(pendingDelete) \subseteq AllIds /\ Distinct(pendingDelete)
  BY CalmIs
<1>2. /\ page.toast # None /\ page.toast.kind = "undoDelete" /\ pendingDelete' = <<>>
      /\ UNCHANGED <<server, data, jobs, before>>
      /\ ~Stale(targets) /\ ~page.loading /\ \A s \in Slots : Touches(jobs[s]) \cap T = {}
  BY DEF UndoDelete, StopTimer
<1>3. targets \in Seq(Row) /\ targets # <<>> /\ Distinct(targets)
  BY <1>1, <1>2, ToastIs DEF ToastFits
<1>4. \A row \in RowsOf(targets) : server[row.id] = row /\ row \in Row /\ row.id \in T
  BY <1>2, <1>3, ListRows, IdsOfRows DEF Stale, RowsOf
<1>5. /\ page'.prompts = IF page.prompts = None THEN None ELSE targets \o page.prompts
      /\ page'.toast = None /\ Status(page') = Status(page)
  <2>1. page' = [page EXCEPT !.toast = None, !.prompts = IF page.prompts = None THEN None ELSE targets \o page.prompts]
    BY <1>1 DEF UndoDelete, PageOK, PageRecord
  <2> QED BY <1>1, <2>1 DEF PageOK, PageRecord, Status
<1>6. pendingDelete = targets
  <2> SUFFICES ASSUME pendingDelete = <<>> PROVE FALSE
    BY <1>2 DEF Owned, ToastOwned
  <2>1. Head(targets) \in RowsOf(targets)
    BY <1>3, HeadAndTail
  <2>2. server[Head(targets).id] # None
    BY <1>4, <2>1, NotNone
  <2>3. TouchedBy(jobs, Deletes \cup {"duplicate"}, Head(targets).id)
    BY <1>1, <1>2, <2>1, <2>2 DEF ToastFits
  <2>4. Head(targets).id \in T
    BY <1>4, <2>1
  <2> QED BY <1>2, <2>3, <2>4 DEF TouchedBy
<1> HIDE DEF targets
<1>7. page'.mounted = page.mounted /\ page'.loading = page.loading /\ page'.error = page.error
  BY <1>5, StatusIs
<1>8. Quieter(page', jobs)
  BY <1>1, <1>2, <1>7 DEF Quieter
<1>9. ToastFits(page'.toast, <<>>, jobs, server, before)
  BY <1>5, Nothing, NoToast
<1> DEFINE list == page'.prompts
<1> HIDE DEF T
<1>10. ASSUME list # None
       PROVE  /\ page.prompts # None /\ Distinct(list)
              /\ \A i : Of(list, i) = Of(targets, i) \cup Of(page.prompts, i)
              /\ \A i \in T : Of(page.prompts, i) = {}
  <2>1. page.prompts # None /\ list = targets \o page.prompts
    BY <1>5, <1>10
  <2>2. page.prompts \in Seq(Row) /\ Distinct(page.prompts) /\ \A i \in T : Of(page.prompts, i) = {}
    BY <1>1, <1>6, <2>1, ShownRows DEF PageFits, T
  <2>3. IdsOf(targets) \cap IdsOf(page.prompts) = {}
    BY <2>2, IdsOfRows DEF T
  <2> HIDE DEF list
  <2>4. Distinct(targets \o page.prompts) /\ \A i : Of(targets \o page.prompts, i) = Of(targets, i) \cup Of(page.prompts, i)
    BY <1>3, <2>2, <2>3, ConcatHas
  <2> QED BY <2>1, <2>2, <2>4
<1> HIDE DEF list
<1>11. PageFits(list, <<>>, page.error, jobs, server)
  <2>1. \A i : i \notin T => Of(targets, i) = {}
    BY IdsOfRows DEF T
  <2>2. ASSUME list # None, NEW i \in T PROVE InStep(list, i, server)
    <3>1. PICK row \in RowsOf(targets) : row.id = i
      BY IdsOfRows DEF T
    <3>2. Of(targets, i) = {row} /\ server[i] = row /\ row \in Row
      BY <1>3, <1>4, <3>1, DistinctRows
    <3> QED BY <1>10, <2>2, <3>2, NotNone DEF InStep
  <2>3. \A i \in AllIds \ T : i \in IdsOf(<<>>) <=> i \in IdsOf(pendingDelete)
    BY <1>6, Nothing DEF T
  <2>4. list # None => /\ page.prompts # None /\ Distinct(list)
                       /\ \A i \in AllIds \ T : Of(list, i) = Of(page.prompts, i)
    BY <1>10, <2>1
  <2>5. Moves(page.prompts, pendingDelete, page.error, jobs, server, list, <<>>, jobs, server, T)
    BY <1>2, <2>2, <2>3, <2>4, Nothing DEF Moves, T
  <2> QED BY <1>1, <2>5, PageMoves
<1> QED BY <1>1, <1>2, <1>7, <1>8, <1>9, <1>11 DEF Later, Calm, list

LEMMA LeaveCalm ==
  ASSUME Types, Owned, Now, Leave, ~tainted'
  PROVE  Later
<1>1. /\ Apart(jobs) /\ Reads(page.loading, jobs, data.read, server)
      /\ ServedWell(jobs, server, before) /\ Healthy(jobs) /\ JobsOK /\ Distinct(pendingDelete) /\ pendingDelete \in Seq(Row)
  BY CalmIs DEF Types
<1>2. PICK old \in [Slots -> Operation \cup {None}] :
        /\ \A s \in Slots : old[s] # None => WellFormed(old[s])
        /\ jobs' = Disowned(old)
        /\ \/ pendingDelete = <<>> /\ old = jobs
           \/ /\ pendingDelete # <<>>
              /\ \E s \in Slots : jobs[s] = None /\ old = [jobs EXCEPT ![s] = Flushed]
  BY <1>1, LeaveJobs
<1>3. UNCHANGED <<server, before>> /\ data' = Load /\ pendingDelete' = <<>>
      /\ (pendingDelete # <<>> => ~Overlaps(Flushed))
  BY DEF Leave
<1>4. page'.prompts = None /\ page'.toast = None /\ ~page'.mounted /\ ~page'.loading /\ ~page'.error
  BY LeavePage DEF Status
<1>5. ASSUME NEW s \in Slots, old[s] # None
      PROVE  /\ jobs'[s] # None /\ jobs'[s].kind = old[s].kind /\ jobs'[s].todo = old[s].todo /\ jobs'[s].done = old[s].done
             /\ jobs'[s].failed = old[s].failed /\ jobs'[s].row = old[s].row /\ jobs'[s].state = old[s].state
             /\ Touches(jobs'[s]) = Touches(old[s])
  <2> DEFINE new == [old[s] EXCEPT !.mine = FALSE]
  <2>1. old[s] \in Operation /\ WellFormed(old[s]) /\ jobs'[s] = new
    BY <1>2, <1>5 DEF Disowned
  <2>2. /\ new \in Operation /\ new.kind = old[s].kind /\ new.todo = old[s].todo /\ new.done = old[s].done
        /\ new.failed = old[s].failed /\ new.row = old[s].row /\ new.state = old[s].state
    BY <2>1, DisownedJob
  <2> HIDE DEF new
  <2>3. new # None /\ Touches(new) = Touches(old[s])
    BY <2>1, <2>2, OperationIs, SameTouches
  <2> QED BY <2>1, <2>2, <2>3
<1>6. ASSUME NEW s \in Slots, old[s] = None PROVE jobs'[s] = None
  BY <1>2, <1>6 DEF Disowned
<1>7. CASE pendingDelete = <<>>
  <2>1. old = jobs
    BY <1>2, <1>7
  <2> QED
    <3>1. Apart(jobs')
      BY <1>1, <1>5, <1>6, <2>1, NoTouch, ApartKept
    <3>2. Reads(page'.loading, jobs', data'.read, server')
      <4>1. \A s \in Slots : Waits(jobs'[s]) => Waits(jobs[s])
        BY <1>5, <1>6, <2>1 DEF Waits
      <4>2. data'.read = data.read \/ data'.read.state # "ok"
        BY <1>3, LoadIs DEF Types
      <4> QED BY <1>1, <1>3, <1>4, <4>1, <4>2 DEF Reads
    <3>3. ServedWell(jobs', server', before')
      <4> SUFFICES ASSUME NEW s \in Slots, jobs'[s] # None PROVE ServerSide(jobs'[s], server, before)
        BY <1>3 DEF ServedWell
      <4>1. ServerSide(jobs[s], server, before)
        BY <1>1, <1>6, <2>1 DEF ServedWell
      <4> QED BY <1>5, <1>6, <2>1, <4>1 DEF ServerSide, InOrder
    <3>4. Mine(page'.mounted, jobs') /\ Quieter(page', jobs')
      BY <1>4 DEF Mine, Quieter
    <3>5. PageFits(page'.prompts, pendingDelete', page'.error, jobs', server')
      BY <1>4 DEF PageFits
    <3>6. ToastFits(page'.toast, pendingDelete', jobs', server', before')
      BY <1>3, <1>4, Nothing, NoToast
    <3> QED BY <3>1, <3>2, <3>3, <3>4, <3>5, <3>6 DEF Later, Calm
<1>8. CASE pendingDelete # <<>>
  <2>1. PICK f \in Slots : jobs[f] = None /\ old = [jobs EXCEPT ![f] = Flushed]
    BY <1>2, <1>8
  <2>2. /\ Flushed \in Operation /\ WellFormed(Flushed) /\ Flushed.kind = "flush" /\ Flushed.todo = pendingDelete
        /\ Flushed.done = <<>> /\ Flushed.failed = <<>> /\ Flushed.state = "sent" /\ ~Overlaps(Flushed)
    BY <1>1, <1>3, <1>8, FlushJob
  <2>3. Flushed # None /\ old[f] = Flushed /\ \A s \in Slots : s # f => old[s] = jobs[s]
    BY <1>1, <2>1, <2>2, OperationIs DEF JobsOK
  <2>4. \A s \in Slots : Touches(jobs[s]) \cap Touches(Flushed) = {}
    BY <2>2 DEF Overlaps
  <2>5. Apart(old)
    BY <1>1, <2>3, <2>4, ApartEnters
  <2>6. Apart(jobs')
    BY <1>5, <1>6, <2>5, NoTouch, ApartKept
  <2>7. Reads(page'.loading, jobs', data'.read, server')
    <3>1. \A s \in Slots : Waits(jobs'[s]) => Waits(jobs[s])
      BY <1>5, <1>6, <2>2, <2>3 DEF Waits
    <3>2. data'.read = data.read \/ data'.read.state # "ok"
      BY <1>3, LoadIs DEF Types
    <3> QED BY <1>1, <1>3, <1>4, <3>1, <3>2 DEF Reads
  <2>8. ServedWell(jobs', server', before')
    <3> SUFFICES ASSUME NEW s \in Slots, jobs'[s] # None PROVE ServerSide(jobs'[s], server, before)
      BY <1>3 DEF ServedWell
    <3>1. CASE s # f
      <4>1. old[s] = jobs[s] /\ jobs[s] # None
        BY <1>6, <2>3, <3>1
      <4>2. ServerSide(jobs[s], server, before)
        BY <1>1, <4>1 DEF ServedWell
      <4> QED BY <1>5, <4>1, <4>2 DEF ServerSide, InOrder
    <3>2. CASE s = f
      <4>1. /\ jobs'[s].kind = "flush" /\ jobs'[s].todo = pendingDelete /\ jobs'[s].done = <<>>
            /\ jobs'[s].failed = <<>> /\ jobs'[s].state = "sent"
        BY <1>5, <2>2, <2>3, <3>2
      <4>2. InOrder(jobs'[s])
        BY <1>1, <4>1, Nothing DEF InOrder
      <4> QED BY <4>1, <4>2 DEF ServerSide, Patches, Filing, Deletes
    <3> QED BY <3>1, <3>2
  <2>9. Mine(page'.mounted, jobs') /\ Quieter(page', jobs')
    BY <1>4 DEF Mine, Quieter
  <2>10. PageFits(page'.prompts, pendingDelete', page'.error, jobs', server')
    BY <1>4 DEF PageFits
  <2>11. ToastFits(page'.toast, pendingDelete', jobs', server', before')
    BY <1>3, <1>4, Nothing, NoToast
  <2> QED BY <2>6, <2>7, <2>8, <2>9, <2>10, <2>11 DEF Later, Calm
<1> QED BY <1>7, <1>8

-----------------------------------------------------------------------------
(* The invariant *)

LEMMA TaintStays ==
  ASSUME Next, ~tainted'
  PROVE  \/ ~tainted
         \/ Return
         \/ \E s \in Slots : FolderDone(s) /\ ~page.mounted
<1>1. CASE Reading \/ LoseRead
  BY <1>1 DEF Reading, ServeRead, ReadAgain, ReadDone, LoseRead
<1>2. ASSUME NEW s \in Slots, Serve(s) \/ Lose(s) PROVE ~tainted
  BY <1>2 DEF Serve, Lose
<1>3. ASSUME NEW s \in Slots, Answer(s) PROVE ~tainted \/ (FolderDone(s) /\ ~page.mounted)
  BY <1>3 DEF Answer, UpdateAnswer, UpdateFails, DuplicateAnswer, BatchAdvances, BatchEnds, FolderAnswer,
              FolderFails, FolderDone, FlushEnds
<1>4. ASSUME NEW p, NEW targets, RemoveMany(p, targets) PROVE ~tainted
  BY <1>4 DEF RemoveMany, CommitEarlier, Start
<1>5. ASSUME NEW row, Operate(row) PROVE ~tainted
  BY <1>4, <1>5 DEF Operate, ToggleFavorite, Duplicate, Remove, ToggleSelected, Rename, Move, Start
<1>6. CASE Batch
  BY <1>4, <1>6 DEF Batch, SelectVisible, ClearSelection, DeleteSelected, UndoMove, MoveSelected, Start
<1>7. CASE (\E folder \in RenameChoices : RenameFolder(folder)) \/ RemoveFolder
  BY <1>7 DEF RenameFolder, RemoveFolder, Start
<1>8. CASE DeleteTimer \/ UndoDelete \/ ToastExpires \/ PageHide
  BY <1>8 DEF DeleteTimer, UndoDelete, ToastExpires, PageHide, Flush, Start
<1>9. CASE (\E at \in Links : ChangeView(at)) \/ Leave \/ TryAgain
  BY <1>9 DEF ChangeView, Leave, TryAgain
<1> QED BY <1>1, <1>2, <1>3, <1>5, <1>6, <1>7, <1>8, <1>9 DEF Next

LEMMA CalmKept ==
  ASSUME Types, Owned, CalmNow, Next
  PROVE  CalmNow'
<1> SUFFICES ASSUME ~tainted' PROVE Later
  BY DEF CalmNow, Later
<1>1. CASE Return
  BY <1>1, ReturnCalm
<1>2. CASE \E s \in Slots : FolderDone(s) /\ ~page.mounted
  BY <1>2, FolderDoneAfresh
<1>3. CASE ~Return /\ ~(\E s \in Slots : FolderDone(s) /\ ~page.mounted)
  <2>1. ~tainted /\ Now
    BY <1>3, TaintStays DEF CalmNow, Now
  <2>2. CASE Reading \/ LoseRead
    BY <2>1, <2>2, ReadStepsCalm, ReadDoneCalm DEF Reading
  <2>3. ASSUME NEW s \in Slots, Serve(s) \/ Lose(s) \/ Answer(s) PROVE Later
    BY <1>3, <2>1, <2>3, ServeCalm, LoseCalm, AnswerCalm
  <2>4. ASSUME Loaded, NEW row \in Visible, Operate(row) PROVE Later
    <3>1. CASE ToggleFavorite(row)
      BY <2>1, <2>4, <3>1, ToggleCalm
    <3>2. CASE Duplicate(row)
      BY <2>1, <2>4, <3>2, DuplicateCalm
    <3>3. CASE Remove(row)
      BY <2>1, <2>4, <3>3, RemovalCalm
    <3>4. CASE ToggleSelected(row)
      BY <2>1, <2>4, <3>4, LooksCalm DEF Looks
    <3>5. ASSUME NEW name \in Names, Rename(row, name) PROVE Later
      <4>1. /\ row \in RowsOf(page.prompts) /\ row \in Row /\ ~page.error
            /\ Start(Job("rename", <<row>>, name)) /\ UNCHANGED <<server, data, page, pendingDelete, before>>
        BY <2>4, <3>5, ShownRows DEF Types, Loaded, Rename, PromptMenu, RowShown
      <4>2. Job("rename", <<row>>, name) \in Operation /\ WellFormed(Job("rename", <<row>>, name))
        BY <4>1, RowJob
      <4> QED BY <2>1, <2>4, <4>1, <4>2, RenameMoveCalm
    <3>6. ASSUME NEW folder \in MoveChoices, Move(row, folder) PROVE Later
      <4>1. /\ row \in RowsOf(page.prompts) /\ row \in Row /\ ~page.error
            /\ Start(Job("move", <<row>>, folder)) /\ UNCHANGED <<server, data, page, pendingDelete, before>>
        BY <2>4, <3>6, ShownRows DEF Types, Loaded, Move, PromptMenu, RowShown
      <4>2. Job("move", <<row>>, folder) \in Operation /\ WellFormed(Job("move", <<row>>, folder))
        BY <4>1, RowJob
      <4> QED BY <2>1, <2>4, <4>1, <4>2, RenameMoveCalm
    <3> QED BY <2>4, <3>1, <3>2, <3>3, <3>4, <3>5, <3>6 DEF Operate
  <2>5. CASE Batch
    <3>1. CASE SelectVisible \/ ClearSelection
      BY <2>1, <3>1, LooksCalm DEF Looks
    <3>2. CASE DeleteSelected
      BY <2>1, <3>2, RemovalCalm
    <3>3. CASE UndoMove
      BY <2>1, <3>3, UndoMoveCalm
    <3>4. ASSUME NEW folder \in MoveChoices, MoveSelected(folder) PROVE Later
      BY <2>1, <3>4, MoveSelectedCalm
    <3> QED BY <2>5, <3>1, <3>2, <3>3, <3>4 DEF Batch
  <2>6. CASE (\E folder \in RenameChoices : RenameFolder(folder)) \/ RemoveFolder
    BY <2>1, <2>6, FolderCalm
  <2>7. CASE DeleteTimer \/ PageHide
    BY <2>1, <2>7, WindowClosedCalm
  <2>8. CASE UndoDelete
    BY <2>1, <2>8, UndoDeleteCalm
  <2>9. CASE ToastExpires
    BY <2>1, <2>9, ToastExpiresCalm
  <2>10. CASE \E at \in Links : ChangeView(at)
    BY <2>1, <2>10, LooksCalm DEF Looks
  <2>11. CASE Leave
    BY <2>1, <2>11, LeaveCalm
  <2>12. CASE TryAgain
    BY <2>1, <2>12, TryAgainCalm
  <2> QED BY <1>3, <2>2, <2>3, <2>4, <2>5, <2>6, <2>7, <2>8, <2>9, <2>10, <2>11, <2>12 DEF Next
<1> QED BY <1>1, <1>2, <1>3

LEMMA InitHolds ==
  ASSUME Init
  PROVE  IInv
<1>1. /\ data = [rows |-> {}, failed |-> TRUE, read |-> [Idle EXCEPT !.state = "sent"]]
      /\ pendingDelete = <<>> /\ jobs = [s \in Slots |-> None]
      /\ unread = FALSE /\ tainted = FALSE /\ undone = {} /\ before = server
  BY DEF Init
<1>2. ServerOK
  <2> DEFINE named == CHOOSE name \in Names : TRUE
             filed == CHOOSE folder \in Folders : TRUE
             row(i) == [id |-> i, name |-> named, favorite |-> FALSE, folder |-> IF i \in Filed THEN filed ELSE None]
  <2>1. server = [i \in AllIds |-> IF i = Copy THEN None ELSE row(i)]
    BY DEF Init, AllIds
  <2>2. named \in Names /\ (Filed # {} => filed \in Folders)
    BY NamesAssumption
  <2> HIDE DEF named, filed
  <2>3. \A i \in AllIds : row(i) \in Row /\ row(i).id = i
    BY <2>2 DEF Row, AllIds
  <2>4. \A i \in AllIds : server[i] = None \/ (server[i] \in Row /\ server[i].id = i)
    BY <2>1, <2>3
  <2>5. server \in [AllIds -> Row \cup {None}]
    BY <2>1, <2>3
  <2> QED BY <2>4, <2>5 DEF ServerOK
<1>3. DataOK /\ data.read.state = "sent"
  BY <1>1, IdleIs DEF DataOK, DataRecord
<1>4. PageOK /\ page.prompts = None /\ page.toast = None /\ page.busy = FALSE /\ page.mounted /\ ~page.error
  <2>1. PICK at \in {"all"} \cup Folders : page = [NewPage EXCEPT !.at = at]
    BY DEF Init
  <2>2. /\ page \in PageRecord /\ page.prompts = NewPage.prompts /\ page.toast = NewPage.toast /\ page.busy = NewPage.busy
        /\ page.mounted = NewPage.mounted /\ page.error = NewPage.error
    BY <2>1, NewPageIs DEF PageRecord
  <2> QED BY <2>2, NewPageIs DEF PageOK, Status
<1>5. JobsOK /\ \A s \in Slots : jobs[s] = None
  BY <1>1 DEF JobsOK
<1>6. Types
  BY <1>1, <1>2, <1>3, <1>4, <1>5, Nothing DEF Types
<1>7. Fresh /\ UndoneSafe
  BY <1>1, <1>3 DEF Fresh, UndoneSafe
<1>8. Owned
  BY <1>4 DEF Owned, BusyOwned, GoneOwned, ToastOwned
<1>9. Calm(server, data.read, page, pendingDelete, jobs, before)
  <2>1. Apart(jobs)
    BY <1>5, NoTouch DEF Apart
  <2>2. Quieter(page, jobs) /\ Mine(page.mounted, jobs) /\ ServedWell(jobs, server, before)
    BY <1>4, <1>5 DEF Quieter, Mine, ServedWell
  <2>3. PageFits(page.prompts, pendingDelete, page.error, jobs, server)
    BY <1>4 DEF PageFits
  <2>4. ToastFits(page.toast, pendingDelete, jobs, server, before)
    BY <1>1, <1>4, Nothing, NoToast
  <2>5. Reads(page.loading, jobs, data.read, server)
    BY <1>3 DEF Reads
  <2> QED BY <2>1, <2>2, <2>3, <2>4, <2>5 DEF Calm
<1> QED BY <1>6, <1>7, <1>8, <1>9 DEF IInv, CalmNow

LEMMA StutterKeeps ==
  ASSUME IInv, UNCHANGED vars
  PROVE  IInv'
<1>1. UNCHANGED <<server, data, page, pendingDelete, jobs, unread, tainted, silent, undone, before, steps>>
  BY DEF vars
<1>2. Types'
  BY <1>1 DEF IInv, Types, ServerOK, DataOK, PageOK, JobsOK
<1>3. Fresh' /\ UndoneSafe' /\ Owned'
  BY <1>1 DEF IInv, Fresh, UndoneSafe, Owned, BusyOwned, GoneOwned, ToastOwned
<1>4. CalmNow'
  BY <1>1 DEF IInv, CalmNow
<1> QED BY <1>2, <1>3, <1>4 DEF IInv

(* The invariant is inductive.                                              *)
LEMMA NextKeeps ==
  ASSUME IInv, [Next]_vars
  PROVE  IInv'
<1>1. CASE Next
  <2>1. Types' /\ Fresh' /\ UndoneSafe' /\ Owned'
    BY <1>1, TypesKept, FreshKept, UndoneSafeKept, OwnedKept DEF IInv
  <2>2. CalmNow'
    BY <1>1, CalmKept DEF IInv
  <2> QED BY <2>1, <2>2 DEF IInv
<1>2. CASE UNCHANGED vars
  BY <1>2, StutterKeeps
<1> QED BY <1>1, <1>2

-----------------------------------------------------------------------------
(* What follows from it *)

(* At rest the list is the prompts stored, each once.                       *)
LEMMA RestShowsStored ==
  ASSUME IInv, AtRest, ~tainted
  PROVE  RowsOf(page.prompts) = Rows /\ Len(page.prompts) = Cardinality(Rows)
<1>1. Types /\ Now
  BY DEF IInv, CalmNow, Now
<1>2. PageFits(page.prompts, pendingDelete, page.error, jobs, server) /\ PageOK /\ ServerOK
  BY <1>1, CalmIs
<1>3. /\ \A s \in Slots : jobs[s] = None
      /\ pendingDelete = <<>> /\ page.prompts # None /\ ~page.error
  BY DEF AtRest, Loaded
<1> DEFINE list == page.prompts
<1>4. list \in Seq(Row) /\ Distinct(list)
  BY <1>2, <1>3, ShownRows DEF PageFits
<1>5. \A i \in AllIds : InStep(list, i, server)
  BY <1>2, <1>3, NoneUnsure, Nothing DEF PageFits
<1>6. ASSUME NEW row \in RowsOf(list) PROVE row \in Rows
  <2>1. Of(list, row.id) = {row} /\ row.id \in AllIds /\ row \in Row
    BY <1>4, <1>6, DistinctRows, ListRows, RowIds
  <2>2. row = server[row.id] /\ row # None
    BY <1>5, <2>1, NotNone DEF InStep
  <2> QED BY <2>1, <2>2 DEF Rows, AllIds
<1>7. ASSUME NEW row \in Rows PROVE row \in RowsOf(list)
  <2>1. PICK i \in AllIds : row = server[i] /\ row # None
    BY <1>7 DEF Rows, AllIds
  <2>2. row \in Of(list, i)
    BY <1>5, <2>1 DEF InStep
  <2> QED BY <2>2 DEF Of
<1>8. RowsOf(list) = Rows
  BY <1>6, <1>7
<1>9. Len(list) = Cardinality(Rows)
  <2>1. Len(list) \in Nat /\ DOMAIN list = 1..Len(list)
    BY <1>4, ListPositions
  <2>2. list \in [1..Len(list) -> Rows]
    BY <1>4, <1>8, <2>1 DEF RowsOf
  <2>3. \A i, j \in 1..Len(list) : list[i] = list[j] => i = j
    BY <1>4, <2>1 DEF Distinct
  <2>4. \A row \in Rows : \E i \in 1..Len(list) : list[i] = row
    BY <1>8, <2>1 DEF RowsOf
  <2>5. list \in Bijection(1..Len(list), Rows)
    BY <2>2, <2>3, <2>4 DEF Bijection, Injection, Surjection, IsInjective
  <2>6. IsFiniteSet(1..Len(list)) /\ Cardinality(1..Len(list)) = Len(list)
    BY <2>1, FS_Interval
  <2> QED BY <2>5, <2>6, FS_Bijection DEF ExistsBijection
<1> QED BY <1>8, <1>9

LEMMA InvariantShows ==
  ASSUME IInv
  PROVE  PageInvariant
<1>1. TypeOK
  <2>1. \A i \in DOMAIN server : server[i] = None \/ server[i].id = i
    BY DEF IInv, Types, ServerOK
  <2>2. ASSUME page.prompts # None, NEW i \in DOMAIN page.prompts PROVE page.prompts[i].id \in Ids \cup {Copy}
    <3>1. page.prompts[i] \in Row
      BY <2>2, ShownRows, ListPositions DEF IInv, Types
    <3> QED BY <3>1, RowIds DEF AllIds
  <2>3. page.busy => \E s \in Slots : jobs[s] # None /\ jobs[s].kind = "batch" /\ jobs[s].mine
    BY DEF IInv, Owned, BusyOwned
  <2>4. data.read.state \in {"no", "sent", "ok", "failed"}
    BY DEF IInv, Types, DataOK, DataRecord, ReadRecord, ReadStates
  <2> QED BY <2>1, <2>2, <2>3, <2>4 DEF TypeOK
<1>2. PageMatchesServer
  BY RestShowsStored DEF PageMatchesServer, RowsOf
<1>3. SharedReadFresh
  BY DEF IInv, Fresh, SharedReadFresh
<1> QED BY <1>1, <1>2, <1>3 DEF PageInvariant

(* Only the requests of a deletion remove a prompt from the server.         *)
LEMMA RemovedByDeletion ==
  ASSUME IInv, Next, NEW i \in AllIds, server[i] # None, server'[i] = None
  PROVE  i \notin undone
<1>1. Types /\ UndoneSafe
  BY DEF IInv
<1>2. PICK s \in Slots : Serve(s)
  BY <1>1, ServerTypes
<1>3. jobs[s] \in Operation /\ WellFormed(jobs[s]) /\ ServerOK
  BY <1>1, <1>2, ServeKeeps DEF Types
<1>4. jobs[s].kind \in Deletes /\ i = Head(jobs[s].todo).id
  <2> DEFINE id == Head(jobs[s].todo).id
             new == Patched(jobs[s], server[id])
  <2>1. CASE /\ jobs[s].kind \in FolderKinds
             /\ server' = [j \in AllIds |-> Refiled(server[j], jobs[s].value.from, jobs[s].value.to)]
    <3>1. server'[i] = Refiled(server[i], jobs[s].value.from, jobs[s].value.to) /\ server[i] \in Row
      BY <1>3, <2>1 DEF ServerOK
    <3>2. jobs[s].value.to \in MoveChoices
      BY <1>3, <2>1 DEF WellFormed
    <3>3. [server[i] EXCEPT !.folder = jobs[s].value.to] \in Row
      BY <3>1, <3>2 DEF Row, MoveChoices
    <3> QED BY <3>1, <3>3, NotNone DEF Refiled
  <2>2. CASE server' = server
    BY <2>2
  <2>3. CASE \E copy \in Row : server' = [server EXCEPT ![Copy] = copy]
    BY <1>3, <2>3, NotNone DEF ServerOK
  <2>4. CASE /\ server' = [server EXCEPT ![id] = new]
             /\ jobs[s].kind \in Patches \cup Filing \cup Deletes
             /\ jobs[s].kind \notin Deletes => new \in Row /\ new.id = id
    <3> HIDE DEF id, new
    <3>1. i = id /\ new = None
      BY <1>3, <2>4 DEF ServerOK
    <3> QED BY <2>4, <3>1, NotNone DEF id
  <2> QED BY <1>1, <1>2, <2>1, <2>2, <2>3, <2>4, ServeKeeps
<1>5. i \in IdsOf(jobs[s].todo) /\ jobs[s] # None
  BY <1>3, <1>4, OperationIs, TouchesIs DEF Deletes, FolderKinds
<1> QED BY <1>1, <1>4, <1>5 DEF UndoneSafe

(* An Undo of a move ends with its last answer.                             *)
LEMMA UndoEnds ==
  ASSUME IInv, Next, NEW s \in Slots, jobs[s] # None, jobs[s].kind = "undoBatch", jobs'[s] = None
  PROVE  BatchEnds(s)
<1>1. Types /\ JobsOK
  BY DEF IInv, Types
<1>2. jobs[s] \in Operation /\ WellFormed(jobs[s])
  BY <1>1, JobHere
<1>3. jobs' # jobs
  OBVIOUS
<1>4. CASE ReadDone
  <2>1. ~Waits(jobs[s])
    BY <1>2 DEF Waits, WellFormed, FolderKinds
  <2>2. jobs'[s] = jobs[s]
    BY <1>1, <1>4, <2>1, ReadDoneJobs
  <2> QED BY <2>2
<1>5. CASE Leave
  <2>1. pendingDelete \in Seq(Row)
    BY <1>1 DEF Types
  <2>2. PICK old \in [Slots -> Operation \cup {None}] :
              /\ \A t \in Slots : old[t] # None => WellFormed(old[t])
              /\ jobs' = Disowned(old)
              /\ \/ pendingDelete = <<>> /\ old = jobs
                 \/ /\ pendingDelete # <<>>
                    /\ \E t \in Slots : jobs[t] = None /\ old = [jobs EXCEPT ![t] = Flushed]
    BY <1>1, <1>5, <2>1, LeaveJobs
  <2>3. old[s] = jobs[s]
    BY <1>1, <2>2 DEF JobsOK
  <2>4. jobs'[s] = [jobs[s] EXCEPT !.mine = FALSE]
    BY <2>2, <2>3 DEF Disowned
  <2>5. [jobs[s] EXCEPT !.mine = FALSE] \in Operation
    BY <1>2, DisownedJob
  <2> QED BY <2>4, <2>5, NotNone
<1>6. CASE \E job : Plainly(job) \/ Deleting(job)
  <2>1. PICK job : Entered(job)
    BY <1>6 DEF Plainly, Deleting
  <2>2. jobs'[s] = jobs[s]
    BY <1>1, <2>1, FreeIsFree
  <2> QED BY <2>2
<1>7. ASSUME NEW t \in Slots, Serve(t) \/ Lose(t) \/ Answer(t) PROVE BatchEnds(s)
  <2>1. t = s
    BY <1>1, <1>7, StepOf
  <2>2. CASE Serve(s)
    <3>1. JobsOK' /\ \E new \in Operation : jobs' = [jobs EXCEPT ![s] = new]
      <4> DEFINE job == jobs[s]
                 failed == [job EXCEPT !.state = "failed"]
      <4>1. failed \in Operation
        BY <1>2, FailedJob
      <4>2. \A row \in Row : [job EXCEPT !.state = "ok", !.row = row] \in Operation
        BY <1>2 DEF Operation
      <4> HIDE DEF failed
      <4>3. jobs' = [jobs EXCEPT ![s] = failed] \/ \E row \in Row : jobs' = [jobs EXCEPT ![s] = [job EXCEPT !.state = "ok", !.row = row]]
        BY <1>1, <2>2, ServeKeeps DEF failed, FolderKinds, Deletes, Patches, Filing
      <4> QED BY <1>1, <2>2, <4>1, <4>2, <4>3, ServeKeeps
    <3> QED BY <1>1, <3>1, NotNone DEF JobsOK
  <2>3. CASE Lose(s)
    <3>1. jobs' = [jobs EXCEPT ![s] = [jobs[s] EXCEPT !.state = "failed"]]
      BY <1>1, <2>3 DEF Lose, JobsOK
    <3>2. [jobs[s] EXCEPT !.state = "failed"] \in Operation
      BY <1>2, FailedJob
    <3> QED BY <1>1, <3>1, <3>2, NotNone DEF JobsOK
  <2>4. CASE Answer(s)
    <3>1. CASE BatchAdvances(s)
      <4>1. jobs'[s] = Advance(jobs[s])
        BY <1>1, <3>1, BatchKeeps DEF JobsOK
      <4>2. Advance(jobs[s]) \in Operation
        BY <1>2, AdvancedJob DEF Batches
      <4> QED BY <4>1, <4>2, NotNone
    <3>2. CASE FolderDone(s)
      <4>1. jobs[s].kind \in FolderKinds
        BY <1>1, <3>2, FolderDonePage DEF IInv, Types
      <4> QED BY <4>1 DEF FolderKinds
    <3> QED BY <2>4, <3>1, <3>2 DEF Answer, UpdateAnswer, UpdateFails, DuplicateAnswer, FolderAnswer, FolderFails,
                                    FlushEnds, Success, Failure
  <2> QED BY <1>7, <2>1, <2>2, <2>3, <2>4
<1> QED BY <1>1, <1>3, <1>4, <1>5, <1>6, <1>7, JobSteps

LEMMA UndoRestores ==
  ASSUME IInv, Next, NEW s \in Slots, jobs[s] # None, jobs[s].kind = "undoBatch", jobs'[s] = None,
         jobs[s].failed = <<>>, jobs[s].state = "ok", ~tainted, NEW i \in Touches(jobs[s])
  PROVE  server[i].folder = before[i].folder
<1> DEFINE job == jobs[s]
           new == Advance(job)
<1>1. Types /\ JobsOK /\ ServedWell(jobs, server, before)
  BY CalmIs DEF IInv, Types, CalmNow, Now, Calm
<1>2. job \in Operation /\ WellFormed(job) /\ job.kind \in Batches
  BY <1>1, JobHere DEF Batches
<1>3. Len(job.todo) = 1
  BY UndoEnds DEF BatchEnds
<1>4. ServerSide(job, server, before)
  BY <1>1 DEF ServedWell
<1>5. ServerSide(new, server, before)
  BY <1>2, <1>4, AdvanceServed
<1>6. /\ new \in Operation /\ new.kind = "undoBatch" /\ new.todo = Tail(job.todo)
      /\ new.failed = <<>> /\ Touches(new) = Touches(job)
  BY <1>2, AdvancedJob, AdvanceTouches
<1> HIDE DEF new
<1>7. new.todo = <<>>
  <2>1. job.todo \in Seq(Row) /\ job.todo # <<>>
    BY <1>2, OperationIs DEF WellFormed, FolderKinds
  <2> QED BY <1>3, <1>6, <2>1, HeadAndTail
<1>8. Touches(job) = IdsOf(<<>>) \cup IdsOf(new.done) \cup IdsOf(<<>>)
  BY <1>6, <1>7, TouchesIs DEF FolderKinds
<1>9. i \in IdsOf(new.done)
  BY <1>8, Nothing
<1>10. PICK row \in RowsOf(new.done) : row.id = i
  BY <1>9, IdsOfRows
<1>11. server[row.id].folder = row.folder /\ row.folder = before[row.id].folder
  BY <1>5, <1>6, <1>10 DEF ServerSide, Filing
<1> QED BY <1>10, <1>11

-----------------------------------------------------------------------------
(* Theorems *)

LEMMA InvariantHolds == Spec => []IInv
<1>1. Init => IInv
  BY InitHolds
<1>2. IInv /\ [Next]_vars => IInv'
  BY NextKeeps
<1> QED BY <1>1, <1>2, PTL DEF Spec

(* The page and the sidebar of useLibrary and LibraryData agree with the    *)
(* server: at rest the list is every stored prompt once, as stored, and the *)
(* shared list was read after the last announced change.                    *)
THEOREM PageHolds == Spec => []PageInvariant
<1>1. IInv => PageInvariant
  BY InvariantShows
<1> QED BY <1>1, InvariantHolds, PTL

LEMMA UndoneActions == IInv /\ [Next]_vars => [\A i \in Ids \cup {Copy} : server[i] # None /\ server'[i] = None => i \notin undone]_vars
<1> SUFFICES ASSUME IInv, Next, NEW i \in Ids \cup {Copy}, server[i] # None, server'[i] = None PROVE i \notin undone
  OBVIOUS
<1> QED BY RemovedByDeletion DEF AllIds

LEMMA UndoActions ==
  IInv /\ [Next]_vars =>
    [\A s \in Slots :
       /\ jobs[s] # None /\ jobs[s].kind = "undoBatch" /\ jobs'[s] = None
       /\ jobs[s].failed = <<>> /\ jobs[s].state = "ok" /\ ~tainted
       => \A i \in Touches(jobs[s]) : server[i].folder = before[i].folder]_vars
<1> SUFFICES ASSUME IInv, Next, NEW s \in Slots,
                    jobs[s] # None, jobs[s].kind = "undoBatch", jobs'[s] = None,
                    jobs[s].failed = <<>>, jobs[s].state = "ok", ~tainted, NEW i \in Touches(jobs[s])
             PROVE  server[i].folder = before[i].folder
  OBVIOUS
<1> QED BY UndoRestores

(* Both Undo buttons of the page do what they say: a deletion taken back in *)
(* its window never reaches the server, and an undone move puts every       *)
(* prompt back into the folder the batch found it in.                       *)
THEOREM UndoHolds == Spec => UndoIsTrue
<1>1. Spec => UndoneIsKept
  BY InvariantHolds, UndoneActions, PTL DEF Spec, UndoneIsKept
<1>2. Spec => UndoMoveRestores
  BY InvariantHolds, UndoActions, PTL DEF Spec, UndoMoveRestores
<1> QED BY <1>1, <1>2 DEF UndoIsTrue

=============================================================================
