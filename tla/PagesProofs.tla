---------------------------- MODULE PagesProofs ----------------------------
(***************************************************************************)
(* Proofs about Pages: what the evaluation page, the connection form and   *)
(* the settings show as stored, tested or paid for is, and an import       *)
(* confirms, retries and hands over exactly what was written, for every    *)
(* number of cases, runs, accounts, providers, notes and requests.         *)
(*                                                                         *)
(* The properties speak of pages at rest.  The invariants (EvaluationInv,  *)
(* ConnectionInv, SettingsInv) say what the requests under way know and    *)
(* which of them the page still waits for, so that the answer taken last   *)
(* is the one that leaves page and server the same.  ImportInv says which  *)
(* of the prompts chosen were settled, and that what the page holds of a   *)
(* stored prompt is as old as its stamp.  The parts share no state: in a   *)
(* tab that shows one of them the others stay as they are.                 *)
(***************************************************************************)
EXTENDS Pages, FiniteSetTheorems, TLAPS

-----------------------------------------------------------------------------
(* The evaluation page: lists *)

LEMMA EvaluationCounts == ASSUME NEW U PROVE E!Cardinality(U) = Cardinality(U)
  BY DEF E!Cardinality, Cardinality

Total(U, R) ==
  /\ \A i, j \in U : <<i, j>> \in R \/ <<j, i>> \in R
  /\ \A i, j \in U : <<i, j>> \in R /\ <<j, i>> \in R => i = j
  /\ \A i, j, k \in U : <<i, j>> \in R /\ <<j, k>> \in R => <<i, k>> \in R

Sorts(f, U, R) ==
  /\ Cardinality(U) \in Nat /\ f \in [1..Cardinality(U) -> U]
  /\ \A k, l \in 1..Cardinality(U) : f[k] = f[l] => k = l
  /\ \A i \in U : \E k \in 1..Cardinality(U) : f[k] = i
  /\ \A k \in 1..Cardinality(U) : Cardinality({j \in U : <<j, f[k]>> \in R}) = k

(* The places of a total order on a finite set list every member once. *)
LEMMA InOrderLists ==
  ASSUME NEW U, IsFiniteSet(U), NEW R, Total(U, R)
  PROVE  Sorts(E!InOrder(U, R), U, R)
<1> USE DEF Total
<1> DEFINE n == Cardinality(U)
           Down(i) == {j \in U : <<j, i>> \in R}
           Rank(i) == Cardinality(Down(i))
           f == [k \in 1..n |-> CHOOSE i \in U : Rank(i) = k]
           rank == [i \in U |-> Rank(i)]
<1>1. n \in Nat
  BY FS_CardinalityType
<1>2. E!InOrder(U, R) = f
  <2>1. n = E!Cardinality(U)
    BY EvaluationCounts
  <2>2. \A i : Rank(i) = E!Cardinality({j \in U : <<j, i>> \in R})
    BY EvaluationCounts
  <2> DEFINE one(k) == CHOOSE i \in U : Rank(i) = k
             other(k) == CHOOSE i \in U : E!Cardinality({j \in U : <<j, i>> \in R}) = k
  <2>3. \A k : one(k) = other(k)
    <3> HIDE DEF Rank
    <3> QED BY <2>2, Zenon
  <2>4. f = [k \in 1..n |-> one(k)] /\ E!InOrder(U, R) = [k \in 1..E!Cardinality(U) |-> other(k)]
    BY DEF E!InOrder
  <2> HIDE DEF one, other, n, f
  <2> QED BY <2>1, <2>3, <2>4
<1>3. \A i \in U : IsFiniteSet(Down(i)) /\ Rank(i) \in 1..n
  <2> TAKE i \in U
  <2>1. IsFiniteSet(Down(i)) /\ Rank(i) <= n
    <3>1. Down(i) \in SUBSET U
      OBVIOUS
    <3> HIDE DEF Down
    <3> QED BY <3>1, FS_Subset
  <2>2. i \in Down(i)
    OBVIOUS
  <2> HIDE DEF Down
  <2>3. Rank(i) \in Nat /\ Rank(i) # 0
    BY <2>1, <2>2, FS_CardinalityType, FS_EmptySet
  <2> QED BY <1>1, <2>1, <2>3
<1>4. \A i, j \in U : Rank(i) = Rank(j) => i = j
  <2>1. ASSUME NEW i \in U, NEW j \in U, <<i, j>> \in R, Rank(i) = Rank(j) PROVE i = j
    <3>1. Down(i) \in SUBSET Down(j)
      BY <2>1
    <3>2. j \in Down(j)
      OBVIOUS
    <3>3. Down(j) = Down(i)
      <4>1. IsFiniteSet(Down(j))
        BY <1>3
      <4> HIDE DEF Down
      <4> QED BY <2>1, <3>1, <4>1, FS_Subset
    <3>4. <<j, i>> \in R
      BY <3>2, <3>3
    <3> QED BY <2>1, <3>4
  <2>2. \A i, j \in U : <<i, j>> \in R \/ <<j, i>> \in R
    OBVIOUS
  <2> HIDE DEF Rank
  <2> QED BY <2>1, <2>2
<1>5. \A k \in 1..n : \E i \in U : Rank(i) = k
  <2> HIDE DEF Rank
  <2>1. rank \in Injection(U, 1..n)
    BY <1>3, <1>4 DEF Injection, IsInjective
  <2>2. IsFiniteSet(1..n) /\ Cardinality(1..n) = n
    BY <1>1, FS_Interval
  <2>3. rank \in Surjection(U, 1..n)
    <3> HIDE DEF rank
    <3> QED BY <2>1, <2>2, FS_Injection
  <2>4. \A k \in 1..n : \E i \in U : rank[i] = k
    <3> HIDE DEF rank
    <3> QED BY <2>3 DEF Surjection
  <2> QED BY <2>4
<1>6. \A k \in 1..n : f[k] \in U /\ Rank(f[k]) = k
  <2> TAKE k \in 1..n
  <2> HIDE DEF Rank
  <2> QED BY <1>5
<1>7. f \in [1..n -> U]
  <2> HIDE DEF Rank
  <2> QED BY <1>5
<1>8. \A i \in U : \E k \in 1..n : f[k] = i
  <2> TAKE i \in U
  <2>1. PICK k \in 1..n : k = Rank(i)
    BY <1>3
  <2> HIDE DEF Rank, f
  <2>2. f[k] = i
    BY <1>4, <1>6, <2>1
  <2> QED BY <2>2
<1>9. \A k \in 1..n : Cardinality({j \in U : <<j, f[k]>> \in R}) = k
  <2> HIDE DEF f
  <2> QED BY <1>6
<1>10. \A k, l \in 1..n : f[k] = f[l] => k = l
  <2> HIDE DEF f, Rank
  <2> QED BY <1>6
<1> HIDE DEF f, Rank
<1>11. Sorts(f, U, R)
  BY <1>1, <1>7, <1>8, <1>9, <1>10 DEF Sorts
<1> QED BY <1>2, <1>11

RowsOf(list) == {list[i] : i \in DOMAIN list}

Distinct(list) == \A i, j \in DOMAIN list : list[i].id = list[j].id => i = j

(* A list with some of its places left out, and a list in another order. *)
LEMMA WhereKeeps ==
  ASSUME NEW X, NEW list \in Seq(X), NEW places \in SUBSET (DOMAIN list)
  PROVE  /\ E!Where(list, places) \in Seq(X)
         /\ RowsOf(E!Where(list, places)) = {list[i] : i \in places}
         /\ Len(E!Where(list, places)) <= Len(list)
         /\ Distinct(list) => Distinct(E!Where(list, places))
<1> DEFINE n == Cardinality(places)
           R == {p \in places \X places : p[1] <= p[2]}
           f == E!InOrder(places, R)
           w == [k \in DOMAIN f |-> list[f[k]]]
<1>1. places \subseteq 1..Len(list) /\ Len(list) \in Nat /\ DOMAIN list = 1..Len(list)
  OBVIOUS
<1>2. IsFiniteSet(places) /\ n <= Len(list)
  <2> HIDE DEF R, f, w
  <2>1. PICK m \in Nat : m = Len(list)
    BY <1>1
  <2>2. IsFiniteSet(1..m) /\ Cardinality(1..m) = m
    BY FS_Interval
  <2>3. places \in SUBSET (1..m)
    BY <1>1, <2>1
  <2> HIDE DEF n
  <2>4. IsFiniteSet(places) /\ Cardinality(places) <= m
    BY <2>2, <2>3, FS_Subset
  <2> QED BY <2>1, <2>4 DEF n
<1>3. \A i, j \in places : <<i, j>> \in R <=> i <= j
  OBVIOUS
<1>4. \A i \in places : i \in Nat
  BY <1>1
<1>5. /\ n \in Nat /\ f \in [1..n -> places]
      /\ \A k, l \in 1..n : f[k] = f[l] => k = l
      /\ \A i \in places : \E k \in 1..n : f[k] = i
  <2> HIDE DEF R, w
  <2>1. \A i, j \in places : i <= j \/ j <= i
    BY <1>4
  <2>2. \A i, j \in places : i <= j /\ j <= i => i = j
    BY <1>4
  <2>3. \A i, j, k \in places : i <= j /\ j <= k => i <= k
    BY <1>4
  <2>4. \A i, j \in places : <<i, j>> \in R \/ <<j, i>> \in R
    BY <1>3, <2>1, Zenon
  <2>5. \A i, j \in places : <<i, j>> \in R /\ <<j, i>> \in R => i = j
    BY <1>3, <2>2, Zenon
  <2>6. \A i, j, k \in places : <<i, j>> \in R /\ <<j, k>> \in R => <<i, k>> \in R
    BY <1>3, <2>3, Zenon
  <2>7. Total(places, R)
    BY <2>4, <2>5, <2>6, Zenon DEF Total
  <2>8. Sorts(f, places, R)
    BY <1>2, <2>7, InOrderLists, Zenon
  <2> HIDE DEF f
  <2> QED BY <2>8, Zenon DEF Sorts
<1>6. E!Where(list, places) = w
  BY DEF E!Where
<1> HIDE DEF f, n
<1>7. w \in Seq(X) /\ DOMAIN w = 1..n /\ Len(w) = n /\ \A k \in 1..n : w[k] = list[f[k]] /\ f[k] \in places
  <2>1. DOMAIN f = 1..n
    BY <1>5
  <2>2. \A k \in 1..n : list[f[k]] \in X
    BY <1>1, <1>5
  <2>3. w \in [1..n -> X]
    BY <2>1, <2>2
  <2>4. w \in Seq(X) /\ DOMAIN w = 1..n /\ Len(w) = n
    BY <1>5, <2>3
  <2> QED BY <1>5, <2>1, <2>4
<1> HIDE DEF w
<1>8. RowsOf(w) = {list[i] : i \in places}
  <2>1. RowsOf(w) = {w[k] : k \in 1..n}
    BY <1>7 DEF RowsOf
  <2> QED BY <1>5, <1>7, <2>1
<1>9. ASSUME Distinct(list) PROVE Distinct(w)
  BY <1>1, <1>5, <1>7, <1>9 DEF Distinct
<1> QED BY <1>2, <1>6, <1>7, <1>8, <1>9

LEMMA ListedKeeps ==
  ASSUME NEW list \in Seq(CaseRecords), Distinct(list)
  PROVE  /\ E!Listed(list) \in Seq(CaseRecords) /\ Len(E!Listed(list)) = Len(list)
         /\ RowsOf(E!Listed(list)) = RowsOf(list) /\ Distinct(E!Listed(list))
<1> DEFINE n == Len(list)
           U == DOMAIN list
           R == {p \in U \X U : E!Before(list[p[1]], list[p[2]])}
           f == E!InOrder(U, R)
           w == [k \in U |-> list[f[k]]]
<1>1. n \in Nat /\ U = 1..n
  OBVIOUS
<1>2. IsFiniteSet(U) /\ Cardinality(U) = n
  <2> HIDE DEF U, n
  <2> QED BY <1>1, FS_Interval
<1>3. \A i, j \in U : <<i, j>> \in R <=> E!Before(list[i], list[j])
  OBVIOUS
<1>4. \A i \in U : list[i] \in CaseRecords /\ list[i].id \in Nat /\ list[i].position \in Nat
  <2>1. \A c \in CaseRecords : c.id \in Nat /\ c.position \in Nat
    BY DEF CaseRecords
  <2> QED BY <2>1
<1> HIDE DEF R, f, w, U
<1>5. \A i, j \in U : <<i, j>> \in R \/ <<j, i>> \in R
  <2>1. \A i, j \in U : E!Before(list[i], list[j]) \/ E!Before(list[j], list[i])
    BY <1>4 DEF E!Before
  <2> QED BY <1>3, <2>1, Zenon
<1>6. \A i, j \in U : <<i, j>> \in R /\ <<j, i>> \in R => i = j
  <2>1. \A i, j \in U : E!Before(list[i], list[j]) /\ E!Before(list[j], list[i]) => list[i].id = list[j].id
    BY <1>4 DEF E!Before
  <2>2. \A i, j \in U : list[i].id = list[j].id => i = j
    BY DEF Distinct, U
  <2> QED BY <1>3, <2>1, <2>2, Zenon
<1>7. \A i, j, k \in U : <<i, j>> \in R /\ <<j, k>> \in R => <<i, k>> \in R
  <2>1. \A i, j, k \in U :
          E!Before(list[i], list[j]) /\ E!Before(list[j], list[k]) => E!Before(list[i], list[k])
    BY <1>4 DEF E!Before
  <2> QED BY <1>3, <2>1, Zenon
<1>8. /\ f \in [1..n -> U]
      /\ \A k, l \in 1..n : f[k] = f[l] => k = l
      /\ \A i \in U : \E k \in 1..n : f[k] = i
  <2> HIDE DEF n
  <2>1. f = E!InOrder(U, R)
    BY DEF f
  <2>2. Total(U, R)
    BY <1>5, <1>6, <1>7, Zenon DEF Total
  <2>3. Sorts(f, U, R)
    BY <1>2, <2>1, <2>2, InOrderLists, Zenon
  <2> QED BY <1>2, <2>3, Zenon DEF Sorts
<1>9. E!Listed(list) = w
  BY DEF E!Listed, w, f, R, U
<1>10. w \in Seq(CaseRecords) /\ Len(w) = n /\ DOMAIN w = U /\ \A k \in U : w[k] = list[f[k]] /\ f[k] \in U
  <2>1. \A k \in U : f[k] \in U /\ list[f[k]] \in CaseRecords
    BY <1>1, <1>4, <1>8
  <2>2. w \in [1..n -> CaseRecords]
    BY <1>1, <2>1 DEF w
  <2>3. w \in Seq(CaseRecords) /\ Len(w) = n /\ DOMAIN w = 1..n
    BY <1>1, <2>2
  <2> QED BY <1>1, <2>1, <2>3 DEF w
<1> HIDE DEF n
<1>11. RowsOf(w) = RowsOf(list)
  <2>1. RowsOf(w) = {w[k] : k \in U} /\ RowsOf(list) = {list[i] : i \in U}
    BY <1>10 DEF RowsOf, U
  <2>2. \A k \in U : w[k] = list[f[k]] /\ f[k] \in U
    BY <1>10
  <2>3. \A i \in U : \E k \in U : f[k] = i
    BY <1>1, <1>8
  <2> QED BY <2>1, <2>2, <2>3
<1>12. Distinct(w)
  <2>1. \A i, j \in U : list[i].id = list[j].id => i = j
    BY DEF Distinct, U
  <2>2. \A k \in U : w[k] = list[f[k]] /\ f[k] \in U
    BY <1>10
  <2>3. \A k, l \in U : f[k] = f[l] => k = l
    BY <1>1, <1>8
  <2>4. DOMAIN w = U
    BY <1>10
  <2> QED BY <2>1, <2>2, <2>3, <2>4 DEF Distinct
<1> QED BY <1>9, <1>10, <1>11, <1>12 DEF n

(* The rows of a list without repeated identifiers are as many as its places. *)
LEMMA DistinctRows ==
  ASSUME NEW X, NEW list \in Seq(X), Distinct(list)
  PROVE  IsFiniteSet(RowsOf(list)) /\ Cardinality(RowsOf(list)) = Len(list)
<1>1. DOMAIN list = 1..Len(list) /\ Len(list) \in Nat
  OBVIOUS
<1>2. \A i, j \in 1..Len(list) : list[i] = list[j] => i = j
  BY <1>1 DEF Distinct
<1>3. list \in [1..Len(list) -> RowsOf(list)]
  BY <1>1 DEF RowsOf
<1>4. list \in Bijection(1..Len(list), RowsOf(list))
  BY <1>1, <1>2, <1>3 DEF Bijection, Injection, Surjection, IsInjective, RowsOf
<1>5. ExistsBijection(1..Len(list), RowsOf(list))
  BY <1>4 DEF ExistsBijection
<1>6. IsFiniteSet(1..Len(list)) /\ Cardinality(1..Len(list)) = Len(list)
  BY <1>1, FS_Interval
<1> QED BY <1>5, <1>6, FS_Bijection

-----------------------------------------------------------------------------
(* The evaluation page: what the page and the server hold *)

StoredRuns == [id : Nat, tested : Nat, version : Nat, stars : Nat]

EvaluationStored ==
  [texts : Seq(PromptTexts), cases : [list : Seq(CaseRecords), next : Nat], runs : Seq(StoredRuns)]

EvaluationPages ==
  [loaded : BOOLEAN, version : Nat, cases : Seq(CaseRecords), runs : Seq(ShownRuns), hasMore : BOOLEAN,
   proposals : Seq(Contents), editing : Editings \cup {None}, deleting : Nat \cup {None}, suggesting : BOOLEAN,
   importing : BOOLEAN, view : {"cases", "runs"}, selected : Nat,
   config : {"connected", "exhausted", "none", None}, failed : BOOLEAN, rejected : BOOLEAN]

Reads == {"run", "refresh", "history"}

RequestOK ==
  /\ job \in Jobs /\ evaluation.loaded = TRUE
  /\ job.state = "budget" => job.kind \in E!Billed
  /\ job.kind = "save" => job.arg \in Editings /\ job.arg = evaluation.editing
  /\ job.kind = "delete" => job.arg \in Nat
  /\ job.kind = "import" => job.arg \in Seq(Contents)
  /\ job.kind = "rate" => job.arg \in [run : Nat, stars : Nat] /\ job.arg.stars # 0
  /\ job.kind \in Reads => job.arg \in Nat
  /\ job.kind = "history" => job.arg = Len(evaluation.runs)
  /\ job.kind = "generate" => evaluation.editing = None

AnswerOK ==
  /\ job.kind = "save" =>
       job.answer \in Seq(CaseRecords) /\ Len(job.answer) = 1 /\ job.answer[1].content = job.arg.content
  /\ job.kind = "import" => job.answer \in Seq(CaseRecords)
  /\ job.kind \in {"rate", "run"} => job.answer \in ShownRuns
  /\ job.kind = "history" => job.answer \in Seq(ShownRuns)
  /\ job.kind = "refresh" => job.answer \in Nat
  /\ job.kind = "generate" => job.answer \in Seq(Contents)

EvaluationTypes ==
  /\ db \in EvaluationStored /\ evaluation \in EvaluationPages
  /\ rechecked \in BOOLEAN /\ outside \in BOOLEAN /\ newest \in Nat
  /\ job # None => RequestOK
  /\ job # None /\ job.state = "ok" => AnswerOK

(* A paid request is under way only while AI may be used and no check of that is. *)
PaidWhenAllowed ==
  /\ check # None => evaluation.config = None /\ check.since = TRUE
  /\ rechecked = FALSE => evaluation.rejected = TRUE
  /\ evaluation.config # None => evaluation.failed = FALSE
  /\ job # None /\ job.kind \in E!Billed =>
       check = None /\ evaluation.config = "connected" /\ evaluation.rejected = FALSE /\ rechecked = TRUE

(* The suggestions shown are those in the browser, and the one reviewed is at its place. *)
SuggestionsHeld ==
  /\ store = evaluation.proposals /\ kept \subseteq RowsOf(evaluation.proposals)
  /\ evaluation.editing # None /\ evaluation.editing.index # 0 =>
       /\ evaluation.editing.index \in DOMAIN evaluation.proposals
       /\ evaluation.proposals[evaluation.editing.index] = evaluation.editing.content

Pending(kind) == job # None /\ job.state = "ok" /\ job.kind = kind

(* The cases the page will list once the answer under way has been applied. *)
CasesToCome ==
  IF Pending("save")
  THEN IF job.arg.id = None THEN Append(evaluation.cases, job.answer[1])
       ELSE [i \in DOMAIN evaluation.cases |->
               IF evaluation.cases[i].id = job.answer[1].id THEN job.answer[1] ELSE evaluation.cases[i]]
  ELSE IF Pending("import") THEN evaluation.cases \o job.answer
  ELSE IF Pending("delete") THEN E!AfterDelete(evaluation.cases, job.arg)
  ELSE evaluation.cases

CasesStored ==
  /\ Distinct(db.cases.list) /\ Len(db.cases.list) <= CASE_LIMIT
  /\ \A i \in DOMAIN db.cases.list : db.cases.list[i].id < db.cases.next

CasesAgree ==
  /\ outside = FALSE => Len(evaluation.cases) <= CASE_LIMIT
  /\ evaluation.loaded = TRUE /\ outside = FALSE =>
       Distinct(CasesToCome) /\ RowsOf(CasesToCome) = RowsOf(db.cases.list)

Ids(runs) == {runs[i].id : i \in DOMAIN runs}

(* A run as shown is one of those stored, and its rating, once given, the stored one. *)
Known(run) ==
  /\ run.id \in 1..Len(db.runs)
  /\ run.stars # 0 => db.runs[Len(db.runs) + 1 - run.id].stars = run.stars

RunsStored ==
  /\ newest <= Len(db.runs)
  /\ \A i \in DOMAIN db.runs : db.runs[i].id = Len(db.runs) + 1 - i

RunsKnown ==
  /\ Distinct(evaluation.runs)
  /\ \A i \in DOMAIN evaluation.runs : Known(evaluation.runs[i])
  /\ Pending("rate") => Known(job.answer)
  /\ Pending("run") => Known(job.answer) /\ job.answer.id > newest /\ job.answer.id \notin Ids(evaluation.runs)
  /\ Pending("history") => Distinct(job.answer) /\ \A i \in DOMAIN job.answer : Known(job.answer[i])

(* Every run stored when the page loaded is shown, or older than all that are while more is offered. *)
Reaches(shown, more) == \A old \in 1..newest : old \in shown \/ (more /\ \A id \in shown : old < id)

RunsReach ==
  /\ evaluation.loaded = TRUE => Reaches(Ids(evaluation.runs), evaluation.hasMore = TRUE)
  /\ Pending("history") =>
       Reaches(Ids(evaluation.runs) \cup Ids(job.answer), Len(job.answer) = HISTORY_PAGE_SIZE)

EvaluationInv ==
  /\ EvaluationTypes /\ PaidWhenAllowed /\ SuggestionsHeld
  /\ CasesStored /\ CasesAgree /\ RunsStored /\ RunsKnown /\ RunsReach


-----------------------------------------------------------------------------
(* What a step leaves alone *)

Waiting(kinds) == job # None /\ job.state = "ok" /\ job.kind \in kinds

CaseKinds == {"save", "import", "delete"}

RunKinds == {"rate", "run", "history"}

LEMMA PaidStays ==
  ASSUME PaidWhenAllowed, evaluation'.config = evaluation.config, evaluation'.failed = evaluation.failed,
         evaluation'.rejected = evaluation.rejected, UNCHANGED <<check, rechecked>>,
         job' # None /\ job'.kind \in E!Billed => job # None /\ job.kind \in E!Billed
  PROVE  PaidWhenAllowed'
BY DEF PaidWhenAllowed, E!Billed

LEMMA SuggestionsStay ==
  ASSUME SuggestionsHeld, evaluation'.proposals = evaluation.proposals, evaluation'.editing = evaluation.editing,
         UNCHANGED <<store, kept>>
  PROVE  SuggestionsHeld'
BY DEF SuggestionsHeld, RowsOf

LEMMA CasesStay ==
  ASSUME CasesStored, CasesAgree, db'.cases = db.cases, evaluation'.cases = evaluation.cases,
         evaluation'.loaded = evaluation.loaded, UNCHANGED outside,
         UNCHANGED job \/ (~Waiting(CaseKinds) /\ ~Waiting(CaseKinds)')
  PROVE  CasesStored' /\ CasesAgree'
<1>1. CasesStored'
  BY DEF CasesStored, Distinct
<1>2. CasesToCome' = CasesToCome
  <2>1. CASE UNCHANGED job
    BY <2>1 DEF CasesToCome, Pending, E!AfterDelete, E!Where, E!InOrder
  <2>2. CASE ~Waiting(CaseKinds) /\ ~Waiting(CaseKinds)'
    <3>1. CasesToCome = evaluation.cases
      BY <2>2 DEF CasesToCome, Pending, Waiting, CaseKinds
    <3>2. CasesToCome' = evaluation'.cases
      BY <2>2 DEF CasesToCome, Pending, Waiting, CaseKinds
    <3> QED BY <3>1, <3>2
  <2> QED BY <2>1, <2>2
<1>3. CasesAgree'
  <2>1. Distinct(CasesToCome)' = Distinct(CasesToCome) /\ RowsOf(CasesToCome)' = RowsOf(CasesToCome)
    BY <1>2 DEF Distinct, RowsOf
  <2>2. RowsOf(db.cases.list)' = RowsOf(db.cases.list)
    BY DEF RowsOf
  <2> HIDE DEF CasesToCome, RowsOf, Distinct
  <2> QED BY <2>1, <2>2 DEF CasesAgree
<1> QED BY <1>1, <1>3

(* The stored runs only grow in number, and a rating given stays. *)
RunsGrow ==
  /\ Len(db.runs) <= Len(db'.runs)
  /\ \A id \in 1..Len(db.runs) :
       db.runs[Len(db.runs) + 1 - id].stars # 0 =>
         db'.runs[Len(db'.runs) + 1 - id].stars = db.runs[Len(db.runs) + 1 - id].stars

LEMMA KnownStays ==
  ASSUME db \in EvaluationStored, db' \in EvaluationStored, RunsGrow, NEW run, Known(run)
  PROVE  Known(run)'
<1>1. Len(db.runs) \in Nat /\ Len(db'.runs) \in Nat
  BY DEF EvaluationStored
<1>2. run.id \in 1..Len(db.runs) /\ run.id \in 1..Len(db'.runs)
  BY <1>1 DEF Known, RunsGrow
<1>3. run.stars # 0 => db'.runs[Len(db'.runs) + 1 - run.id].stars = run.stars
  BY <1>2 DEF Known, RunsGrow
<1> QED BY <1>2, <1>3 DEF Known

LEMMA RunsStay ==
  ASSUME RunsKnown, RunsReach, db \in EvaluationStored, db' \in EvaluationStored, RunsGrow,
         evaluation'.runs = evaluation.runs, evaluation'.loaded = evaluation.loaded,
         evaluation'.hasMore = evaluation.hasMore, UNCHANGED newest, UNCHANGED job \/ ~Waiting(RunKinds)'
  PROVE  RunsKnown' /\ RunsReach'
<1>1. \A run : Known(run) => Known(run)'
  BY KnownStays
<1>2. Distinct(evaluation.runs)' /\ \A i \in DOMAIN evaluation'.runs : Known(evaluation.runs[i])'
  BY <1>1 DEF RunsKnown, Distinct
<1>3. CASE UNCHANGED job
  <2>1. /\ Pending("rate")' => Known(job.answer)'
        /\ Pending("run")' => Known(job.answer)'
        /\ Pending("history")' => \A i \in DOMAIN job'.answer : Known(job.answer[i])'
    <3>1. Pending("rate")' = Pending("rate") /\ Pending("run")' = Pending("run") /\ Pending("history")' = Pending("history")
      BY <1>3 DEF Pending
    <3>2. Known(job.answer) => Known(job.answer)'
      BY <1>1, <1>3
    <3>3. \A i : Known(job.answer[i]) => Known(job.answer[i])'
      BY <1>1, <1>3
    <3> QED BY <1>3, <3>1, <3>2, <3>3 DEF RunsKnown
  <2>2. RunsKnown'
    BY <1>2, <1>3, <2>1 DEF RunsKnown, Ids, Distinct, Pending
  <2>3. RunsReach'
    BY <1>3 DEF RunsReach, Reaches, Ids, Pending
  <2> QED BY <2>2, <2>3
<1>4. CASE ~Waiting(RunKinds)'
  <2>1. /\ Pending("rate")' = FALSE /\ Pending("run")' = FALSE /\ Pending("history")' = FALSE
    BY <1>4 DEF Pending, Waiting, RunKinds
  <2>2. RunsKnown'
    BY <1>2, <2>1 DEF RunsKnown
  <2>3. RunsReach'
    BY <2>1 DEF RunsReach, Reaches, Ids
  <2> QED BY <2>2, <2>3
<1> QED BY <1>3, <1>4

(* What neither adds nor rates a run. *)
LEMMA RunsSame ==
  ASSUME RunsStored, db \in EvaluationStored, db'.runs = db.runs, UNCHANGED newest
  PROVE  RunsStored' /\ RunsGrow
<1>1. Len(db.runs) \in Nat
  BY DEF EvaluationStored
<1> QED BY <1>1 DEF RunsStored, RunsGrow

-----------------------------------------------------------------------------
(* The requests of the page *)

EvaluationKinds == {"save", "delete", "import", "rate", "export", "generate", "run", "refresh", "history"}

(* What a request of this kind carries. *)
Carries(kind, arg) ==
  /\ kind \in EvaluationKinds
  /\ kind = "save" => arg \in Editings /\ arg = evaluation.editing
  /\ kind = "delete" => arg \in Nat
  /\ kind = "import" => arg \in Seq(Contents)
  /\ kind = "rate" => arg \in [run : Nat, stars : Nat] /\ arg.stars # 0
  /\ kind \in Reads => arg \in Nat
  /\ kind = "history" => arg = Len(evaluation.runs)
  /\ kind = "generate" => evaluation.editing = None
  /\ kind \in {"generate", "export"} => arg = None

Arguments == Editings \cup Nat \cup Seq(Contents) \cup [run : Nat, stars : Nat] \cup {None}

EvaluationAnswers ==
  Seq(CaseRecords) \cup Seq(ShownRuns) \cup ShownRuns \cup Nat \cup Seq(Contents) \cup {None}

LEMMA JobFields ==
  Jobs = [kind : EvaluationKinds, state : {"sent", "ok", "failed", "budget"}, arg : Arguments, answer : EvaluationAnswers]
BY DEF Jobs, EvaluationKinds, Arguments, EvaluationAnswers

LEMMA Asked ==
  ASSUME NEW kind \in EvaluationKinds, NEW arg \in Arguments, E!Ask(kind, arg)
  PROVE  job' \in Jobs /\ job' # None /\ job'.kind = kind /\ job'.arg = arg /\ job'.state = "sent"
<1>1. job' = [kind |-> kind, arg |-> arg, state |-> "sent", answer |-> None]
  BY DEF E!Ask
<1>2. None \in EvaluationAnswers
  BY DEF EvaluationAnswers
<1>3. job' \in Jobs
  BY <1>1, <1>2, JobFields
<1> QED BY <1>1, <1>3, EvaluationAssumption

LEMMA Refusing ==
  ASSUME job \in Jobs, NEW state \in {"failed", "budget"}, E!Refused(state)
  PROVE  job' \in Jobs /\ job' # None /\ job'.kind = job.kind /\ job'.arg = job.arg /\ job'.state = state
<1>1. job' = [job EXCEPT !.state = state]
  BY DEF E!Refused
<1>2. job' \in Jobs
  BY <1>1, JobFields
<1> QED BY <1>1, <1>2, JobFields, EvaluationAssumption

LEMMA Serving ==
  ASSUME job \in Jobs, NEW answer \in EvaluationAnswers, E!Served(answer)
  PROVE  /\ job' \in Jobs /\ job' # None /\ job'.kind = job.kind /\ job'.arg = job.arg
         /\ job'.state = "ok" /\ job'.answer = answer
<1>1. job' = [job EXCEPT !.state = "ok", !.answer = answer]
  BY DEF E!Served
<1>2. job' \in Jobs
  BY <1>1, JobFields
<1> QED BY <1>1, <1>2, JobFields, EvaluationAssumption

LEMMA AskTypes ==
  ASSUME EvaluationTypes, evaluation.loaded = TRUE, NEW kind, NEW arg, Carries(kind, arg),
         E!Ask(kind, arg), UNCHANGED <<db, evaluation, rechecked, outside, newest>>
  PROVE  EvaluationTypes' /\ job' # None /\ job'.kind = kind /\ job'.state = "sent"
<1>1. kind \in EvaluationKinds /\ arg \in Arguments
  BY DEF Carries, EvaluationKinds, Reads, Arguments
<1>2. job' \in Jobs /\ job' # None /\ job'.kind = kind /\ job'.arg = arg /\ job'.state = "sent"
  BY <1>1, Asked
<1>3. RequestOK'
  BY <1>2 DEF RequestOK, Carries
<1>4. EvaluationTypes'
  BY <1>2, <1>3 DEF EvaluationTypes
<1> QED BY <1>2, <1>4

LEMMA Asking ==
  ASSUME EvaluationInv, E!Idle, NEW kind, NEW arg, Carries(kind, arg), kind \in E!Billed => E!CanUseAI,
         E!Ask(kind, arg), UNCHANGED <<db, store, evaluation, check, kept, rechecked, newest, outside>>
  PROVE  EvaluationInv'
<1>1. job = None /\ evaluation.loaded = TRUE
  BY DEF E!Idle, EvaluationInv, EvaluationTypes, EvaluationPages
<1>2. EvaluationTypes' /\ job' # None /\ job'.kind = kind /\ job'.state = "sent"
  BY <1>1, AskTypes DEF EvaluationInv
<1>3. PaidWhenAllowed'
  <2>1. CASE kind \in E!Billed
    <3>1. evaluation.config = "connected" /\ evaluation.rejected = FALSE
      BY <2>1 DEF E!CanUseAI, EvaluationInv, EvaluationTypes, EvaluationPages
    <3>2. "connected" # None
      BY EvaluationAssumption
    <3>3. check = None /\ rechecked = TRUE
      BY <3>1, <3>2 DEF EvaluationInv, PaidWhenAllowed, EvaluationTypes
    <3> QED BY <3>1, <3>3 DEF EvaluationInv, PaidWhenAllowed
  <2>2. CASE kind \notin E!Billed
    BY <1>2, <2>2, PaidStays DEF EvaluationInv
  <2> QED BY <2>1, <2>2
<1>4. ~Waiting(CaseKinds) /\ ~Waiting(CaseKinds)' /\ ~Waiting(RunKinds) /\ ~Waiting(RunKinds)'
  BY <1>1, <1>2 DEF Waiting
<1> QED BY <1>2, <1>3, <1>4, SuggestionsStay, CasesStay, RunsSame, RunsStay DEF EvaluationInv, EvaluationTypes

LEMMA AskingActions ==
  ASSUME EvaluationInv,
         \/ E!SaveCase \/ E!DeleteCase \/ E!ExportCsv \/ E!Generate \/ E!RunEvaluation \/ E!LoadOlderRuns
         \/ \E i \in DOMAIN evaluation.runs : E!Rate(i, 2)
         \/ \E contents \in {<<"csv">>, <<"csv", "lacking">>} : E!ImportCsv(contents)
  PROVE  EvaluationInv'
<1> USE DEF E!Free
<1>1. evaluation \in EvaluationPages /\ db \in EvaluationStored
  BY DEF EvaluationInv, EvaluationTypes
<1>2. ASSUME E!SaveCase PROVE EvaluationInv'
  <2>1. Carries("save", evaluation.editing)
    BY <1>1, <1>2 DEF E!SaveCase, Carries, EvaluationKinds, Reads, EvaluationPages
  <2> QED BY <1>2, <2>1, Asking DEF E!SaveCase, E!Billed
<1>3. ASSUME E!DeleteCase PROVE EvaluationInv'
  <2>1. Carries("delete", evaluation.deleting)
    BY <1>1, <1>3 DEF E!DeleteCase, Carries, EvaluationKinds, Reads, EvaluationPages
  <2> QED BY <1>3, <2>1, Asking DEF E!DeleteCase, E!Billed
<1>4. ASSUME E!ExportCsv PROVE EvaluationInv'
  <2>1. Carries("export", None)
    BY DEF Carries, EvaluationKinds, Reads
  <2> QED BY <1>4, <2>1, Asking DEF E!ExportCsv, E!Billed
<1>5. ASSUME E!Generate PROVE EvaluationInv'
  <2>1. Carries("generate", None)
    BY <1>5 DEF E!Generate, Carries, EvaluationKinds, Reads, E!Billed
  <2> QED BY <1>5, <2>1, Asking DEF E!Generate
<1>6. ASSUME E!RunEvaluation PROVE EvaluationInv'
  <2>1. E!Live \in Nat
    BY <1>1 DEF E!Live, EvaluationStored
  <2>2. Carries("run", E!Live)
    BY <2>1 DEF Carries, EvaluationKinds, Reads, E!Billed
  <2> QED BY <1>6, <2>2, Asking DEF E!RunEvaluation
<1>7. ASSUME E!LoadOlderRuns PROVE EvaluationInv'
  <2>1. Len(evaluation.runs) \in Nat
    BY <1>1 DEF EvaluationPages
  <2>2. Carries("history", Len(evaluation.runs))
    BY <2>1 DEF Carries, EvaluationKinds, Reads
  <2> QED BY <1>7, <2>2, Asking DEF E!LoadOlderRuns, E!Billed
<1>8. ASSUME NEW i \in DOMAIN evaluation.runs, E!Rate(i, 2) PROVE EvaluationInv'
  <2>1. evaluation.runs[i].id \in Nat
    <3>1. evaluation.runs \in Seq(ShownRuns)
      BY <1>1 DEF EvaluationPages
    <3>2. evaluation.runs[i] \in ShownRuns
      BY <3>1
    <3> QED BY <3>2 DEF ShownRuns
  <2>2. Carries("rate", [run |-> evaluation.runs[i].id, stars |-> 2])
    BY <2>1 DEF Carries, EvaluationKinds, Reads
  <2> QED BY <1>8, <2>2, Asking DEF E!Rate, E!Billed
<1>9. ASSUME NEW contents \in {<<"csv">>, <<"csv", "lacking">>}, E!ImportCsv(contents) PROVE EvaluationInv'
  <2>1. contents \in Seq(Contents) /\ contents # <<>>
    <3>1. "csv" \in Contents /\ "lacking" \in Contents
      BY DEF Contents
    <3>2. \A a, b \in Contents : <<a>> \in Seq(Contents) /\ <<a, b>> \in Seq(Contents) /\ <<a>> # <<>> /\ <<a, b>> # <<>>
      OBVIOUS
    <3> QED BY <3>1, <3>2
  <2>2. Carries("import", contents)
    BY <2>1 DEF Carries, EvaluationKinds, Reads
  <2>3. /\ E!Idle /\ E!Ask("import", contents)
        /\ UNCHANGED <<db, store, evaluation, check, kept, rechecked, newest, outside>>
    BY <1>9, <2>1 DEF E!ImportCsv
  <2> QED BY <2>2, <2>3, Asking DEF E!Billed
<1> QED BY <1>2, <1>3, <1>4, <1>5, <1>6, <1>7, <1>8, <1>9

-----------------------------------------------------------------------------
(* What the user opens, closes and selects *)

Shows(shown) ==
  /\ shown \in EvaluationPages
  /\ shown.loaded = evaluation.loaded /\ shown.cases = evaluation.cases /\ shown.runs = evaluation.runs
  /\ shown.hasMore = evaluation.hasMore /\ shown.proposals = evaluation.proposals /\ shown.config = evaluation.config
  /\ shown.failed = evaluation.failed /\ shown.rejected = evaluation.rejected
  /\ shown.editing # evaluation.editing =>
       /\ job = None
       /\ shown.editing # None /\ shown.editing.index # 0 =>
            /\ shown.editing.index \in DOMAIN evaluation.proposals
            /\ evaluation.proposals[shown.editing.index] = shown.editing.content

LEMMA Showing ==
  ASSUME EvaluationInv, Shows(evaluation'),
         UNCHANGED <<db, store, job, check, kept, rechecked, newest, outside>>
  PROVE  EvaluationInv'
<1>1. EvaluationTypes'
  <2>1. job # None => RequestOK'
    BY DEF EvaluationInv, EvaluationTypes, RequestOK, Shows
  <2>2. job # None /\ job.state = "ok" => AnswerOK'
    BY DEF EvaluationInv, EvaluationTypes, AnswerOK, Shows
  <2> QED BY <2>1, <2>2 DEF EvaluationInv, EvaluationTypes, Shows
<1>2. PaidWhenAllowed'
  BY PaidStays DEF Shows, EvaluationInv
<1>3. SuggestionsHeld'
  BY DEF SuggestionsHeld, Shows, EvaluationInv, RowsOf
<1>4. CasesStored' /\ CasesAgree'
  BY CasesStay DEF Shows, EvaluationInv
<1>5. RunsStored' /\ RunsKnown' /\ RunsReach'
  BY RunsSame, RunsStay DEF Shows, EvaluationInv, EvaluationTypes
<1> QED BY <1>1, <1>2, <1>3, <1>4, <1>5 DEF EvaluationInv

LEMMA ShowingActions ==
  ASSUME EvaluationInv,
         \/ E!AddCase \/ E!CancelEdit \/ E!CancelDelete \/ E!OpenImport \/ E!ImportCsv(<<>>)
         \/ \E i \in 1..CASE_LIMIT : E!EditCase(i) \/ E!AskDelete(i)
         \/ \E index \in DOMAIN Suggestions : E!ReviewSuggestion(index)
         \/ \E shown \in BOOLEAN : E!Suggest(shown)
         \/ \E view \in {"cases", "runs"} : E!SetView(view)
         \/ \E i \in DOMAIN evaluation.runs : E!Select(i)
  PROVE  EvaluationInv'
<1>1. evaluation \in EvaluationPages
  BY DEF EvaluationInv, EvaluationTypes
<1> USE DEF E!Free, E!Idle
<1>2. ASSUME E!AddCase PROVE EvaluationInv'
  <2> DEFINE case == [id |-> None, index |-> 0, content |-> "typed"]
  <2>1. case \in Editings /\ case.index = 0
    BY DEF Editings, Contents
  <2>2. evaluation' = [evaluation EXCEPT !.editing = case] /\ job = None
    BY <1>2 DEF E!AddCase
  <2> HIDE DEF case
  <2>3. Shows(evaluation')
    BY <1>1, <2>1, <2>2 DEF Shows, EvaluationPages
  <2> QED BY <1>2, <2>3, Showing DEF E!AddCase
<1>3. ASSUME E!CancelEdit PROVE EvaluationInv'
  <2>1. Shows(evaluation')
    BY <1>1, <1>3 DEF E!CancelEdit, Shows, EvaluationPages
  <2> QED BY <1>3, <2>1, Showing DEF E!CancelEdit
<1>4. ASSUME E!CancelDelete PROVE EvaluationInv'
  <2>1. Shows(evaluation')
    BY <1>1, <1>4 DEF E!CancelDelete, Shows, EvaluationPages
  <2> QED BY <1>4, <2>1, Showing DEF E!CancelDelete
<1>5. ASSUME E!OpenImport PROVE EvaluationInv'
  <2>1. Shows(evaluation')
    BY <1>1, <1>5 DEF E!OpenImport, Shows, EvaluationPages
  <2> QED BY <1>5, <2>1, Showing DEF E!OpenImport
<1>6. ASSUME E!ImportCsv(<<>>) PROVE EvaluationInv'
  <2>1. /\ evaluation' = [evaluation EXCEPT !.importing = FALSE]
        /\ UNCHANGED <<db, store, job, check, kept, rechecked, newest, outside>>
    BY <1>6, Zenon DEF E!ImportCsv
  <2>2. Shows(evaluation')
    BY <1>1, <2>1 DEF Shows, EvaluationPages
  <2> QED BY <2>1, <2>2, Showing
<1>7. ASSUME NEW i \in 1..CASE_LIMIT, E!EditCase(i) PROVE EvaluationInv'
  <2> DEFINE case == [id |-> evaluation.cases[i].id, index |-> 0, content |-> "edited"]
  <2>1. evaluation.cases[i].id \in Nat
    <3>1. i \in DOMAIN evaluation.cases /\ evaluation.cases \in Seq(CaseRecords)
      BY <1>1, <1>7 DEF E!EditCase, EvaluationPages
    <3>2. evaluation.cases[i] \in CaseRecords
      BY <3>1
    <3> QED BY <3>2 DEF CaseRecords
  <2>2. case \in Editings /\ case.index = 0
    BY <2>1 DEF Editings, Contents
  <2>3. evaluation' = [evaluation EXCEPT !.editing = case] /\ job = None
    BY <1>7 DEF E!EditCase
  <2> HIDE DEF case
  <2>4. Shows(evaluation')
    BY <1>1, <2>2, <2>3 DEF Shows, EvaluationPages
  <2> QED BY <1>7, <2>4, Showing DEF E!EditCase
<1>8. ASSUME NEW i \in 1..CASE_LIMIT, E!AskDelete(i) PROVE EvaluationInv'
  <2>1. evaluation.cases[i].id \in Nat
    <3>1. i \in DOMAIN evaluation.cases /\ evaluation.cases \in Seq(CaseRecords)
      BY <1>1, <1>8 DEF E!AskDelete, EvaluationPages
    <3>2. evaluation.cases[i] \in CaseRecords
      BY <3>1
    <3> QED BY <3>2 DEF CaseRecords
  <2>2. Shows(evaluation')
    BY <1>1, <1>8, <2>1 DEF E!AskDelete, Shows, EvaluationPages
  <2> QED BY <1>8, <2>2, Showing DEF E!AskDelete
<1>9. ASSUME NEW index \in DOMAIN Suggestions, E!ReviewSuggestion(index) PROVE EvaluationInv'
  <2> DEFINE case == [id |-> None, index |-> index, content |-> evaluation.proposals[index]]
  <2>1. index \in DOMAIN evaluation.proposals /\ evaluation.proposals \in Seq(Contents)
    BY <1>1, <1>9 DEF E!ReviewSuggestion, EvaluationPages
  <2>2. index \in Nat /\ evaluation.proposals[index] \in Contents
    BY <2>1
  <2>3. case \in Editings /\ case.index = index /\ case.content = evaluation.proposals[index]
    BY <2>2 DEF Editings
  <2>4. evaluation' = [evaluation EXCEPT !.editing = case] /\ job = None
    BY <1>9 DEF E!ReviewSuggestion
  <2> HIDE DEF case
  <2>5. Shows(evaluation')
    BY <1>1, <2>1, <2>3, <2>4 DEF Shows, EvaluationPages
  <2> QED BY <1>9, <2>5, Showing DEF E!ReviewSuggestion
<1>10. ASSUME NEW shown \in BOOLEAN, E!Suggest(shown) PROVE EvaluationInv'
  <2>1. Shows(evaluation')
    BY <1>1, <1>10 DEF E!Suggest, Shows, EvaluationPages
  <2> QED BY <1>10, <2>1, Showing DEF E!Suggest
<1>11. ASSUME NEW view \in {"cases", "runs"}, E!SetView(view) PROVE EvaluationInv'
  <2>1. Shows(evaluation')
    BY <1>1, <1>11 DEF E!SetView, Shows, EvaluationPages
  <2> QED BY <1>11, <2>1, Showing DEF E!SetView
<1>12. ASSUME NEW i \in DOMAIN evaluation.runs, E!Select(i) PROVE EvaluationInv'
  <2>1. evaluation.runs[i].id \in Nat
    <3>1. evaluation.runs \in Seq(ShownRuns)
      BY <1>1 DEF EvaluationPages
    <3>2. evaluation.runs[i] \in ShownRuns
      BY <3>1
    <3> QED BY <3>2 DEF ShownRuns
  <2>2. Shows(evaluation')
    BY <1>1, <1>12, <2>1 DEF E!Select, Shows, EvaluationPages
  <2> QED BY <1>12, <2>2, Showing DEF E!Select
<1> QED BY <1>2, <1>3, <1>4, <1>5, <1>6, <1>7, <1>8, <1>9, <1>10, <1>11, <1>12

-----------------------------------------------------------------------------
(* Whether AI may be used, and requests that fail *)

LEMMA JobKeepsOK ==
  ASSUME EvaluationTypes, job' # None => job # None /\ UNCHANGED job, evaluation'.loaded = evaluation.loaded,
         evaluation'.editing = evaluation.editing, evaluation'.runs = evaluation.runs
  PROVE  (job' # None => RequestOK') /\ (job' # None /\ job'.state = "ok" => AnswerOK')
BY DEF EvaluationTypes, RequestOK, AnswerOK

LEMMA Checking ==
  ASSUME EvaluationInv, E!ConfigAnswer \/ E!RetryConfig \/ E!JobFailed
  PROVE  EvaluationInv'
<1>1. evaluation \in EvaluationPages /\ rechecked \in BOOLEAN
  BY DEF EvaluationInv, EvaluationTypes
<1>2. /\ evaluation' \in EvaluationPages /\ rechecked' \in BOOLEAN
      /\ evaluation'.loaded = evaluation.loaded /\ evaluation'.editing = evaluation.editing
      /\ evaluation'.runs = evaluation.runs /\ evaluation'.hasMore = evaluation.hasMore
      /\ evaluation'.cases = evaluation.cases /\ evaluation'.proposals = evaluation.proposals
      /\ UNCHANGED <<db, store, kept, newest, outside>>
  <2>1. CASE E!ConfigAnswer
    BY <1>1, <2>1 DEF E!ConfigAnswer, EvaluationPages
  <2>2. CASE E!RetryConfig
    BY <1>1, <2>2 DEF E!RetryConfig, EvaluationPages
  <2>3. CASE E!JobFailed
    BY <1>1, <2>3 DEF E!JobFailed, EvaluationPages
  <2> QED BY <2>1, <2>2, <2>3
<1>3. (job' = job) \/ (job' = None /\ job # None /\ job.state # "ok")
  BY DEF E!ConfigAnswer, E!RetryConfig, E!JobFailed, E!AfterFailure
<1>4. PaidWhenAllowed'
  <2>1. ASSUME E!ConfigAnswer PROVE PaidWhenAllowed'
    <3>1. check # None /\ check' = None /\ check.since = TRUE
      BY <2>1 DEF E!ConfigAnswer, EvaluationInv, PaidWhenAllowed
    <3>2. ~(job # None /\ job.kind \in E!Billed) /\ job' = job
      BY <2>1, <3>1 DEF E!ConfigAnswer, EvaluationInv, PaidWhenAllowed
    <3>3. \/ \E config \in {"connected", "exhausted", "none"} :
               /\ evaluation' = [evaluation EXCEPT !.config = config, !.failed = FALSE, !.rejected = FALSE]
               /\ rechecked' = TRUE
          \/ evaluation' = [evaluation EXCEPT !.config = None, !.failed = TRUE] /\ rechecked' = rechecked
      BY <1>1, <2>1, <3>1 DEF E!ConfigAnswer
    <3>4. (evaluation'.config # None => evaluation'.failed = FALSE) /\ (rechecked' = FALSE => evaluation'.rejected = TRUE)
      BY <1>1, <3>3 DEF EvaluationPages, EvaluationInv, PaidWhenAllowed
    <3> QED BY <3>1, <3>2, <3>4 DEF PaidWhenAllowed, E!Billed
  <2>2. ASSUME E!RetryConfig PROVE PaidWhenAllowed'
    <3>1. /\ check = None /\ check' = [since |-> TRUE] /\ job' = job /\ rechecked' = rechecked
          /\ evaluation.failed = TRUE \/ evaluation.config = "exhausted" \/ evaluation.rejected = TRUE
          /\ evaluation' = [evaluation EXCEPT !.config = None, !.failed = FALSE]
      BY <1>1, <2>2 DEF E!RetryConfig, EvaluationPages
    <3>2. evaluation'.config = None /\ evaluation'.rejected = evaluation.rejected
      BY <1>1, <3>1 DEF EvaluationPages
    <3>3. ~(job # None /\ job.kind \in E!Billed)
      <4>1. SUFFICES ASSUME job # None, job.kind \in E!Billed PROVE FALSE
        OBVIOUS
      <4>2. evaluation.config = "connected" /\ evaluation.rejected = FALSE
        BY <4>1 DEF EvaluationInv, PaidWhenAllowed
      <4>3. evaluation.failed = FALSE
        BY <4>2, EvaluationAssumption DEF EvaluationInv, PaidWhenAllowed
      <4> QED BY <3>1, <4>2, <4>3
    <3> QED BY <3>1, <3>2, <3>3 DEF EvaluationInv, PaidWhenAllowed, E!Billed
  <2>3. ASSUME E!JobFailed PROVE PaidWhenAllowed'
    <3>1. /\ job # None /\ job' = None
          /\ evaluation' = [evaluation EXCEPT !.rejected = @ \/ job.state = "budget"]
          /\ rechecked' = (rechecked /\ job.state # "budget")
          /\ check' = IF check # None /\ job.state = "budget" THEN [check EXCEPT !.since = FALSE] ELSE check
      BY <2>3 DEF E!JobFailed, E!AfterFailure
    <3>2. job.state = "budget" => check = None
      BY <3>1 DEF EvaluationInv, EvaluationTypes, RequestOK, PaidWhenAllowed
    <3>3. check' = check
      BY <3>1, <3>2
    <3>4. evaluation'.config = evaluation.config /\ evaluation'.failed = evaluation.failed
      BY <1>1, <3>1 DEF EvaluationPages
    <3>5. evaluation'.rejected = (evaluation.rejected \/ job.state = "budget")
      BY <1>1, <3>1 DEF EvaluationPages
    <3>6. rechecked' = FALSE => evaluation'.rejected = TRUE
      BY <1>1, <3>1, <3>5 DEF EvaluationPages, EvaluationInv, PaidWhenAllowed
    <3> QED BY <3>1, <3>3, <3>4, <3>6 DEF EvaluationInv, PaidWhenAllowed
  <2> QED BY <2>1, <2>2, <2>3
<1>5. EvaluationTypes'
  <2>1. (job' # None => RequestOK') /\ (job' # None /\ job'.state = "ok" => AnswerOK')
    BY <1>2, <1>3, JobKeepsOK DEF EvaluationInv
  <2> QED BY <1>2, <2>1 DEF EvaluationInv, EvaluationTypes
<1>6. SuggestionsHeld'
  BY <1>2, SuggestionsStay DEF EvaluationInv
<1>7. CasesStored' /\ CasesAgree'
  BY <1>2, <1>3, CasesStay DEF EvaluationInv, Waiting
<1>8. RunsStored' /\ RunsKnown' /\ RunsReach'
  BY <1>2, <1>3, RunsSame, RunsStay DEF EvaluationInv, EvaluationTypes, Waiting
<1> QED BY <1>4, <1>5, <1>6, <1>7, <1>8 DEF EvaluationInv

LEMMA Failing ==
  ASSUME EvaluationInv, E!JobFails
  PROVE  EvaluationInv'
<1>1. /\ job # None /\ job.state \in {"sent", "ok"}
      /\ UNCHANGED <<db, store, evaluation, check, kept, rechecked, newest>>
      /\ \/ E!Refused("failed") /\ outside' = (outside \/ job.kind \in CaseKinds)
         \/ job.kind \in E!Billed /\ E!Refused("budget") /\ UNCHANGED outside
  BY DEF E!JobFails, CaseKinds
<1>2. PICK state \in {"failed", "budget"} : E!Refused(state) /\ (state = "budget" => job.kind \in E!Billed)
  BY <1>1
<1>3. job \in Jobs
  BY <1>1 DEF EvaluationInv, EvaluationTypes, RequestOK
<1>4. job' \in Jobs /\ job' # None /\ job'.kind = job.kind /\ job'.arg = job.arg /\ job'.state = state
  BY <1>2, <1>3, Refusing
<1>5. EvaluationTypes'
  <2>1. RequestOK'
    BY <1>1, <1>2, <1>4 DEF EvaluationInv, EvaluationTypes, RequestOK, Reads, E!Billed
  <2>2. outside' \in BOOLEAN
    BY <1>1 DEF EvaluationInv, EvaluationTypes
  <2> QED BY <1>1, <1>2, <1>4, <2>1, <2>2 DEF EvaluationInv, EvaluationTypes
<1>6. PaidWhenAllowed'
  BY <1>1, <1>4, PaidStays DEF EvaluationInv
<1>7. SuggestionsHeld'
  BY <1>1, SuggestionsStay DEF EvaluationInv
<1>8. ~Waiting(CaseKinds)' /\ ~Waiting(RunKinds)'
  BY <1>2, <1>4 DEF Waiting
<1>9. CasesStored' /\ CasesAgree'
  <2>1. CASE outside' = TRUE
    BY <1>1, <2>1 DEF EvaluationInv, CasesStored, CasesAgree, Distinct
  <2>2. CASE outside' # TRUE
    <3>1. outside' = outside /\ job.kind \notin CaseKinds
      BY <1>1, <2>2 DEF EvaluationInv, EvaluationTypes, E!Billed, CaseKinds
    <3>2. ~Waiting(CaseKinds)
      BY <3>1 DEF Waiting
    <3> QED BY <1>1, <1>8, <3>1, <3>2, CasesStay DEF EvaluationInv
  <2> QED BY <2>1, <2>2
<1>10. RunsStored' /\ RunsKnown' /\ RunsReach'
  BY <1>1, <1>8, RunsSame, RunsStay DEF EvaluationInv, EvaluationTypes
<1> QED BY <1>5, <1>6, <1>7, <1>9, <1>10 DEF EvaluationInv

-----------------------------------------------------------------------------
(* Answers that change neither cases nor runs, and suggestions taken away *)

LEMMA LightAnswers ==
  ASSUME EvaluationInv, E!ExportAnswer \/ E!RefreshAnswer \/ E!GenerateAnswer
  PROVE  EvaluationInv'
<1>1. evaluation \in EvaluationPages /\ job # None /\ job.state = "ok" /\ job' = None
  BY DEF EvaluationInv, EvaluationTypes, E!ExportAnswer, E!RefreshAnswer, E!GenerateAnswer, E!Answered
<1>2. ~Waiting(CaseKinds) /\ ~Waiting(CaseKinds)' /\ ~Waiting(RunKinds)'
  BY <1>1 DEF Waiting, CaseKinds, E!ExportAnswer, E!RefreshAnswer, E!GenerateAnswer, E!Answered
<1>3. UNCHANGED <<db, check, rechecked, newest, outside>>
  BY DEF E!ExportAnswer, E!RefreshAnswer, E!GenerateAnswer
<1>4. /\ evaluation' \in EvaluationPages
      /\ evaluation'.loaded = evaluation.loaded /\ evaluation'.editing = evaluation.editing
      /\ evaluation'.runs = evaluation.runs /\ evaluation'.hasMore = evaluation.hasMore
      /\ evaluation'.cases = evaluation.cases /\ evaluation'.config = evaluation.config
      /\ evaluation'.failed = evaluation.failed /\ evaluation'.rejected = evaluation.rejected
      /\ SuggestionsHeld'
  <2>1. CASE E!ExportAnswer
    <3>1. UNCHANGED <<evaluation, store, kept>>
      BY <2>1 DEF E!ExportAnswer
    <3> QED BY <1>1, <3>1, SuggestionsStay DEF EvaluationInv
  <2>2. CASE E!RefreshAnswer
    <3>1. job.answer \in Nat /\ job.arg \in Nat
      BY <1>1, <2>2 DEF E!RefreshAnswer, E!Answered, EvaluationInv, EvaluationTypes, RequestOK, AnswerOK, Reads
    <3>2. PICK version \in Nat : evaluation' = [evaluation EXCEPT !.version = version]
      BY <2>2, <3>1 DEF E!RefreshAnswer
    <3>3. UNCHANGED <<store, kept>>
      BY <2>2 DEF E!RefreshAnswer
    <3>4. evaluation'.proposals = evaluation.proposals /\ evaluation'.editing = evaluation.editing
      BY <1>1, <3>2 DEF EvaluationPages
    <3>5. SuggestionsHeld'
      BY <3>3, <3>4, SuggestionsStay DEF EvaluationInv
    <3> QED BY <1>1, <3>2, <3>5 DEF EvaluationPages
  <2>3. CASE E!GenerateAnswer
    <3>1. job.answer \in Seq(Contents) /\ evaluation.editing = None
      BY <1>1, <2>3 DEF E!GenerateAnswer, E!Answered, EvaluationInv, EvaluationTypes, RequestOK, AnswerOK
    <3>2. /\ evaluation' = [evaluation EXCEPT !.proposals = job.answer, !.suggesting = FALSE]
          /\ store' = job.answer /\ kept' = E!Range(job.answer)
      BY <1>1, <2>3 DEF E!GenerateAnswer, E!SetProposals, EvaluationPages
    <3>3. /\ evaluation' \in EvaluationPages /\ evaluation'.proposals = job.answer /\ evaluation'.editing = None
          /\ evaluation'.loaded = evaluation.loaded /\ evaluation'.editing = evaluation.editing
          /\ evaluation'.runs = evaluation.runs /\ evaluation'.hasMore = evaluation.hasMore
          /\ evaluation'.cases = evaluation.cases /\ evaluation'.config = evaluation.config
          /\ evaluation'.failed = evaluation.failed /\ evaluation'.rejected = evaluation.rejected
      BY <1>1, <3>1, <3>2 DEF EvaluationPages
    <3>4. kept' = RowsOf(evaluation'.proposals)
      BY <3>2, <3>3 DEF E!Range, RowsOf
    <3>5. SuggestionsHeld'
      BY <3>2, <3>3, <3>4 DEF SuggestionsHeld
    <3> QED BY <3>3, <3>5
  <2> QED BY <2>1, <2>2, <2>3
<1>5. EvaluationTypes'
  BY <1>1, <1>3, <1>4 DEF EvaluationInv, EvaluationTypes
<1>6. PaidWhenAllowed'
  BY <1>1, <1>3, <1>4, PaidStays DEF EvaluationInv
<1>7. CasesStored' /\ CasesAgree'
  BY <1>2, <1>3, <1>4, CasesStay DEF EvaluationInv
<1>8. RunsStored' /\ RunsKnown' /\ RunsReach'
  BY <1>2, <1>3, <1>4, RunsSame, RunsStay DEF EvaluationInv, EvaluationTypes
<1> QED BY <1>4, <1>5, <1>6, <1>7, <1>8 DEF EvaluationInv

LEMMA Discarding ==
  ASSUME EvaluationInv, E!Discard
  PROVE  EvaluationInv'
<1>1. /\ evaluation \in EvaluationPages /\ job = None /\ job' = None /\ evaluation.editing = None
      /\ evaluation' = [evaluation EXCEPT !.proposals = <<>>] /\ store' = <<>> /\ kept' = {}
      /\ UNCHANGED <<db, check, rechecked, newest, outside>>
  BY DEF EvaluationInv, EvaluationTypes, E!Discard, E!Free, E!Idle, E!SetProposals
<1>2. <<>> \in Seq(Contents)
  OBVIOUS
<1>3. /\ evaluation' \in EvaluationPages /\ evaluation'.proposals = <<>>
      /\ evaluation'.loaded = evaluation.loaded /\ evaluation'.editing = None
      /\ evaluation'.runs = evaluation.runs /\ evaluation'.hasMore = evaluation.hasMore
      /\ evaluation'.cases = evaluation.cases /\ evaluation'.config = evaluation.config
      /\ evaluation'.failed = evaluation.failed /\ evaluation'.rejected = evaluation.rejected
  BY <1>1, <1>2 DEF EvaluationPages
<1>4. EvaluationTypes'
  BY <1>1, <1>3 DEF EvaluationInv, EvaluationTypes
<1>5. PaidWhenAllowed'
  BY <1>1, <1>3, PaidStays DEF EvaluationInv
<1>6. SuggestionsHeld'
  BY <1>1, <1>3 DEF SuggestionsHeld
<1>7. ~Waiting(CaseKinds) /\ ~Waiting(CaseKinds)' /\ ~Waiting(RunKinds)'
  BY <1>1 DEF Waiting
<1>8. CasesStored' /\ CasesAgree'
  BY <1>1, <1>3, <1>7, CasesStay DEF EvaluationInv
<1>9. RunsStored' /\ RunsKnown' /\ RunsReach'
  BY <1>1, <1>3, <1>7, RunsSame, RunsStay DEF EvaluationInv, EvaluationTypes
<1> QED BY <1>4, <1>5, <1>6, <1>8, <1>9 DEF EvaluationInv

-----------------------------------------------------------------------------
(* Opening the page *)

(* An opened page shows nothing stored yet. *)
OpenedPage ==
  /\ db \in EvaluationStored /\ CasesStored /\ RunsStored
  /\ store \in Seq(Contents) /\ kept \subseteq RowsOf(store) /\ newest \in Nat
  /\ evaluation = E!Opened(store) /\ job = None /\ check = [since |-> TRUE] /\ rechecked = TRUE /\ outside = FALSE

LEMMA OpenedHolds == OpenedPage => EvaluationInv
<1> SUFFICES ASSUME OpenedPage PROVE EvaluationInv
  OBVIOUS
<1> USE DEF OpenedPage
<1>1. evaluation = [loaded |-> FALSE, version |-> 1, cases |-> <<>>, runs |-> <<>>, hasMore |-> FALSE, proposals |-> store,
        editing |-> None, deleting |-> None, suggesting |-> FALSE, importing |-> FALSE, view |-> "cases", selected |-> 0,
        config |-> None, failed |-> FALSE, rejected |-> FALSE]
  BY DEF E!Opened, E!Restored
<1>2. <<>> \in Seq(CaseRecords) /\ <<>> \in Seq(ShownRuns)
  OBVIOUS
<1>3. evaluation \in EvaluationPages
  BY <1>1, <1>2 DEF EvaluationPages
<1>4. EvaluationTypes
  BY <1>3 DEF EvaluationTypes
<1>5. PaidWhenAllowed
  BY <1>1 DEF PaidWhenAllowed
<1>6. SuggestionsHeld
  BY <1>1 DEF SuggestionsHeld
<1>7. evaluation.cases = <<>> /\ evaluation.runs = <<>> /\ evaluation.loaded = FALSE
  BY <1>1
<1>8. CasesAgree
  BY <1>7, EvaluationAssumption DEF CasesAgree
<1>9. RunsKnown /\ RunsReach
  BY <1>7 DEF RunsKnown, RunsReach, Pending, Distinct
<1> QED BY <1>4, <1>5, <1>6, <1>8, <1>9 DEF EvaluationInv

LEMMA EvaluationInit == ASSUME E!Init PROVE EvaluationInv
<1> DEFINE first == <<CHOOSE text \in PromptTexts : TRUE>>
           list == <<[id |-> 1, position |-> 0, content |-> "typed"]>>
           runs == [i \in 1..FirstRuns |-> [id |-> FirstRuns + 1 - i, tested |-> 1, version |-> 1, stars |-> 0]]
<1>1. db = [texts |-> first, cases |-> [list |-> list, next |-> 2], runs |-> runs]
  BY DEF E!Init
<1>2. first \in Seq(PromptTexts)
  <2>1. (CHOOSE text \in PromptTexts : TRUE) \in PromptTexts
    BY EvaluationAssumption
  <2> QED BY <2>1
<1>3. list \in Seq(CaseRecords) /\ Len(list) = 1 /\ list[1].id = 1
  <2>1. [id |-> 1, position |-> 0, content |-> "typed"] \in CaseRecords
    BY DEF CaseRecords, Contents
  <2> QED BY <2>1
<1>4. runs \in Seq(StoredRuns) /\ Len(runs) = FirstRuns /\ \A i \in DOMAIN runs : runs[i].id = FirstRuns + 1 - i
  <2>1. \A i \in 1..FirstRuns : [id |-> FirstRuns + 1 - i, tested |-> 1, version |-> 1, stars |-> 0] \in StoredRuns
    BY EvaluationAssumption DEF StoredRuns
  <2>2. runs \in [1..FirstRuns -> StoredRuns]
    BY <2>1
  <2>3. \A i \in 1..FirstRuns : runs[i].id = FirstRuns + 1 - i
    OBVIOUS
  <2>4. FirstRuns \in Nat
    BY EvaluationAssumption
  <2> HIDE DEF runs
  <2>5. runs \in Seq(StoredRuns) /\ Len(runs) = FirstRuns /\ DOMAIN runs = 1..FirstRuns
    BY <2>2, <2>4
  <2> QED BY <2>3, <2>5
<1> HIDE DEF first, list, runs
<1>5. db \in EvaluationStored
  BY <1>1, <1>2, <1>3, <1>4 DEF EvaluationStored
<1>6. CasesStored
  <2>1. DOMAIN list = 1..1
    BY <1>3
  <2>2. db.cases.list = list /\ db.cases.next = 2
    BY <1>1
  <2>3. CASE_LIMIT \in Nat \ {0}
    BY EvaluationAssumption
  <2>4. 1 <= CASE_LIMIT
    BY <2>3
  <2>5. \A i \in DOMAIN list : i = 1
    BY <2>1
  <2>6. Distinct(list)
    BY <2>5 DEF Distinct
  <2>7. Len(list) <= CASE_LIMIT
    BY <1>3, <2>4
  <2>8. \A i \in DOMAIN list : list[i].id < 2
    <3>1. 1 < 2
      OBVIOUS
    <3> QED BY <1>3, <2>5, <3>1, Zenon
  <2> QED BY <2>2, <2>6, <2>7, <2>8, Zenon DEF CasesStored
<1>7. RunsStored
  BY <1>1, <1>4, EvaluationAssumption DEF RunsStored, E!Init
<1>8. store \in Seq(Contents) /\ kept = RowsOf(store)
  <2>1. store \in {<<>>, Suggestions} /\ kept = E!Range(store)
    BY DEF E!Init
  <2>2. Suggestions \in Seq(Contents) /\ <<>> \in Seq(Contents)
    BY EvaluationAssumption
  <2>3. E!Range(store) = RowsOf(store)
    BY DEF E!Range, RowsOf
  <2> QED BY <2>1, <2>2, <2>3
<1> QED BY <1>5, <1>6, <1>7, <1>8, OpenedHolds DEF E!Init, OpenedPage

LEMMA Reloading ==
  ASSUME EvaluationInv, E!Reload
  PROVE  EvaluationInv'
<1>1. /\ evaluation' = E!Opened(store) /\ store' = store /\ job' = None /\ check' = [since |-> TRUE]
      /\ rechecked' = TRUE /\ outside' = FALSE /\ UNCHANGED <<db, kept, newest>>
  BY DEF E!Reload, E!Restored
<1>2. store \in Seq(Contents) /\ kept \subseteq RowsOf(store)
  BY DEF EvaluationInv, EvaluationTypes, SuggestionsHeld, EvaluationPages
<1>3. db' \in EvaluationStored /\ newest' \in Nat /\ kept' \subseteq RowsOf(store') /\ store' \in Seq(Contents)
  BY <1>1, <1>2 DEF EvaluationInv, EvaluationTypes
<1>4. CasesStored' /\ RunsStored'
  BY <1>1 DEF EvaluationInv, CasesStored, RunsStored, Distinct
<1>5. evaluation' = E!Opened(store)'
  BY <1>1 DEF E!Opened, E!Restored
<1>6. OpenedPage'
  BY <1>1, <1>3, <1>4, <1>5 DEF OpenedPage
<1> QED BY <1>6, OpenedHolds, PTL

-----------------------------------------------------------------------------
(* Reading the runs *)

LEMMA DescribedShown ==
  ASSUME NEW run \in StoredRuns, NEW d
  PROVE  /\ E!Described(run, d) \in ShownRuns
         /\ E!Described(run, d).id = run.id /\ E!Described(run, d).stars = run.stars
         /\ E!Described(run, d).version = run.version
<1> DEFINE same == d.texts[run.tested] = d.texts[Len(d.texts)]
<1>1. E!Described(run, d) = [id |-> run.id, version |-> run.version, stars |-> run.stars, matches |-> same]
  BY DEF E!Described
<1>2. same \in BOOLEAN
  OBVIOUS
<1>3. run.id \in Nat /\ run.version \in Nat /\ run.stars \in Nat
  BY DEF StoredRuns
<1> HIDE DEF same
<1> QED BY <1>1, <1>2, <1>3 DEF ShownRuns

(* One page of the history is the runs that come after the first offset ones. *)
LEMMA RunsRead ==
  ASSUME db \in EvaluationStored, RunsStored, NEW offset \in Nat
  PROVE  /\ E!RunsFrom(offset) \in Seq(ShownRuns)
         /\ Distinct(E!RunsFrom(offset))
         /\ \A i \in DOMAIN E!RunsFrom(offset) : Known(E!RunsFrom(offset)[i])
         /\ \A id \in Ids(E!RunsFrom(offset)) : Len(db.runs) - offset - HISTORY_PAGE_SIZE < id
         /\ \A id \in 1..(Len(db.runs) - offset) :
              id \in Ids(E!RunsFrom(offset))
              \/ (Len(E!RunsFrom(offset)) = HISTORY_PAGE_SIZE /\ id <= Len(db.runs) - offset - HISTORY_PAGE_SIZE)
<1> DEFINE N == Len(db.runs)
           left == N - offset
           last == IF left < HISTORY_PAGE_SIZE THEN left ELSE HISTORY_PAGE_SIZE
           size == IF last < 0 THEN 0 ELSE last
           list == E!RunsFrom(offset)
<1>1. db.runs \in Seq(StoredRuns) /\ N \in Nat /\ HISTORY_PAGE_SIZE \in Nat \ {0}
  BY EvaluationAssumption DEF EvaluationStored
<1>2. list = [i \in 1..last |-> E!Described(db.runs[offset + i], db)]
  BY DEF E!RunsFrom
<1> HIDE DEF list
<1>3. size \in Nat /\ 1..last = 1..size /\ (size = HISTORY_PAGE_SIZE \/ size = left \/ (left < 0 /\ size = 0))
      /\ size <= HISTORY_PAGE_SIZE /\ (size = 0 \/ size <= left) /\ (size # HISTORY_PAGE_SIZE => left <= size)
  BY <1>1
<1> HIDE DEF last, size
<1>4. \A i \in 1..size : offset + i \in 1..N /\ db.runs[offset + i] \in StoredRuns /\ db.runs[offset + i].id = N + 1 - (offset + i)
  <2> TAKE i \in 1..size
  <2>1. offset + i \in 1..N
    BY <1>1, <1>3
  <2> QED BY <1>1, <2>1 DEF RunsStored
<1>5. \A i \in 1..size : list[i] \in ShownRuns /\ list[i].id = left + 1 - i /\ list[i].stars = db.runs[offset + i].stars
  <2> TAKE i \in 1..size
  <2>1. list[i] = E!Described(db.runs[offset + i], db)
    BY <1>2, <1>3
  <2>2. N + 1 - (offset + i) = left + 1 - i
    BY <1>1
  <2> QED BY <1>4, <2>1, <2>2, DescribedShown
<1>6. list \in Seq(ShownRuns) /\ Len(list) = size /\ DOMAIN list = 1..size
  <2>1. list \in [1..size -> ShownRuns]
    BY <1>2, <1>3, <1>5
  <2> QED BY <1>3, <2>1
<1>7. Distinct(list)
  BY <1>1, <1>5, <1>6 DEF Distinct
<1>8. \A i \in DOMAIN list : Known(list[i])
  <2> TAKE i \in DOMAIN list
  <2>1. i \in 1..size /\ list[i].id \in 1..N /\ N + 1 - list[i].id = offset + i
    BY <1>1, <1>3, <1>5, <1>6
  <2> QED BY <1>5, <2>1 DEF Known
<1>9. \A id \in Ids(list) : left - HISTORY_PAGE_SIZE < id
  BY <1>1, <1>3, <1>5, <1>6 DEF Ids
<1>10. ASSUME NEW id \in 1..left
       PROVE  id \in Ids(list) \/ (Len(list) = HISTORY_PAGE_SIZE /\ id <= left - HISTORY_PAGE_SIZE)
  <2>1. CASE left + 1 - id \in 1..size
    <3>1. list[left + 1 - id].id = id
      BY <1>1, <1>5, <2>1
    <3> QED BY <1>6, <2>1, <3>1 DEF Ids
  <2>2. CASE left + 1 - id \notin 1..size
    <3>1. left + 1 - id > size
      BY <1>1, <1>3, <2>2
    <3> QED BY <1>1, <1>3, <1>6, <3>1
  <2> QED BY <2>1, <2>2
<1> QED BY <1>6, <1>7, <1>8, <1>9, <1>10 DEF list

LEMMA Loading ==
  ASSUME EvaluationInv, E!Load
  PROVE  EvaluationInv'
<1> DEFINE cases == E!Listed(db.cases.list)
           runs == E!RunsFrom(0)
           more == (Len(runs) = HISTORY_PAGE_SIZE)
<1>1. evaluation \in EvaluationPages /\ db \in EvaluationStored /\ evaluation.loaded = FALSE /\ job = None
  BY DEF EvaluationInv, EvaluationTypes, RequestOK, EvaluationPages, E!Load
<1>2. /\ evaluation' = [evaluation EXCEPT !.loaded = TRUE, !.version = E!Live, !.cases = cases, !.runs = runs,
                                          !.hasMore = more]
      /\ newest' = Len(db.runs) /\ UNCHANGED <<db, store, job, check, kept, rechecked, outside>>
  BY DEF E!Load
<1>3. db.cases.list \in Seq(CaseRecords) /\ Len(db.runs) \in Nat /\ E!Live \in Nat
  BY <1>1 DEF EvaluationStored, E!Live
<1>4. /\ cases \in Seq(CaseRecords) /\ Len(cases) = Len(db.cases.list)
      /\ RowsOf(cases) = RowsOf(db.cases.list) /\ Distinct(cases)
  BY <1>3, ListedKeeps DEF EvaluationInv, CasesStored
<1>5. /\ runs \in Seq(ShownRuns) /\ Distinct(runs) /\ \A i \in DOMAIN runs : Known(runs[i])
      /\ \A id \in Ids(runs) : Len(db.runs) - 0 - HISTORY_PAGE_SIZE < id
      /\ \A id \in 1..(Len(db.runs) - 0) :
           id \in Ids(runs) \/ (Len(runs) = HISTORY_PAGE_SIZE /\ id <= Len(db.runs) - 0 - HISTORY_PAGE_SIZE)
  <2>1. 0 \in Nat
    OBVIOUS
  <2> HIDE DEF runs
  <2>2. runs = E!RunsFrom(0)
    BY DEF runs
  <2> QED BY <1>1, <2>1, <2>2, RunsRead DEF EvaluationInv
<1> HIDE DEF cases, runs
<1>6. more \in BOOLEAN
  OBVIOUS
<1>7. /\ evaluation' \in EvaluationPages /\ evaluation'.proposals = evaluation.proposals
      /\ evaluation'.editing = evaluation.editing /\ evaluation'.config = evaluation.config
      /\ evaluation'.failed = evaluation.failed /\ evaluation'.rejected = evaluation.rejected
      /\ evaluation'.cases = cases /\ evaluation'.runs = runs /\ evaluation'.hasMore = more
  BY <1>1, <1>2, <1>3, <1>4, <1>5, <1>6 DEF EvaluationPages
<1>8. EvaluationTypes'
  BY <1>1, <1>2, <1>3, <1>7 DEF EvaluationInv, EvaluationTypes
<1>9. PaidWhenAllowed' /\ SuggestionsHeld'
  BY <1>1, <1>2, <1>7, PaidStays, SuggestionsStay DEF EvaluationInv
<1>10. job' = None
  BY <1>1, <1>2
<1>11. CasesStored' /\ CasesAgree'
  <2>1. CasesStored'
    BY <1>2 DEF EvaluationInv, CasesStored, Distinct
  <2>2. CasesToCome' = cases
    BY <1>7, <1>10 DEF CasesToCome, Pending
  <2>3. Len(cases) <= CASE_LIMIT
    BY <1>4 DEF EvaluationInv, CasesStored
  <2>4. Distinct(CasesToCome)' /\ RowsOf(CasesToCome)' = RowsOf(db.cases.list)'
    BY <1>2, <1>4, <2>2 DEF Distinct, RowsOf
  <2> QED BY <1>7, <2>1, <2>3, <2>4 DEF CasesAgree
<1>12. RunsStored' /\ RunsKnown'
  <2>1. \A run : Known(run)' = Known(run)
    BY <1>2 DEF Known
  <2>2. RunsStored'
    BY <1>2, <1>3 DEF EvaluationInv, RunsStored
  <2>3. RunsKnown'
    BY <1>5, <1>7, <1>10, <2>1 DEF RunsKnown, Distinct, Pending
  <2> QED BY <2>2, <2>3
<1>13. RunsReach'
  <2>1. \A old \in 1..Len(db.runs) :
          old \in Ids(runs) \/ (Len(runs) = HISTORY_PAGE_SIZE /\ \A id \in Ids(runs) : old < id)
    <3>1. SUFFICES ASSUME NEW old \in 1..Len(db.runs), old \notin Ids(runs)
                   PROVE  Len(runs) = HISTORY_PAGE_SIZE /\ \A id \in Ids(runs) : old < id
      OBVIOUS
    <3>2. Len(runs) = HISTORY_PAGE_SIZE /\ old <= Len(db.runs) - HISTORY_PAGE_SIZE
      BY <1>3, <1>5, <3>1
    <3>3. Ids(runs) \subseteq Nat
      <4>1. \A i \in DOMAIN runs : runs[i].id \in Nat
        <5>1. \A i \in DOMAIN runs : runs[i] \in ShownRuns
          BY <1>5
        <5> QED BY <5>1 DEF ShownRuns
      <4> QED BY <4>1 DEF Ids
    <3> QED BY <1>3, <1>5, <3>2, <3>3, EvaluationAssumption
  <2>2. Ids(evaluation.runs)' = Ids(runs) /\ newest' = Len(db.runs) /\ (evaluation.hasMore = TRUE)' = more
    BY <1>2, <1>7 DEF Ids
  <2>3. more = (Len(runs) = HISTORY_PAGE_SIZE)
    OBVIOUS
  <2> HIDE DEF more
  <2> QED BY <1>10, <2>1, <2>2, <2>3 DEF RunsReach, Reaches, Pending
<1> QED BY <1>8, <1>9, <1>11, <1>12, <1>13 DEF EvaluationInv

-----------------------------------------------------------------------------
(* Lists of cases *)

LEMMA Joined ==
  ASSUME NEW X, NEW a \in Seq(X), NEW b \in Seq(X)
  PROVE  /\ a \o b \in Seq(X) /\ Len(a \o b) = Len(a) + Len(b)
         /\ RowsOf(a \o b) = RowsOf(a) \cup RowsOf(b)
         /\ Distinct(a) /\ Distinct(b) /\ Ids(a) \cap Ids(b) = {} => Distinct(a \o b)
<1> DEFINE w == a \o b
           m == Len(a)
           n == Len(b)
<1>1. /\ w \in Seq(X) /\ Len(w) = m + n /\ m \in Nat /\ n \in Nat
      /\ DOMAIN w = 1..(m + n) /\ DOMAIN a = 1..m /\ DOMAIN b = 1..n
  OBVIOUS
<1>2. \A i \in 1..m : i \in 1..(m + n)
  BY <1>1
<1>3. \A i \in 1..n : m + i \in 1..(m + n)
  BY <1>1
<1>4. \A i \in 1..(m + n) : i \in 1..m \/ \E j \in 1..n : i = m + j
  <2> TAKE i \in 1..(m + n)
  <2>1. i \in 1..m \/ i - m \in 1..n
    BY <1>1
  <2>2. i = m + (i - m)
    BY <1>1
  <2> QED BY <2>1, <2>2
<1>5. (\A i \in 1..m : w[i] = a[i]) /\ \A i \in 1..n : w[m + i] = b[i]
  OBVIOUS
<1> HIDE DEF w, m, n
<1>6. RowsOf(w) = RowsOf(a) \cup RowsOf(b)
  <2>1. RowsOf(w) \subseteq RowsOf(a) \cup RowsOf(b)
    <3>1. SUFFICES ASSUME NEW i \in 1..(m + n) PROVE w[i] \in RowsOf(a) \cup RowsOf(b)
      BY <1>1 DEF RowsOf
    <3>2. i \in 1..m => w[i] \in RowsOf(a)
      BY <1>1, <1>5 DEF RowsOf
    <3>3. \A j \in 1..n : i = m + j => w[i] \in RowsOf(b)
      BY <1>1, <1>5 DEF RowsOf
    <3> QED BY <1>4, <3>2, <3>3
  <2>2. RowsOf(a) \subseteq RowsOf(w)
    BY <1>1, <1>2, <1>5 DEF RowsOf
  <2>3. RowsOf(b) \subseteq RowsOf(w)
    BY <1>1, <1>3, <1>5 DEF RowsOf
  <2> QED BY <2>1, <2>2, <2>3
<1>7. ASSUME Distinct(a), Distinct(b), Ids(a) \cap Ids(b) = {} PROVE Distinct(w)
  <2>1. SUFFICES ASSUME NEW i \in 1..(m + n), NEW j \in 1..(m + n), w[i].id = w[j].id PROVE i = j
    BY <1>1 DEF Distinct
  <2>2. CASE i \in 1..m /\ j \in 1..m
    BY <1>1, <1>5, <1>7, <2>1, <2>2 DEF Distinct
  <2>3. CASE (\E k \in 1..n : i = m + k) /\ (\E k \in 1..n : j = m + k)
    <3>1. PICK k \in 1..n : i = m + k
      BY <2>3
    <3>2. PICK l \in 1..n : j = m + l
      BY <2>3
    <3>3. b[k].id = b[l].id
      BY <1>5, <2>1, <3>1, <3>2
    <3>4. k = l
      BY <1>1, <1>7, <3>3 DEF Distinct
    <3> QED BY <3>1, <3>2, <3>4
  <2>4. CASE i \in 1..m /\ \E k \in 1..n : j = m + k
    <3>1. w[i].id \in Ids(a) /\ w[j].id \in Ids(b)
      BY <1>1, <1>5, <2>4 DEF Ids
    <3> QED BY <1>7, <2>1, <3>1
  <2>5. CASE (\E k \in 1..n : i = m + k) /\ j \in 1..m
    <3>1. w[i].id \in Ids(b) /\ w[j].id \in Ids(a)
      BY <1>1, <1>5, <2>5 DEF Ids
    <3> QED BY <1>7, <2>1, <3>1
  <2> QED BY <1>4, <2>2, <2>3, <2>4, <2>5
<1> QED BY <1>1, <1>6, <1>7 DEF w, m, n

LEMMA RemovedAt ==
  ASSUME NEW X, NEW list \in Seq(X), NEW k \in DOMAIN list
  PROVE  /\ E!RemoveAt(list, k) \in Seq(X) /\ Len(E!RemoveAt(list, k)) = Len(list) - 1
         /\ \A i \in 1..(Len(list) - 1) : E!RemoveAt(list, k)[i] = list[IF i < k THEN i ELSE i + 1]
<1> DEFINE n == Len(list)
           a == SubSeq(list, 1, k - 1)
           b == SubSeq(list, k + 1, n)
<1>1. n \in Nat /\ k \in 1..n
  OBVIOUS
<1>2. a \in Seq(X) /\ Len(a) = k - 1 /\ \A i \in 1..(k - 1) : a[i] = list[i]
  BY <1>1
<1>3. b \in Seq(X) /\ Len(b) = n - k /\ \A i \in 1..(n - k) : b[i] = list[k + i]
  BY <1>1
<1>4. E!RemoveAt(list, k) = a \o b
  BY DEF E!RemoveAt
<1> HIDE DEF a, b, n
<1>5. a \o b \in Seq(X) /\ Len(a \o b) = n - 1
  <2>1. Len(a \o b) = Len(a) + Len(b) /\ a \o b \in Seq(X)
    <3>1. a \in Seq(X) /\ b \in Seq(X)
      BY <1>2, <1>3
    <3> QED BY <3>1
  <2>2. (k - 1) + (n - k) = n - 1
    BY <1>1
  <2> QED BY <1>2, <1>3, <2>1, <2>2
<1>6. ASSUME NEW i \in 1..(n - 1) PROVE (a \o b)[i] = list[IF i < k THEN i ELSE i + 1]
  <2>1. CASE i < k
    BY <1>1, <1>2, <1>3, <2>1
  <2>2. CASE ~(i < k)
    <3>1. i - (k - 1) \in 1..(n - k) /\ k + (i - (k - 1)) = i + 1
      BY <1>1, <2>2
    <3>2. (a \o b)[i] = b[i - (k - 1)]
      <4>1. PICK j \in 1..(n - k) : j = i - (k - 1)
        BY <3>1
      <4>2. a \in Seq(X) /\ b \in Seq(X) /\ j \in 1..Len(b)
        BY <1>2, <1>3
      <4>3. (a \o b)[Len(a) + j] = b[j]
        BY <4>2
      <4>4. Len(a) + j = i
        BY <1>1, <1>2, <4>1
      <4> QED BY <4>1, <4>3, <4>4
    <3> QED BY <1>3, <2>2, <3>1, <3>2
  <2> QED BY <2>1, <2>2
<1> QED BY <1>4, <1>5, <1>6 DEF n

LEMMA RemovedRows ==
  ASSUME NEW X, NEW list \in Seq(X), NEW k \in DOMAIN list
  PROVE  /\ RowsOf(E!RemoveAt(list, k)) = {list[i] : i \in DOMAIN list \ {k}}
         /\ Distinct(list) => Distinct(E!RemoveAt(list, k))
<1> DEFINE n == Len(list)
           w == E!RemoveAt(list, k)
<1>1. n \in Nat /\ k \in 1..n /\ DOMAIN list = 1..n
  OBVIOUS
<1>2. DOMAIN w = 1..(n - 1) /\ \A i \in 1..(n - 1) : w[i] = list[IF i < k THEN i ELSE i + 1]
  BY RemovedAt
<1> HIDE DEF w, n
<1> DEFINE at(i) == IF i < k THEN i ELSE i + 1
           back(j) == IF j < k THEN j ELSE j - 1
<1>3. \A i \in 1..(n - 1) : at(i) \in (1..n) \ {k}
  BY <1>1
<1>4. \A j \in (1..n) \ {k} : back(j) \in 1..(n - 1) /\ at(back(j)) = j
  BY <1>1
<1>5. \A i, j \in 1..(n - 1) : at(i) = at(j) => i = j
  BY <1>1
<1>6. \A i \in 1..(n - 1) : w[i] = list[at(i)]
  BY <1>2
<1> HIDE DEF at, back
<1>7. RowsOf(w) = {list[i] : i \in (1..n) \ {k}}
  <2>1. \A i \in 1..(n - 1) : w[i] \in {list[j] : j \in (1..n) \ {k}}
    BY <1>3, <1>6
  <2>2. \A j \in (1..n) \ {k} : list[j] \in {w[i] : i \in 1..(n - 1)}
    <3> TAKE j \in (1..n) \ {k}
    <3>1. back(j) \in 1..(n - 1) /\ w[back(j)] = list[j]
      BY <1>4, <1>6
    <3> QED BY <3>1
  <2> QED BY <1>2, <2>1, <2>2 DEF RowsOf
<1>8. ASSUME Distinct(list) PROVE Distinct(w)
  <2>1. SUFFICES ASSUME NEW i \in 1..(n - 1), NEW j \in 1..(n - 1), w[i].id = w[j].id PROVE i = j
    BY <1>2 DEF Distinct
  <2>2. list[at(i)].id = list[at(j)].id /\ at(i) \in 1..n /\ at(j) \in 1..n
    BY <1>3, <1>6, <2>1
  <2>3. at(i) = at(j)
    BY <1>1, <1>8, <2>2 DEF Distinct
  <2> QED BY <1>5, <2>3
<1> QED BY <1>1, <1>7, <1>8 DEF w

(* One case replaced, in the list stored and in the list shown. *)
Overwritten(list, i, new) == [list EXCEPT ![i] = new]

Renewed(shown, new) == [j \in DOMAIN shown |-> IF shown[j].id = new.id THEN new ELSE shown[j]]

LEMMA Replaced ==
  ASSUME NEW list \in Seq(CaseRecords), NEW i \in DOMAIN list, Distinct(list),
         NEW new \in CaseRecords, new.id = list[i].id
  PROVE  LET w == Overwritten(list, i, new)
         IN /\ w \in Seq(CaseRecords) /\ Distinct(w) /\ Len(w) = Len(list) /\ DOMAIN w = DOMAIN list
            /\ \A j \in DOMAIN list : w[j].id = list[j].id /\ w[j] = IF j = i THEN new ELSE list[j]
<1> DEFINE w == Overwritten(list, i, new)
<1> USE DEF Overwritten
<1>1. w \in Seq(CaseRecords) /\ Len(w) = Len(list) /\ DOMAIN w = DOMAIN list
  OBVIOUS
<1>2. \A j \in DOMAIN list : w[j] = IF j = i THEN new ELSE list[j]
  OBVIOUS
<1> HIDE DEF w
<1>3. \A j \in DOMAIN list : w[j].id = list[j].id
  BY <1>2
<1>4. Distinct(w)
  BY <1>1, <1>3 DEF Distinct
<1> QED BY <1>1, <1>2, <1>3, <1>4 DEF w

LEMMA ReplacedShown ==
  ASSUME NEW shown \in Seq(CaseRecords), NEW list \in Seq(CaseRecords), NEW i \in DOMAIN list, Distinct(list),
         NEW new \in CaseRecords, new.id = list[i].id,
         Distinct(shown), RowsOf(shown) = RowsOf(list)
  PROVE  Distinct(Renewed(shown, new)) /\ RowsOf(Renewed(shown, new)) = RowsOf(Overwritten(list, i, new))
<1> DEFINE w == Overwritten(list, i, new)
           r == Renewed(shown, new)
<1>1. DOMAIN w = DOMAIN list /\ \A j \in DOMAIN list : w[j] = IF j = i THEN new ELSE list[j]
  BY DEF Overwritten
<1>2. DOMAIN r = DOMAIN shown /\ \A j \in DOMAIN shown : r[j] = IF shown[j].id = new.id THEN new ELSE shown[j]
  BY DEF Renewed
<1> HIDE DEF w, r
<1>3. Distinct(r)
  <2>1. \A j \in DOMAIN shown : r[j].id = shown[j].id
    BY <1>2
  <2> QED BY <1>2, <2>1 DEF Distinct
<1>4. ASSUME NEW j \in DOMAIN shown PROVE \E k \in DOMAIN list : r[j] = w[k]
  <2>1. PICK k \in DOMAIN list : shown[j] = list[k]
    BY DEF RowsOf
  <2>2. shown[j].id = new.id <=> k = i
    BY <2>1 DEF Distinct
  <2> QED BY <1>1, <1>2, <2>1, <2>2
<1>5. ASSUME NEW k \in DOMAIN list PROVE \E j \in DOMAIN shown : r[j] = w[k]
  <2>1. PICK j \in DOMAIN shown : shown[j] = list[k]
    BY DEF RowsOf
  <2>2. shown[j].id = new.id <=> k = i
    BY <2>1 DEF Distinct
  <2> QED BY <1>1, <1>2, <2>1, <2>2
<1>6. RowsOf(r) = RowsOf(w)
  BY <1>1, <1>2, <1>4, <1>5 DEF RowsOf
<1> QED BY <1>3, <1>6 DEF w, r

-----------------------------------------------------------------------------
(* The server changes the cases *)

(* What a request under way leaves alone, whatever the server does. *)
Apart == UNCHANGED <<store, evaluation, check, kept, rechecked, newest, outside>>

LEMMA ServedHolds ==
  ASSUME EvaluationInv, job # None, Apart, db' \in EvaluationStored,
         job' \in Jobs, job' # None, job'.kind = job.kind, job'.arg = job.arg, job'.state \in {"ok", "failed"},
         job'.state = "ok" => AnswerOK', CasesStored', CasesAgree', RunsStored', RunsKnown', RunsReach'
  PROVE  EvaluationInv'
<1> USE DEF Apart
<1>1. RequestOK'
  BY DEF EvaluationInv, EvaluationTypes, RequestOK, Reads, E!Billed
<1>2. EvaluationTypes'
  BY <1>1 DEF EvaluationInv, EvaluationTypes
<1>3. PaidWhenAllowed'
  BY PaidStays DEF EvaluationInv
<1>4. SuggestionsHeld'
  BY SuggestionsStay DEF EvaluationInv
<1> QED BY <1>2, <1>3, <1>4 DEF EvaluationInv

LEMMA NotServedHolds ==
  ASSUME EvaluationInv, job # None, job.state = "sent", Apart, E!NotServed
  PROVE  EvaluationInv'
<1>1. job \in Jobs /\ db' = db /\ E!Refused("failed")
  BY DEF E!NotServed, EvaluationInv, EvaluationTypes, RequestOK
<1>2. job' \in Jobs /\ job' # None /\ job'.kind = job.kind /\ job'.arg = job.arg /\ job'.state = "failed"
  BY <1>1, Refusing
<1>3. ~Waiting(CaseKinds) /\ ~Waiting(CaseKinds)' /\ ~Waiting(RunKinds)'
  BY <1>2 DEF Waiting
<1>4. CasesStored' /\ CasesAgree'
  BY <1>1, <1>3, CasesStay DEF EvaluationInv, Apart
<1>5. RunsStored' /\ RunsKnown' /\ RunsReach'
  BY <1>1, <1>3, RunsSame, RunsStay DEF EvaluationInv, EvaluationTypes, Apart
<1>6. db' \in EvaluationStored
  BY <1>1 DEF EvaluationInv, EvaluationTypes
<1> QED BY <1>2, <1>4, <1>5, <1>6, ServedHolds

(* A request about cases was served: the runs are as before. *)
LEMMA CaseServed ==
  ASSUME EvaluationInv, job # None, job.state = "sent", job.kind \in CaseKinds, Apart,
         NEW answer \in EvaluationAnswers, E!Served(answer),
         NEW list \in Seq(CaseRecords), NEW next \in Nat, db' = [db EXCEPT !.cases = [list |-> list, next |-> next]],
         Distinct(list), Len(list) <= CASE_LIMIT, \A i \in DOMAIN list : list[i].id < next,
         job.kind = "save" => answer \in Seq(CaseRecords) /\ Len(answer) = 1 /\ answer[1].content = job.arg.content,
         job.kind = "import" => answer \in Seq(CaseRecords),
         evaluation.loaded = TRUE /\ outside = FALSE =>
           Distinct(CasesToCome') /\ RowsOf(CasesToCome') = RowsOf(list)
  PROVE  EvaluationInv'
<1>1. job \in Jobs /\ db \in EvaluationStored
  BY DEF EvaluationInv, EvaluationTypes, RequestOK
<1>2. /\ job' \in Jobs /\ job' # None /\ job'.kind = job.kind /\ job'.arg = job.arg
      /\ job'.state = "ok" /\ job'.answer = answer
  BY <1>1, Serving
<1>3. db' \in EvaluationStored /\ db'.cases.list = list /\ db'.cases.next = next /\ db'.runs = db.runs
  BY <1>1 DEF EvaluationStored
<1>4. AnswerOK'
  BY <1>2 DEF AnswerOK, CaseKinds
<1>5. CasesStored'
  <2>1. Distinct(db.cases.list)' = Distinct(list)
    BY <1>3 DEF Distinct
  <2> HIDE DEF Distinct
  <2> QED BY <1>3, <2>1 DEF CasesStored
<1>6. CasesAgree'
  <2>1. Distinct(CasesToCome)' = Distinct(CasesToCome') /\ RowsOf(CasesToCome)' = RowsOf(CasesToCome')
        /\ RowsOf(db.cases.list)' = RowsOf(list)
    BY <1>3 DEF Distinct, RowsOf
  <2>2. outside = FALSE => Len(evaluation.cases) <= CASE_LIMIT
    BY DEF EvaluationInv, CasesAgree
  <2> HIDE DEF CasesToCome, Distinct, RowsOf
  <2> QED BY <2>1, <2>2 DEF CasesAgree, Apart
<1>7. ~Waiting(RunKinds)'
  BY <1>2 DEF Waiting, RunKinds, CaseKinds
<1>8. RunsStored' /\ RunsKnown' /\ RunsReach'
  BY <1>1, <1>3, <1>7, RunsSame, RunsStay DEF EvaluationInv, Apart
<1> QED BY <1>2, <1>3, <1>4, <1>5, <1>6, <1>8, ServedHolds

LEMMA CasesNow ==
  ASSUME EvaluationInv, job # None, job.state = "sent", evaluation.loaded = TRUE, outside = FALSE
  PROVE  Distinct(evaluation.cases) /\ RowsOf(evaluation.cases) = RowsOf(db.cases.list)
<1>1. CasesToCome = evaluation.cases
  BY DEF CasesToCome, Pending
<1> HIDE DEF CasesToCome, Distinct, RowsOf
<1> QED BY <1>1 DEF EvaluationInv, CasesAgree

LEMMA ServingEdit ==
  ASSUME EvaluationInv, job # None, job.state = "sent", Apart, E!EditServed
  PROVE  EvaluationInv'
<1> DEFINE c == db.cases.list
<1>1. CASE E!NotServed
  BY <1>1, NotServedHolds
<1>2. CASE \E i \in E!PlacesOf(job.arg.id) :
             db' = [db EXCEPT !.cases.list[i].content = job.arg.content] /\ E!Served(<<db'.cases.list[i]>>)
  <2>1. PICK i \in DOMAIN c : /\ c[i].id = job.arg.id
                              /\ db' = [db EXCEPT !.cases.list[i].content = job.arg.content]
                              /\ E!Served(<<db'.cases.list[i]>>)
    BY <1>2 DEF E!PlacesOf
  <2>2. /\ job.kind = "save" /\ job.arg.id # None /\ job.arg \in Editings /\ db \in EvaluationStored
        /\ evaluation.loaded = TRUE
    BY DEF E!EditServed, EvaluationInv, EvaluationTypes, RequestOK
  <2>3. c \in Seq(CaseRecords) /\ c[i] \in CaseRecords /\ db.cases.next \in Nat
        /\ Distinct(c) /\ Len(c) <= CASE_LIMIT /\ \A k \in DOMAIN c : c[k].id < db.cases.next
    <3>1. c \in Seq(CaseRecords) /\ db.cases.next \in Nat
      BY <2>2 DEF EvaluationStored
    <3> QED BY <2>1, <3>1 DEF EvaluationInv, CasesStored
  <2> DEFINE new == [c[i] EXCEPT !.content = job.arg.content]
             list == [c EXCEPT ![i] = new]
  <2>4. new \in CaseRecords /\ new.id = c[i].id /\ new.content = job.arg.content
    BY <2>2, <2>3 DEF CaseRecords, Editings
  <2>5. db' = [db EXCEPT !.cases = [list |-> list, next |-> db.cases.next]]
    <3>1. db' = [db EXCEPT !.cases = [db.cases EXCEPT !.list = list]]
      BY <2>1
    <3>2. db.cases \in [list : Seq(CaseRecords), next : Nat]
      BY <2>2 DEF EvaluationStored
    <3> HIDE DEF list
    <3>3. [db.cases EXCEPT !.list = list] = [list |-> list, next |-> db.cases.next]
      BY <3>2
    <3> QED BY <3>1, <3>3
  <2>6. db'.cases.list[i] = new
    BY <2>1, <2>2, <2>5 DEF EvaluationStored
  <2> HIDE DEF new
  <2>7. /\ list \in Seq(CaseRecords) /\ Distinct(list) /\ Len(list) = Len(c)
        /\ \A j \in DOMAIN c : list[j].id = c[j].id
    <3>1. /\ c \in Seq(CaseRecords) /\ i \in DOMAIN c /\ Distinct(c) /\ new \in CaseRecords /\ new.id = c[i].id
          /\ list = Overwritten(c, i, new)
      BY <2>1, <2>3, <2>4 DEF Overwritten
    <3> HIDE DEF c, list
    <3> QED BY <3>1, Replaced
  <2>8. \A k \in DOMAIN list : list[k].id < db.cases.next
    BY <2>3, <2>7
  <2>9. /\ <<new>> \in EvaluationAnswers /\ <<new>> \in Seq(CaseRecords) /\ Len(<<new>>) = 1
        /\ <<new>>[1].content = job.arg.content
    <3>1. <<new>> \in Seq(CaseRecords) /\ Len(<<new>>) = 1 /\ <<new>>[1] = new
      BY <2>4
    <3> QED BY <2>4, <3>1 DEF EvaluationAnswers
  <2>10. E!Served(<<new>>)
    BY <2>1, <2>6
  <2>11. evaluation.loaded = TRUE /\ outside = FALSE => Distinct(CasesToCome') /\ RowsOf(CasesToCome') = RowsOf(list)
    <3>1. SUFFICES ASSUME outside = FALSE PROVE Distinct(CasesToCome') /\ RowsOf(CasesToCome') = RowsOf(list)
      OBVIOUS
    <3> DEFINE shown == evaluation.cases
               replaced == [j \in DOMAIN shown |-> IF shown[j].id = new.id THEN new ELSE shown[j]]
    <3>2. shown \in Seq(CaseRecords) /\ Distinct(shown) /\ RowsOf(shown) = RowsOf(c)
      BY <2>2, <3>1, CasesNow DEF EvaluationInv, EvaluationTypes, EvaluationPages
    <3>3. Distinct(replaced) /\ RowsOf(replaced) = RowsOf(list)
      <4>1. i \in DOMAIN c /\ c \in Seq(CaseRecords) /\ Distinct(c) /\ new \in CaseRecords /\ new.id = c[i].id
            /\ list = Overwritten(c, i, new)
        BY <2>1, <2>3, <2>4 DEF Overwritten
      <4>2. replaced = Renewed(shown, new)
        BY DEF Renewed
      <4> HIDE DEF c, shown, list, replaced
      <4> QED BY <3>2, <4>1, <4>2, ReplacedShown
    <3>4. job'.kind = "save" /\ job'.state = "ok" /\ job' # None /\ job'.arg = job.arg /\ job'.answer = <<new>>
      BY <2>2, <2>9, <2>10, Serving DEF EvaluationInv, EvaluationTypes, RequestOK
    <3>5. CasesToCome' = [j \in DOMAIN evaluation'.cases |->
                            IF evaluation'.cases[j].id = job'.answer[1].id THEN job'.answer[1] ELSE evaluation'.cases[j]]
      BY <2>2, <3>4 DEF CasesToCome, Pending
    <3>6. CasesToCome' = replaced
      BY <3>4, <3>5 DEF Apart
    <3> QED BY <3>3, <3>6
  <2>12. job.kind \in CaseKinds /\ job.kind # "import"
    BY <2>2 DEF CaseKinds
  <2>13. Len(list) <= CASE_LIMIT
    BY <2>3, <2>7
  <2> HIDE DEF list, c
  <2> QED BY <2>3, <2>5, <2>7, <2>8, <2>9, <2>10, <2>11, <2>12, <2>13, CaseServed
<1> QED BY <1>1, <1>2 DEF E!EditServed

LEMMA ServingDelete ==
  ASSUME EvaluationInv, job # None, job.state = "sent", Apart, E!DeleteServed
  PROVE  EvaluationInv'
<1> DEFINE c == db.cases.list
<1>1. CASE E!NotServed
  BY <1>1, NotServedHolds
<1>2. CASE \E i \in E!PlacesOf(job.arg) : db' = [db EXCEPT !.cases.list = E!RemoveAt(@, i)] /\ E!Served(None)
  <2>1. PICK i \in DOMAIN c : /\ c[i].id = job.arg
                              /\ db' = [db EXCEPT !.cases.list = E!RemoveAt(@, i)] /\ E!Served(None)
    BY <1>2 DEF E!PlacesOf
  <2>2. job.kind = "delete" /\ db \in EvaluationStored /\ evaluation.loaded = TRUE
    BY DEF E!DeleteServed, EvaluationInv, EvaluationTypes, RequestOK
  <2>3. c \in Seq(CaseRecords) /\ db.cases.next \in Nat
        /\ Distinct(c) /\ Len(c) <= CASE_LIMIT /\ \A k \in DOMAIN c : c[k].id < db.cases.next
    <3>1. c \in Seq(CaseRecords) /\ db.cases.next \in Nat
      BY <2>2 DEF EvaluationStored
    <3> QED BY <3>1 DEF EvaluationInv, CasesStored
  <2> DEFINE list == E!RemoveAt(c, i)
  <2>4. db' = [db EXCEPT !.cases = [list |-> list, next |-> db.cases.next]]
    BY <2>1, <2>2 DEF EvaluationStored
  <2>5. /\ list \in Seq(CaseRecords) /\ Len(list) = Len(c) - 1 /\ Distinct(list)
        /\ RowsOf(list) = {c[j] : j \in DOMAIN c \ {i}}
    <3> HIDE DEF c
    <3> QED BY <2>1, <2>3, RemovedAt, RemovedRows
  <2> HIDE DEF list
  <2>6. \A k \in DOMAIN list : list[k].id < db.cases.next
    <3>1. \A k \in DOMAIN list : list[k] \in {c[j] : j \in DOMAIN c \ {i}}
      BY <2>5 DEF RowsOf
    <3> QED BY <2>3, <3>1
  <2>7. evaluation.loaded = TRUE /\ outside = FALSE => Distinct(CasesToCome') /\ RowsOf(CasesToCome') = RowsOf(list)
    <3>1. SUFFICES ASSUME outside = FALSE PROVE Distinct(CasesToCome') /\ RowsOf(CasesToCome') = RowsOf(list)
      OBVIOUS
    <3> DEFINE shown == evaluation.cases
               places == {j \in DOMAIN shown : shown[j].id # job.arg}
    <3>2. shown \in Seq(CaseRecords) /\ Distinct(shown) /\ RowsOf(shown) = RowsOf(c)
      BY <2>2, <3>1, CasesNow DEF EvaluationInv, EvaluationTypes, EvaluationPages
    <3>3. job'.kind = "delete" /\ job'.state = "ok" /\ job' # None /\ job'.arg = job.arg
      <4>1. None \in EvaluationAnswers
        BY DEF EvaluationAnswers
      <4> QED BY <2>1, <2>2, <4>1, Serving DEF EvaluationInv, EvaluationTypes, RequestOK
    <3>4. CasesToCome' = E!AfterDelete(evaluation'.cases, job'.arg)
      BY <3>3 DEF CasesToCome, Pending
    <3>5. CasesToCome' = E!Where(shown, places)
      BY <3>3, <3>4 DEF Apart, E!AfterDelete
    <3> HIDE DEF shown, c
    <3>6. Distinct(E!Where(shown, places)) /\ RowsOf(E!Where(shown, places)) = {shown[j] : j \in places}
      <4>1. places \in SUBSET (DOMAIN shown)
        OBVIOUS
      <4> HIDE DEF places
      <4> QED BY <3>2, <4>1, WhereKeeps
    <3>7. {shown[j] : j \in places} = {c[j] : j \in DOMAIN c \ {i}}
      <4>1. ASSUME NEW j \in places PROVE shown[j] \in {c[k] : k \in DOMAIN c \ {i}}
        <5>1. PICK k \in DOMAIN c : shown[j] = c[k]
          BY <3>2 DEF RowsOf
        <5> QED BY <2>1, <5>1
      <4>2. ASSUME NEW k \in DOMAIN c \ {i} PROVE c[k] \in {shown[j] : j \in places}
        <5>1. PICK j \in DOMAIN shown : shown[j] = c[k]
          BY <3>2 DEF RowsOf
        <5>2. c[k].id # job.arg
          BY <2>1, <2>3 DEF Distinct
        <5> QED BY <5>1, <5>2
      <4> QED BY <4>1, <4>2
    <3> QED BY <2>5, <3>5, <3>6, <3>7
  <2>8. job.kind \in CaseKinds /\ job.kind # "import" /\ job.kind # "save" /\ None \in EvaluationAnswers
    BY <2>2 DEF CaseKinds, EvaluationAnswers
  <2>9. Len(list) <= CASE_LIMIT
    BY <2>3, <2>5, EvaluationAssumption
  <2> HIDE DEF c
  <2> QED BY <2>1, <2>3, <2>4, <2>5, <2>6, <2>7, <2>8, <2>9, CaseServed
<1> QED BY <1>1, <1>2 DEF E!DeleteServed

LEMMA NewCasesAre ==
  ASSUME db \in EvaluationStored, NEW contents \in Seq(Contents)
  PROVE  /\ E!NewCases(contents) \in Seq(CaseRecords) /\ Len(E!NewCases(contents)) = Len(contents)
         /\ \A i \in 1..Len(contents) : /\ E!NewCases(contents)[i].id = db.cases.next + i - 1
                                        /\ E!NewCases(contents)[i].content = contents[i]
<1> DEFINE n == Len(contents)
           new == E!NewCases(contents)
           row(i) == [id |-> db.cases.next + i - 1, position |-> Len(db.cases.list) + i - 1, content |-> contents[i]]
<1>1. n \in Nat /\ db.cases.next \in Nat /\ Len(db.cases.list) \in Nat /\ \A i \in 1..n : contents[i] \in Contents
  BY DEF EvaluationStored
<1>2. new = [i \in 1..n |-> row(i)]
  BY DEF E!NewCases
<1>3. \A i \in 1..n : row(i) \in CaseRecords
  <2> TAKE i \in 1..n
  <2>1. db.cases.next + i - 1 \in Nat /\ Len(db.cases.list) + i - 1 \in Nat /\ contents[i] \in Contents
    BY <1>1
  <2> QED BY <2>1 DEF CaseRecords
<1>4. \A i \in 1..n : row(i).id = db.cases.next + i - 1 /\ row(i).content = contents[i]
  OBVIOUS
<1> HIDE DEF row, new, n
<1>5. new \in [1..n -> CaseRecords]
  BY <1>2, <1>3
<1>6. new \in Seq(CaseRecords) /\ Len(new) = n
  BY <1>1, <1>5
<1> QED BY <1>2, <1>4, <1>6 DEF n, new

LEMMA ServingAdd ==
  ASSUME EvaluationInv, job # None, job.state = "sent", Apart, E!AddServed
  PROVE  EvaluationInv'
<1> DEFINE c == db.cases.list
           contents == IF job.kind = "save" THEN <<job.arg.content>> ELSE job.arg
           new == E!NewCases(contents)
           list == c \o new
           next == db.cases.next + Len(new)
<1>1. /\ db \in EvaluationStored /\ job \in Jobs
      /\ job.kind = "import" \/ (job.kind = "save" /\ job.arg.id = None)
      /\ job.kind = "save" => job.arg \in Editings
      /\ job.kind = "import" => job.arg \in Seq(Contents)
  BY DEF E!AddServed, EvaluationInv, EvaluationTypes, RequestOK
<1>2. IF Len(c) + Len(new) > CASE_LIMIT THEN E!NotServed
      ELSE db' = [db EXCEPT !.cases = [list |-> @.list \o new, next |-> @.next + Len(new)]] /\ E!Served(new)
  BY DEF E!AddServed
<1>3. contents \in Seq(Contents) /\ (job.kind = "save" => Len(contents) = 1 /\ contents[1] = job.arg.content)
  <2>1. CASE job.kind = "save"
    <3>1. job.arg.content \in Contents
      BY <1>1, <2>1 DEF Editings
    <3> QED BY <2>1, <3>1
  <2>2. CASE job.kind # "save"
    BY <1>1, <2>2
  <2> QED BY <2>1, <2>2
<1> HIDE DEF contents
<1>4. /\ new \in Seq(CaseRecords) /\ Len(new) = Len(contents)
      /\ \A i \in 1..Len(contents) : new[i].id = db.cases.next + i - 1 /\ new[i].content = contents[i]
  BY <1>1, <1>3, NewCasesAre
<1>5. c \in Seq(CaseRecords) /\ db.cases.next \in Nat
      /\ Distinct(c) /\ Len(c) <= CASE_LIMIT /\ \A k \in DOMAIN c : c[k].id < db.cases.next
  <2>1. c \in Seq(CaseRecords) /\ db.cases.next \in Nat
    BY <1>1 DEF EvaluationStored
  <2> QED BY <2>1 DEF EvaluationInv, CasesStored
<1> HIDE DEF new
<1>6. CASE Len(c) + Len(new) > CASE_LIMIT
  BY <1>2, <1>6, NotServedHolds
<1>7. CASE ~(Len(c) + Len(new) > CASE_LIMIT)
  <2>1. db' = [db EXCEPT !.cases = [list |-> list, next |-> next]] /\ E!Served(new)
    BY <1>2, <1>7
  <2>2. DOMAIN new = 1..Len(contents) /\ Len(contents) \in Nat /\ Len(c) \in Nat
    BY <1>3, <1>4, <1>5
  <2>3. Distinct(new) /\ \A k \in DOMAIN new : db.cases.next <= new[k].id /\ new[k].id < next
    <3>1. next = db.cases.next + Len(contents)
      BY <1>4
    <3>2. db.cases.next \in Nat
      BY <1>5
    <3>3. \A i \in 1..Len(contents) : new[i].id = db.cases.next + i - 1
      BY <1>4
    <3> HIDE DEF c, next
    <3>4. \A k \in 1..Len(contents) : db.cases.next <= new[k].id /\ new[k].id < next
      BY <2>2, <3>1, <3>2, <3>3
    <3>5. \A i, j \in 1..Len(contents) : new[i].id = new[j].id => i = j
      BY <2>2, <3>2, <3>3
    <3> QED BY <2>2, <3>4, <3>5 DEF Distinct
  <2>4. \A shown : (\A k \in DOMAIN shown : shown[k].id < db.cases.next) => Ids(shown) \cap Ids(new) = {}
    <3>1. \A k \in DOMAIN new : new[k].id \in Nat
      BY <1>4, <1>5, <2>2
    <3>2. SUFFICES ASSUME NEW shown, \A k \in DOMAIN shown : shown[k].id < db.cases.next,
                          NEW x \in DOMAIN shown, NEW y \in DOMAIN new, shown[x].id = new[y].id
                   PROVE  FALSE
      BY DEF Ids
    <3> QED BY <1>5, <2>3, <3>1, <3>2
  <2>5. /\ list \in Seq(CaseRecords) /\ Len(list) = Len(c) + Len(new) /\ RowsOf(list) = RowsOf(c) \cup RowsOf(new)
        /\ Distinct(list)
    <3>1. Ids(c) \cap Ids(new) = {}
      BY <1>5, <2>4
    <3>2. PICK old \in Seq(CaseRecords) : old = c
      BY <1>5
    <3>3. PICK added \in Seq(CaseRecords) : added = new
      BY <1>4
    <3>4. list = old \o added
      BY <3>2, <3>3
    <3> HIDE DEF c, new, list
    <3>5. Distinct(old) /\ Distinct(added) /\ Ids(old) \cap Ids(added) = {}
      BY <1>5, <2>3, <3>1, <3>2, <3>3
    <3>6. /\ list \in Seq(CaseRecords) /\ Len(list) = Len(old) + Len(added)
          /\ RowsOf(list) = RowsOf(old) \cup RowsOf(added) /\ Distinct(list)
      BY <3>4, <3>5, Joined
    <3> QED BY <3>2, <3>3, <3>6
  <2>6. \A k \in DOMAIN list : list[k].id < next
    <3>1. \A k \in DOMAIN list : list[k] \in RowsOf(c) \cup RowsOf(new)
      <4>1. \A k \in DOMAIN list : list[k] \in RowsOf(list)
        BY DEF RowsOf
      <4> HIDE DEF list
      <4> QED BY <2>5, <4>1
    <3>2. \A r \in RowsOf(c) : r.id < next
      <4>1. \A k \in DOMAIN c : c[k].id \in Nat
        <5>1. \A k \in DOMAIN c : c[k] \in CaseRecords
          BY <1>5
        <5> QED BY <5>1 DEF CaseRecords
      <4>2. \A k \in DOMAIN c : c[k].id < next
        BY <1>4, <1>5, <2>2, <4>1
      <4> QED BY <4>2 DEF RowsOf
    <3>3. \A r \in RowsOf(new) : r.id < next
      BY <2>3 DEF RowsOf
    <3> HIDE DEF list, next
    <3> QED BY <3>1, <3>2, <3>3
  <2>7. evaluation.loaded = TRUE /\ outside = FALSE => Distinct(CasesToCome') /\ RowsOf(CasesToCome') = RowsOf(list)
    <3>1. SUFFICES ASSUME outside = FALSE PROVE Distinct(CasesToCome') /\ RowsOf(CasesToCome') = RowsOf(list)
      OBVIOUS
    <3> DEFINE shown == evaluation.cases
    <3>2. shown \in Seq(CaseRecords) /\ Distinct(shown) /\ RowsOf(shown) = RowsOf(c)
      BY <3>1, CasesNow DEF EvaluationInv, EvaluationTypes, EvaluationPages, RequestOK
    <3>3. job'.kind = job.kind /\ job'.state = "ok" /\ job' # None /\ job'.arg = job.arg /\ job'.answer = new
      <4>1. new \in EvaluationAnswers
        BY <1>4 DEF EvaluationAnswers
      <4> QED BY <1>1, <2>1, <4>1, Serving
    <3>4. CasesToCome' = shown \o new
      <4>1. CASE job.kind = "import"
        BY <3>3, <4>1 DEF CasesToCome, Pending, Apart
      <4>2. CASE job.kind = "save" /\ job.arg.id = None
        <5>1. CasesToCome' = Append(evaluation'.cases, job'.answer[1])
          BY <3>3, <4>2 DEF CasesToCome, Pending
        <5>2. CasesToCome' = Append(shown, new[1])
          BY <3>3, <5>1 DEF Apart
        <5>3. Len(new) = 1
          BY <1>3, <1>4, <4>2
        <5> HIDE DEF shown
        <5>4. Append(shown, new[1]) = shown \o new
          <6>1. new \in Seq(CaseRecords) /\ shown \in Seq(CaseRecords)
            BY <1>4, <3>2
          <6>2. new = <<new[1]>>
            BY <5>3, <6>1
          <6>3. Append(shown, new[1]) = shown \o <<new[1]>>
            <7>1. new[1] \in CaseRecords
              BY <5>3, <6>1
            <7> QED BY <6>1, <7>1
          <6> QED BY <6>2, <6>3
        <5> QED BY <5>2, <5>4
      <4> QED BY <1>1, <4>1, <4>2
    <3> HIDE DEF shown, c
    <3>5. \A k \in DOMAIN shown : shown[k].id < db.cases.next
      <4>1. \A k \in DOMAIN shown : shown[k] \in RowsOf(c)
        BY <3>2 DEF RowsOf
      <4> QED BY <1>5, <4>1 DEF RowsOf
    <3>6. Ids(shown) \cap Ids(new) = {}
      BY <2>4, <3>5
    <3>7. RowsOf(shown \o new) = RowsOf(shown) \cup RowsOf(new) /\ Distinct(shown \o new)
      BY <1>4, <2>3, <3>2, <3>6, Joined
    <3> QED BY <2>5, <3>2, <3>4, <3>7
  <2>8. job.kind \in CaseKinds /\ new \in EvaluationAnswers
    BY <1>1, <1>4 DEF CaseKinds, EvaluationAnswers
  <2>9. job.kind = "save" => Len(new) = 1 /\ new[1].content = job.arg.content
    BY <1>3, <1>4
  <2>10. Len(list) <= CASE_LIMIT /\ next \in Nat
    <3>1. Len(list) = Len(c) + Len(new) /\ Len(new) \in Nat
      BY <1>4, <2>2, <2>5
    <3> HIDE DEF list
    <3> QED BY <1>4, <1>5, <1>7, <2>2, <3>1, EvaluationAssumption
  <2> HIDE DEF list, next, c
  <2> QED BY <1>4, <2>1, <2>5, <2>6, <2>7, <2>8, <2>9, <2>10, CaseServed
<1> QED BY <1>6, <1>7

-----------------------------------------------------------------------------
(* The page applies what became of the cases *)

LEMMA CasesAnswered ==
  ASSUME EvaluationInv, Waiting(CaseKinds), job' = None, UNCHANGED <<db, check, rechecked, newest, outside>>,
         evaluation' \in EvaluationPages, evaluation'.cases = CasesToCome, SuggestionsHeld',
         evaluation'.loaded = evaluation.loaded, evaluation'.runs = evaluation.runs,
         evaluation'.hasMore = evaluation.hasMore, evaluation'.config = evaluation.config,
         evaluation'.failed = evaluation.failed, evaluation'.rejected = evaluation.rejected
  PROVE  EvaluationInv'
<1>1. EvaluationTypes'
  BY DEF EvaluationInv, EvaluationTypes
<1>2. PaidWhenAllowed'
  BY PaidStays DEF EvaluationInv
<1>3. evaluation.loaded = TRUE /\ db.cases.list \in Seq(CaseRecords) /\ evaluation'.cases \in Seq(CaseRecords)
  BY DEF EvaluationInv, EvaluationTypes, RequestOK, Waiting, EvaluationStored, EvaluationPages
<1>4. CasesStored'
  BY DEF EvaluationInv, CasesStored, Distinct
<1>5. CasesAgree'
  <2>1. CasesToCome' = evaluation'.cases
    BY DEF CasesToCome, Pending
  <2>2. ASSUME outside = FALSE
        PROVE  /\ Distinct(evaluation'.cases) /\ RowsOf(evaluation'.cases) = RowsOf(db.cases.list)
               /\ Len(evaluation'.cases) <= CASE_LIMIT
    <3>1. Distinct(evaluation'.cases) /\ RowsOf(evaluation'.cases) = RowsOf(db.cases.list) /\ Distinct(db.cases.list)
          /\ Len(db.cases.list) <= CASE_LIMIT
      BY <1>3, <2>2 DEF EvaluationInv, CasesAgree, CasesStored
    <3>2. Cardinality(RowsOf(evaluation'.cases)) = Len(evaluation'.cases)
      BY <1>3, <3>1, DistinctRows
    <3>3. Cardinality(RowsOf(db.cases.list)) = Len(db.cases.list)
      BY <1>3, <3>1, DistinctRows
    <3> QED BY <3>1, <3>2, <3>3
  <2>3. Distinct(CasesToCome)' = Distinct(evaluation'.cases) /\ RowsOf(CasesToCome)' = RowsOf(evaluation'.cases)
        /\ RowsOf(db.cases.list)' = RowsOf(db.cases.list)
    BY <2>1 DEF Distinct, RowsOf
  <2> HIDE DEF CasesToCome, Distinct, RowsOf
  <2> QED BY <2>2, <2>3 DEF CasesAgree
<1>6. ~Waiting(RunKinds)'
  BY DEF Waiting
<1>7. RunsStored' /\ RunsKnown' /\ RunsReach'
  BY <1>6, RunsSame, RunsStay DEF EvaluationInv, EvaluationTypes
<1> QED BY <1>1, <1>2, <1>4, <1>5, <1>7 DEF EvaluationInv

LEMMA ImportAnswering == ASSUME EvaluationInv, E!ImportAnswer PROVE EvaluationInv'
<1>1. /\ job # None /\ job.state = "ok" /\ job.kind = "import" /\ job' = None
      /\ evaluation' = [evaluation EXCEPT !.cases = @ \o job.answer, !.importing = FALSE]
      /\ UNCHANGED <<db, store, check, kept, rechecked, newest, outside>>
  BY DEF E!ImportAnswer, E!Answered
<1>2. evaluation \in EvaluationPages /\ job.answer \in Seq(CaseRecords)
  BY <1>1 DEF EvaluationInv, EvaluationTypes, AnswerOK
<1>3. PICK cases \in Seq(CaseRecords) : cases = evaluation.cases \o job.answer
  <2>1. evaluation.cases \in Seq(CaseRecords)
    BY <1>2 DEF EvaluationPages
  <2>2. \A a, b \in Seq(CaseRecords) : a \o b \in Seq(CaseRecords)
    OBVIOUS
  <2> QED BY <1>2, <2>1, <2>2, Zenon
<1>4. evaluation' = [evaluation EXCEPT !.cases = cases, !.importing = FALSE]
  BY <1>1, <1>3
<1>5. CasesToCome = cases
  BY <1>1, <1>3 DEF CasesToCome, Pending
<1>6. /\ evaluation' \in EvaluationPages /\ evaluation'.cases = cases
      /\ evaluation'.proposals = evaluation.proposals /\ evaluation'.editing = evaluation.editing
      /\ evaluation'.loaded = evaluation.loaded /\ evaluation'.runs = evaluation.runs
      /\ evaluation'.hasMore = evaluation.hasMore /\ evaluation'.config = evaluation.config
      /\ evaluation'.failed = evaluation.failed /\ evaluation'.rejected = evaluation.rejected
  BY <1>2, <1>4 DEF EvaluationPages
<1>7. SuggestionsHeld'
  BY <1>1, <1>6, SuggestionsStay DEF EvaluationInv
<1>8. Waiting(CaseKinds)
  BY <1>1 DEF Waiting, CaseKinds
<1> QED BY <1>1, <1>5, <1>6, <1>7, <1>8, CasesAnswered

LEMMA DeleteAnswering == ASSUME EvaluationInv, E!DeleteAnswer PROVE EvaluationInv'
<1>1. /\ job # None /\ job.state = "ok" /\ job.kind = "delete" /\ job' = None
      /\ evaluation' = [evaluation EXCEPT !.cases = E!AfterDelete(@, job.arg), !.deleting = None]
      /\ UNCHANGED <<db, store, check, kept, rechecked, newest, outside>>
  BY DEF E!DeleteAnswer, E!Answered
<1>2. evaluation \in EvaluationPages
  BY DEF EvaluationInv, EvaluationTypes
<1>3. PICK cases \in Seq(CaseRecords) : cases = E!AfterDelete(evaluation.cases, job.arg)
  <2> DEFINE shown == evaluation.cases
             places == {i \in DOMAIN shown : shown[i].id # job.arg}
  <2>1. shown \in Seq(CaseRecords) /\ places \in SUBSET (DOMAIN shown)
    BY <1>2 DEF EvaluationPages
  <2>2. E!AfterDelete(shown, job.arg) = E!Where(shown, places)
    BY DEF E!AfterDelete
  <2> HIDE DEF shown, places
  <2>3. E!Where(shown, places) \in Seq(CaseRecords)
    BY <2>1, WhereKeeps
  <2> QED BY <2>2, <2>3 DEF shown
<1>4. evaluation' = [evaluation EXCEPT !.cases = cases, !.deleting = None]
  BY <1>1, <1>3
<1>5. CasesToCome = cases
  BY <1>1, <1>3 DEF CasesToCome, Pending
<1>6. /\ evaluation' \in EvaluationPages /\ evaluation'.cases = cases
      /\ evaluation'.proposals = evaluation.proposals /\ evaluation'.editing = evaluation.editing
      /\ evaluation'.loaded = evaluation.loaded /\ evaluation'.runs = evaluation.runs
      /\ evaluation'.hasMore = evaluation.hasMore /\ evaluation'.config = evaluation.config
      /\ evaluation'.failed = evaluation.failed /\ evaluation'.rejected = evaluation.rejected
  BY <1>2, <1>4 DEF EvaluationPages
<1>7. SuggestionsHeld'
  BY <1>1, <1>6, SuggestionsStay DEF EvaluationInv
<1>8. Waiting(CaseKinds)
  BY <1>1 DEF Waiting, CaseKinds
<1> QED BY <1>1, <1>5, <1>6, <1>7, <1>8, CasesAnswered

LEMMA SaveAnswering == ASSUME EvaluationInv, E!SaveAnswer PROVE EvaluationInv'
<1> DEFINE saved == job.answer[1]
           editing == evaluation.editing
           proposals == evaluation.proposals
           shown == evaluation.cases
           left == E!Without(proposals, editing.index)
           cases == IF job.arg.id = None THEN Append(shown, saved)
                    ELSE [i \in DOMAIN shown |-> IF shown[i].id = saved.id THEN saved ELSE shown[i]]
<1>1. evaluation \in EvaluationPages /\ job # None /\ job.state = "ok" /\ job.kind = "save" /\ job' = None
  BY DEF EvaluationInv, EvaluationTypes, E!SaveAnswer, E!Answered
<1>2. /\ evaluation' = [evaluation EXCEPT !.proposals = left, !.cases = cases, !.editing = None]
      /\ store' = left /\ kept' = kept \ {saved.content}
      /\ UNCHANGED <<db, check, rechecked, newest, outside>>
  <2>1. evaluation' = [[evaluation EXCEPT !.proposals = left] EXCEPT !.cases = cases, !.editing = None]
    BY <1>1 DEF E!SaveAnswer, E!SetProposals, EvaluationPages
  <2> HIDE DEF left, cases
  <2>2. [[evaluation EXCEPT !.proposals = left] EXCEPT !.cases = cases, !.editing = None]
          = [evaluation EXCEPT !.proposals = left, !.cases = cases, !.editing = None]
    BY <1>1 DEF EvaluationPages
  <2>3. store' = left /\ kept' = kept \ {saved.content} /\ UNCHANGED <<db, check, rechecked, newest, outside>>
    BY DEF E!SaveAnswer, left
  <2> QED BY <2>1, <2>2, <2>3
<1>3. /\ job.answer \in Seq(CaseRecords) /\ Len(job.answer) = 1 /\ saved.content = job.arg.content
      /\ job.arg \in Editings /\ job.arg = editing
  BY <1>1 DEF EvaluationInv, EvaluationTypes, RequestOK, AnswerOK
<1>4. saved \in CaseRecords /\ editing \in Editings /\ editing.index \in Nat /\ saved.content = editing.content
      /\ proposals \in Seq(Contents) /\ shown \in Seq(CaseRecords)
  BY <1>1, <1>3 DEF EvaluationPages, Editings
<1>5. cases \in Seq(CaseRecords)
  <2> HIDE DEF saved, shown
  <2>1. Append(shown, saved) \in Seq(CaseRecords)
    BY <1>4
  <2>2. [i \in DOMAIN shown |-> IF shown[i].id = saved.id THEN saved ELSE shown[i]] \in Seq(CaseRecords)
    BY <1>4
  <2> QED BY <2>1, <2>2
<1>6. CasesToCome = cases
  BY <1>1 DEF CasesToCome, Pending
<1>7. left \in Seq(Contents) /\ (kept \ {saved.content}) \subseteq RowsOf(left)
  <2>1. kept \subseteq RowsOf(proposals)
    BY DEF EvaluationInv, SuggestionsHeld
  <2>2. CASE editing.index = 0
    BY <1>4, <2>1, <2>2 DEF E!Without
  <2>3. CASE editing.index # 0
    <3>1. editing.index \in DOMAIN proposals /\ proposals[editing.index] = saved.content
      BY <1>3, <1>4, <2>3, EvaluationAssumption DEF EvaluationInv, SuggestionsHeld
    <3>2. left = E!RemoveAt(proposals, editing.index)
      BY <2>3 DEF E!Without
    <3> HIDE DEF proposals, left
    <3>3. left \in Seq(Contents) /\ RowsOf(left) = {proposals[i] : i \in DOMAIN proposals \ {editing.index}}
      BY <1>4, <3>1, <3>2, RemovedAt, RemovedRows
    <3> QED BY <2>1, <3>1, <3>3 DEF RowsOf
  <2> QED BY <2>2, <2>3
<1> HIDE DEF left, cases
<1>8. /\ evaluation' \in EvaluationPages /\ evaluation'.cases = cases
      /\ evaluation'.proposals = left /\ evaluation'.editing = None
      /\ evaluation'.loaded = evaluation.loaded /\ evaluation'.runs = evaluation.runs
      /\ evaluation'.hasMore = evaluation.hasMore /\ evaluation'.config = evaluation.config
      /\ evaluation'.failed = evaluation.failed /\ evaluation'.rejected = evaluation.rejected
  BY <1>1, <1>2, <1>5, <1>7 DEF EvaluationPages
<1>9. SuggestionsHeld'
  <2>1. RowsOf(evaluation.proposals)' = RowsOf(left)
    BY <1>8 DEF RowsOf
  <2> HIDE DEF RowsOf
  <2> QED BY <1>2, <1>7, <1>8, <2>1 DEF SuggestionsHeld
<1>10. Waiting(CaseKinds)
  BY <1>1 DEF Waiting, CaseKinds
<1> QED BY <1>1, <1>2, <1>6, <1>8, <1>9, <1>10, CasesAnswered

-----------------------------------------------------------------------------
(* The server adds, rates and reads runs *)

(* A request that is not about cases was served. *)
LEMMA RunsServed ==
  ASSUME EvaluationInv, job # None, job.state = "sent", job.kind \notin CaseKinds, Apart,
         db' \in EvaluationStored, db'.cases = db.cases, RunsStored', RunsGrow,
         NEW answer \in EvaluationAnswers, E!Served(answer),
         job.kind \in {"rate", "run"} => answer \in ShownRuns /\ Known(answer)',
         job.kind = "run" => answer.id > newest /\ answer.id \notin Ids(evaluation.runs),
         job.kind = "history" =>
           /\ answer \in Seq(ShownRuns) /\ Distinct(answer) /\ \A i \in DOMAIN answer : Known(answer[i])'
           /\ Reaches(Ids(evaluation.runs) \cup Ids(answer), Len(answer) = HISTORY_PAGE_SIZE),
         job.kind = "refresh" => answer \in Nat,
         job.kind = "generate" => answer \in Seq(Contents)
  PROVE  EvaluationInv'
<1>1. job \in Jobs /\ db \in EvaluationStored
  BY DEF EvaluationInv, EvaluationTypes, RequestOK
<1>2. /\ job' \in Jobs /\ job' # None /\ job'.kind = job.kind /\ job'.arg = job.arg
      /\ job'.state = "ok" /\ job'.answer = answer
  BY <1>1, Serving
<1>3. AnswerOK'
  BY <1>2 DEF AnswerOK, CaseKinds
<1>4. ~Waiting(CaseKinds) /\ ~Waiting(CaseKinds)'
  BY <1>2 DEF Waiting
<1>5. CasesStored' /\ CasesAgree'
  BY <1>4, CasesStay DEF EvaluationInv, Apart
<1>6. Distinct(evaluation.runs)' /\ \A i \in DOMAIN evaluation'.runs : Known(evaluation.runs[i])'
  <2>1. \A run : Known(run) => Known(run)'
    BY <1>1, KnownStays
  <2>2. evaluation' = evaluation
    BY DEF Apart
  <2> QED BY <2>1, <2>2 DEF EvaluationInv, RunsKnown, Distinct
<1>7. /\ Pending("rate")' <=> job.kind = "rate"
      /\ Pending("run")' <=> job.kind = "run"
      /\ Pending("history")' <=> job.kind = "history"
  BY <1>2 DEF Pending
<1>8. RunsKnown'
  <2>1. Known(job.answer)' <=> Known(answer)'
    BY <1>2 DEF Known
  <2>2. \A i : Known(job.answer[i])' <=> Known(answer[i])'
    BY <1>2 DEF Known
  <2>3. Distinct(job.answer)' = Distinct(answer)
    BY <1>2 DEF Distinct
  <2>4. Ids(evaluation.runs)' = Ids(evaluation.runs) /\ newest' = newest
    BY DEF Ids, Apart
  <2> QED BY <1>2, <1>6, <1>7, <2>1, <2>2, <2>3, <2>4 DEF RunsKnown
<1>9. RunsReach'
  BY <1>2, <1>7 DEF RunsReach, Reaches, Ids, Apart, EvaluationInv
<1> QED BY <1>2, <1>3, <1>5, <1>8, <1>9, ServedHolds

(* A stored run without a rating gets one. *)
LEMMA RunRated ==
  ASSUME db \in EvaluationStored, RunsStored, UNCHANGED newest, NEW i \in DOMAIN db.runs, db.runs[i].stars = 0,
         NEW stars \in Nat, db' = [db EXCEPT !.runs[i].stars = stars]
  PROVE  /\ db' \in EvaluationStored /\ db'.cases = db.cases /\ Len(db'.runs) = Len(db.runs)
         /\ db'.runs[i] \in StoredRuns /\ db'.runs[i].id = db.runs[i].id /\ db'.runs[i].stars = stars
         /\ RunsStored' /\ RunsGrow
<1> DEFINE N == Len(db.runs)
<1>1. db.runs \in Seq(StoredRuns) /\ db.runs[i] \in StoredRuns /\ N \in Nat /\ i \in 1..N /\ DOMAIN db.runs = 1..N
  <2>1. db.runs \in Seq(StoredRuns)
    BY DEF EvaluationStored
  <2> QED BY <2>1
<1> DEFINE run == [db.runs[i] EXCEPT !.stars = stars]
           runs == [db.runs EXCEPT ![i] = run]
<1>2. run \in StoredRuns /\ run.id = db.runs[i].id /\ run.stars = stars
  BY <1>1 DEF StoredRuns
<1>3. db' = [db EXCEPT !.runs = runs]
  OBVIOUS
<1> HIDE DEF run
<1>4. runs \in Seq(StoredRuns) /\ Len(runs) = N /\ DOMAIN runs = 1..N
      /\ \A k \in 1..N : runs[k] = IF k = i THEN run ELSE db.runs[k]
  BY <1>1, <1>2
<1> HIDE DEF runs
<1>5. db' \in EvaluationStored /\ db'.cases = db.cases /\ db'.runs = runs
  BY <1>3, <1>4 DEF EvaluationStored
<1>6. \A k \in 1..N : db.runs[k].id = N + 1 - k
  BY <1>1 DEF RunsStored
<1>7. RunsStored'
  <2>1. \A k \in DOMAIN runs : runs[k].id = Len(runs) + 1 - k
    BY <1>1, <1>2, <1>4, <1>6
  <2> QED BY <1>4, <1>5, <2>1 DEF RunsStored
<1>8. RunsGrow
  <2>1. ASSUME NEW id \in 1..N, db.runs[N + 1 - id].stars # 0
        PROVE  runs[N + 1 - id].stars = db.runs[N + 1 - id].stars
    BY <1>1, <1>4, <2>1
  <2> QED BY <1>1, <1>4, <1>5, <2>1 DEF RunsGrow
<1> QED BY <1>1, <1>2, <1>4, <1>5, <1>7, <1>8

LEMMA ServingRate ==
  ASSUME EvaluationInv, job # None, job.state = "sent", Apart, E!RateServed
  PROVE  EvaluationInv'
<1>1. CASE E!NotServed
  BY <1>1, NotServedHolds
<1>2. CASE \E i \in E!Unrated(job.arg.run) :
             db' = [db EXCEPT !.runs[i].stars = job.arg.stars] /\ E!Served(E!Described(db'.runs[i], db))
  <2> DEFINE N == Len(db.runs)
  <2>1. job.kind = "rate" /\ job.arg.stars \in Nat /\ db \in EvaluationStored
    BY DEF E!RateServed, EvaluationInv, EvaluationTypes, RequestOK
  <2>2. PICK stars \in Nat : stars = job.arg.stars
    BY <2>1
  <2>3. PICK i \in DOMAIN db.runs : /\ db.runs[i].stars = 0
                                    /\ db' = [db EXCEPT !.runs[i].stars = stars]
                                    /\ E!Served(E!Described(db'.runs[i], db))
    BY <1>2, <2>2 DEF E!Unrated
  <2>4. /\ db' \in EvaluationStored /\ db'.cases = db.cases /\ Len(db'.runs) = N
        /\ db'.runs[i] \in StoredRuns /\ db'.runs[i].id = db.runs[i].id /\ db'.runs[i].stars = stars
        /\ RunsStored' /\ RunsGrow
    BY <2>1, <2>3, RunRated DEF EvaluationInv, Apart
  <2>5. N \in Nat /\ i \in 1..N /\ db.runs[i].id = N + 1 - i
    <3>1. db.runs \in Seq(StoredRuns)
      BY <2>1 DEF EvaluationStored
    <3> QED BY <2>3, <3>1 DEF EvaluationInv, RunsStored
  <2>6. PICK answer \in ShownRuns : E!Served(answer) /\ answer.id = N + 1 - i /\ answer.stars = stars
    <3>1. PICK run \in StoredRuns : run = db'.runs[i]
      BY <2>4
    <3>2. E!Described(run, db) \in ShownRuns /\ E!Described(run, db).id = run.id
          /\ E!Described(run, db).stars = run.stars
      BY DescribedShown
    <3>3. E!Served(E!Described(run, db)) /\ run.id = N + 1 - i /\ run.stars = stars
      BY <2>3, <2>4, <2>5, <3>1
    <3> QED BY <3>2, <3>3
  <2>7. Known(answer)'
    <3>1. answer.id \in 1..N /\ N + 1 - answer.id = i
      BY <2>5, <2>6
    <3> QED BY <2>4, <2>6, <3>1 DEF Known
  <2>8. answer \in EvaluationAnswers /\ job.kind \notin CaseKinds
    BY <2>1 DEF EvaluationAnswers, CaseKinds
  <2> QED BY <2>1, <2>4, <2>6, <2>7, <2>8, RunsServed
<1> QED BY <1>1, <1>2 DEF E!RateServed

LEMMA Prepended ==
  ASSUME NEW X, NEW x \in X, NEW list \in Seq(X)
  PROVE  /\ <<x>> \o list \in Seq(X) /\ Len(<<x>> \o list) = Len(list) + 1
         /\ DOMAIN (<<x>> \o list) = 1..(Len(list) + 1)
         /\ (<<x>> \o list)[1] = x /\ \A k \in 1..Len(list) : (<<x>> \o list)[k + 1] = list[k]
<1> DEFINE one == <<x>>
<1>1. one \in Seq(X) /\ Len(one) = 1 /\ one[1] = x
  OBVIOUS
<1> HIDE DEF one
<1>2. one \o list \in Seq(X) /\ Len(one \o list) = Len(list) + 1
  <2>1. \A a, b \in Seq(X) : a \o b \in Seq(X) /\ Len(a \o b) = Len(a) + Len(b)
    OBVIOUS
  <2>2. one \o list \in Seq(X) /\ Len(one \o list) = Len(one) + Len(list)
    BY <1>1, <2>1, Zenon
  <2>3. Len(list) \in Nat
    OBVIOUS
  <2> QED BY <1>1, <2>2, <2>3
<1>3. (one \o list)[1] = x /\ \A k \in 1..Len(list) : (one \o list)[k + 1] = list[k]
  <2>1. \A a, b \in Seq(X) : /\ \A k \in 1..Len(a) : (a \o b)[k] = a[k]
                            /\ \A k \in 1..Len(b) : (a \o b)[k + Len(a)] = b[k]
    OBVIOUS
  <2>2. /\ \A k \in 1..Len(one) : (one \o list)[k] = one[k]
        /\ \A k \in 1..Len(list) : (one \o list)[k + Len(one)] = list[k]
    BY <1>1, <2>1, Zenon
  <2>3. 1 \in 1..1
    OBVIOUS
  <2> QED BY <1>1, <2>2, <2>3, Zenon
<1>4. DOMAIN (one \o list) = 1..(Len(list) + 1)
  BY <1>2
<1> QED BY <1>2, <1>3, <1>4 DEF one

(* One more run is stored, the newest. *)
LEMMA RunAdded ==
  ASSUME db \in EvaluationStored, RunsStored, newest \in Nat, UNCHANGED newest,
         NEW seen \in Nat, NEW version \in Nat, db' = [db EXCEPT !.runs = <<E!NewRun(db, seen, version)>> \o @]
  PROVE  /\ db' \in EvaluationStored /\ db'.cases = db.cases /\ Len(db'.runs) = Len(db.runs) + 1
         /\ E!NewRun(db, seen, version) \in StoredRuns /\ RunsStored' /\ RunsGrow
<1> DEFINE N == Len(db.runs)
           run == E!NewRun(db, seen, version)
           runs == <<run>> \o db.runs
<1>1. db.runs \in Seq(StoredRuns) /\ N \in Nat /\ DOMAIN db.runs = 1..N
  BY DEF EvaluationStored
<1>2. run \in StoredRuns /\ run.id = N + 1 /\ run.stars = 0
  <2>1. run = [id |-> N + 1, tested |-> seen, version |-> version, stars |-> 0]
    BY DEF E!NewRun
  <2>2. N + 1 \in Nat
    BY <1>1
  <2> HIDE DEF run, N
  <2> QED BY <2>1, <2>2 DEF StoredRuns
<1> HIDE DEF run
<1>3. runs \in Seq(StoredRuns) /\ Len(runs) = N + 1 /\ DOMAIN runs = 1..(N + 1) /\ runs[1] = run
      /\ \A k \in 1..N : runs[k + 1] = db.runs[k]
  BY <1>1, <1>2, Prepended
<1>4. db' = [db EXCEPT !.runs = runs]
  BY DEF run
<1> HIDE DEF runs
<1>5. db' \in EvaluationStored /\ db'.cases = db.cases /\ db'.runs = runs
  BY <1>3, <1>4 DEF EvaluationStored
<1>6. \A k \in 1..(N + 1) : runs[k].id = N + 2 - k /\ (k > 1 => runs[k] = db.runs[k - 1])
  <2> TAKE k \in 1..(N + 1)
  <2>1. CASE k = 1
    BY <1>1, <1>2, <1>3, <2>1
  <2>2. CASE k # 1
    <3>1. k - 1 \in 1..N /\ (k - 1) + 1 = k
      BY <1>1, <2>2
    <3>2. runs[k] = db.runs[k - 1]
      BY <1>3, <3>1
    <3>3. db.runs[k - 1].id = N + 1 - (k - 1)
      BY <1>1, <3>1 DEF RunsStored
    <3> QED BY <1>1, <3>1, <3>2, <3>3
  <2> QED BY <2>1, <2>2
<1>7. RunsStored'
  <2>1. \A k \in DOMAIN runs : runs[k].id = Len(runs) + 1 - k
    <3>1. N + 2 = Len(runs) + 1
      BY <1>1, <1>3
    <3> QED BY <1>3, <1>6, <3>1
  <2>2. newest <= Len(runs)
    BY <1>1, <1>3 DEF RunsStored
  <2> QED BY <1>5, <2>1, <2>2 DEF RunsStored
<1>8. RunsGrow
  <2>1. ASSUME NEW id \in 1..N PROVE runs[(N + 1) + 1 - id] = db.runs[N + 1 - id]
    <3>1. (N + 1) + 1 - id \in 1..(N + 1) /\ (N + 1) + 1 - id > 1 /\ ((N + 1) + 1 - id) - 1 = N + 1 - id
      BY <1>1
    <3> QED BY <1>6, <3>1
  <2>2. Len(db'.runs) = N + 1 /\ N <= N + 1 /\ db'.runs = runs
    BY <1>1, <1>3, <1>5
  <2> HIDE DEF N
  <2>3. \A id \in 1..N : db'.runs[Len(db'.runs) + 1 - id] = db.runs[N + 1 - id]
    BY <2>1, <2>2
  <2> QED BY <2>2, <2>3 DEF RunsGrow, N
<1> QED BY <1>2, <1>3, <1>5, <1>7, <1>8 DEF run

LEMMA ServingRun ==
  ASSUME EvaluationInv, job # None, job.state = "sent", Apart, E!RunServed
  PROVE  EvaluationInv'
<1> DEFINE N == Len(db.runs)
<1>1. /\ job.kind = "run" /\ job.arg \in Nat /\ db \in EvaluationStored /\ E!Live \in Nat /\ newest \in Nat
      /\ evaluation \in EvaluationPages
  BY DEF E!RunServed, EvaluationInv, EvaluationTypes, RequestOK, Reads, EvaluationStored, E!Live
<1>2. PICK seen \in Nat, version \in Nat :
        LET run == E!NewRun(db, seen, version)
        IN db' = [db EXCEPT !.runs = <<run>> \o @] /\ E!Served(E!Described(run, db))
  <2>1. PICK seen \in job.arg..E!Live : \E version \in seen..E!Live :
           LET run == E!NewRun(db, seen, version)
           IN db' = [db EXCEPT !.runs = <<run>> \o @] /\ E!Served(E!Described(run, db))
    BY DEF E!RunServed
  <2>2. seen \in Nat /\ \A version \in seen..E!Live : version \in Nat
    BY <1>1
  <2> QED BY <2>1, <2>2
<1> DEFINE run == E!NewRun(db, seen, version)
<1>3. /\ db' \in EvaluationStored /\ db'.cases = db.cases /\ Len(db'.runs) = N + 1
      /\ run \in StoredRuns /\ RunsStored' /\ RunsGrow
  BY <1>1, <1>2, RunAdded DEF EvaluationInv, Apart
<1>4. run.id = N + 1 /\ run.stars = 0
  BY DEF E!NewRun
<1>5. PICK answer \in ShownRuns : E!Served(answer) /\ answer.id = N + 1 /\ answer.stars = 0
  BY <1>2, <1>3, <1>4, DescribedShown
<1>6. N \in Nat
  BY <1>1 DEF EvaluationStored
<1>7. Known(answer)'
  BY <1>3, <1>5, <1>6 DEF Known
<1>8. answer.id > newest /\ answer.id \notin Ids(evaluation.runs)
  <2>1. newest <= N
    BY DEF EvaluationInv, RunsStored
  <2>2. \A i \in DOMAIN evaluation.runs : evaluation.runs[i].id \in 1..N
    BY DEF EvaluationInv, RunsKnown, Known
  <2> QED BY <1>1, <1>5, <1>6, <2>1, <2>2 DEF Ids
<1>9. answer \in EvaluationAnswers /\ job.kind \notin CaseKinds
  BY <1>1 DEF EvaluationAnswers, CaseKinds
<1> QED BY <1>1, <1>3, <1>5, <1>7, <1>8, <1>9, RunsServed

(* A page of the history asked for after the runs shown leaves none out. *)
LEMMA HistoryReaches ==
  ASSUME db \in EvaluationStored, RunsStored, newest \in Nat, evaluation \in EvaluationPages, RunsKnown,
         NEW more, Reaches(Ids(evaluation.runs), more)
  PROVE  Reaches(Ids(evaluation.runs) \cup Ids(E!RunsFrom(Len(evaluation.runs))),
                 Len(E!RunsFrom(Len(evaluation.runs))) = HISTORY_PAGE_SIZE)
<1> DEFINE N == Len(db.runs)
           shown == evaluation.runs
           offset == Len(shown)
           list == E!RunsFrom(offset)
<1>1. N \in Nat /\ shown \in Seq(ShownRuns) /\ offset \in Nat /\ HISTORY_PAGE_SIZE \in Nat \ {0}
  BY EvaluationAssumption DEF EvaluationStored, EvaluationPages
<1>2. Ids(shown) \subseteq 1..N
  BY DEF RunsKnown, Known, Ids
<1>3. /\ list \in Seq(ShownRuns)
      /\ \A id \in Ids(list) : N - offset - HISTORY_PAGE_SIZE < id
      /\ \A id \in 1..(N - offset) : id \in Ids(list) \/ (Len(list) = HISTORY_PAGE_SIZE /\ id <= N - offset - HISTORY_PAGE_SIZE)
  <2> HIDE DEF list, offset, N
  <2>1. list = E!RunsFrom(offset) /\ N = Len(db.runs)
    BY DEF list, N
  <2> QED BY <1>1, <2>1, RunsRead
<1>4. Ids(list) \subseteq Nat
  <2>1. \A i \in DOMAIN list : list[i] \in ShownRuns
    BY <1>3
  <2>2. \A i \in DOMAIN list : list[i].id \in Nat
    BY <2>1 DEF ShownRuns
  <2> QED BY <2>2 DEF Ids
<1>5. ASSUME NEW old \in 1..newest, old \notin Ids(shown), old \notin Ids(list)
      PROVE  Len(list) = HISTORY_PAGE_SIZE /\ \A id \in Ids(shown) \cup Ids(list) : old < id
  <2>1. old \in Nat /\ old <= N
    BY <1>1 DEF RunsStored
  <2>2. \A id \in Ids(shown) : old < id
    BY <1>5 DEF Reaches
  <2>3. offset <= N - old
    <3>1. IsFiniteSet(Ids(shown)) /\ Cardinality(Ids(shown)) = offset
      <4>1. \A i, j \in DOMAIN shown : shown[i].id = shown[j].id => i = j
        BY DEF RunsKnown, Distinct
      <4> DEFINE f == [i \in 1..offset |-> shown[i].id]
      <4>2. f \in Bijection(1..offset, Ids(shown))
        <5>1. DOMAIN shown = 1..offset
          BY <1>1
        <5>2. Ids(shown) = {f[i] : i \in 1..offset}
          BY <5>1 DEF Ids
        <5>3. \A i, j \in 1..offset : f[i] = f[j] => i = j
          BY <4>1, <5>1
        <5>4. f \in [1..offset -> Ids(shown)]
          BY <5>2
        <5> HIDE DEF f, offset, shown
        <5> QED BY <5>2, <5>3, <5>4 DEF Bijection, Injection, Surjection, IsInjective
      <4>3. ExistsBijection(1..offset, Ids(shown))
        BY <4>2 DEF ExistsBijection
      <4> HIDE DEF offset, shown
      <4>4. IsFiniteSet(1..offset) /\ Cardinality(1..offset) = offset
        <5>1. PICK m \in Nat : m = offset
          BY <1>1
        <5>2. IsFiniteSet(1..m) /\ Cardinality(1..m) = m
          BY FS_Interval
        <5> QED BY <5>1, <5>2
      <4> QED BY <4>3, <4>4, FS_Bijection
    <3>2. Ids(shown) \subseteq (old + 1)..N
      BY <1>1, <1>2, <2>1, <2>2
    <3>3. IsFiniteSet((old + 1)..N) /\ Cardinality((old + 1)..N) = IF old + 1 > N THEN 0 ELSE N - (old + 1) + 1
      <4>1. PICK m \in Int, n \in Int : m = old + 1 /\ n = N
        BY <1>1, <2>1
      <4>2. IsFiniteSet(m..n) /\ Cardinality(m..n) = IF m > n THEN 0 ELSE n - m + 1
        BY FS_Interval
      <4> HIDE DEF N
      <4> QED BY <4>1, <4>2
    <3>4. Cardinality(Ids(shown)) <= Cardinality((old + 1)..N)
      BY <3>2, <3>3, FS_Subset
    <3> HIDE DEF offset, shown, N
    <3> QED BY <1>1, <2>1, <3>1, <3>3, <3>4
  <2>4. old \in 1..(N - offset)
    <3> HIDE DEF offset, N
    <3> QED BY <1>1, <2>1, <2>3
  <2>5. Len(list) = HISTORY_PAGE_SIZE /\ old <= N - offset - HISTORY_PAGE_SIZE
    BY <1>3, <1>5, <2>4
  <2>6. \A id \in Ids(list) : old < id
    <3> HIDE DEF list, offset, N
    <3> QED BY <1>1, <1>3, <1>4, <2>1, <2>5
  <2> QED BY <2>2, <2>5, <2>6
<1> HIDE DEF list, shown
<1>6. Reaches(Ids(shown) \cup Ids(list), Len(list) = HISTORY_PAGE_SIZE)
  BY <1>5 DEF Reaches
<1> QED BY <1>6 DEF list, shown

LEMMA ServingRead ==
  ASSUME EvaluationInv, job # None, job.state = "sent", Apart, E!ReadServed
  PROVE  EvaluationInv'
<1>1. db \in EvaluationStored /\ db' = db /\ newest \in Nat /\ evaluation \in EvaluationPages /\ evaluation.loaded = TRUE
  BY DEF E!ReadServed, EvaluationInv, EvaluationTypes, RequestOK
<1>2. db' \in EvaluationStored /\ db'.cases = db.cases /\ RunsStored' /\ RunsGrow
  BY <1>1, RunsSame DEF EvaluationInv, Apart
<1>3. CASE job.kind = "history" /\ E!Served(E!RunsFrom(job.arg))
  <2>1. job.arg = Len(evaluation.runs) /\ Len(evaluation.runs) \in Nat
    BY <1>1, <1>3 DEF EvaluationInv, EvaluationTypes, RequestOK, EvaluationPages
  <2>2. PICK answer : answer = E!RunsFrom(Len(evaluation.runs))
    OBVIOUS
  <2>3. /\ answer \in Seq(ShownRuns) /\ Distinct(answer) /\ \A i \in DOMAIN answer : Known(answer[i])
    BY <1>1, <2>1, <2>2, RunsRead DEF EvaluationInv
  <2>4. \A run : Known(run) => Known(run)'
    BY <1>1, <1>2, KnownStays
  <2>5. Reaches(Ids(evaluation.runs) \cup Ids(answer), Len(answer) = HISTORY_PAGE_SIZE)
    <3>1. Reaches(Ids(evaluation.runs), evaluation.hasMore = TRUE)
      BY <1>1 DEF EvaluationInv, RunsReach
    <3> QED BY <1>1, <2>2, <3>1, HistoryReaches DEF EvaluationInv
  <2>6. answer \in EvaluationAnswers /\ job.kind \notin CaseKinds /\ E!Served(answer)
    BY <1>3, <2>1, <2>2, <2>3 DEF EvaluationAnswers, CaseKinds
  <2> QED BY <1>2, <1>3, <2>3, <2>4, <2>5, <2>6, RunsServed
<1>4. CASE job.kind = "refresh" /\ E!Served(E!Live)
  <2>1. E!Live \in Nat
    BY <1>1 DEF EvaluationStored, E!Live
  <2>2. E!Live \in EvaluationAnswers /\ job.kind \notin CaseKinds
    BY <1>4, <2>1 DEF EvaluationAnswers, CaseKinds
  <2> QED BY <1>2, <1>4, <2>1, <2>2, RunsServed
<1>5. CASE job.kind = "generate" /\ E!Served(Suggestions)
  <2>1. Suggestions \in Seq(Contents)
    BY EvaluationAssumption
  <2>2. Suggestions \in EvaluationAnswers /\ job.kind \notin CaseKinds
    BY <1>5, <2>1 DEF EvaluationAnswers, CaseKinds
  <2> QED BY <1>2, <1>5, <2>1, <2>2, RunsServed
<1>6. CASE job.kind = "export" /\ E!Served(None)
  <2>1. None \in EvaluationAnswers /\ job.kind \notin CaseKinds
    BY <1>6 DEF EvaluationAnswers, CaseKinds
  <2> QED BY <1>2, <1>6, <2>1, RunsServed
<1> QED BY <1>3, <1>4, <1>5, <1>6 DEF E!ReadServed

LEMMA ServingAny == ASSUME EvaluationInv, E!JobServed PROVE EvaluationInv'
<1>1. job # None /\ job.state = "sent" /\ Apart
  BY DEF E!JobServed, Apart
<1>2. E!EditServed \/ E!AddServed \/ E!DeleteServed \/ E!RateServed \/ E!RunServed \/ E!ReadServed
  BY DEF E!JobServed
<1> QED BY <1>1, <1>2, ServingEdit, ServingAdd, ServingDelete, ServingRate, ServingRun, ServingRead

-----------------------------------------------------------------------------
(* The page applies what became of the runs *)

LEMMA RunsApplied ==
  ASSUME EvaluationInv, Waiting(RunKinds), UNCHANGED <<db, store, check, kept, rechecked, newest, outside>>,
         evaluation' \in EvaluationPages, evaluation'.cases = evaluation.cases,
         evaluation'.proposals = evaluation.proposals, evaluation'.editing = evaluation.editing,
         evaluation'.loaded = evaluation.loaded, evaluation'.config = evaluation.config,
         evaluation'.failed = evaluation.failed, evaluation'.rejected = evaluation.rejected,
         \/ job' = None
         \/ job' \in Jobs /\ job' # None /\ job'.kind = "refresh" /\ job'.state = "sent" /\ job'.arg \in Nat,
         Distinct(evaluation'.runs), \A i \in DOMAIN evaluation'.runs : Known(evaluation'.runs[i]),
         Reaches(Ids(evaluation'.runs), evaluation'.hasMore = TRUE)
  PROVE  EvaluationInv'
<1>1. evaluation.loaded = TRUE /\ ~Waiting(CaseKinds) /\ ~Waiting(CaseKinds)'
  BY DEF EvaluationInv, EvaluationTypes, RequestOK, Waiting, CaseKinds, RunKinds
<1>2. EvaluationTypes'
  <2>1. job' # None => RequestOK'
    BY <1>1 DEF RequestOK, E!Billed, Reads
  <2> QED BY <2>1 DEF EvaluationInv, EvaluationTypes
<1>3. PaidWhenAllowed'
  BY PaidStays DEF EvaluationInv, E!Billed
<1>4. SuggestionsHeld'
  BY SuggestionsStay DEF EvaluationInv
<1>5. CasesStored' /\ CasesAgree'
  BY <1>1, CasesStay DEF EvaluationInv
<1>6. RunsStored'
  BY DEF EvaluationInv, RunsStored
<1>7. ~Pending("rate")' /\ ~Pending("run")' /\ ~Pending("history")'
  BY DEF Pending
<1>8. RunsKnown'
  <2>1. \A i : Known(evaluation.runs[i])' <=> Known(evaluation'.runs[i])
    BY DEF Known
  <2>2. Distinct(evaluation.runs)' <=> Distinct(evaluation'.runs)
    BY DEF Distinct
  <2> QED BY <1>7, <2>1, <2>2 DEF RunsKnown
<1>9. RunsReach'
  <2>1. Reaches(Ids(evaluation.runs), evaluation.hasMore = TRUE)' <=>
          Reaches(Ids(evaluation'.runs), evaluation'.hasMore = TRUE)
    BY DEF Reaches, Ids
  <2> QED BY <1>7, <2>1 DEF RunsReach
<1> QED BY <1>2, <1>3, <1>4, <1>5, <1>6, <1>8, <1>9 DEF EvaluationInv

LEMMA RateAnswering == ASSUME EvaluationInv, E!RateAnswer PROVE EvaluationInv'
<1>1. /\ job # None /\ job.state = "ok" /\ job.kind = "rate" /\ job' = None
      /\ evaluation' = [evaluation EXCEPT !.runs = E!WithRun(@, job.answer)]
      /\ UNCHANGED <<db, store, check, kept, rechecked, newest, outside>>
  BY DEF E!RateAnswer, E!Answered
<1>2. evaluation \in EvaluationPages /\ job.answer \in ShownRuns /\ evaluation.loaded = TRUE
  BY <1>1 DEF EvaluationInv, EvaluationTypes, RequestOK, AnswerOK
<1>3. PICK rated \in ShownRuns : rated = job.answer
  BY <1>2
<1> DEFINE shown == evaluation.runs
           runs == E!WithRun(shown, rated)
<1>4. shown \in Seq(ShownRuns)
  BY <1>2 DEF EvaluationPages
<1>5. /\ runs \in Seq(ShownRuns) /\ DOMAIN runs = DOMAIN shown
      /\ \A i \in DOMAIN shown : runs[i] = (IF shown[i].id = rated.id THEN rated ELSE shown[i]) /\ runs[i].id = shown[i].id
  <2>1. runs = [i \in DOMAIN shown |-> IF shown[i].id = rated.id THEN rated ELSE shown[i]]
    BY DEF E!WithRun
  <2> HIDE DEF shown, runs
  <2>2. DOMAIN shown = 1..Len(shown) /\ Len(shown) \in Nat /\ \A i \in DOMAIN shown : shown[i] \in ShownRuns
    BY <1>4
  <2>3. \A i \in DOMAIN shown : (IF shown[i].id = rated.id THEN rated ELSE shown[i]) \in ShownRuns
    BY <2>2
  <2>4. runs \in [1..Len(shown) -> ShownRuns]
    BY <2>1, <2>2, <2>3
  <2> QED BY <2>1, <2>2, <2>4
<1>6. evaluation' = [evaluation EXCEPT !.runs = runs]
  BY <1>1, <1>3
<1> HIDE DEF runs
<1>7. /\ evaluation' \in EvaluationPages /\ evaluation'.cases = evaluation.cases
      /\ evaluation'.proposals = evaluation.proposals /\ evaluation'.editing = evaluation.editing
      /\ evaluation'.loaded = evaluation.loaded /\ evaluation'.config = evaluation.config
      /\ evaluation'.failed = evaluation.failed /\ evaluation'.rejected = evaluation.rejected
      /\ evaluation'.hasMore = evaluation.hasMore /\ evaluation'.runs = runs
  BY <1>2, <1>5, <1>6 DEF EvaluationPages
<1>8. Distinct(runs) /\ \A i \in DOMAIN runs : Known(runs[i])
  <2>1. Distinct(runs)
    BY <1>5 DEF EvaluationInv, RunsKnown, Distinct
  <2>2. Known(rated)
    BY <1>1, <1>3 DEF EvaluationInv, RunsKnown, Pending
  <2>3. \A i \in DOMAIN runs : runs[i] = rated \/ runs[i] = shown[i]
    BY <1>5
  <2>4. \A i \in DOMAIN shown : Known(shown[i])
    BY DEF EvaluationInv, RunsKnown
  <2> HIDE DEF shown, Known
  <2>5. ASSUME NEW i \in DOMAIN runs PROVE Known(runs[i])
    <3>1. CASE runs[i] = rated
      BY <2>2, <3>1
    <3>2. CASE runs[i] = shown[i]
      BY <1>5, <2>4, <3>2
    <3> QED BY <2>3, <3>1, <3>2
  <2> QED BY <2>1, <2>5
<1>9. Reaches(Ids(runs), evaluation'.hasMore = TRUE)
  <2>1. Ids(runs) = Ids(shown)
    BY <1>5 DEF Ids
  <2> QED BY <1>2, <1>7, <2>1 DEF EvaluationInv, RunsReach
<1>10. Waiting(RunKinds)
  BY <1>1 DEF Waiting, RunKinds
<1> QED BY <1>1, <1>7, <1>8, <1>9, <1>10, RunsApplied

LEMMA HistoryAnswering == ASSUME EvaluationInv, E!HistoryAnswer PROVE EvaluationInv'
<1>1. /\ job # None /\ job.state = "ok" /\ job.kind = "history" /\ job' = None
      /\ evaluation' = [evaluation EXCEPT !.runs = @ \o E!Fresh(job.answer, @),
                                          !.hasMore = Len(job.answer) = HISTORY_PAGE_SIZE]
      /\ UNCHANGED <<db, store, check, kept, rechecked, newest, outside>>
  BY DEF E!HistoryAnswer, E!Answered
<1>2. evaluation \in EvaluationPages /\ job.answer \in Seq(ShownRuns)
  BY <1>1 DEF EvaluationInv, EvaluationTypes, AnswerOK
<1>3. PICK older \in Seq(ShownRuns) : older = job.answer
  BY <1>2
<1> DEFINE shown == evaluation.runs
           places == {i \in DOMAIN older : \A j \in DOMAIN shown : shown[j].id # older[i].id}
<1>4. shown \in Seq(ShownRuns) /\ Distinct(shown) /\ \A i \in DOMAIN shown : Known(shown[i])
  BY <1>2 DEF EvaluationPages, EvaluationInv, RunsKnown
<1>5. Distinct(older) /\ \A i \in DOMAIN older : Known(older[i])
  BY <1>1, <1>3 DEF EvaluationInv, RunsKnown, Pending
<1>6. PICK fresh \in Seq(ShownRuns) :
        /\ fresh = E!Fresh(older, shown) /\ RowsOf(fresh) = {older[i] : i \in places} /\ Distinct(fresh)
  <2>1. E!Fresh(older, shown) = E!Where(older, places)
    BY DEF E!Fresh
  <2>2. places \in SUBSET (DOMAIN older)
    OBVIOUS
  <2> HIDE DEF places
  <2> QED BY <1>5, <2>1, <2>2, WhereKeeps
<1>7. Ids(shown) \cap Ids(fresh) = {} /\ Ids(shown) \cup Ids(fresh) = Ids(shown) \cup Ids(older)
  <2>1. Ids(fresh) = {older[i].id : i \in places}
    <3>1. Ids(fresh) = {r.id : r \in RowsOf(fresh)}
      BY DEF Ids, RowsOf
    <3> QED BY <1>6, <3>1
  <2>2. \A i \in places : older[i].id \notin Ids(shown)
    BY DEF Ids
  <2>3. \A i \in DOMAIN older : older[i].id \in Ids(shown) \/ i \in places
    BY DEF Ids
  <2>4. Ids(older) = {older[i].id : i \in DOMAIN older} /\ places \subseteq DOMAIN older
    BY DEF Ids
  <2> HIDE DEF places, shown
  <2> QED BY <2>1, <2>2, <2>3, <2>4
<1>8. \A i \in DOMAIN fresh : Known(fresh[i])
  <2>1. \A i \in DOMAIN fresh : \E k \in DOMAIN older : fresh[i] = older[k]
    <3>1. \A i \in DOMAIN fresh : fresh[i] \in RowsOf(fresh)
      BY DEF RowsOf
    <3> QED BY <1>6, <3>1
  <2> HIDE DEF Known
  <2> QED BY <1>5, <2>1
<1>9. PICK runs \in Seq(ShownRuns) :
        /\ runs = shown \o fresh /\ RowsOf(runs) = RowsOf(shown) \cup RowsOf(fresh) /\ Distinct(runs)
  <2> HIDE DEF shown, places
  <2> QED BY <1>4, <1>6, <1>7, Joined
<1>10. Ids(runs) = Ids(shown) \cup Ids(older)
  <2>1. \A list : Ids(list) = {r.id : r \in RowsOf(list)}
    BY DEF Ids, RowsOf
  <2>2. Ids(runs) = {r.id : r \in RowsOf(shown)} \cup {r.id : r \in RowsOf(fresh)}
    BY <1>9, <2>1
  <2> HIDE DEF shown
  <2> QED BY <1>7, <2>1, <2>2
<1>11. \A i \in DOMAIN runs : Known(runs[i])
  <2>1. \A i \in DOMAIN runs : runs[i] \in RowsOf(shown) \cup RowsOf(fresh)
    <3>1. \A i \in DOMAIN runs : runs[i] \in RowsOf(runs)
      BY DEF RowsOf
    <3> QED BY <1>9, <3>1
  <2>2. (\A r \in RowsOf(shown) : Known(r)) /\ \A r \in RowsOf(fresh) : Known(r)
    <3> HIDE DEF Known, shown
    <3> QED BY <1>4, <1>8 DEF RowsOf
  <2> HIDE DEF Known, shown
  <2> QED BY <2>1, <2>2
<1>12. PICK more \in BOOLEAN : more = (Len(older) = HISTORY_PAGE_SIZE)
  OBVIOUS
<1>13. evaluation' = [evaluation EXCEPT !.runs = runs, !.hasMore = more]
  BY <1>1, <1>3, <1>6, <1>9, <1>12
<1>14. /\ evaluation' \in EvaluationPages /\ evaluation'.cases = evaluation.cases
      /\ evaluation'.proposals = evaluation.proposals /\ evaluation'.editing = evaluation.editing
      /\ evaluation'.loaded = evaluation.loaded /\ evaluation'.config = evaluation.config
      /\ evaluation'.failed = evaluation.failed /\ evaluation'.rejected = evaluation.rejected
      /\ evaluation'.hasMore = more /\ evaluation'.runs = runs
  BY <1>2, <1>13 DEF EvaluationPages
<1>15. Reaches(Ids(runs), evaluation'.hasMore = TRUE)
  <2>1. Reaches(Ids(shown) \cup Ids(older), Len(older) = HISTORY_PAGE_SIZE)
    BY <1>1, <1>3 DEF EvaluationInv, RunsReach, Pending
  <2>2. (evaluation'.hasMore = TRUE) = (Len(older) = HISTORY_PAGE_SIZE)
    BY <1>12, <1>14
  <2> HIDE DEF shown
  <2> QED BY <1>10, <2>1, <2>2
<1>16. Waiting(RunKinds)
  BY <1>1 DEF Waiting, RunKinds
<1> QED BY <1>1, <1>9, <1>11, <1>14, <1>15, <1>16, RunsApplied

LEMMA RunAnswering == ASSUME EvaluationInv, E!RunAnswer PROVE EvaluationInv'
<1>1. /\ job # None /\ job.state = "ok" /\ job.kind = "run"
      /\ evaluation' = [evaluation EXCEPT !.runs = <<job.answer>> \o @, !.selected = job.answer.id, !.view = "runs",
                                          !.version = job.answer.version]
      /\ E!Ask("refresh", job.answer.version)
      /\ UNCHANGED <<db, store, check, kept, rechecked, newest, outside>>
  BY DEF E!RunAnswer, E!Answered
<1>2. evaluation \in EvaluationPages /\ job.answer \in ShownRuns /\ evaluation.loaded = TRUE
  BY <1>1 DEF EvaluationInv, EvaluationTypes, RequestOK, AnswerOK
<1>3. PICK run \in ShownRuns : run = job.answer
  BY <1>2
<1>4. run.id \in Nat /\ run.version \in Nat
  BY DEF ShownRuns
<1> DEFINE shown == evaluation.runs
           runs == <<run>> \o shown
           n == Len(shown)
<1>5. shown \in Seq(ShownRuns) /\ n \in Nat /\ DOMAIN shown = 1..n
  BY <1>2 DEF EvaluationPages
<1>6. /\ runs \in Seq(ShownRuns) /\ DOMAIN runs = 1..(n + 1)
      /\ runs[1] = run /\ \A k \in 1..n : runs[k + 1] = shown[k]
  <2> HIDE DEF shown
  <2> QED BY <1>5, Prepended
<1>7. evaluation' = [evaluation EXCEPT !.runs = runs, !.selected = run.id, !.view = "runs", !.version = run.version]
  BY <1>1, <1>3
<1>8. job' \in Jobs /\ job' # None /\ job'.kind = "refresh" /\ job'.state = "sent" /\ job'.arg \in Nat
  <2>1. E!Ask("refresh", run.version)
    BY <1>1, <1>3
  <2>2. "refresh" \in EvaluationKinds /\ run.version \in Arguments
    BY <1>4 DEF EvaluationKinds, Arguments
  <2> QED BY <1>4, <2>1, <2>2, Asked
<1> HIDE DEF runs
<1>9. /\ evaluation' \in EvaluationPages /\ evaluation'.cases = evaluation.cases
      /\ evaluation'.proposals = evaluation.proposals /\ evaluation'.editing = evaluation.editing
      /\ evaluation'.loaded = evaluation.loaded /\ evaluation'.config = evaluation.config
      /\ evaluation'.failed = evaluation.failed /\ evaluation'.rejected = evaluation.rejected
      /\ evaluation'.hasMore = evaluation.hasMore /\ evaluation'.runs = runs
  BY <1>2, <1>4, <1>6, <1>7 DEF EvaluationPages
<1>10. \A k \in 1..(n + 1) : k = 1 \/ (k - 1 \in 1..n /\ runs[k] = shown[k - 1])
  <2> TAKE k \in 1..(n + 1)
  <2>1. k = 1 \/ (k - 1 \in 1..n /\ (k - 1) + 1 = k)
    BY <1>5
  <2> QED BY <1>6, <2>1
<1>11. Known(run) /\ run.id > newest /\ run.id \notin Ids(shown)
  BY <1>1, <1>3 DEF EvaluationInv, RunsKnown, Pending
<1>12. Distinct(shown) /\ \A i \in DOMAIN shown : Known(shown[i])
  BY DEF EvaluationInv, RunsKnown
<1> HIDE DEF shown, n
<1>13. Distinct(runs)
  <2>1. SUFFICES ASSUME NEW i \in 1..(n + 1), NEW j \in 1..(n + 1), runs[i].id = runs[j].id PROVE i = j
    BY <1>6 DEF Distinct
  <2>2. \A k \in 1..n : shown[k].id # run.id
    BY <1>5, <1>11 DEF Ids
  <2>3. CASE i = 1 \/ j = 1
    BY <1>6, <1>10, <2>1, <2>2, <2>3
  <2>4. CASE i # 1 /\ j # 1
    <3>1. i - 1 \in 1..n /\ j - 1 \in 1..n /\ shown[i - 1].id = shown[j - 1].id
      BY <1>10, <2>1, <2>4
    <3>2. i - 1 = j - 1
      BY <1>5, <1>12, <3>1 DEF Distinct
    <3> QED BY <1>5, <3>2
  <2> QED BY <2>3, <2>4
<1>14. \A i \in DOMAIN runs : Known(runs[i])
  <2> HIDE DEF Known
  <2>1. ASSUME NEW i \in 1..(n + 1) PROVE Known(runs[i])
    <3>1. CASE i = 1
      BY <1>6, <1>11, <3>1
    <3>2. CASE i # 1
      BY <1>5, <1>10, <1>12, <3>2
    <3> QED BY <3>1, <3>2
  <2> QED BY <1>6, <2>1
<1>15. Reaches(Ids(runs), evaluation'.hasMore = TRUE)
  <2>1. Reaches(Ids(shown), evaluation.hasMore = TRUE) /\ newest \in Nat
    BY <1>2 DEF EvaluationInv, EvaluationTypes, RunsReach, shown
  <2>2. Ids(runs) \subseteq {run.id} \cup Ids(shown)
    <3>1. \A k \in 1..(n + 1) : runs[k].id \in {run.id} \cup Ids(shown)
      BY <1>5, <1>6, <1>10 DEF Ids
    <3> QED BY <1>6, <3>1 DEF Ids
  <2>3. Ids(shown) \subseteq Ids(runs)
    <3>1. \A k \in 1..n : k + 1 \in 1..(n + 1)
      BY <1>5
    <3> QED BY <1>5, <1>6, <3>1 DEF Ids
  <2>4. \A old \in 1..newest : old < run.id
    BY <1>4, <1>11, <2>1
  <2> QED BY <1>9, <2>1, <2>2, <2>3, <2>4 DEF Reaches
<1>16. Waiting(RunKinds)
  BY <1>1 DEF Waiting, RunKinds
<1> QED BY <1>1, <1>8, <1>9, <1>13, <1>14, <1>15, <1>16, RunsApplied

-----------------------------------------------------------------------------
(* Other tabs *)

LEMMA ElsewhereHolds ==
  ASSUME EvaluationInv, UNCHANGED <<store, evaluation, job, check, kept, rechecked, newest>>,
         db' \in EvaluationStored, outside' \in BOOLEAN, CasesStored', CasesAgree', RunsStored', RunsGrow
  PROVE  EvaluationInv'
<1>1. EvaluationTypes'
  BY DEF EvaluationInv, EvaluationTypes, RequestOK, AnswerOK
<1>2. PaidWhenAllowed' /\ SuggestionsHeld'
  BY PaidStays, SuggestionsStay DEF EvaluationInv
<1>3. RunsKnown' /\ RunsReach'
  BY RunsStay DEF EvaluationInv, EvaluationTypes
<1> QED BY <1>1, <1>2, <1>3 DEF EvaluationInv

LEMMA ElsewhereAny == ASSUME EvaluationInv, E!Elsewhere PROVE EvaluationInv'
<1>1. /\ db \in EvaluationStored /\ newest \in Nat /\ outside \in BOOLEAN
      /\ UNCHANGED <<store, evaluation, job, check, kept, rechecked, newest>>
  BY DEF EvaluationInv, EvaluationTypes, E!Elsewhere
<1>2. ASSUME db' \in EvaluationStored, db'.cases = db.cases, UNCHANGED outside, RunsStored', RunsGrow
      PROVE  EvaluationInv'
  <2>1. CasesStored' /\ CasesAgree'
    BY <1>1, <1>2, CasesStay DEF EvaluationInv
  <2> QED BY <1>1, <1>2, <2>1, ElsewhereHolds
<1>3. ASSUME NEW text \in PromptTexts, db' = [db EXCEPT !.texts = Append(@, text)], UNCHANGED outside
      PROVE  EvaluationInv'
  <2>1. PICK all \in Seq(PromptTexts) : all = Append(db.texts, text)
    <3>1. db.texts \in Seq(PromptTexts)
      BY <1>1 DEF EvaluationStored
    <3>2. \A a \in Seq(PromptTexts), b \in PromptTexts : Append(a, b) \in Seq(PromptTexts)
      OBVIOUS
    <3>3. Append(db.texts, text) \in Seq(PromptTexts)
      BY <3>1, <3>2, Zenon
    <3> QED BY <3>3
  <2>2. db' = [db EXCEPT !.texts = all]
    BY <1>3, <2>1
  <2>3. db' \in EvaluationStored /\ db'.cases = db.cases /\ db'.runs = db.runs
    BY <1>1, <2>2 DEF EvaluationStored
  <2>4. RunsStored' /\ RunsGrow
    BY <1>1, <2>3, RunsSame DEF EvaluationInv
  <2> QED BY <1>2, <1>3, <2>3, <2>4
<1>4. ASSUME db' = [db EXCEPT !.runs = <<E!NewRun(db, E!Live, E!Live)>> \o @], UNCHANGED outside
      PROVE  EvaluationInv'
  <2>1. PICK live \in Nat : live = E!Live
    BY <1>1 DEF EvaluationStored, E!Live
  <2>2. db' = [db EXCEPT !.runs = <<E!NewRun(db, live, live)>> \o @]
    BY <1>4, <2>1
  <2>3. db' \in EvaluationStored /\ db'.cases = db.cases /\ RunsStored' /\ RunsGrow
    BY <1>1, <2>2, RunAdded DEF EvaluationInv
  <2> QED BY <1>2, <1>4, <2>3
<1>5. ASSUME NEW i \in DOMAIN db.runs, db.runs[i].stars = 0, db' = [db EXCEPT !.runs[i].stars = 1], UNCHANGED outside
      PROVE  EvaluationInv'
  <2>1. db' \in EvaluationStored /\ db'.cases = db.cases /\ RunsStored' /\ RunsGrow
    <3>1. PICK stars \in Nat : stars = 1
      OBVIOUS
    <3>2. db' = [db EXCEPT !.runs[i].stars = stars]
      BY <1>5, <3>1
    <3> QED BY <1>1, <1>5, <3>2, RunRated DEF EvaluationInv
  <2> QED BY <1>2, <1>5, <2>1
<1>6. ASSUME db.cases.list # <<>>, db' = [db EXCEPT !.cases.list = Tail(@)], outside' = TRUE
      PROVE  EvaluationInv'
  <2> DEFINE list == db.cases.list
             rest == Tail(list)
  <2>1. list \in Seq(CaseRecords) /\ list # <<>>
    BY <1>1, <1>6 DEF EvaluationStored
  <2>2. /\ rest \in Seq(CaseRecords) /\ Len(rest) \in Nat /\ Len(rest) + 1 = Len(list)
        /\ DOMAIN rest = 1..Len(rest) /\ DOMAIN list = 1..Len(list)
        /\ \A k \in 1..Len(rest) : rest[k] = list[k + 1] /\ k + 1 \in 1..Len(list)
    <3>1. \A s \in Seq(CaseRecords) : s # <<>> =>
            /\ Tail(s) \in Seq(CaseRecords) /\ Len(Tail(s)) = Len(s) - 1 /\ Len(s) \in Nat
            /\ \A k \in 1..(Len(s) - 1) : Tail(s)[k] = s[k + 1]
      OBVIOUS
    <3>2. /\ rest \in Seq(CaseRecords) /\ Len(rest) = Len(list) - 1 /\ Len(list) \in Nat
          /\ \A k \in 1..(Len(list) - 1) : rest[k] = list[k + 1]
      BY <2>1, <3>1, Zenon
    <3> HIDE DEF list, rest
    <3> QED BY <2>1, <3>2
  <2> HIDE DEF rest
  <2>3. db' = [db EXCEPT !.cases = [@ EXCEPT !.list = rest]]
    BY <1>6 DEF rest
  <2>4. db' \in EvaluationStored /\ db'.runs = db.runs /\ db'.cases.list = rest /\ db'.cases.next = db.cases.next
    BY <1>1, <2>2, <2>3 DEF EvaluationStored
  <2>5. RunsStored' /\ RunsGrow
    BY <1>1, <2>4, RunsSame DEF EvaluationInv
  <2>6. CasesStored'
    <3>1. Distinct(list) /\ Len(list) <= CASE_LIMIT /\ \A k \in DOMAIN list : list[k].id < db.cases.next
      BY DEF EvaluationInv, CasesStored
    <3>2. CASE_LIMIT \in Nat
      BY EvaluationAssumption
    <3> HIDE DEF list
    <3>3. Distinct(rest)
      <4>1. \A k, l \in 1..Len(rest) : k + 1 = l + 1 => k = l
        BY <2>2
      <4> QED BY <2>2, <3>1, <4>1 DEF Distinct
    <3>4. Len(rest) <= CASE_LIMIT
      BY <2>2, <3>1, <3>2
    <3>5. \A k \in DOMAIN rest : rest[k].id < db.cases.next
      BY <2>2, <3>1
    <3>6. Distinct(db.cases.list)' <=> Distinct(rest)
      BY <2>4 DEF Distinct
    <3> HIDE DEF Distinct
    <3> QED BY <2>4, <3>3, <3>4, <3>5, <3>6 DEF CasesStored
  <2>7. CasesAgree'
    BY <1>6 DEF CasesAgree
  <2> QED BY <1>1, <1>6, <2>4, <2>5, <2>6, <2>7, ElsewhereHolds
<1> QED BY <1>3, <1>4, <1>5, <1>6 DEF E!Elsewhere

-----------------------------------------------------------------------------
(* Every step *)

LEMMA EvaluationStep == EvaluationInv /\ E!Next => EvaluationInv'
<1> SUFFICES ASSUME EvaluationInv, E!Next PROVE EvaluationInv'
  OBVIOUS
<1>1. ASSUME E!Answers PROVE EvaluationInv'
  BY <1>1, Loading, Checking, ServingAny, SaveAnswering, DeleteAnswering, ImportAnswering, LightAnswers,
     RunAnswering, HistoryAnswering, RateAnswering DEF E!Answers
<1>2. ASSUME E!JobFails \/ E!Reload \/ E!RetryConfig \/ E!Elsewhere \/ E!Discard PROVE EvaluationInv'
  BY <1>2, Failing, Reloading, Checking, ElsewhereAny, Discarding
<1>3. ASSUME \/ E!AddCase \/ E!CancelEdit \/ E!CancelDelete \/ E!OpenImport
             \/ \E i \in 1..CASE_LIMIT : E!EditCase(i) \/ E!AskDelete(i)
             \/ \E index \in DOMAIN Suggestions : E!ReviewSuggestion(index)
             \/ \E shown \in BOOLEAN : E!Suggest(shown)
             \/ \E view \in {"cases", "runs"} : E!SetView(view)
      PROVE  EvaluationInv'
  BY <1>3, ShowingActions
<1>4. ASSUME E!SaveCase \/ E!DeleteCase \/ E!ExportCsv \/ E!Generate \/ E!RunEvaluation \/ E!LoadOlderRuns
      PROVE  EvaluationInv'
  BY <1>4, AskingActions
<1>5. ASSUME NEW contents \in {<<>>, <<"csv">>, <<"csv", "lacking">>}, E!ImportCsv(contents) PROVE EvaluationInv'
  <2>1. CASE contents = <<>>
    BY <1>5, <2>1, ShowingActions
  <2>2. CASE contents \in {<<"csv">>, <<"csv", "lacking">>}
    BY <1>5, <2>2, AskingActions
  <2> QED BY <2>1, <2>2
<1>6. ASSUME NEW i \in DOMAIN evaluation.runs, E!Select(i) \/ \E stars \in {2} : E!Rate(i, stars) PROVE EvaluationInv'
  <2>1. CASE E!Select(i)
    BY <2>1, ShowingActions
  <2>2. CASE E!Rate(i, 2)
    BY <2>2, AskingActions
  <2> QED BY <1>6, <2>1, <2>2
<1> QED BY <1>1, <1>2, <1>3, <1>4, <1>5, <1>6, Zenon DEF E!Next

LEMMA EvaluationStutters == EvaluationInv /\ UNCHANGED evaluations => EvaluationInv'
<1> SUFFICES ASSUME EvaluationInv, UNCHANGED evaluations PROVE EvaluationInv'
  OBVIOUS
<1>1. UNCHANGED <<db, store, evaluation, job, check, kept, rechecked, newest, outside>>
  BY DEF evaluations
<1>2. db' \in EvaluationStored /\ outside' \in BOOLEAN
  BY <1>1 DEF EvaluationInv, EvaluationTypes
<1>3. CasesStored' /\ CasesAgree'
  BY <1>1, CasesStay DEF EvaluationInv
<1>4. RunsStored' /\ RunsGrow
  BY <1>1, RunsSame DEF EvaluationInv, EvaluationTypes
<1> QED BY <1>1, <1>2, <1>3, <1>4, ElsewhereHolds

-----------------------------------------------------------------------------
(* What the page promises *)

LEMMA CasesShownHold == EvaluationInv => E!CasesShown
<1> SUFFICES ASSUME EvaluationInv, evaluation.loaded = TRUE, job = None, outside = FALSE
             PROVE  /\ Len(evaluation.cases) = Len(db.cases.list)
                    /\ E!Range(evaluation.cases) = E!Range(db.cases.list)
  BY DEF E!CasesShown, EvaluationInv, EvaluationTypes, EvaluationPages
<1>1. evaluation.cases \in Seq(CaseRecords) /\ db.cases.list \in Seq(CaseRecords)
  BY DEF EvaluationInv, EvaluationTypes, EvaluationPages, EvaluationStored
<1>2. CasesToCome = evaluation.cases
  BY DEF CasesToCome, Pending
<1>3. /\ Distinct(evaluation.cases) /\ RowsOf(evaluation.cases) = RowsOf(db.cases.list)
      /\ Distinct(db.cases.list)
  BY <1>2 DEF EvaluationInv, CasesAgree, CasesStored
<1>4. Cardinality(RowsOf(evaluation.cases)) = Len(evaluation.cases)
  BY <1>1, <1>3, DistinctRows
<1>5. Cardinality(RowsOf(db.cases.list)) = Len(db.cases.list)
  BY <1>1, <1>3, DistinctRows
<1> QED BY <1>3, <1>4, <1>5 DEF RowsOf, E!Range

LEMMA HistoryHolds == EvaluationInv => E!HistoryComplete
<1> SUFFICES ASSUME EvaluationInv, evaluation.loaded = TRUE
             PROVE  /\ E!Cardinality(Ids(evaluation.runs)) = Len(evaluation.runs)
                    /\ \A old \in 1..newest :
                         \/ old \in Ids(evaluation.runs)
                         \/ evaluation.hasMore /\ \A r \in Ids(evaluation.runs) : old < r
  BY DEF E!HistoryComplete, Ids, EvaluationInv, EvaluationTypes, EvaluationPages
<1> DEFINE shown == evaluation.runs
           n == Len(shown)
<1>1. shown \in Seq(ShownRuns) /\ Distinct(shown) /\ n \in Nat /\ DOMAIN shown = 1..n
  BY DEF EvaluationInv, EvaluationTypes, EvaluationPages, RunsKnown
<1>2. Cardinality(Ids(shown)) = n
  <2> DEFINE f == [i \in 1..n |-> shown[i].id]
  <2>1. f \in Bijection(1..n, Ids(shown))
    BY <1>1 DEF Bijection, Injection, Surjection, IsInjective, Ids, Distinct
  <2>2. ExistsBijection(1..n, Ids(shown))
    BY <2>1 DEF ExistsBijection
  <2> HIDE DEF n, shown
  <2>3. IsFiniteSet(1..n) /\ Cardinality(1..n) = n
    <3>1. PICK m \in Nat : m = n
      BY <1>1
    <3>2. IsFiniteSet(1..m) /\ Cardinality(1..m) = m
      BY FS_Interval
    <3> QED BY <3>1, <3>2
  <2> QED BY <2>2, <2>3, FS_Bijection
<1>3. E!Cardinality(Ids(shown)) = n
  BY <1>2, EvaluationCounts
<1>4. Reaches(Ids(shown), evaluation.hasMore = TRUE)
  BY DEF EvaluationInv, RunsReach
<1> QED BY <1>3, <1>4 DEF Reaches

LEMMA RatingsHold == EvaluationInv => E!RatingShown
<1> SUFFICES ASSUME EvaluationInv, NEW i \in DOMAIN evaluation.runs, evaluation.runs[i].stars # 0,
                    NEW k \in DOMAIN db.runs, db.runs[k].id = evaluation.runs[i].id
             PROVE  db.runs[k].stars = evaluation.runs[i].stars
  BY DEF E!RatingShown
<1> DEFINE N == Len(db.runs)
<1>1. N \in Nat /\ k \in 1..N
  <2>1. db.runs \in Seq(StoredRuns)
    BY DEF EvaluationInv, EvaluationTypes, EvaluationStored
  <2> QED BY <2>1
<1>2. db.runs[k].id = N + 1 - k
  BY DEF EvaluationInv, RunsStored
<1>3. db.runs[N + 1 - evaluation.runs[i].id].stars = evaluation.runs[i].stars
  BY DEF EvaluationInv, RunsKnown, Known
<1>4. N + 1 - evaluation.runs[i].id = k
  BY <1>1, <1>2
<1> QED BY <1>3, <1>4

LEMMA EvaluationHold ==
  EvaluationInv => /\ E!TypeOK /\ E!CasesShown /\ E!RatingShown /\ E!HistoryComplete
                   /\ E!SuggestionsKept /\ E!BlockedUntilRecheck
<1>1. EvaluationInv => E!TypeOK
  BY DEF EvaluationInv, EvaluationTypes, CasesAgree, SuggestionsHeld, E!TypeOK
<1>2. EvaluationInv => E!SuggestionsKept
  BY DEF EvaluationInv, SuggestionsHeld, E!SuggestionsKept, RowsOf, E!Range
<1>3. EvaluationInv => E!BlockedUntilRecheck
  BY DEF EvaluationInv, PaidWhenAllowed, E!BlockedUntilRecheck
<1> QED BY <1>1, <1>2, <1>3, CasesShownHold, RatingsHold, HistoryHolds

(* In every state of the evaluation page its cases are the stored ones, no run is shown twice or skipped, a rating
   shown is the stored one, paid suggestions are kept until saved or discarded, and no paid request is sent after
   a refusal by the budget until a later check succeeded. *)
THEOREM EvaluationHolds == Spec => []EvaluationTruthful
<1> DEFINE Inv == tab = "evaluation" => EvaluationInv
<1>1. Init => Inv
  BY EvaluationInit DEF Init
<1>2. Inv /\ [Next]_vars => Inv'
  <2>1. SUFFICES ASSUME Inv, [Next]_vars, tab' = "evaluation" PROVE EvaluationInv'
    OBVIOUS
  <2>2. tab' = tab /\ EvaluationInv
    BY <2>1 DEF Next, vars, AtSettings, AtConnection, AtEvaluation, AtImport, AtText
  <2>3. E!Next \/ UNCHANGED evaluations
    BY <2>1, <2>2 DEF Next, vars, AtSettings, AtConnection, AtEvaluation, AtImport, AtText
  <2> QED BY <2>2, <2>3, EvaluationStep, EvaluationStutters
<1>3. Inv => EvaluationTruthful
  BY EvaluationHold DEF EvaluationTruthful
<1> QED BY <1>1, <1>2, <1>3, PTL DEF Spec

-----------------------------------------------------------------------------
(* The connection form: what the form and the server hold *)

FormValues ==
  [provider : Providers \cup {None}, model : Models \cup {""}, workspace : Workspaces \cup {""}, key : Keys \cup {""}]

Tests == [form : FormValues, saved : Connections \cup {None}]

(* A request of the form, and what its answer is. *)
RequestFits(r) ==
  /\ r = [id |-> r.id, kind |-> r.kind, body |-> r.body, seq |-> r.seq, about |-> r.about, state |-> r.state,
          answer |-> r.answer]
  /\ r.kind \in {"load", "save", "delete", "models", "test"} /\ r.state \in {"sent", "ok", "failed"} /\ r.seq \in Nat
  /\ r.kind = "save" => r.body \in FormValues
  /\ r.kind = "test" => r.body \in FormValues \cup {None} /\ r.about \in Tests
  /\ r.state = "ok" /\ r.kind # "models" => r.answer \in Connections
  /\ r.state = "ok" /\ r.kind = "models" => r.answer \in Providers \cup {None}
  /\ r.state = "failed" => r.answer = None

ConnectionTypes ==
  /\ stored \in Connections /\ conn \in Connections \cup {None} /\ form \in FormValues
  /\ refs \in [catalogue : Nat, test : Nat] /\ tested \in FormValues \cup {None}
  /\ saving \in BOOLEAN /\ testing \in BOOLEAN /\ lost \in BOOLEAN /\ raced \in BOOLEAN
  /\ \A r \in requests : RequestFits(r)

Writes == {"save", "delete"}

(* One load, one write and one test at most, and nothing but the load before it is answered. *)
OneAtATime ==
  /\ \A r \in requests, q \in requests :
       \/ r = q
       \/ ~(r.kind \in Writes /\ q.kind \in Writes) /\ ~(r.kind = "test" /\ q.kind = "test")
          /\ ~(r.kind = "load" /\ q.kind = "load")
  /\ saving = FALSE => \A r \in requests : r.kind \notin Writes
  /\ testing = FALSE => \A r \in requests : r.kind # "test"
  /\ conn = None => /\ form.provider = None /\ tested = None /\ catalogue = None
                    /\ \A r \in requests : r.kind = "load"
  /\ conn # None => \A r \in requests : r.kind # "load"

Served(r) == r.kind \in Writes /\ r.state = "ok"

(* No write was served whose answer the form has not taken. *)
Unwritten == \A r \in requests : ~Served(r)

StoredShown ==
  /\ \A r \in requests : r.kind = "load" /\ r.state = "ok" => r.answer = C!Shown(stored)
  /\ lost = FALSE =>
       /\ \A r \in requests : Served(r) => r.answer = C!Shown(stored)
       /\ conn # None /\ Unwritten => conn = C!Shown(stored)

Used(values) == IF values = C!Saved THEN stored ELSE C!Effective(values, stored)

(* A test that still counts is of the connection as it is, and asks for the models of the provider it is of. *)
TestFits(r) ==
  /\ r.seq <= refs.test
  /\ r.seq = refs.test =>
       /\ IF r.about.form = C!Saved THEN r.body = None /\ r.about.saved = conn
          ELSE r.body = r.about.form /\ r.about.saved = None
       /\ r.about.saved # None => raced = TRUE \/ form.provider = conn.provider
       /\ r.state = "ok" /\ lost = FALSE /\ Unwritten => r.answer = Used(r.about.form)

TestsFit ==
  /\ \A r \in requests : r.kind = "test" => TestFits(r)
  /\ tested # None /\ lost = FALSE /\ Unwritten => vouched = Used(tested)

(* A list of models that still counts is that of the saved provider, which the form shows. *)
ListFits(r) ==
  /\ r.seq <= refs.catalogue
  /\ r.seq = refs.catalogue =>
       /\ raced = TRUE \/ form.provider = conn.provider
       /\ r.state = "ok" /\ lost = FALSE /\ Unwritten => r.answer = stored.provider

ModelsFit ==
  /\ \A r \in requests : r.kind = "models" => ListFits(r)
  /\ catalogue # None =>
       /\ raced = TRUE \/ form.provider = conn.provider
       /\ lost = FALSE /\ Unwritten => catalogue = stored.provider

ConnectionInv == ConnectionTypes /\ OneAtATime /\ StoredShown /\ TestsFit /\ ModelsFit

LEMMA Requested ==
  ASSUME NEW kind \in {"load", "save", "delete", "models", "test"}, NEW body, NEW seq \in Nat, NEW about,
         kind = "save" => body \in FormValues,
         kind = "test" => body \in FormValues \cup {None} /\ about \in Tests,
         NEW x, x = C!Request(kind, body, seq, about)
  PROVE  /\ RequestFits(x) /\ x.kind = kind /\ x.body = body /\ x.seq = seq /\ x.about = about /\ x.state = "sent"
<1>1. x = [id |-> C!FreeId, kind |-> kind, body |-> body, seq |-> seq, about |-> about, state |-> "sent",
           answer |-> None]
  BY DEF C!Request
<1> QED BY <1>1 DEF RequestFits

With(r, state, answer) == [r EXCEPT !.state = state, !.answer = answer]

LEMMA Answering ==
  ASSUME NEW r, RequestFits(r), NEW state, NEW answer, NEW x, x = With(r, state, answer)
  PROVE  /\ x = [id |-> x.id, kind |-> x.kind, body |-> x.body, seq |-> x.seq, about |-> x.about, state |-> x.state,
                 answer |-> x.answer]
         /\ x.kind = r.kind /\ x.body = r.body /\ x.seq = r.seq /\ x.about = r.about /\ x.state = state
         /\ x.answer = answer
<1>1. r = [id |-> r.id, kind |-> r.kind, body |-> r.body, seq |-> r.seq, about |-> r.about, state |-> r.state,
           answer |-> r.answer]
  BY DEF RequestFits
<1>2. x = [id |-> r.id, kind |-> r.kind, body |-> r.body, seq |-> r.seq, about |-> r.about, state |-> state,
           answer |-> answer]
  BY <1>1 DEF With
<1> QED BY <1>2

(* What neither takes a connection nor changes the stored one. *)
LEMMA ConnectionKept ==
  ASSUME ConnectionInv, UNCHANGED <<stored, conn, refs, tested, vouched, raced>>, form' \in FormValues,
         form'.provider = form.provider, lost' \in BOOLEAN, lost = TRUE => lost' = TRUE,
         lost' = TRUE \/ (Unwritten' => Unwritten),
         saving' \in BOOLEAN, testing' \in BOOLEAN, OneAtATime',
         \A r \in requests' \ requests :
           /\ RequestFits(r) /\ (r.kind = "load" /\ r.state = "ok" => r.answer = C!Shown(stored))
           /\ (Served(r) => lost' = TRUE \/ r.answer = C!Shown(stored))
           /\ (r.kind = "test" => TestFits(r)') /\ (r.kind = "models" => ListFits(r)'),
         \/ UNCHANGED catalogue \/ catalogue' = None
         \/ /\ raced = TRUE \/ form.provider = conn.provider
            /\ lost = FALSE /\ Unwritten => catalogue' = stored.provider
  PROVE  ConnectionInv'
<1>1. ConnectionTypes'
  <2>1. \A r \in requests' : RequestFits(r)
    BY DEF ConnectionInv, ConnectionTypes
  <2>2. \A r : RequestFits(r)' <=> RequestFits(r)
    BY DEF RequestFits
  <2> QED BY <2>1, <2>2 DEF ConnectionInv, ConnectionTypes
<1>2. C!Shown(stored)' = C!Shown(stored) /\ C!Saved' = C!Saved /\ \A values : Used(values)' = Used(values)
  BY Zenon DEF C!Shown, C!Saved, Used, C!Effective
<1>3. lost' = FALSE => lost = FALSE /\ (Unwritten' => Unwritten)
  BY DEF ConnectionInv, ConnectionTypes
<1>4. StoredShown'
  BY <1>2, <1>3 DEF ConnectionInv, StoredShown, Served
<1>5. TestsFit'
  <2>1. \A r : TestFits(r) => TestFits(r)'
    BY <1>2, <1>3 DEF TestFits
  <2>2. \A r \in requests' : r.kind = "test" => TestFits(r)'
    BY <2>1 DEF ConnectionInv, TestsFit
  <2> QED BY <1>2, <1>3, <2>2 DEF ConnectionInv, TestsFit
<1>6. ModelsFit'
  <2>1. \A r : ListFits(r) => ListFits(r)'
    BY <1>3 DEF ListFits
  <2>2. \A r \in requests' : r.kind = "models" => ListFits(r)'
    BY <2>1 DEF ConnectionInv, ModelsFit
  <2>3. catalogue' # None => /\ raced' = TRUE \/ form'.provider = conn'.provider
                             /\ lost' = FALSE /\ Unwritten' => catalogue' = stored'.provider
    BY <1>3 DEF ConnectionInv, ModelsFit
  <2> QED BY <2>2, <2>3 DEF ModelsFit
<1> QED BY <1>1, <1>4, <1>5, <1>6 DEF ConnectionInv

LEMMA AloneAltered ==
  ASSUME OneAtATime, NEW r \in requests, NEW x, x.kind = r.kind, requests' = (requests \ {r}) \cup {x},
         UNCHANGED <<saving, testing, conn, form, tested, catalogue>>
  PROVE  OneAtATime'
<1>1. \A p \in requests' : \E q \in requests : q.kind = p.kind /\ ((p = x /\ q = r) \/ (p = q /\ q # r))
  OBVIOUS
<1> QED BY <1>1 DEF OneAtATime, Writes

LEMMA AloneRemoved ==
  ASSUME OneAtATime, NEW r \in requests, requests' = requests \ {r},
         r.kind \in Writes \/ UNCHANGED saving, r.kind = "test" \/ UNCHANGED testing,
         UNCHANGED conn, form'.provider = form.provider, conn = None => tested' = None /\ catalogue' = None
  PROVE  OneAtATime'
BY DEF OneAtATime, Writes

LEMMA AloneAdded ==
  ASSUME OneAtATime, conn # None, NEW x, requests' = requests \cup {x}, UNCHANGED conn,
         \/ x.kind \in Writes /\ saving = FALSE /\ saving' = TRUE /\ UNCHANGED testing
         \/ x.kind = "test" /\ testing = FALSE /\ testing' = TRUE /\ UNCHANGED saving
  PROVE  OneAtATime'
BY DEF OneAtATime, Writes

LEMMA UnwrittenStays ==
  /\ \A r : requests' = requests \ {r} /\ ~Served(r) => (Unwritten' <=> Unwritten)
  /\ \A r, x : requests' = (requests \ {r}) \cup {x} /\ ~Served(r) /\ ~Served(x) => (Unwritten' <=> Unwritten)
  /\ \A x : requests' = requests \cup {x} /\ ~Served(x) => (Unwritten' <=> Unwritten)
  /\ UNCHANGED requests => (Unwritten' <=> Unwritten)
BY DEF Unwritten, Served

(* A request, and the form edited, closed and opened. *)
LEMMA Quiet ==
  ASSUME ConnectionInv, UNCHANGED <<stored, conn, refs, tested, vouched, raced, lost, catalogue>>, form' \in FormValues,
         form'.provider = form.provider, saving' \in BOOLEAN, testing' \in BOOLEAN, OneAtATime',
         Unwritten' => Unwritten,
         \A r \in requests' \ requests : RequestFits(r) /\ r.state = "sent" /\ r.kind \in Writes
  PROVE  ConnectionInv'
<1>1. \A r \in requests' \ requests : r.kind # "load" /\ r.kind # "test" /\ r.kind # "models" /\ ~Served(r)
  BY DEF Writes, Served
<1> QED BY <1>1, ConnectionKept DEF ConnectionInv, ConnectionTypes

LEMMA Editing ==
  ASSUME ConnectionInv,
         \/ \E field \in {"model", "workspace", "key"} : \E value \in C!Typed(field) : C!EditField(field, value)
         \/ \E shown \in BOOLEAN : C!ConfirmDisconnect(shown)
  PROVE  ConnectionInv'
<1>1. UNCHANGED <<stored, conn, refs, tested, vouched, raced, lost, catalogue, saving, testing, requests>>
  BY DEF C!EditField, C!ConfirmDisconnect
<1>2. form' \in FormValues /\ form'.provider = form.provider
  <2>1. form \in FormValues
    BY DEF ConnectionInv, ConnectionTypes
  <2>2. ASSUME NEW field \in {"model", "workspace", "key"}, NEW value \in C!Typed(field), C!EditField(field, value)
        PROVE  form' \in FormValues /\ form'.provider = form.provider
    <3>1. form' = [form EXCEPT ![field] = value]
      BY <2>2 DEF C!EditField
    <3>2. CASE field = "model"
      <4>1. value \in Models \cup {""}
        BY <3>2 DEF C!Typed
      <4> QED BY <2>1, <3>1, <3>2, <4>1 DEF FormValues
    <3>3. CASE field = "workspace"
      <4>1. value \in Workspaces \cup {""}
        BY <3>3 DEF C!Typed
      <4> QED BY <2>1, <3>1, <3>3, <4>1 DEF FormValues
    <3>4. CASE field = "key"
      <4>1. value \in Keys \cup {""}
        BY <3>4 DEF C!Typed
      <4> QED BY <2>1, <3>1, <3>4, <4>1 DEF FormValues
    <3> QED BY <3>2, <3>3, <3>4
  <2>3. CASE \E shown \in BOOLEAN : C!ConfirmDisconnect(shown)
    BY <2>1, <2>3 DEF C!ConfirmDisconnect
  <2> QED BY <2>2, <2>3
<1>3. OneAtATime'
  BY <1>1, <1>2 DEF ConnectionInv, OneAtATime
<1>4. Unwritten' => Unwritten
  BY <1>1, UnwrittenStays
<1> QED BY <1>1, <1>2, <1>3, <1>4, Quiet DEF ConnectionInv, ConnectionTypes

(* Before the first answer the form names no provider: nothing is saved, tested or taken away. *)
LEMMA ConnectionKnown ==
  ASSUME ConnectionInv, C!HandleSubmit \/ C!HandleDisconnect \/ C!HandleTest
  PROVE  conn # None
<1>1. SUFFICES ASSUME conn = None PROVE FALSE
  OBVIOUS
<1>2. form.provider = None
  BY <1>1 DEF ConnectionInv, OneAtATime
<1> QED BY <1>1, <1>2 DEF C!HandleSubmit, C!HandleDisconnect, C!HandleTest, C!Complete, C!MayTest, C!SavedProvider

LEMMA Writing ==
  ASSUME ConnectionInv, C!HandleSubmit \/ C!HandleDisconnect
  PROVE  ConnectionInv'
<1>1. /\ UNCHANGED <<stored, conn, refs, tested, vouched, raced, lost, catalogue, form, testing>>
      /\ saving = FALSE /\ saving' = TRUE
  BY DEF C!HandleSubmit, C!HandleDisconnect, ConnectionInv, ConnectionTypes
<1>2. PICK x : requests' = requests \cup {x} /\ RequestFits(x) /\ x.state = "sent" /\ x.kind \in Writes
  <2>1. CASE C!HandleSubmit
    <3>1. PICK x : x = C!Request("save", form, 0, None)
      OBVIOUS
    <3>2. requests' = requests \cup {x}
      BY <2>1, <3>1 DEF C!HandleSubmit
    <3>3. form \in FormValues /\ 0 \in Nat
      BY DEF ConnectionInv, ConnectionTypes
    <3>4. RequestFits(x) /\ x.kind = "save" /\ x.state = "sent"
      BY <3>1, <3>3, Requested
    <3> QED BY <3>2, <3>4 DEF Writes
  <2>2. CASE C!HandleDisconnect
    <3>1. PICK x : x = C!Request("delete", None, 0, None)
      OBVIOUS
    <3>2. requests' = requests \cup {x}
      BY <2>2, <3>1 DEF C!HandleDisconnect
    <3>3. RequestFits(x) /\ x.kind = "delete" /\ x.state = "sent"
      BY <3>1, Requested
    <3> QED BY <3>2, <3>3 DEF Writes
  <2> QED BY <2>1, <2>2
<1>3. OneAtATime'
  BY <1>1, <1>2, ConnectionKnown, AloneAdded DEF ConnectionInv
<1>4. Unwritten' => Unwritten
  BY <1>2, UnwrittenStays DEF Served
<1>5. \A r \in requests' \ requests : RequestFits(r) /\ r.state = "sent" /\ r.kind \in Writes
  BY <1>2
<1> QED BY <1>1, <1>3, <1>4, <1>5, Quiet DEF ConnectionInv, ConnectionTypes

(* A write that failed, and a load. *)
LEMMA NotTaken ==
  ASSUME ConnectionInv, NEW r \in requests, r.state = "failed", r.kind \in {"load", "save", "delete"},
         C!Loaded(r) \/ C!SaveAnswer(r) \/ C!DisconnectAnswer(r)
  PROVE  ConnectionInv'
<1>1. /\ UNCHANGED <<stored, conn, refs, tested, vouched, raced, lost, catalogue, form, testing>>
      /\ requests' = requests \ {r}
      /\ (r.kind \in Writes /\ saving' = FALSE) \/ UNCHANGED saving
  BY DEF C!Loaded, C!SaveAnswer, C!DisconnectAnswer, C!Of, Writes
<1>2. OneAtATime'
  BY <1>1, AloneRemoved DEF ConnectionInv, OneAtATime
<1>3. Unwritten' => Unwritten
  BY <1>1, UnwrittenStays DEF Served
<1> QED BY <1>1, <1>2, <1>3, Quiet DEF ConnectionInv, ConnectionTypes

(* The fields of a connection, and those of the form. *)
Handles == Providers \cup {None}
ModelNames == Models \cup {""}
WorkspaceNames == Workspaces \cup {""}
KeyNames == HeldKeys \cup {"", "stored"}

LEMMA ConnectionFields ==
  /\ Connections = [provider : Handles, model : ModelNames, workspace : WorkspaceNames, key : KeyNames]
  /\ FormValues = [provider : Handles, model : ModelNames, workspace : WorkspaceNames, key : Keys \cup {""}]
  /\ Keys \cup {""} \subseteq KeyNames /\ "" \in Keys \cup {""}
<1>1. Connections = [provider : Handles, model : ModelNames, workspace : WorkspaceNames, key : KeyNames]
  BY Zenon DEF Connections, Handles, ModelNames, WorkspaceNames, KeyNames
<1>2. FormValues = [provider : Handles, model : ModelNames, workspace : WorkspaceNames, key : Keys \cup {""}]
  BY Zenon DEF FormValues, Handles, ModelNames, WorkspaceNames
<1>3. Keys \cup {""} \subseteq KeyNames /\ "" \in Keys \cup {""}
  BY Zenon DEF KeyNames, HeldKeys
<1> QED BY <1>1, <1>2, <1>3, Zenon

LEMMA FormsConnect == ASSUME NEW values \in FormValues PROVE values \in Connections /\ values # None
<1> DEFINE KeysTyped == Keys \cup {""}
<1>1. /\ Connections = [provider : Handles, model : ModelNames, workspace : WorkspaceNames, key : KeyNames]
      /\ FormValues = [provider : Handles, model : ModelNames, workspace : WorkspaceNames, key : KeysTyped]
      /\ KeysTyped \subseteq KeyNames
  BY ConnectionFields, Zenon
<1> HIDE DEF KeysTyped
<1>2. values \in Connections
  BY <1>1
<1> QED BY <1>2, ConnectionAssumption

LEMMA BlankConnects == C!Blank \in FormValues /\ C!Shown(C!Blank) = C!Blank /\ C!Blank.provider = None
<1> DEFINE KeysTyped == Keys \cup {""}
<1>1. PICK none : none = ""
  OBVIOUS
<1>2. C!Blank = [provider |-> None, model |-> none, workspace |-> none, key |-> none]
  BY <1>1, Zenon DEF C!Blank
<1>3. none \in KeysTyped /\ none \in ModelNames /\ none \in WorkspaceNames /\ None \in Handles
  BY <1>1, Zenon DEF ModelNames, WorkspaceNames, Handles
<1>4. FormValues = [provider : Handles, model : ModelNames, workspace : WorkspaceNames, key : KeysTyped]
  BY ConnectionFields, Zenon
<1>5. C!Shown(C!Blank) = [C!Blank EXCEPT !.key = IF C!Blank.key = none THEN none ELSE "stored"]
  BY <1>1, Zenon DEF C!Shown
<1> HIDE DEF KeysTyped
<1>6. C!Shown(C!Blank) = C!Blank
  BY <1>2, <1>5
<1> QED BY <1>2, <1>3, <1>4, <1>6

LEMMA ShownConnects ==
  ASSUME NEW c \in Connections
  PROVE  C!Shown(c) \in Connections /\ C!Shown(c).provider = c.provider
<1>1. Connections = [provider : Handles, model : ModelNames, workspace : WorkspaceNames, key : KeyNames]
  BY ConnectionFields, Zenon
<1>2. PICK key : key = IF c.key = "" THEN "" ELSE "stored"
  OBVIOUS
<1>3. key \in KeyNames
  BY <1>2, Zenon DEF KeyNames
<1>4. C!Shown(c) = [c EXCEPT !.key = key]
  BY <1>2, Zenon DEF C!Shown
<1> QED BY <1>1, <1>3, <1>4

LEMMA EffectiveConnects ==
  ASSUME NEW values \in Connections, NEW c \in Connections
  PROVE  C!Effective(values, c) \in Connections
<1>1. Connections = [provider : Handles, model : ModelNames, workspace : WorkspaceNames, key : KeyNames]
  BY ConnectionFields, Zenon
<1>2. PICK key : key = IF values.key = "" /\ values.provider = c.provider THEN c.key ELSE values.key
  OBVIOUS
<1>3. PICK workspace : workspace = IF values.provider = Workspaced THEN values.workspace ELSE ""
  OBVIOUS
<1>4. c.key \in KeyNames /\ values.key \in KeyNames /\ values.workspace \in WorkspaceNames
  BY <1>1
<1>5. key \in KeyNames /\ workspace \in WorkspaceNames
  <2>1. key = c.key \/ key = values.key
    BY <1>2, Zenon
  <2>2. workspace = values.workspace \/ workspace = ""
    BY <1>3, Zenon
  <2>3. "" \in WorkspaceNames
    BY Zenon DEF WorkspaceNames
  <2> QED BY <1>4, <2>1, <2>2, <2>3, Zenon
<1>6. C!Effective(values, c) = [values EXCEPT !.key = key, !.workspace = workspace]
  BY <1>2, <1>3, Zenon DEF C!Effective
<1> QED BY <1>1, <1>5, <1>6

(* The form after taking a connection. *)
LEMMA TakenForm ==
  ASSUME NEW c \in Connections, C!ApplyConnection(c)
  PROVE  /\ conn' = c /\ form' \in FormValues /\ form'.provider = c.provider /\ catalogue' = None /\ tested' = None
<1> DEFINE KeysTyped == Keys \cup {""}
<1>1. /\ Connections = [provider : Handles, model : ModelNames, workspace : WorkspaceNames, key : KeyNames]
      /\ FormValues = [provider : Handles, model : ModelNames, workspace : WorkspaceNames, key : KeysTyped]
  BY ConnectionFields, Zenon
<1>2. PICK none : none = ""
  OBVIOUS
<1>3. PICK workspace : workspace = IF c.provider = Workspaced THEN c.workspace ELSE ""
  OBVIOUS
<1>4. form' = [c EXCEPT !.key = none, !.workspace = workspace]
  BY <1>2, <1>3, Zenon DEF C!ApplyConnection
<1>5. none \in KeysTyped /\ none \in WorkspaceNames
  BY <1>2, Zenon DEF WorkspaceNames
<1>6. c.workspace \in WorkspaceNames
  BY <1>1
<1>7. workspace \in WorkspaceNames
  <2>1. workspace = c.workspace \/ workspace = none
    BY <1>2, <1>3, Zenon
  <2> QED BY <1>5, <1>6, <2>1
<1>8. conn' = c /\ catalogue' = None /\ tested' = None
  BY Zenon DEF C!ApplyConnection
<1> HIDE DEF KeysTyped
<1> QED BY <1>1, <1>4, <1>5, <1>7, <1>8

(* A request that is answered or lost, the stored connection being as it was. *)
LEMMA AnsweredKept ==
  ASSUME ConnectionInv, NEW r \in requests, NEW state \in {"ok", "failed"}, NEW answer, C!Answered(r, state, answer),
         UNCHANGED <<stored, conn, form, catalogue, refs, tested, saving, testing, vouched, raced>>,
         lost' \in BOOLEAN, lost = TRUE => lost' = TRUE,
         r.kind \in Writes => state = "failed" /\ (lost' = TRUE \/ r.state = "sent"),
         state = "failed" => answer = None,
         state = "ok" /\ r.kind = "load" => answer = C!Shown(stored),
         state = "ok" /\ r.kind = "models" => answer = stored.provider,
         state = "ok" /\ r.kind = "test" =>
           answer \in Connections /\ (r.seq = refs.test => answer = Used(r.about.form))
  PROVE  ConnectionInv'
<1>1. PICK x : x = With(r, state, answer)
  OBVIOUS
<1>2. requests' = (requests \ {r}) \cup {x}
  BY <1>1 DEF C!Answered, With
<1>3. RequestFits(r) /\ stored \in Connections
  BY DEF ConnectionInv, ConnectionTypes
<1>4. /\ x = [id |-> x.id, kind |-> x.kind, body |-> x.body, seq |-> x.seq, about |-> x.about, state |-> x.state,
              answer |-> x.answer]
      /\ x.kind = r.kind /\ x.body = r.body /\ x.seq = r.seq /\ x.about = r.about /\ x.state = state
      /\ x.answer = answer
  BY <1>1, <1>3, Answering
<1>5. stored.provider \in Handles /\ C!Shown(stored) \in Connections
  <2>1. Connections = [provider : Handles, model : ModelNames, workspace : WorkspaceNames, key : KeyNames]
    BY ConnectionFields, Zenon
  <2> QED BY <1>3, <2>1, ShownConnects
<1>6. RequestFits(x)
  BY <1>3, <1>4, <1>5 DEF RequestFits, Writes, Handles
<1>7. ~Served(x) /\ (lost' = TRUE \/ ~Served(r))
  BY <1>4 DEF Served
<1>8. lost' = TRUE \/ (Unwritten' => Unwritten)
  BY <1>2, <1>7, UnwrittenStays
<1>9. OneAtATime'
  BY <1>2, <1>4, AloneAltered DEF ConnectionInv
<1>10. \A values : Used(values)' = Used(values)
  BY Zenon DEF Used, C!Saved, C!Effective
<1>11. x.kind = "test" => TestFits(x)'
  <2>1. SUFFICES ASSUME x.kind = "test" PROVE TestFits(x)'
    OBVIOUS
  <2>2. TestFits(r)
    BY <1>4, <2>1 DEF ConnectionInv, TestsFit
  <2>3. C!Saved' = C!Saved
    BY Zenon DEF C!Saved
  <2> QED BY <1>4, <1>10, <2>1, <2>2, <2>3 DEF TestFits
<1>12. x.kind = "models" => ListFits(x)'
  <2>1. SUFFICES ASSUME x.kind = "models" PROVE ListFits(x)'
    OBVIOUS
  <2>2. ListFits(r)
    BY <1>4, <2>1 DEF ConnectionInv, ModelsFit
  <2> QED BY <1>4, <2>1, <2>2 DEF ListFits
<1>13. saving' \in BOOLEAN /\ testing' \in BOOLEAN /\ form' \in FormValues /\ form'.provider = form.provider
  BY DEF ConnectionInv, ConnectionTypes
<1>14. \A q \in requests' \ requests :
           /\ RequestFits(q) /\ (q.kind = "load" /\ q.state = "ok" => q.answer = C!Shown(stored))
           /\ (Served(q) => lost' = TRUE \/ q.answer = C!Shown(stored))
           /\ (q.kind = "test" => TestFits(q)') /\ (q.kind = "models" => ListFits(q)')
  BY <1>2, <1>4, <1>6, <1>7, <1>11, <1>12
<1> QED BY <1>8, <1>9, <1>13, <1>14, ConnectionKept

LEMMA FailAny == ASSUME ConnectionInv, NEW r \in requests, C!Fail(r) PROVE ConnectionInv'
<1>1. /\ C!Answered(r, "failed", None) /\ lost' = (lost \/ r.kind \in Writes)
      /\ UNCHANGED <<stored, conn, form, catalogue, refs, tested, saving, testing, vouched, raced>>
  BY DEF C!Fail, Writes
<1>2. lost' \in BOOLEAN /\ (lost = TRUE => lost' = TRUE) /\ (r.kind \in Writes => lost' = TRUE)
  BY <1>1 DEF ConnectionInv, ConnectionTypes
<1> QED BY <1>1, <1>2, AnsweredKept

(* What becomes of the stored connection shows in the one answer to come. *)
LEMMA WriteServed ==
  ASSUME ConnectionInv, NEW r \in requests, r.kind \in Writes, NEW next \in Connections, stored' = next,
         NEW answer, answer = C!Shown(next), C!Answered(r, "ok", answer),
         UNCHANGED <<conn, form, catalogue, refs, tested, saving, testing, vouched, lost, raced>>
  PROVE  ConnectionInv'
<1>1. PICK x : x = With(r, "ok", answer)
  OBVIOUS
<1>2. requests' = (requests \ {r}) \cup {x}
  BY <1>1 DEF C!Answered, With
<1>3. RequestFits(r)
  BY DEF ConnectionInv, ConnectionTypes
<1>4. /\ x = [id |-> x.id, kind |-> x.kind, body |-> x.body, seq |-> x.seq, about |-> x.about, state |-> x.state,
              answer |-> x.answer]
      /\ x.kind = r.kind /\ x.body = r.body /\ x.seq = r.seq /\ x.about = r.about /\ x.state = "ok"
      /\ x.answer = answer
  BY <1>1, <1>3, Answering
<1>5. RequestFits(x)
  <2>1. answer \in Connections
    BY ShownConnects
  <2> QED BY <1>3, <1>4, <2>1 DEF RequestFits, Writes
<1>6. OneAtATime'
  BY <1>2, <1>4, AloneAltered DEF ConnectionInv
<1>7. Unwritten' = FALSE
  BY <1>2, <1>4 DEF Unwritten, Served
<1>8. ConnectionTypes'
  <2>1. \A q \in requests' : RequestFits(q)
    BY <1>2, <1>5 DEF ConnectionInv, ConnectionTypes
  <2>2. \A q : RequestFits(q)' <=> RequestFits(q)
    BY DEF RequestFits
  <2> QED BY <2>1, <2>2 DEF ConnectionInv, ConnectionTypes
<1>9. StoredShown'
  <2>1. C!Shown(stored)' = answer
    BY Zenon DEF C!Shown
  <2>2. \A q \in requests \ {r} : q.kind \notin Writes /\ q.kind # "load"
    <3>1. conn # None
      BY DEF ConnectionInv, OneAtATime, Writes
    <3> QED BY <3>1 DEF ConnectionInv, OneAtATime
  <2>3. \A q \in requests' : q.kind # "load" /\ (Served(q) => q.answer = answer)
    BY <1>2, <1>4, <2>2 DEF Served, Writes
  <2>4. \A q : Served(q)' <=> Served(q)
    BY DEF Served
  <2> QED BY <1>7, <2>1, <2>3, <2>4 DEF StoredShown
<1>10. C!Saved' = C!Saved
  BY Zenon DEF C!Saved
<1>11. TestsFit'
  <2>1. \A q : TestFits(q) => TestFits(q)'
    BY <1>7, <1>10 DEF TestFits
  <2>2. \A q \in requests' : q.kind = "test" => q \in requests
    BY <1>2, <1>4 DEF Writes
  <2> QED BY <1>7, <2>1, <2>2 DEF ConnectionInv, TestsFit
<1>12. ModelsFit'
  <2>1. \A q : ListFits(q) => ListFits(q)'
    BY <1>7 DEF ListFits
  <2>2. \A q \in requests' : q.kind = "models" => q \in requests
    BY <1>2, <1>4 DEF Writes
  <2> QED BY <1>7, <2>1, <2>2 DEF ConnectionInv, ModelsFit
<1> QED BY <1>6, <1>8, <1>9, <1>11, <1>12 DEF ConnectionInv

LEMMA ServeAny == ASSUME ConnectionInv, NEW r \in requests, C!Serve(r) PROVE ConnectionInv'
<1>1. /\ r.state = "sent"
      /\ UNCHANGED <<conn, form, catalogue, refs, tested, saving, testing, vouched, lost, raced>>
  BY DEF C!Serve
<1>2. RequestFits(r) /\ stored \in Connections /\ lost' \in BOOLEAN /\ (lost = TRUE => lost' = TRUE)
  BY <1>1 DEF ConnectionInv, ConnectionTypes
<1>3. CASE r.kind = "load" /\ stored' = stored /\ C!Answered(r, "ok", C!Shown(stored))
  <2>1. r.kind \notin Writes
    BY <1>3 DEF Writes
  <2>2. PICK answer : answer = C!Shown(stored)
    OBVIOUS
  <2> QED BY <1>1, <1>2, <1>3, <2>1, <2>2, AnsweredKept
<1>4. CASE r.kind = "save" /\ LET next == C!Effective(r.body, stored)
                              IN IF C!Acceptable(next) THEN stored' = next /\ C!Answered(r, "ok", C!Shown(next))
                                 ELSE stored' = stored /\ C!Answered(r, "failed", None)
  <2>1. PICK next : next = C!Effective(r.body, stored)
    OBVIOUS
  <2>2. next \in Connections
    <3>1. r.body \in Connections
      BY <1>2, <1>4, FormsConnect DEF RequestFits
    <3> QED BY <1>2, <2>1, <3>1, EffectiveConnects
  <2>3. r.kind \in Writes
    BY <1>4 DEF Writes
  <2>4. \/ stored' = next /\ C!Answered(r, "ok", C!Shown(next))
        \/ stored' = stored /\ C!Answered(r, "failed", None)
    BY <1>4, <2>1
  <2>5. CASE stored' = next /\ C!Answered(r, "ok", C!Shown(next))
    BY <1>1, <2>2, <2>3, <2>5, WriteServed
  <2>6. CASE stored' = stored /\ C!Answered(r, "failed", None)
    BY <1>1, <1>2, <1>4, <2>6, AnsweredKept
  <2> QED BY <2>4, <2>5, <2>6
<1>5. CASE r.kind = "delete" /\ stored' = C!Blank /\ C!Answered(r, "ok", C!Blank)
  <2>1. C!Blank \in Connections /\ C!Shown(C!Blank) = C!Blank /\ r.kind \in Writes
    BY <1>5, BlankConnects, FormsConnect DEF Writes
  <2> QED BY <1>1, <1>5, <2>1, WriteServed
<1>6. CASE r.kind = "models" /\ stored' = stored /\ C!Answered(r, "ok", stored.provider)
  <2>1. r.kind \notin Writes
    BY <1>6 DEF Writes
  <2> QED BY <1>1, <1>2, <1>6, <2>1, AnsweredKept
<1>7. CASE r.kind = "test" /\ stored' = stored /\ LET used == IF r.body = None THEN stored ELSE C!Effective(r.body, stored)
                                                 IN \/ C!Acceptable(used) /\ C!Answered(r, "ok", used)
                                                    \/ C!Answered(r, "failed", None)
  <2>1. PICK used : used = IF r.body = None THEN stored ELSE C!Effective(r.body, stored)
    OBVIOUS
  <2>2. C!Answered(r, "ok", used) \/ C!Answered(r, "failed", None)
    BY <1>7, <2>1
  <2>3. r.kind \notin Writes
    BY <1>7 DEF Writes
  <2>4. CASE C!Answered(r, "failed", None)
    BY <1>1, <1>2, <1>7, <2>3, <2>4, AnsweredKept
  <2>5. CASE C!Answered(r, "ok", used)
    <3>1. r.body \in FormValues \cup {None} /\ r.about \in Tests
      BY <1>2, <1>7 DEF RequestFits
    <3>2. used \in Connections
      <4>1. CASE r.body = None
        BY <1>2, <2>1, <4>1
      <4>2. CASE r.body # None
        BY <1>2, <2>1, <3>1, <4>2, FormsConnect, EffectiveConnects
      <4> QED BY <4>1, <4>2
    <3>3. ASSUME r.seq = refs.test PROVE used = Used(r.about.form)
      <4>1. IF r.about.form = C!Saved THEN r.body = None ELSE r.body = r.about.form
        BY <1>7, <3>3 DEF ConnectionInv, TestsFit, TestFits
      <4>2. r.about.form # None
        BY <3>1, FormsConnect DEF Tests
      <4> QED BY <2>1, <4>1, <4>2 DEF Used
    <3> QED BY <1>1, <1>2, <1>7, <2>3, <2>5, <3>2, <3>3, AnsweredKept
  <2> QED BY <2>2, <2>4, <2>5
<1> QED BY <1>3, <1>4, <1>5, <1>6, <1>7 DEF C!Serve

Counters == [catalogue : Nat, test : Nat]

(* The list of models is asked for anew, unless the catalogue has it. *)
LEMMA Refreshed ==
  ASSUME NEW next, NEW at \in Counters, NEW rest, C!RefreshModelCatalogue(next, at, rest)
  PROVE  /\ refs' \in Counters /\ refs'.test = at.test /\ refs'.catalogue = at.catalogue + 1
         /\ \E x : /\ RequestFits(x) /\ x.kind = "models" /\ x.state = "sent" /\ x.seq = refs'.catalogue
                   /\ requests' = rest \/ requests' = rest \cup {x}
<1>1. refs' = [at EXCEPT !.catalogue = @ + 1]
  BY DEF C!RefreshModelCatalogue
<1>2. refs' \in Counters /\ refs'.test = at.test /\ refs'.catalogue = at.catalogue + 1
  BY <1>1 DEF Counters
<1>3. PICK seq \in Nat : seq = at.catalogue + 1
  BY DEF Counters
<1>4. PICK x : x = C!Request("models", None, seq, None)
  OBVIOUS
<1>5. RequestFits(x) /\ x.kind = "models" /\ x.state = "sent" /\ x.seq = seq
  BY <1>4, Requested
<1>6. requests' = rest \/ requests' = rest \cup {x}
  BY <1>3, <1>4 DEF C!RefreshModelCatalogue
<1> QED BY <1>2, <1>3, <1>5, <1>6

(* The form takes the connection answered. *)
LEMMA Taking ==
  ASSUME ConnectionInv, NEW r \in requests, r.state = "ok", r.kind \in {"load", "save", "delete"},
         C!ApplyConnection(r.answer), UNCHANGED <<stored, testing, vouched, lost, raced>>,
         (r.kind \in Writes /\ saving' = FALSE) \/ (r.kind = "load" /\ UNCHANGED saving),
         refs' \in Counters, refs'.test > refs.test, refs'.catalogue > refs.catalogue,
         NEW x, RequestFits(x), x.kind = "models", x.state = "sent", x.seq = refs'.catalogue,
         requests' = requests \ {r} \/ requests' = (requests \ {r}) \cup {x}
  PROVE  ConnectionInv'
<1>1. r.answer \in Connections /\ r.answer # None
  BY ConnectionAssumption DEF ConnectionInv, ConnectionTypes, RequestFits
<1>2. conn' = r.answer /\ form' \in FormValues /\ form'.provider = r.answer.provider /\ catalogue' = None /\ tested' = None
  BY <1>1, TakenForm
<1>3. ConnectionTypes'
  <2>1. \A q \in requests' : RequestFits(q)
    BY DEF ConnectionInv, ConnectionTypes
  <2>2. \A q : RequestFits(q)' <=> RequestFits(q)
    BY DEF RequestFits
  <2>3. saving' \in BOOLEAN
    BY DEF ConnectionInv, ConnectionTypes
  <2> QED BY <1>1, <1>2, <2>1, <2>2, <2>3 DEF ConnectionInv, ConnectionTypes, Counters
<1>4. \A q \in requests' : q = x \/ (q \in requests /\ q.kind \notin Writes /\ q.kind # "load")
  <2>1. SUFFICES ASSUME NEW q \in requests, q # r PROVE q.kind \notin Writes /\ q.kind # "load"
    OBVIOUS
  <2>2. CASE r.kind = "load"
    <3>1. conn = None
      BY <2>2 DEF ConnectionInv, OneAtATime
    <3>2. q.kind = "load"
      BY <3>1 DEF ConnectionInv, OneAtATime
    <3> QED BY <2>1, <2>2, <3>2 DEF ConnectionInv, OneAtATime
  <2>3. CASE r.kind \in Writes
    <3>1. conn # None
      BY <2>3 DEF ConnectionInv, OneAtATime, Writes
    <3>2. q.kind # "load"
      BY <3>1 DEF ConnectionInv, OneAtATime
    <3> QED BY <2>1, <2>3, <3>2 DEF ConnectionInv, OneAtATime
  <2> QED BY <2>2, <2>3 DEF Writes
<1>5. OneAtATime'
  <2>1. \A p, q \in requests' : p = q \/ ~(p.kind = "test" /\ q.kind = "test")
    BY <1>4 DEF ConnectionInv, OneAtATime
  <2>2. testing' = FALSE => \A q \in requests' : q.kind # "test"
    BY <1>4 DEF ConnectionInv, OneAtATime
  <2> QED BY <1>1, <1>2, <1>4, <2>1, <2>2 DEF OneAtATime, Writes
<1>6. StoredShown'
  <2>1. C!Shown(stored)' = C!Shown(stored)
    BY Zenon DEF C!Shown
  <2>2. lost = FALSE => r.answer = C!Shown(stored)
    BY DEF ConnectionInv, StoredShown, Served, Writes
  <2>3. \A q \in requests' : ~Served(q)' /\ q.kind # "load"
    BY <1>4 DEF Served, Writes
  <2> QED BY <1>2, <2>1, <2>2, <2>3 DEF StoredShown
<1>7. TestsFit'
  <2>1. \A q \in requests' : q.kind = "test" => TestFits(q)'
    <3>1. SUFFICES ASSUME NEW q \in requests', q.kind = "test" PROVE TestFits(q)'
      OBVIOUS
    <3>2. q \in requests
      BY <1>4, <3>1
    <3>3. q.seq <= refs.test /\ q.seq \in Nat /\ refs.test \in Nat /\ refs'.test \in Nat
      BY <3>1, <3>2 DEF ConnectionInv, TestsFit, TestFits, ConnectionTypes, RequestFits, Counters
    <3>4. q.seq < refs'.test
      BY <3>3
    <3> QED BY <3>3, <3>4 DEF TestFits
  <2> QED BY <1>2, <2>1 DEF TestsFit
<1>8. ModelsFit'
  <2>1. \A q \in requests' : q.kind = "models" => ListFits(q)'
    <3>1. SUFFICES ASSUME NEW q \in requests', q.kind = "models" PROVE ListFits(q)'
      OBVIOUS
    <3>2. CASE q = x
      <4>1. x.seq \in Nat /\ conn'.provider = form'.provider
        BY <1>2 DEF RequestFits
      <4> QED BY <3>2, <4>1 DEF ListFits
    <3>3. CASE q \in requests
      <4>1. q.seq <= refs.catalogue /\ q.seq \in Nat /\ refs.catalogue \in Nat /\ refs'.catalogue \in Nat
        BY <3>1, <3>3 DEF ConnectionInv, ModelsFit, ListFits, ConnectionTypes, RequestFits, Counters
      <4>2. q.seq < refs'.catalogue
        BY <4>1
      <4> QED BY <4>1, <4>2 DEF ListFits
    <3> QED BY <1>4, <3>2, <3>3
  <2> QED BY <1>2, <2>1 DEF ModelsFit
<1> QED BY <1>3, <1>5, <1>6, <1>7, <1>8 DEF ConnectionInv

LEMMA Taken ==
  ASSUME ConnectionInv, NEW r \in requests, r.state = "ok", C!Loaded(r) \/ C!SaveAnswer(r) \/ C!DisconnectAnswer(r)
  PROVE  ConnectionInv'
<1>1. refs \in Counters /\ C!ApplyRefs \in Counters /\ C!ApplyRefs.test = refs.test + 1
      /\ C!ApplyRefs.catalogue = refs.catalogue + 1
  BY DEF ConnectionInv, ConnectionTypes, Counters, C!ApplyRefs
<1>2. /\ C!ApplyConnection(r.answer) /\ UNCHANGED <<stored, testing, vouched, lost, raced>>
      /\ r.kind \in {"load", "save", "delete"}
      /\ (r.kind \in Writes /\ saving' = FALSE) \/ (r.kind = "load" /\ UNCHANGED saving)
  BY DEF C!Loaded, C!SaveAnswer, C!DisconnectAnswer, C!Of, Writes
<1>3. \/ C!RefreshModelCatalogue(r.answer, C!ApplyRefs, requests \ {r})
      \/ refs' = C!ApplyRefs /\ requests' = requests \ {r}
  BY DEF C!Loaded, C!SaveAnswer, C!DisconnectAnswer
<1>4. CASE C!RefreshModelCatalogue(r.answer, C!ApplyRefs, requests \ {r})
  <2>1. PICK at \in Counters : at = C!ApplyRefs
    BY <1>1
  <2>2. PICK rest : rest = requests \ {r}
    OBVIOUS
  <2>3. C!RefreshModelCatalogue(r.answer, at, rest)
    BY <1>4, <2>1, <2>2
  <2>4. /\ refs' \in Counters /\ refs'.test = at.test /\ refs'.catalogue = at.catalogue + 1
        /\ \E x : /\ RequestFits(x) /\ x.kind = "models" /\ x.state = "sent" /\ x.seq = refs'.catalogue
                  /\ requests' = rest \/ requests' = rest \cup {x}
    BY <2>3, Refreshed
  <2>5. PICK x : /\ RequestFits(x) /\ x.kind = "models" /\ x.state = "sent" /\ x.seq = refs'.catalogue
                 /\ requests' = rest \/ requests' = rest \cup {x}
    BY <2>4
  <2>6. refs'.test > refs.test /\ refs'.catalogue > refs.catalogue
    BY <1>1, <2>1, <2>4 DEF Counters
  <2> QED BY <1>2, <2>2, <2>4, <2>5, <2>6, Taking
<1>5. CASE refs' = C!ApplyRefs /\ requests' = requests \ {r}
  <2>1. PICK seq \in Nat : seq = refs'.catalogue
    BY <1>1, <1>5 DEF Counters
  <2>2. PICK x : x = C!Request("models", None, seq, None)
    OBVIOUS
  <2>3. RequestFits(x) /\ x.kind = "models" /\ x.state = "sent" /\ x.seq = refs'.catalogue
    BY <2>1, <2>2, Requested
  <2>4. refs' \in Counters /\ refs'.test > refs.test /\ refs'.catalogue > refs.catalogue
    BY <1>1, <1>5 DEF Counters
  <2> QED BY <1>2, <1>5, <2>3, <2>4, Taking
<1> QED BY <1>3, <1>4, <1>5

LEMMA ModelsAnswering == ASSUME ConnectionInv, NEW r \in requests, C!ModelsAnswer(r) PROVE ConnectionInv'
<1>1. /\ r.kind = "models" /\ r.state # "sent" /\ requests' = requests \ {r}
      /\ catalogue' = IF r.seq # refs.catalogue THEN catalogue ELSE r.answer
      /\ UNCHANGED <<stored, conn, form, refs, tested, saving, testing, vouched, lost, raced>>
  BY DEF C!ModelsAnswer, C!Of
<1>2. RequestFits(r) /\ ListFits(r) /\ conn # None
  BY <1>1 DEF ConnectionInv, ConnectionTypes, ModelsFit, OneAtATime
<1>3. \/ UNCHANGED catalogue \/ catalogue' = None
      \/ /\ raced = TRUE \/ form.provider = conn.provider
         /\ lost = FALSE /\ Unwritten => catalogue' = stored.provider
  BY <1>1, <1>2 DEF RequestFits, ListFits
<1>4. r.kind \notin Writes /\ r.kind # "test" /\ ~Served(r)
  BY <1>1 DEF Writes, Served
<1>5. OneAtATime'
  BY <1>1, <1>2, <1>4, AloneRemoved DEF ConnectionInv
<1>6. Unwritten' => Unwritten
  BY <1>1, <1>4, UnwrittenStays
<1>7. \A q \in requests' : q \in requests
  BY <1>1
<1> QED BY <1>1, <1>3, <1>5, <1>6, <1>7, ConnectionKept DEF ConnectionInv, ConnectionTypes

(* A provider named anew leaves no list asked for before in force. *)
LEMMA ProviderChanging ==
  ASSUME ConnectionInv, NEW handle \in Providers \cup {None}, C!HandleProviderChange(handle)
  PROVE  ConnectionInv'
<1>1. /\ conn # None /\ refs' = C!ProviderRefs /\ catalogue' = None /\ raced' = (raced \/ testing)
      /\ form' = [C!Blank EXCEPT !.provider = handle]
      /\ UNCHANGED <<stored, conn, tested, saving, testing, requests, vouched, lost>>
  BY DEF C!HandleProviderChange
<1>2. refs \in Counters /\ refs' \in Counters /\ refs'.test = refs.test /\ refs'.catalogue = refs.catalogue + 1
  BY <1>1 DEF ConnectionInv, ConnectionTypes, Counters, C!ProviderRefs
<1>3. form' \in FormValues
  <2> DEFINE KeysTyped == Keys \cup {""}
  <2>1. FormValues = [provider : Handles, model : ModelNames, workspace : WorkspaceNames, key : KeysTyped]
    BY ConnectionFields, Zenon
  <2>2. C!Blank \in FormValues
    BY BlankConnects
  <2>3. handle \in Handles
    BY DEF Handles
  <2> HIDE DEF KeysTyped
  <2> QED BY <1>1, <2>1, <2>2, <2>3
<1>4. raced' \in BOOLEAN /\ (raced = TRUE => raced' = TRUE) /\ (testing = TRUE => raced' = TRUE)
  BY <1>1 DEF ConnectionInv, ConnectionTypes
<1>5. ConnectionTypes'
  <2>1. \A q : RequestFits(q)' <=> RequestFits(q)
    BY DEF RequestFits
  <2> QED BY <1>1, <1>2, <1>3, <1>4, <2>1 DEF ConnectionInv, ConnectionTypes, Counters
<1>6. OneAtATime'
  BY <1>1 DEF ConnectionInv, OneAtATime
<1>7. C!Saved' = C!Saved /\ C!Shown(stored)' = C!Shown(stored) /\ \A values : Used(values)' = Used(values)
  BY <1>1, Zenon DEF C!Saved, C!Shown, Used, C!Effective
<1>8. Unwritten' <=> Unwritten
  BY <1>1, UnwrittenStays
<1>9. StoredShown'
  BY <1>1, <1>7, <1>8 DEF ConnectionInv, StoredShown, Served
<1>10. TestsFit'
  <2>1. \A q \in requests : q.kind = "test" => TestFits(q)'
    <3>1. SUFFICES ASSUME NEW q \in requests, q.kind = "test" PROVE TestFits(q)'
      OBVIOUS
    <3>2. TestFits(q) /\ testing = TRUE
      BY <3>1 DEF ConnectionInv, ConnectionTypes, TestsFit, OneAtATime
    <3> QED BY <1>1, <1>2, <1>4, <1>7, <1>8, <3>2 DEF TestFits
  <2> QED BY <1>1, <1>7, <1>8, <2>1 DEF ConnectionInv, TestsFit
<1>11. ModelsFit'
  <2>1. \A q \in requests : q.kind = "models" => ListFits(q)'
    <3>1. SUFFICES ASSUME NEW q \in requests, q.kind = "models" PROVE ListFits(q)'
      OBVIOUS
    <3>2. q.seq <= refs.catalogue /\ q.seq \in Nat /\ refs.catalogue \in Nat
      BY <1>2, <3>1 DEF ConnectionInv, ConnectionTypes, RequestFits, ModelsFit, ListFits, Counters
    <3>3. q.seq < refs'.catalogue /\ q.seq <= refs'.catalogue /\ q.seq # refs'.catalogue
      BY <1>2, <3>2
    <3> QED BY <3>3 DEF ListFits
  <2> QED BY <1>1, <2>1 DEF ModelsFit
<1> QED BY <1>5, <1>6, <1>9, <1>10, <1>11 DEF ConnectionInv

LEMMA Testing == ASSUME ConnectionInv, C!HandleTest PROVE ConnectionInv'
<1>1. /\ testing = FALSE /\ testing' = TRUE /\ refs' = [refs EXCEPT !.test = @ + 1] /\ tested' = None
      /\ UNCHANGED <<stored, conn, form, catalogue, saving, vouched, lost, raced>>
      /\ requests' = requests \cup
           {C!Request("test", IF C!Unsaved THEN form ELSE None, refs.test + 1,
                      [form |-> form, saved |-> IF C!Unsaved THEN None ELSE conn])}
  BY DEF C!HandleTest, C!MayTest, ConnectionInv, ConnectionTypes
<1>2. refs \in Counters /\ refs' \in Counters /\ refs'.test = refs.test + 1 /\ refs'.catalogue = refs.catalogue
  BY <1>1 DEF ConnectionInv, ConnectionTypes, Counters
<1>3. form \in FormValues /\ conn \in Connections /\ conn # None
  BY ConnectionKnown DEF ConnectionInv, ConnectionTypes
<1>4. PICK body, about : body = (IF C!Unsaved THEN form ELSE None)
                         /\ about = [form |-> form, saved |-> IF C!Unsaved THEN None ELSE conn]
  OBVIOUS
<1>5. PICK seq \in Nat : seq = refs.test + 1
  BY <1>2 DEF Counters
<1>6. about \in Tests /\ about.form = form /\ about.saved = (IF C!Unsaved THEN None ELSE conn)
      /\ body \in FormValues \cup {None}
  BY <1>3, <1>4 DEF Tests
<1>7. PICK x : x = C!Request("test", body, seq, about)
  OBVIOUS
<1>8. RequestFits(x) /\ x.kind = "test" /\ x.body = body /\ x.seq = seq /\ x.about = about /\ x.state = "sent"
  <2>1. x = [id |-> C!FreeId, kind |-> "test", body |-> body, seq |-> seq, about |-> about, state |-> "sent",
             answer |-> None]
    BY <1>7 DEF C!Request
  <2>2. /\ x.kind = "test" /\ x.body = body /\ x.seq = seq /\ x.about = about /\ x.state = "sent"
        /\ x = [id |-> x.id, kind |-> x.kind, body |-> x.body, seq |-> x.seq, about |-> x.about, state |-> x.state,
                answer |-> x.answer]
    BY <2>1
  <2>3. RequestFits(x)
    BY <1>5, <1>6, <2>2 DEF RequestFits
  <2> QED BY <2>2, <2>3
<1>9. requests' = requests \cup {x}
  BY <1>1, <1>4, <1>5, <1>7
<1>10. ConnectionTypes'
  <2>1. \A q : RequestFits(q)' <=> RequestFits(q)
    BY DEF RequestFits
  <2> QED BY <1>1, <1>2, <1>8, <1>9, <2>1 DEF ConnectionInv, ConnectionTypes, Counters
<1>11. OneAtATime'
  BY <1>1, <1>3, <1>8, <1>9, AloneAdded DEF ConnectionInv
<1>12. C!Saved' = C!Saved /\ C!Shown(stored)' = C!Shown(stored)
  BY <1>1, Zenon DEF C!Saved, C!Shown
<1>13. (Unwritten' <=> Unwritten) /\ ~Served(x)
  BY <1>8, <1>9, UnwrittenStays DEF Served
<1>14. StoredShown'
  BY <1>1, <1>8, <1>9, <1>12, <1>13 DEF ConnectionInv, StoredShown, Served
<1>15. TestFits(x)'
  <2>1. C!Unsaved <=> form # C!Saved
    BY DEF C!Unsaved
  <2>2. form = C!Saved => form.provider = conn.provider
    <3>1. C!Saved = [conn EXCEPT !.key = ""]
      BY <1>3, Zenon DEF C!Saved
    <3>2. PICK none : none = ""
      OBVIOUS
    <3>3. C!Saved = [conn EXCEPT !.key = none]
      BY <3>1, <3>2, Zenon
    <3>4. Connections = [provider : Handles, model : ModelNames, workspace : WorkspaceNames, key : KeyNames]
      BY ConnectionFields, Zenon
    <3>5. C!Saved.provider = conn.provider
      BY <1>3, <3>3, <3>4
    <3> QED BY <3>5
  <2>3. form # None
    BY <1>3, FormsConnect
  <2> QED BY <1>1, <1>2, <1>3, <1>4, <1>5, <1>6, <1>8, <1>12, <2>1, <2>2, <2>3 DEF TestFits, Counters
<1>16. TestsFit'
  <2>1. \A q \in requests : q.kind # "test"
    BY <1>1 DEF ConnectionInv, OneAtATime
  <2> QED BY <1>1, <1>9, <1>15, <2>1 DEF TestsFit
<1>17. ModelsFit'
  <2>1. \A q : ListFits(q) => ListFits(q)'
    BY <1>1, <1>2, <1>13 DEF ListFits
  <2> QED BY <1>1, <1>8, <1>9, <1>13, <2>1 DEF ConnectionInv, ModelsFit
<1> QED BY <1>10, <1>11, <1>14, <1>16, <1>17 DEF ConnectionInv

LEMMA TestAnswering == ASSUME ConnectionInv, NEW r \in requests, C!TestAnswer(r) PROVE ConnectionInv'
<1>1. /\ r.kind = "test" /\ r.state # "sent" /\ testing' = FALSE
      /\ UNCHANGED <<stored, conn, form, catalogue, saving, lost, raced>>
  BY DEF C!TestAnswer, C!Of, C!TestingAfter
<1>2. RequestFits(r) /\ TestFits(r) /\ conn # None /\ refs \in Counters
  BY <1>1 DEF ConnectionInv, ConnectionTypes, TestsFit, OneAtATime, Counters
<1>3. r.kind \notin Writes /\ ~Served(r)
  BY <1>1 DEF Writes, Served
<1>4. CASE requests' = requests \ {r} /\ UNCHANGED <<tested, vouched, refs>>
  <2>1. OneAtATime'
    BY <1>1, <1>2, <1>3, <1>4, AloneRemoved DEF ConnectionInv
  <2>2. Unwritten' => Unwritten
    BY <1>3, <1>4, UnwrittenStays
  <2>3. \A q \in requests' \ requests : RequestFits(q) /\ q.state = "sent" /\ q.kind \in Writes
    BY <1>4
  <2> QED BY <1>1, <1>4, <2>1, <2>2, <2>3, Quiet DEF ConnectionInv, ConnectionTypes
<1>5. CASE r.seq = refs.test /\ r.state = "ok"
  <2>1. tested' = r.about.form /\ vouched' = r.answer /\ r.about \in Tests
    BY <1>1, <1>2, <1>5 DEF C!TestAnswer, RequestFits
  <2>2. PICK rest : rest = requests \ {r}
    OBVIOUS
  <2>3. \/ r.about.saved # None /\ C!RefreshModelCatalogue(r.about.saved, refs, rest)
        \/ refs' = refs /\ requests' = rest
    BY <1>5, <2>2 DEF C!TestAnswer
  <2>4. /\ refs' \in Counters /\ refs'.test = refs.test /\ refs'.catalogue >= refs.catalogue
        /\ \/ refs' = refs /\ requests' = rest
           \/ /\ r.about.saved # None /\ refs'.catalogue > refs.catalogue
              /\ \E x : /\ RequestFits(x) /\ x.kind = "models" /\ x.state = "sent" /\ x.seq = refs'.catalogue
                        /\ requests' = rest \/ requests' = rest \cup {x}
    <3>1. CASE refs' = refs /\ requests' = rest
      BY <1>2, <3>1 DEF Counters
    <3>2. CASE r.about.saved # None /\ C!RefreshModelCatalogue(r.about.saved, refs, rest)
      <4>1. /\ refs' \in Counters /\ refs'.test = refs.test /\ refs'.catalogue = refs.catalogue + 1
            /\ \E x : /\ RequestFits(x) /\ x.kind = "models" /\ x.state = "sent" /\ x.seq = refs'.catalogue
                      /\ requests' = rest \/ requests' = rest \cup {x}
        BY <1>2, <3>2, Refreshed
      <4> QED BY <1>2, <3>2, <4>1 DEF Counters
    <3> QED BY <2>3, <3>1, <3>2
  <2>5. \A q \in requests' : \/ q \in requests /\ q # r
                             \/ /\ r.about.saved # None /\ RequestFits(q) /\ q.kind = "models" /\ q.state = "sent"
                                /\ q.seq = refs'.catalogue
    BY <2>2, <2>4
  <2>6. requests \ {r} \subseteq requests'
    BY <2>2, <2>4
  <2>7. ConnectionTypes'
    <3>1. \A q \in requests' : RequestFits(q)
      BY <2>5 DEF ConnectionInv, ConnectionTypes
    <3>2. \A q : RequestFits(q)' <=> RequestFits(q)
      BY DEF RequestFits
    <3>3. tested' \in FormValues
      BY <2>1 DEF Tests
    <3> QED BY <1>1, <2>4, <3>1, <3>2, <3>3 DEF ConnectionInv, ConnectionTypes, Counters
  <2>8. OneAtATime'
    <3>1. \A q \in requests' : q.kind # "test"
      BY <1>1, <2>5 DEF ConnectionInv, OneAtATime
    <3> QED BY <1>1, <1>2, <2>5, <3>1 DEF ConnectionInv, OneAtATime, Writes
  <2>9. Unwritten' <=> Unwritten
    <3>1. \A q \in requests' : q \in requests \/ ~Served(q)
      BY <2>5 DEF Served, Writes
    <3> QED BY <1>3, <2>6, <3>1 DEF Unwritten, Served
  <2>10. C!Saved' = C!Saved /\ C!Shown(stored)' = C!Shown(stored) /\ \A values : Used(values)' = Used(values)
    BY <1>1, Zenon DEF C!Saved, C!Shown, Used, C!Effective
  <2>11. StoredShown'
    <3>1. \A q \in requests' : q \in requests \/ (~Served(q) /\ q.kind # "load")
      BY <2>5 DEF Served, Writes
    <3>2. \A q : Served(q)' <=> Served(q)
      BY DEF Served
    <3> QED BY <1>1, <2>9, <2>10, <3>1, <3>2 DEF ConnectionInv, StoredShown
  <2>12. TestsFit'
    <3>1. \A q \in requests' : q.kind # "test"
      BY <1>1, <2>5 DEF ConnectionInv, OneAtATime
    <3>2. lost' = FALSE /\ Unwritten' => vouched' = Used(tested)'
      BY <1>1, <1>2, <1>5, <2>1, <2>9, <2>10 DEF TestFits
    <3> QED BY <3>1, <3>2 DEF TestsFit
  <2>13. ModelsFit'
    <3>1. ASSUME NEW q \in requests', q.kind = "models" PROVE ListFits(q)'
      <4>1. CASE q \in requests
        <5>1. ListFits(q) /\ q.seq \in Nat
          BY <3>1, <4>1 DEF ConnectionInv, ConnectionTypes, RequestFits, ModelsFit
        <5>2. refs'.catalogue = refs.catalogue \/ refs'.catalogue > refs.catalogue
          BY <2>4
        <5>3. q.seq <= refs'.catalogue /\ (q.seq = refs'.catalogue => q.seq = refs.catalogue)
          BY <1>2, <2>4, <5>1, <5>2 DEF ListFits, Counters
        <5> QED BY <1>1, <2>9, <5>1, <5>3 DEF ListFits
      <4>2. CASE r.about.saved # None /\ RequestFits(q) /\ q.state = "sent" /\ q.seq = refs'.catalogue
        <5>1. raced = TRUE \/ form.provider = conn.provider
          BY <1>2, <1>5, <4>2 DEF TestFits
        <5>2. q.seq \in Nat
          BY <4>2 DEF RequestFits
        <5> QED BY <1>1, <4>2, <5>1, <5>2 DEF ListFits
      <4> QED BY <2>5, <4>1, <4>2
    <3> QED BY <1>1, <2>9, <3>1 DEF ConnectionInv, ModelsFit
  <2> QED BY <2>7, <2>8, <2>11, <2>12, <2>13 DEF ConnectionInv
<1> QED BY <1>4, <1>5 DEF C!TestAnswer

LEMMA ConnectionInit == ASSUME C!Init PROVE ConnectionInv
<1>1. /\ stored \in {C!Blank} \cup FirstConnections /\ conn = None /\ form = C!Blank /\ catalogue = None
      /\ refs = [catalogue |-> 0, test |-> 0] /\ tested = None /\ saving = FALSE /\ testing = FALSE
      /\ lost = FALSE /\ raced = FALSE
  BY DEF C!Init
<1>2. PICK x : x = [id |-> 1, kind |-> "load", body |-> None, seq |-> 0, about |-> None, state |-> "sent", answer |-> None]
  OBVIOUS
<1>3. requests = {x}
  BY <1>2 DEF C!Init
<1>4. RequestFits(x) /\ x.kind = "load" /\ x.state = "sent"
  BY <1>2 DEF RequestFits
<1>5. C!Blank \in FormValues /\ C!Blank.provider = None
  BY BlankConnects
<1>6. stored \in Connections
  BY <1>1, <1>5, FormsConnect, ConnectionAssumption
<1>7. ConnectionTypes
  BY <1>1, <1>3, <1>4, <1>5, <1>6 DEF ConnectionTypes
<1>8. OneAtATime
  BY <1>1, <1>3, <1>4, <1>5 DEF OneAtATime, Writes
<1>9. StoredShown /\ TestsFit /\ ModelsFit
  BY <1>1, <1>3, <1>4 DEF StoredShown, TestsFit, ModelsFit, Served, Writes
<1> QED BY <1>7, <1>8, <1>9 DEF ConnectionInv

LEMMA ConnectionStep == ConnectionInv /\ C!Next => ConnectionInv'
<1> SUFFICES ASSUME ConnectionInv, C!Next PROVE ConnectionInv'
  OBVIOUS
<1>1. ASSUME C!Network PROVE ConnectionInv'
  <2>1. PICK r \in requests : \/ C!Serve(r) \/ C!Loaded(r) \/ C!ModelsAnswer(r) \/ C!SaveAnswer(r)
                              \/ C!TestAnswer(r) \/ C!DisconnectAnswer(r)
    BY <1>1 DEF C!Network
  <2>2. ASSUME C!Loaded(r) \/ C!SaveAnswer(r) \/ C!DisconnectAnswer(r) PROVE ConnectionInv'
    <3>1. r.state # "sent" /\ r.kind \in {"load", "save", "delete"}
      BY <2>2 DEF C!Loaded, C!SaveAnswer, C!DisconnectAnswer, C!Of
    <3>2. r.state = "ok" \/ r.state = "failed"
      BY <3>1 DEF ConnectionInv, ConnectionTypes, RequestFits
    <3> QED BY <2>2, <3>1, <3>2, NotTaken, Taken
  <2> QED BY <2>1, <2>2, ServeAny, ModelsAnswering, TestAnswering
<1>2. ASSUME C!HandleSubmit \/ C!HandleTest \/ C!HandleDisconnect PROVE ConnectionInv'
  BY <1>2, Writing, Testing
<1> QED BY <1>1, <1>2, FailAny, ProviderChanging, Editing DEF C!Next

LEMMA ConnectionStutters == ConnectionInv /\ UNCHANGED connection => ConnectionInv'
<1> SUFFICES ASSUME ConnectionInv, UNCHANGED connection PROVE ConnectionInv'
  OBVIOUS
<1>1. UNCHANGED <<stored, conn, form, catalogue, refs, tested, saving, testing, requests, vouched, lost, raced>>
  BY DEF connection
<1>2. OneAtATime'
  BY <1>1 DEF ConnectionInv, OneAtATime
<1>3. Unwritten' => Unwritten
  BY <1>1, UnwrittenStays
<1> QED BY <1>1, <1>2, <1>3, Quiet DEF ConnectionInv, ConnectionTypes

LEMMA AtMostOne ==
  ASSUME NEW U, \A a \in U, b \in U : a = b
  PROVE  IsFiniteSet(U) /\ Cardinality(U) \in Nat /\ Cardinality(U) <= 1 /\ (U = {} => Cardinality(U) = 0)
<1>1. CASE U = {}
  BY <1>1, FS_EmptySet
<1>2. CASE U # {}
  <2>1. PICK a \in U : TRUE
    BY <1>2
  <2>2. U = {a}
    BY <2>1
  <2>3. IsFiniteSet({a}) /\ Cardinality({a}) = 1
    BY FS_Singleton
  <2> QED BY <1>2, <2>2, <2>3
<1> QED BY <1>1, <1>2

LEMMA ConnectionCounts == ASSUME NEW U PROVE C!Cardinality(U) = Cardinality(U)
BY DEF C!Cardinality, Cardinality

LEMMA OneUnderWay == ConnectionInv => C!TypeOK
<1> SUFFICES ASSUME ConnectionInv PROVE C!TypeOK
  OBVIOUS
<1>1. form \in [provider : Providers \cup {None}, model : Models \cup {""},
                workspace : Workspaces \cup {""}, key : Keys \cup {""}]
  <2>1. form \in FormValues
    BY DEF ConnectionInv, ConnectionTypes
  <2> QED BY <2>1, Zenon DEF FormValues
<1>2. C!Cardinality(C!Of("save") \cup C!Of("delete")) <= IF saving THEN 1 ELSE 0
  <2> DEFINE W == C!Of("save") \cup C!Of("delete")
  <2>1. \A a \in W : a \in requests /\ a.kind \in Writes
    BY DEF C!Of, Writes
  <2>2. \A a \in W, b \in W : a = b
    BY <2>1 DEF ConnectionInv, OneAtATime
  <2>3. saving = FALSE => W = {}
    BY <2>1 DEF ConnectionInv, OneAtATime
  <2>4. saving \in BOOLEAN
    BY DEF ConnectionInv, ConnectionTypes
  <2> HIDE DEF W
  <2>5. Cardinality(W) \in Nat /\ Cardinality(W) <= 1 /\ (W = {} => Cardinality(W) = 0)
    BY <2>2, AtMostOne
  <2>6. C!Cardinality(W) = Cardinality(W)
    BY ConnectionCounts
  <2>7. C!Cardinality(W) <= IF saving THEN 1 ELSE 0
    BY <2>3, <2>4, <2>5, <2>6
  <2> QED BY <2>7 DEF W
<1>3. C!Cardinality(C!Of("test")) <= IF testing THEN 1 ELSE 0
  <2> DEFINE T1 == C!Of("test")
  <2>1. \A a \in T1 : a \in requests /\ a.kind = "test"
    BY DEF C!Of
  <2>2. \A a \in T1, b \in T1 : a = b
    BY <2>1 DEF ConnectionInv, OneAtATime
  <2>3. testing = FALSE => T1 = {}
    BY <2>1 DEF ConnectionInv, OneAtATime
  <2>4. testing \in BOOLEAN
    BY DEF ConnectionInv, ConnectionTypes
  <2> HIDE DEF T1
  <2>5. Cardinality(T1) \in Nat /\ Cardinality(T1) <= 1 /\ (T1 = {} => Cardinality(T1) = 0)
    BY <2>2, AtMostOne
  <2>6. C!Cardinality(T1) = Cardinality(T1)
    BY ConnectionCounts
  <2>7. C!Cardinality(T1) <= IF testing THEN 1 ELSE 0
    BY <2>3, <2>4, <2>5, <2>6
  <2> QED BY <2>7 DEF T1
<1> QED BY <1>1, <1>2, <1>3, Zenon DEF C!TypeOK

LEMMA TestedHolds == ConnectionInv => C!TestVouches
<1> SUFFICES ASSUME ConnectionInv, tested = form, saving = FALSE, lost = FALSE
             PROVE  vouched = IF C!Unsaved THEN C!Effective(form, stored) ELSE stored
  BY DEF C!TestVouches, C!SelectionTested, ConnectionInv, ConnectionTypes
<1>1. tested # None
  BY FormsConnect DEF ConnectionInv, ConnectionTypes
<1>2. Unwritten
  BY DEF ConnectionInv, OneAtATime, Unwritten, Served
<1>3. vouched = Used(form)
  BY <1>1, <1>2 DEF ConnectionInv, TestsFit
<1> QED BY <1>3 DEF Used, C!Unsaved

LEMMA CatalogueHolds == ConnectionInv => C!CatalogueFits
<1> SUFFICES ASSUME ConnectionInv, catalogue # None, saving = FALSE, lost = FALSE
             PROVE  catalogue = stored.provider /\ (raced = TRUE \/ form.provider = catalogue)
  BY DEF C!CatalogueFits, ConnectionInv, ConnectionTypes
<1>1. Unwritten
  BY DEF ConnectionInv, OneAtATime, Unwritten, Served
<1>2. catalogue = stored.provider /\ (raced = TRUE \/ form.provider = conn.provider)
  BY <1>1 DEF ConnectionInv, ModelsFit
<1>3. conn = C!Shown(stored)
  <2>1. conn # None
    BY DEF ConnectionInv, OneAtATime
  <2> QED BY <1>1, <2>1 DEF ConnectionInv, StoredShown
<1>4. conn.provider = stored.provider
  BY <1>3, ShownConnects DEF ConnectionInv, ConnectionTypes
<1> QED BY <1>2, <1>4

(* "Test passed" is shown only for what the passed test used, the models offered are those of the provider stored
   and shown, and one save or disconnection and one test at most are under way. *)
THEOREM ConnectionHolds == Spec => []ConnectionTruthful
<1> DEFINE Inv == tab = "connection" => ConnectionInv
<1>1. Init => Inv
  BY ConnectionInit DEF Init
<1>2. Inv /\ [Next]_vars => Inv'
  <2>1. SUFFICES ASSUME Inv, [Next]_vars, tab' = "connection" PROVE ConnectionInv'
    OBVIOUS
  <2>2. tab' = tab /\ ConnectionInv
    BY <2>1 DEF Next, vars, AtSettings, AtConnection, AtEvaluation, AtImport, AtText
  <2>3. C!Next \/ UNCHANGED connection
    BY <2>1, <2>2 DEF Next, vars, AtSettings, AtConnection, AtEvaluation, AtImport, AtText
  <2> QED BY <2>2, <2>3, ConnectionStep, ConnectionStutters
<1>3. Inv => ConnectionTruthful
  BY OneUnderWay, TestedHolds, CatalogueHolds DEF ConnectionTruthful
<1> QED BY <1>1, <1>2, <1>3, PTL DEF Spec

-----------------------------------------------------------------------------
(* The settings: what the page, the cache and the server hold *)

SettingsPages ==
  [user : Users \cup {None}, currentUser : Values, editing : [username : BOOLEAN, email : BOOLEAN], sequence : Nat,
   viewSave : {"saving", "saved", None}, timer : Nat, apps : (SUBSET Apps) \cup {None}, busy : Apps \cup {None},
   confirm : BOOLEAN, left : BOOLEAN]

CachedUsers == [request : Nat, user : Users \cup {None}]

(* A request of the settings, and what its answer is. *)
Sound(r) ==
  /\ r = [id |-> r.id, kind |-> r.kind, value |-> r.value, sequence |-> r.sequence, state |-> r.state, user |-> r.user]
  /\ r.id \in Nat \ {0}
  /\ r.kind \in S!Fields \cup {"me", "disconnect", "export", "delete"} /\ r.state \in {"sent", "ok", "failed"}
  /\ r.sequence \in Nat /\ r.user \in Users \cup {None}
  /\ r.kind \in S!Fields => r.value \in Values
  /\ r.state = "ok" /\ r.kind \in S!Fields \cup {"me"} => r.user \in Users

SettingsTypes ==
  /\ account \in SettingsAccounts \cup {None} /\ cache \in CachedUsers \cup {None} /\ page \in SettingsPages
  /\ overlapped \in BOOLEAN /\ early \in BOOLEAN
  /\ IsFiniteSet(net) /\ \A r \in net : Sound(r)

(* The cache awaits a read that is under way, or holds a user. *)
CacheAwaits ==
  cache # None =>
    /\ cache.request = 0 => cache.user \in Users
    /\ cache.request # 0 => \E r \in net : r.kind = "me" /\ r.id = cache.request

(* The choices of the preference under way are numbered in turn, the latest of them by the page. *)
NotedRight ==
  /\ \A r \in net : r.kind = "view" => r.sequence <= page.sequence
  /\ \A r \in net, q \in net : r.kind = "view" /\ q.kind = "view" /\ r.sequence = q.sequence => r = q
  /\ page.viewSave = "saving" <=> \E r \in net : r.kind = "view" /\ r.sequence = page.sequence
  /\ page.timer # 0 => page.timer = page.sequence /\ page.viewSave = "saved"

Undisturbed == overlapped = FALSE /\ early = FALSE /\ account # None

OfPage(r) == r.kind = "me" /\ r.value = "page"

BringsUser(r) == r.kind \in S!Fields \/ OfPage(r)

LatestChoice(r) == r.kind = "view" /\ r.sequence = page.sequence

(* Unless an answer was lost or two were awaited, the page shows the stored user, or the answer that does is on
   its way; of several choices of the preference the latest is served last. *)
UserShown ==
  /\ \A r \in net : r.state = "failed" => overlapped = TRUE \/ account = None
  /\ overlapped = FALSE =>
       \A r \in net, q \in net : BringsUser(r) /\ BringsUser(q) => r = q \/ (r.kind = "view" /\ q.kind = "view")
  /\ overlapped = FALSE /\ account # None =>
       \A r \in net : r.kind = "view" /\ r.state = "sent" => \E q \in net : LatestChoice(q) /\ q.state = "sent"
  /\ Undisturbed =>
       /\ \A r \in net : BringsUser(r) /\ r.state = "ok" /\ (r.kind = "view" => LatestChoice(r))
            => r.user = account.user
       /\ (\A r \in net : ~LatestChoice(r) /\ ~OfPage(r) /\ ~(r.kind \in {"username", "email"} /\ r.state = "ok"))
            => page.user = account.user
       /\ (\A r \in net : ~(r.kind = "username" /\ r.state = "ok")) => page.currentUser = account.user.username

(* No change is under way while the cache awaits or holds a user, which is the stored one. *)
CacheFresh ==
  early = FALSE /\ cache # None =>
    /\ \A r \in net : r.kind \notin S!Fields
    /\ account # None =>
         /\ cache.request = 0 => cache.user = account.user
         /\ \A r \in net : r.kind = "me" /\ r.id = cache.request /\ r.state = "ok" => r.user = account.user

(* Every connected app is listed, except those whose disconnection was answered. *)
AppsListed ==
  /\ \A r \in net : r.kind = "disconnect" => page.apps # None
  /\ account # None =>
       /\ page.apps # None => account.apps \subseteq page.apps
       /\ \A r \in net : r.kind = "disconnect" /\ r.state = "ok" => r.value \notin account.apps

SettingsInv == SettingsTypes /\ CacheAwaits /\ NotedRight /\ UserShown /\ CacheFresh /\ AppsListed

LEMMA SettingsCounts == ASSUME NEW A PROVE S!Cardinality(A) = Cardinality(A)
  BY DEF S!Cardinality, Cardinality

IdsOf(N) == {r.id : r \in N}

(* There are more numbers up to one more than the number of requests than requests. *)
LEMMA FreeIdentifier ==
  ASSUME IsFiniteSet(net)
  PROVE  S!FreeId \in Nat \ {0} /\ \A r \in net : r.id # S!FreeId
<1> DEFINE n == Cardinality(net)
           Candidates == 1..(n + 1)
           Numbers == IdsOf(net)
<1>1. n \in Nat
  BY FS_CardinalityType
<1>2. IsFiniteSet(Numbers) /\ Cardinality(Numbers) <= n
  <2>1. PICK f \in [net -> Numbers] : f = [r \in net |-> r.id]
    BY DEF IdsOf
  <2>2. f \in Surjection(net, Numbers)
    BY <2>1 DEF Surjection, IdsOf
  <2> QED BY <2>2, FS_Surjection DEF ExistsSurjection
<1>3. Cardinality(Candidates) = n + 1
  <2>1. PICK m \in Nat : m = n
    BY <1>1
  <2>2. Cardinality(1..(m + 1)) = m + 1
    BY FS_Interval
  <2> QED BY <2>1, <2>2
<1>4. Cardinality(Numbers) \in Nat
  BY <1>2, FS_CardinalityType
<1>5. ~(Candidates \subseteq Numbers)
  <2>1. SUFFICES ASSUME Candidates \subseteq Numbers PROVE FALSE
    OBVIOUS
  <2>2. Cardinality(Candidates) <= Cardinality(Numbers)
    BY <1>2, <2>1, FS_Subset
  <2> QED BY <1>1, <1>2, <1>3, <1>4, <2>2
<1>6. PICK i \in Candidates : i \notin Numbers
  BY <1>5
<1>7. \A r \in net : r.id # i
  BY <1>6 DEF IdsOf
<1>8. S!FreeId \in Candidates /\ \A r \in net : r.id # S!FreeId
  BY <1>6, <1>7, SettingsCounts DEF S!FreeId
<1> QED BY <1>1, <1>8

LEMMA SettingsRequested ==
  ASSUME IsFiniteSet(net), NEW kind \in S!Fields \cup {"me", "disconnect", "export", "delete"}, NEW value,
         NEW sequence \in Nat, kind \in S!Fields => value \in Values,
         NEW x, x = S!Request(kind, value, sequence)
  PROVE  /\ Sound(x) /\ x.id = S!FreeId /\ x.kind = kind /\ x.value = value /\ x.sequence = sequence
         /\ x.state = "sent"
<1>1. x = [id |-> S!FreeId, kind |-> kind, value |-> value, sequence |-> sequence, state |-> "sent", user |-> None]
  BY DEF S!Request
<1> QED BY <1>1, FreeIdentifier DEF Sound

Answer(r, state, user) == [r EXCEPT !.state = state, !.user = user]

LEMMA SettingsAnswering ==
  ASSUME NEW r, Sound(r), NEW state \in {"ok", "failed"}, NEW user \in Users \cup {None},
         state = "ok" /\ r.kind \in S!Fields \cup {"me"} => user \in Users,
         NEW x, x = Answer(r, state, user)
  PROVE  /\ Sound(x) /\ x.id = r.id /\ x.kind = r.kind /\ x.value = r.value /\ x.sequence = r.sequence
         /\ x.state = state /\ x.user = user
<1>1. r = [id |-> r.id, kind |-> r.kind, value |-> r.value, sequence |-> r.sequence, state |-> r.state, user |-> r.user]
  BY DEF Sound
<1>2. x = [id |-> r.id, kind |-> r.kind, value |-> r.value, sequence |-> r.sequence, state |-> state, user |-> user]
  BY <1>1 DEF Answer
<1>3. /\ x.id = r.id /\ x.kind = r.kind /\ x.value = r.value /\ x.sequence = r.sequence
      /\ x.state = state /\ x.user = user
  BY <1>2
<1>4. x = [id |-> x.id, kind |-> x.kind, value |-> x.value, sequence |-> x.sequence, state |-> x.state, user |-> x.user]
  BY <1>2
<1> QED BY <1>3, <1>4 DEF Sound

(* What any step keeps of the requests themselves. *)
LEMMA NetStays ==
  ASSUME SettingsTypes, NEW r, NEW x, Sound(x),
         net' = net \cup {x} \/ net' = net \ {r} \/ net' = (net \ {r}) \cup {x}
  PROVE  IsFiniteSet(net') /\ \A q \in net' : Sound(q)
<1>1. IsFiniteSet(net) /\ \A q \in net : Sound(q)
  BY DEF SettingsTypes
<1>2. IsFiniteSet(net \ {r})
  BY <1>1, FS_RemoveElement
<1> QED BY <1>1, <1>2, FS_AddElement

(* What the page shows of the user and of the preference stays. *)
ShownStays ==
  /\ page' \in SettingsPages /\ page'.user = page.user /\ page'.currentUser = page.currentUser
  /\ page'.sequence = page.sequence /\ page'.viewSave = page.viewSave /\ page'.timer = page.timer

Errands == {"disconnect", "export", "delete"}

LEMMA ErrandsApart == \A kind \in Errands : kind # "me" /\ kind \notin S!Fields
  BY DEF Errands, S!Fields

(* A step that concerns neither the user nor the preference: only an errand is added or answered. *)
LEMMA SettingsQuiet ==
  ASSUME SettingsInv, ShownStays, UNCHANGED <<account, overlapped, early>>, cache' \in {cache, None},
         AppsListed', NEW x, Sound(x), x.kind \in Errands, x.state = "sent",
         net' = net \/ net' = net \ {x} \/ net' = net \cup {x}
            \/ \E r \in net : r.kind \in Errands /\ net' = net \ {r}
  PROVE  SettingsInv'
<1>1. /\ \A q \in net : q.kind \notin Errands => q \in net'
      /\ \A q \in net' : q \in net \/ q = x
      /\ \A q \in net' : q.kind \notin Errands => q \in net
  OBVIOUS
<1>2. SettingsTypes'
  <2>1. IsFiniteSet(net') /\ \A q \in net' : Sound(q)
    BY NetStays DEF SettingsInv, SettingsTypes
  <2> QED BY <2>1 DEF SettingsInv, SettingsTypes, ShownStays
<1>3. CacheAwaits'
  BY <1>1, ErrandsApart DEF SettingsInv, CacheAwaits
<1>4. NotedRight'
  BY <1>1, ErrandsApart DEF SettingsInv, NotedRight, ShownStays, S!Fields
<1>5. UserShown'
  <2>1. \A q : (BringsUser(q))' = BringsUser(q) /\ (LatestChoice(q))' = LatestChoice(q)
    BY DEF BringsUser, LatestChoice, OfPage, ShownStays
  <2>2. \A q : BringsUser(q) \/ LatestChoice(q) \/ OfPage(q) \/ q.kind \in {"view", "username", "email"}
               => q.kind \notin Errands
    BY ErrandsApart DEF BringsUser, LatestChoice, OfPage, S!Fields
  <2>3. \A q \in net' : q.state = "failed" => q \in net
    BY <1>1
  <2> HIDE DEF Errands
  <2> QED BY <1>1, <2>1, <2>2, <2>3 DEF SettingsInv, UserShown, Undisturbed, ShownStays, OfPage
<1>6. CacheFresh'
  BY <1>1, ErrandsApart DEF SettingsInv, CacheFresh
<1> QED BY <1>2, <1>3, <1>4, <1>5, <1>6 DEF SettingsInv

LEMMA ErrandAsked ==
  ASSUME SettingsInv, NEW kind \in Errands, NEW value, NEW x, x = S!Request(kind, value, 0)
  PROVE  Sound(x) /\ x.kind = kind /\ x.value = value /\ x.state = "sent"
  BY SettingsRequested, ErrandsApart DEF SettingsInv, SettingsTypes, Errands

(* A step that changes the page alone. *)
LEMMA PageAlone ==
  ASSUME SettingsInv, ShownStays, UNCHANGED <<account, cache, net, overlapped, early>>, AppsListed'
  PROVE  SettingsInv'
<1>1. PICK x : x = S!Request("export", None, 0)
  OBVIOUS
<1> QED BY <1>1, ErrandAsked, SettingsQuiet DEF Errands

LEMMA ErrandAnswered ==
  ASSUME SettingsInv, ShownStays, UNCHANGED <<account, overlapped, early>>, cache' \in {cache, None},
         AppsListed', NEW r \in net, r.kind \in Errands, net' = net \ {r}
  PROVE  SettingsInv'
<1>1. PICK x : x = S!Request("export", None, 0)
  OBVIOUS
<1> QED BY <1>1, ErrandAsked, SettingsQuiet DEF Errands

LEMMA ErrandAsking ==
  ASSUME SettingsInv, ShownStays, UNCHANGED <<account, cache, overlapped, early>>, AppsListed',
         NEW kind \in Errands, NEW value, net' = net \cup {S!Request(kind, value, 0)}
  PROVE  SettingsInv'
<1>1. PICK x : x = S!Request(kind, value, 0)
  OBVIOUS
<1> QED BY <1>1, ErrandAsked, SettingsQuiet

LEMMA EditingField ==
  ASSUME SettingsInv, NEW field \in {"username", "email"}, S!EditField(field) \/ S!CancelEdit(field)
  PROVE  SettingsInv'
<1>1. PICK b \in BOOLEAN : page' = [page EXCEPT !.editing[field] = b]
  BY DEF S!EditField, S!CancelEdit
<1>2. UNCHANGED <<account, cache, net, overlapped, early>>
  BY DEF S!EditField, S!CancelEdit
<1>3. ShownStays /\ page'.apps = page.apps
  BY <1>1 DEF SettingsInv, SettingsTypes, SettingsPages, ShownStays
<1>4. AppsListed'
  BY <1>2, <1>3 DEF SettingsInv, AppsListed
<1> QED BY <1>2, <1>3, <1>4, PageAlone

LEMMA ConfirmingDeletion ==
  ASSUME SettingsInv, NEW shown \in BOOLEAN, S!ConfirmDelete(shown)
  PROVE  SettingsInv'
<1>1. ShownStays /\ page'.apps = page.apps
  BY DEF SettingsInv, SettingsTypes, SettingsPages, ShownStays, S!ConfirmDelete
<1>2. AppsListed'
  BY <1>1 DEF SettingsInv, AppsListed, S!ConfirmDelete
<1> QED BY <1>1, <1>2, PageAlone DEF S!ConfirmDelete

LEMMA LoadingApps == ASSUME SettingsInv, S!LoadApps PROVE SettingsInv'
<1>1. account.apps \in SUBSET Apps
  BY DEF SettingsInv, SettingsTypes, SettingsAccounts, S!LoadApps
<1>2. ShownStays /\ page'.apps = account.apps
  BY <1>1 DEF SettingsInv, SettingsTypes, SettingsPages, ShownStays, S!LoadApps
<1>3. AppsListed'
  BY <1>1, <1>2, SettingsAssumption DEF SettingsInv, AppsListed, S!LoadApps
<1> QED BY <1>2, <1>3, PageAlone DEF S!LoadApps

LEMMA Disconnecting == ASSUME SettingsInv, NEW app \in Apps, S!Disconnect(app) PROVE SettingsInv'
<1>1. ShownStays /\ page'.apps = page.apps
  BY DEF SettingsInv, SettingsTypes, SettingsPages, ShownStays, S!Disconnect
<1>2. PICK x : x = S!Request("disconnect", app, 0)
  OBVIOUS
<1>3. x.state = "sent" /\ net' = net \cup {x}
  BY <1>2, ErrandAsked DEF Errands, S!Disconnect
<1>4. AppsListed'
  BY <1>1, <1>3 DEF SettingsInv, AppsListed, S!Disconnect
<1> QED BY <1>1, <1>4, ErrandAsking DEF Errands, S!Disconnect

LEMMA DisconnectAnswering == ASSUME SettingsInv, NEW r \in net, S!DisconnectAnswer(r) PROVE SettingsInv'
<1>1. r.kind = "disconnect" /\ page.apps # None /\ page.apps \in SUBSET Apps
  BY DEF SettingsInv, SettingsTypes, SettingsPages, AppsListed, S!DisconnectAnswer, S!Of
<1>2. PICK apps \in SUBSET Apps : /\ apps = IF r.state = "ok" THEN page.apps \ {r.value} ELSE page.apps
                                  /\ page' = [page EXCEPT !.busy = None, !.apps = apps]
  BY <1>1 DEF SettingsInv, SettingsTypes, SettingsPages, S!DisconnectAnswer, S!Disconnected
<1>3. ShownStays /\ page'.apps = apps
  BY <1>2 DEF SettingsInv, SettingsTypes, SettingsPages, ShownStays
<1>4. AppsListed'
  BY <1>1, <1>2, <1>3, SettingsAssumption DEF SettingsInv, AppsListed, S!DisconnectAnswer
<1> QED BY <1>1, <1>3, <1>4, ErrandAnswered DEF Errands, S!DisconnectAnswer

LEMMA Exporting == ASSUME SettingsInv, S!HandleExport \/ S!HandleDeleteAccount PROVE SettingsInv'
<1>1. PICK kind \in {"export", "delete"} : net' = net \cup {S!Request(kind, None, 0)}
  BY DEF S!HandleExport, S!HandleDeleteAccount
<1>2. UNCHANGED <<account, cache, page, overlapped, early>>
  BY DEF S!HandleExport, S!HandleDeleteAccount
<1>3. PICK x : x = S!Request(kind, None, 0)
  OBVIOUS
<1>4. x.kind = kind
  BY <1>3, ErrandAsked DEF Errands
<1>5. AppsListed' /\ ShownStays
  BY <1>1, <1>2, <1>3, <1>4 DEF SettingsInv, SettingsTypes, ShownStays, AppsListed
<1> QED BY <1>1, <1>2, <1>5, ErrandAsking DEF Errands

LEMMA ExportAnswering ==
  ASSUME SettingsInv, NEW r \in net, S!ExportAnswer(r) \/ S!DeleteAnswer(r)
  PROVE  SettingsInv'
<1>1. r.kind \in {"export", "delete"} /\ net' = net \ {r}
  BY DEF S!ExportAnswer, S!DeleteAnswer, S!Of
<1>2. cache' \in {cache, None} /\ UNCHANGED <<account, overlapped, early>>
  BY DEF S!ExportAnswer, S!DeleteAnswer
<1>3. ShownStays /\ page'.apps = page.apps
  <2>1. page \in SettingsPages /\ page' \in {page, [page EXCEPT !.left = TRUE]}
    BY DEF SettingsInv, SettingsTypes, S!ExportAnswer, S!DeleteAnswer
  <2>2. CASE page' = page
    BY <2>1, <2>2 DEF ShownStays
  <2>3. CASE page' = [page EXCEPT !.left = TRUE]
    BY <2>1, <2>3 DEF ShownStays, SettingsPages
  <2> QED BY <2>1, <2>2, <2>3
<1>4. AppsListed'
  BY <1>1, <1>2, <1>3 DEF SettingsInv, AppsListed
<1> QED BY <1>1, <1>2, <1>3, <1>4, ErrandAnswered DEF Errands

(* Reading the user: the cache awaits the new request, and nothing else has its number. *)
LEMMA AskingUser ==
  ASSUME SettingsInv, NEW reader, S!GetCurrentUser(reader), account' = account,
         NEW x, x = S!Request("me", reader, 0)
  PROVE  /\ net' = net \cup {x} /\ x.kind = "me" /\ x.value = reader /\ x.state = "sent" /\ x.kind \notin S!Fields
         /\ IsFiniteSet(net') /\ (\A q \in net' : Sound(q)) /\ cache' \in CachedUsers \cup {None}
         /\ early' \in BOOLEAN /\ (early' = FALSE => early = FALSE) /\ CacheAwaits' /\ CacheFresh'
<1>1. Sound(x) /\ x.id = S!FreeId /\ x.kind = "me" /\ x.value = reader /\ x.state = "sent" /\ x.kind \notin S!Fields
  <2>1. "me" \notin S!Fields
    BY DEF S!Fields
  <2> QED BY <2>1, SettingsRequested DEF SettingsInv, SettingsTypes
<1>2. net' = net \cup {x} /\ cache = None /\ cache' = [request |-> x.id, user |-> None]
  BY <1>1 DEF S!GetCurrentUser
<1>3. x.id \in Nat \ {0} /\ \A r \in net : r.id # x.id
  BY <1>1, FreeIdentifier DEF SettingsInv, SettingsTypes
<1>4. IsFiniteSet(net') /\ \A q \in net' : Sound(q)
  BY <1>1, <1>2, NetStays DEF SettingsInv
<1>5. cache' \in CachedUsers \cup {None} /\ cache'.request = x.id
  BY <1>2, <1>3 DEF CachedUsers
<1>6. early' \in BOOLEAN /\ (early' = FALSE => early = FALSE /\ \A q \in net : q.kind \notin S!Fields)
  BY DEF SettingsInv, SettingsTypes, S!GetCurrentUser, S!Changes
<1>7. CacheAwaits'
  BY <1>1, <1>2, <1>3, <1>5 DEF CacheAwaits
<1>8. CacheFresh'
  BY <1>1, <1>2, <1>3, <1>5, <1>6 DEF CacheFresh
<1> QED BY <1>1, <1>2, <1>4, <1>5, <1>6, <1>7, <1>8

LEMMA ReadingUser == ASSUME SettingsInv, S!ReadUser PROVE SettingsInv'
<1>1. PICK x : x = S!Request("me", "others", 0)
  OBVIOUS
<1>2. UNCHANGED <<account, page, overlapped>> /\ S!GetCurrentUser("others")
  BY DEF S!ReadUser
<1>3. /\ net' = net \cup {x} /\ x.kind = "me" /\ x.value = "others" /\ x.state = "sent" /\ x.kind \notin S!Fields
      /\ IsFiniteSet(net') /\ (\A q \in net' : Sound(q)) /\ cache' \in CachedUsers \cup {None}
      /\ early' \in BOOLEAN /\ (early' = FALSE => early = FALSE) /\ CacheAwaits' /\ CacheFresh'
  BY <1>1, <1>2, AskingUser
<1>4. SettingsTypes'
  BY <1>2, <1>3 DEF SettingsInv, SettingsTypes
<1>5. NotedRight'
  BY <1>2, <1>3 DEF SettingsInv, NotedRight
<1>6. UserShown'
  <2>1. ~BringsUser(x) /\ ~LatestChoice(x) /\ ~OfPage(x) /\ x.kind \notin {"view", "username", "email"}
    BY <1>3 DEF BringsUser, LatestChoice, OfPage
  <2>2. \A q : (BringsUser(q))' = BringsUser(q) /\ (LatestChoice(q))' = LatestChoice(q)
    BY <1>2 DEF BringsUser, LatestChoice, OfPage
  <2> QED BY <1>2, <1>3, <2>1, <2>2 DEF SettingsInv, UserShown, Undisturbed, OfPage
<1>7. AppsListed'
  BY <1>2, <1>3 DEF SettingsInv, AppsListed
<1> QED BY <1>3, <1>4, <1>5, <1>6, <1>7 DEF SettingsInv

LEMMA OpenedSettings ==
  ASSUME NEW user \in Users \cup {None}, NEW name \in Values, NEW p, p = S!Opened(user, name)
  PROVE  /\ p \in SettingsPages /\ p.user = user /\ p.currentUser = name /\ p.sequence = 0 /\ p.viewSave = None
         /\ p.timer = 0 /\ p.apps = None
  BY DEF S!Opened, SettingsPages

LEMMA Reopening == ASSUME SettingsInv, S!Reopen PROVE SettingsInv'
<1>1. PICK user : user = IF cache = None THEN None ELSE cache.user
  OBVIOUS
<1>2. user \in Users \cup {None} /\ page.currentUser \in Values
  BY <1>1 DEF SettingsInv, SettingsTypes, CachedUsers, SettingsPages
<1>3. /\ page' \in SettingsPages /\ page'.user = user /\ page'.currentUser = page.currentUser /\ page'.sequence = 0
      /\ page'.viewSave = None /\ page'.timer = 0 /\ page'.apps = None
  BY <1>1, <1>2, OpenedSettings DEF S!Reopen
<1>4. UNCHANGED <<account, overlapped>> /\ net = {}
  BY DEF S!Reopen
<1>5. None # "saving"
  BY SettingsAssumption
<1>6. CASE cache = None
  <2>1. PICK x : x = S!Request("me", "page", 0)
    OBVIOUS
  <2>2. S!GetCurrentUser("page")
    BY <1>6 DEF S!Reopen
  <2>3. /\ net' = net \cup {x} /\ x.kind = "me" /\ x.value = "page" /\ x.state = "sent" /\ x.kind \notin S!Fields
        /\ IsFiniteSet(net') /\ (\A q \in net' : Sound(q)) /\ cache' \in CachedUsers \cup {None}
        /\ early' \in BOOLEAN /\ (early' = FALSE => early = FALSE) /\ CacheAwaits' /\ CacheFresh'
    BY <1>4, <2>1, <2>2, AskingUser
  <2>4. net' = {x}
    BY <1>4, <2>3
  <2>5. SettingsTypes'
    BY <1>3, <1>4, <2>3 DEF SettingsInv, SettingsTypes
  <2>6. NotedRight'
    BY <1>3, <1>5, <2>3, <2>4 DEF NotedRight
  <2>7. UserShown'
    BY <1>3, <1>4, <2>3, <2>4 DEF SettingsInv, UserShown, Undisturbed, OfPage, LatestChoice, BringsUser
  <2>8. AppsListed'
    BY <1>3, <2>3, <2>4 DEF AppsListed
  <2> QED BY <2>3, <2>5, <2>6, <2>7, <2>8 DEF SettingsInv
<1>7. CASE cache # None
  <2>1. UNCHANGED <<cache, net, early>>
    BY <1>7 DEF S!Reopen
  <2>2. cache.request = 0 /\ user = cache.user
    BY <1>1, <1>4, <1>7 DEF SettingsInv, CacheAwaits
  <2>3. early = FALSE /\ account # None => user = account.user
    BY <1>7, <2>2 DEF SettingsInv, CacheFresh
  <2>4. SettingsTypes' /\ CacheAwaits' /\ CacheFresh'
    BY <1>3, <1>4, <2>1 DEF SettingsInv, SettingsTypes, CacheAwaits, CacheFresh
  <2>5. NotedRight'
    BY <1>3, <1>4, <1>5, <2>1 DEF NotedRight
  <2>6. UserShown'
    BY <1>3, <1>4, <2>1, <2>3 DEF SettingsInv, UserShown, Undisturbed, OfPage, LatestChoice, BringsUser
  <2>7. AppsListed'
    BY <1>3, <1>4, <2>1 DEF AppsListed
  <2> QED BY <2>4, <2>5, <2>6, <2>7 DEF SettingsInv
<1> QED BY <1>6, <1>7

(* An answer whose user the page shows; a failed one, and one to an earlier choice, it does not. *)
Brings(r) == BringsUser(r) /\ (r.kind = "view" => LatestChoice(r))

LEMMA BringsFor ==
  ASSUME NEW r
  PROVE  /\ Brings(r) => BringsUser(r) /\ (r.kind = "view" => LatestChoice(r))
         /\ ~Brings(r) => ~LatestChoice(r) /\ ~OfPage(r) /\ r.kind \notin {"username", "email"}
  BY DEF Brings, BringsUser, LatestChoice, OfPage, S!Fields

(* The page takes an answer: if it shows the user brought, that is the stored one. *)
LEMMA SettingsTaken ==
  ASSUME SettingsInv, NEW r \in net, r.state # "sent", net' = net \ {r}, UNCHANGED <<account, overlapped, early>>,
         page' \in SettingsPages, page'.sequence = page.sequence, page'.apps = page.apps,
         cache' \in CachedUsers \cup {None}, CacheAwaits', CacheFresh', NotedRight',
         page'.user = IF Brings(r) /\ r.state = "ok" THEN r.user ELSE page.user,
         page'.currentUser = IF r.kind = "username" /\ r.state = "ok" THEN r.user.username ELSE page.currentUser
  PROVE  SettingsInv'
<1>1. SettingsTypes'
  <2>1. PICK x : x = S!Request("export", None, 0)
    OBVIOUS
  <2>2. Sound(x)
    BY <2>1, ErrandAsked DEF Errands
  <2> QED BY <2>2, NetStays DEF SettingsInv, SettingsTypes
<1>2. AppsListed'
  BY DEF SettingsInv, AppsListed
<1>3. \A q : (BringsUser(q))' = BringsUser(q) /\ (LatestChoice(q))' = LatestChoice(q)
  BY DEF BringsUser, LatestChoice, OfPage
<1>4. Undisturbed' => Undisturbed /\ r.state # "failed"
  BY DEF SettingsInv, UserShown, Undisturbed
<1>5. r.state = "ok" \/ r.state = "failed"
  BY DEF SettingsInv, SettingsTypes, Sound
<1>6. Undisturbed' /\ Brings(r) => r.state = "ok" /\ r.user = account.user
  BY <1>4, <1>5, BringsFor DEF SettingsInv, UserShown
<1>7. UserShown'
  <2>1. (\A q \in net' : q.state = "failed" => overlapped' = TRUE \/ account' = None)
    BY DEF SettingsInv, UserShown
  <2>2. overlapped' = FALSE =>
          \A p \in net', q \in net' : BringsUser(p)' /\ BringsUser(q)' => p = q \/ (p.kind = "view" /\ q.kind = "view")
    BY <1>3 DEF SettingsInv, UserShown
  <2>3. overlapped' = FALSE /\ account' # None =>
          \A p \in net' : p.kind = "view" /\ p.state = "sent" => \E q \in net' : LatestChoice(q)' /\ q.state = "sent"
    BY <1>3 DEF SettingsInv, UserShown
  <2>4. ASSUME Undisturbed'
        PROVE  \A q \in net' : BringsUser(q)' /\ q.state = "ok" /\ (q.kind = "view" => LatestChoice(q)')
                                 => q.user = account'.user
    BY <1>3, <1>4, <2>4 DEF SettingsInv, UserShown
  <2>5. ASSUME Undisturbed',
               \A q \in net' : ~LatestChoice(q)' /\ ~OfPage(q) /\ ~(q.kind \in {"username", "email"} /\ q.state = "ok")
        PROVE  page'.user = account'.user
    <3>1. CASE Brings(r)
      BY <1>6, <2>5, <3>1
    <3>2. CASE ~Brings(r)
      <4>1. \A q \in net : ~LatestChoice(q) /\ ~OfPage(q) /\ ~(q.kind \in {"username", "email"} /\ q.state = "ok")
        BY <1>3, <2>5, <3>2, BringsFor
      <4> QED BY <1>4, <2>5, <3>2, <4>1 DEF SettingsInv, UserShown
    <3> QED BY <3>1, <3>2
  <2>6. ASSUME Undisturbed', \A q \in net' : ~(q.kind = "username" /\ q.state = "ok")
        PROVE  page'.currentUser = account'.user.username
    <3>1. CASE r.kind = "username"
      <4>1. Brings(r)
        BY <3>1 DEF Brings, BringsUser, S!Fields
      <4> QED BY <1>6, <2>6, <3>1, <4>1
    <3>2. CASE r.kind # "username"
      BY <1>4, <2>6, <3>2 DEF SettingsInv, UserShown
    <3> QED BY <3>1, <3>2
  <2>7. \A q : (OfPage(q))' = OfPage(q)
    BY DEF OfPage
  <2> QED BY <2>1, <2>2, <2>3, <2>4, <2>5, <2>6, <2>7 DEF UserShown
<1> QED BY <1>1, <1>2, <1>7 DEF SettingsInv

LEMMA SettingsRead == ASSUME SettingsInv, NEW r \in net, S!UserRead(r) PROVE SettingsInv'
<1>1. r.kind = "me" /\ r.state # "sent" /\ Sound(r) /\ net' = net \ {r} /\ UNCHANGED <<account, overlapped, early>>
  BY DEF SettingsInv, SettingsTypes, S!UserRead, S!Of
<1>2. r.state \in {"ok", "failed"} /\ (r.state = "ok" => r.user \in Users) /\ r.kind \notin S!Fields
  BY <1>1 DEF Sound, S!Fields
<1>3. page' = IF OfPage(r) /\ r.state = "ok" THEN [page EXCEPT !.user = r.user] ELSE page
  BY <1>1 DEF OfPage, S!UserRead
<1>4. /\ page' \in SettingsPages /\ page'.sequence = page.sequence /\ page'.apps = page.apps
      /\ page'.viewSave = page.viewSave /\ page'.timer = page.timer /\ page'.currentUser = page.currentUser
      /\ page'.user = IF OfPage(r) /\ r.state = "ok" THEN r.user ELSE page.user
  BY <1>2, <1>3 DEF SettingsInv, SettingsTypes, SettingsPages
<1>5. Brings(r) <=> OfPage(r)
  BY <1>1, <1>2 DEF Brings, BringsUser
<1>6. PICK c : c = [request |-> 0, user |-> r.user]
  OBVIOUS
<1>7. \/ cache' = cache /\ (cache = None \/ cache.request # r.id)
      \/ cache' = c /\ r.state = "ok" /\ cache # None /\ cache.request = r.id
      \/ cache' = None
  BY <1>1, <1>6 DEF S!UserRead, S!Kept
<1>8. c.request = 0 /\ c.user = r.user /\ (r.state = "ok" => c \in CachedUsers)
  BY <1>2, <1>6 DEF CachedUsers
<1>9. cache' \in CachedUsers \cup {None}
  BY <1>7, <1>8 DEF SettingsInv, SettingsTypes
<1>10. CacheAwaits'
  BY <1>1, <1>2, <1>7, <1>8 DEF SettingsInv, CacheAwaits
<1>11. CacheFresh'
  <2>1. CASE cache' = cache
    BY <1>1, <2>1 DEF SettingsInv, CacheFresh
  <2>2. CASE cache' = c /\ r.state = "ok" /\ cache # None /\ cache.request = r.id
    <3>1. early = FALSE /\ account # None => r.user = account.user
      BY <1>1, <2>2 DEF SettingsInv, CacheFresh
    <3>2. \A q \in net : q.id # 0
      BY DEF SettingsInv, SettingsTypes, Sound
    <3> QED BY <1>1, <1>8, <2>2, <3>1, <3>2 DEF SettingsInv, CacheFresh
  <2> QED BY <1>7, <2>1, <2>2 DEF CacheFresh
<1>12. NotedRight'
  BY <1>1, <1>4 DEF SettingsInv, NotedRight
<1> QED BY <1>1, <1>4, <1>5, <1>9, <1>10, <1>11, <1>12, SettingsTaken

LEMMA Untouched ==
  ASSUME SettingsInv, NEW r \in net, r.kind # "me", net' = net \ {r}, UNCHANGED <<account, cache, early>>
  PROVE  CacheAwaits' /\ CacheFresh' /\ cache' \in CachedUsers \cup {None}
  BY DEF SettingsInv, SettingsTypes, CacheAwaits, CacheFresh

LEMMA ProfileAnswering == ASSUME SettingsInv, NEW r \in net, S!ProfileAnswer(r) PROVE SettingsInv'
<1>1. /\ r.kind \in {"username", "email"} /\ r.state # "sent" /\ Sound(r) /\ net' = net \ {r}
      /\ UNCHANGED <<account, cache, overlapped, early>>
  BY DEF SettingsInv, SettingsTypes, S!ProfileAnswer, S!Of
<1>2. r.state \in {"ok", "failed"} /\ (r.state = "ok" => r.user \in Users) /\ r.kind \in S!Fields
  BY <1>1 DEF Sound, S!Fields
<1>3. r.state = "ok" => r.user.username \in Values
  BY <1>2 DEF Users, S!Fields
<1>4. /\ page' \in SettingsPages /\ page'.sequence = page.sequence /\ page'.apps = page.apps
      /\ page'.viewSave = page.viewSave /\ page'.timer = page.timer
      /\ page'.currentUser = IF r.kind = "username" /\ r.state = "ok" THEN r.user.username ELSE page.currentUser
      /\ page'.user = IF r.state = "ok" THEN r.user ELSE page.user
  BY <1>1, <1>2, <1>3 DEF SettingsInv, SettingsTypes, SettingsPages, S!ProfileAnswer, S!UsernameAnswer, S!EmailAnswer
<1>5. Brings(r)
  BY <1>1, <1>2 DEF Brings, BringsUser
<1>6. NotedRight'
  BY <1>1, <1>4 DEF SettingsInv, NotedRight
<1> QED BY <1>1, <1>4, <1>5, <1>6, Untouched, SettingsTaken

LEMMA ViewAnswering == ASSUME SettingsInv, NEW r \in net, S!ViewAnswer(r) PROVE SettingsInv'
<1>1. /\ r.kind = "view" /\ r.state # "sent" /\ Sound(r) /\ net' = net \ {r}
      /\ UNCHANGED <<account, cache, overlapped, early>>
  BY DEF SettingsInv, SettingsTypes, S!ViewAnswer, S!Of
<1>2. r.state \in {"ok", "failed"} /\ (r.state = "ok" => r.user \in Users) /\ r.kind \in S!Fields
  BY <1>1 DEF Sound, S!Fields
<1>3. Brings(r) <=> LatestChoice(r)
  BY <1>1, <1>2 DEF Brings, BringsUser
<1>4. None # "saving" /\ None # "saved" /\ page.sequence \in Nat
  BY SettingsAssumption DEF SettingsInv, SettingsTypes, SettingsPages
<1>5. /\ page' \in SettingsPages /\ page'.sequence = page.sequence /\ page'.apps = page.apps
      /\ page'.currentUser = page.currentUser
      /\ page'.user = IF LatestChoice(r) /\ r.state = "ok" THEN r.user ELSE page.user
      /\ page'.viewSave = IF ~LatestChoice(r) THEN page.viewSave ELSE IF r.state = "failed" THEN None ELSE "saved"
      /\ page'.timer = IF LatestChoice(r) /\ r.state # "failed" THEN page.sequence ELSE page.timer
  BY <1>1, <1>2, <1>4 DEF SettingsInv, SettingsTypes, SettingsPages, S!ViewAnswer, S!Latest, LatestChoice
<1>6. NotedRight'
  <2>1. CASE ~LatestChoice(r)
    BY <1>1, <1>5, <2>1 DEF SettingsInv, NotedRight, LatestChoice
  <2>2. CASE LatestChoice(r)
    <3>1. page.viewSave = "saving" /\ page.timer = 0
      BY <1>1, <2>2 DEF SettingsInv, NotedRight, LatestChoice
    <3>2. \A q \in net' : q.kind = "view" => q.sequence # page.sequence
      BY <1>1, <2>2 DEF SettingsInv, NotedRight, LatestChoice
    <3>3. page'.viewSave # "saving" /\ (page'.timer # 0 => page'.timer = page.sequence /\ page'.viewSave = "saved")
      BY <1>2, <1>4, <1>5, <2>2, <3>1
    <3> QED BY <1>1, <1>5, <3>2, <3>3 DEF SettingsInv, NotedRight
  <2> QED BY <2>1, <2>2
<1> QED BY <1>1, <1>3, <1>5, <1>6, Untouched, SettingsTaken

LEMMA ViewTimerFiring == ASSUME SettingsInv, S!ViewTimerFires PROVE SettingsInv'
<1>1. page.timer = page.sequence /\ page.viewSave = "saved" /\ page.timer # 0 /\ None # "saving"
  BY SettingsAssumption DEF SettingsInv, NotedRight, S!ViewTimerFires
<1>2. UNCHANGED <<account, cache, net, overlapped, early>>
  BY DEF S!ViewTimerFires
<1>3. /\ page' \in SettingsPages /\ page'.sequence = page.sequence /\ page'.apps = page.apps
      /\ page'.currentUser = page.currentUser /\ page'.user = page.user /\ page'.viewSave = None /\ page'.timer = 0
  BY <1>1 DEF SettingsInv, SettingsTypes, SettingsPages, S!ViewTimerFires, S!ViewTimer
<1>4. SettingsTypes' /\ CacheAwaits' /\ CacheFresh' /\ AppsListed'
  BY <1>2, <1>3 DEF SettingsInv, SettingsTypes, CacheAwaits, CacheFresh, AppsListed
<1>5. NotedRight'
  BY <1>1, <1>2, <1>3 DEF SettingsInv, NotedRight
<1>6. UserShown'
  BY <1>2, <1>3 DEF SettingsInv, UserShown, Undisturbed, OfPage, LatestChoice, BringsUser
<1> QED BY <1>4, <1>5, <1>6 DEF SettingsInv

LEMMA SettingsStutters == SettingsInv /\ UNCHANGED settings => SettingsInv'
<1>1. SUFFICES ASSUME SettingsInv, UNCHANGED settings PROVE SettingsInv'
  OBVIOUS
<1>2. ShownStays /\ AppsListed'
  BY <1>1 DEF SettingsInv, SettingsTypes, ShownStays, AppsListed, settings
<1> QED BY <1>1, <1>2, PageAlone DEF settings

LEMMA SettingsInit == ASSUME S!Init PROVE SettingsInv
<1>1. PICK first \in Values : account = [user |-> [field \in S!Fields |-> first], apps |-> Apps]
  BY SettingsAssumption DEF S!Init
<1>2. account \in SettingsAccounts /\ account.user \in Users /\ account.user.username \in Values
  BY <1>1 DEF SettingsAccounts, Users, S!Fields
<1>3. cache = [request |-> 0, user |-> account.user] /\ page = S!Opened(account.user, account.user.username)
      /\ net = {} /\ overlapped = FALSE /\ early = FALSE
  BY DEF S!Init
<1>4. /\ page \in SettingsPages /\ page.user = account.user /\ page.currentUser = account.user.username
      /\ page.sequence = 0 /\ page.viewSave = None /\ page.timer = 0 /\ page.apps = None
  BY <1>2, <1>3, OpenedSettings
<1>5. None # "saving" /\ cache \in CachedUsers /\ cache.request = 0 /\ cache.user = account.user
  BY <1>2, <1>3, SettingsAssumption DEF CachedUsers
<1>6. SettingsTypes
  BY <1>2, <1>3, <1>4, <1>5, FS_EmptySet DEF SettingsTypes
<1>7. CacheAwaits /\ CacheFresh /\ AppsListed /\ NotedRight
  BY <1>2, <1>3, <1>4, <1>5 DEF CacheAwaits, CacheFresh, AppsListed, NotedRight
<1>8. UserShown
  BY <1>3, <1>4 DEF UserShown
<1> QED BY <1>6, <1>7, <1>8 DEF SettingsInv

OverlapNoted(kind) == overlapped' = (overlapped \/ \E r \in S!Showing : {r.kind, kind} # {"view"})

(* A change of the user is asked for: nothing else may bring the user unless both are
   choices of the preference. *)
LEMMA ChangeAsked ==
  ASSUME SettingsInv, NEW kind \in S!Fields, NEW value \in Values, NEW sequence \in Nat,
         NEW x, x = S!Request(kind, value, sequence), net' = net \cup {x}, OverlapNoted(kind)
  PROVE  /\ IsFiniteSet(net') /\ (\A q \in net' : Sound(q)) /\ overlapped' \in BOOLEAN
         /\ overlapped' = FALSE =>
              overlapped = FALSE /\ \A q \in net : BringsUser(q) => q.kind = "view" /\ kind = "view"
<1>1. Sound(x)
  BY SettingsRequested DEF SettingsInv, SettingsTypes
<1>2. IsFiniteSet(net') /\ \A q \in net' : Sound(q)
  BY <1>1, NetStays DEF SettingsInv
<1>3. S!Showing = {r \in net : BringsUser(r)}
  BY DEF S!Showing, S!Changes, S!Of, BringsUser, OfPage
<1>4. overlapped' = FALSE =>
        overlapped = FALSE /\ \A q \in net : BringsUser(q) => q.kind = "view" /\ kind = "view"
  <2>1. SUFFICES ASSUME overlapped' = FALSE
                 PROVE  overlapped = FALSE /\ \A q \in net : BringsUser(q) => q.kind = "view" /\ kind = "view"
    OBVIOUS
  <2>2. overlapped = FALSE /\ \A r \in S!Showing : {r.kind, kind} = {"view"}
    BY <2>1 DEF SettingsInv, SettingsTypes, OverlapNoted
  <2>3. \A q \in net : BringsUser(q) => {q.kind, kind} = {"view"}
    BY <1>3, <2>2
  <2> QED BY <2>2, <2>3
<1>5. overlapped' \in BOOLEAN
  BY DEF SettingsInv, SettingsTypes, OverlapNoted
<1> QED BY <1>2, <1>4, <1>5

LEMMA ChangingProfile ==
  ASSUME SettingsInv, NEW value \in Values, S!HandleUsernameChange(value) \/ S!HandleEmailChange(value)
  PROVE  SettingsInv'
<1>1. PICK kind \in {"username", "email"} : S!UpdateProfile(kind, value, 0)
  BY DEF S!HandleUsernameChange, S!HandleEmailChange
<1>2. UNCHANGED <<account, page, early>> /\ kind \in S!Fields /\ kind # "view"
  BY DEF S!HandleUsernameChange, S!HandleEmailChange, S!Fields
<1>3. PICK x : x = S!Request(kind, value, 0)
  OBVIOUS
<1>4. /\ net' = net \cup {x} /\ x.kind = kind /\ x.sequence = 0 /\ x.state = "sent"
      /\ IsFiniteSet(net') /\ (\A q \in net' : Sound(q)) /\ cache' = None /\ overlapped' \in BOOLEAN
      /\ overlapped' = FALSE => overlapped = FALSE /\ \A q \in net : ~BringsUser(q)
  <2>1. net' = net \cup {x} /\ cache' = None /\ OverlapNoted(kind)
    BY <1>1, <1>3 DEF S!UpdateProfile, OverlapNoted
  <2>2. PICK sequence \in Nat : sequence = 0
    OBVIOUS
  <2>3. Sound(x) /\ x.kind = kind /\ x.sequence = 0 /\ x.state = "sent"
    BY <1>2, <1>3, <2>2, SettingsRequested DEF SettingsInv, SettingsTypes
  <2>4. /\ IsFiniteSet(net') /\ (\A q \in net' : Sound(q)) /\ overlapped' \in BOOLEAN
        /\ overlapped' = FALSE =>
             overlapped = FALSE /\ \A q \in net : BringsUser(q) => q.kind = "view" /\ kind = "view"
    BY <1>2, <1>3, <2>1, <2>2, ChangeAsked
  <2> QED BY <1>2, <2>1, <2>3, <2>4
<1>5. SettingsTypes' /\ CacheAwaits' /\ CacheFresh'
  BY <1>2, <1>4 DEF SettingsInv, SettingsTypes, CacheAwaits, CacheFresh
<1>6. NotedRight' /\ AppsListed'
  BY <1>2, <1>4 DEF SettingsInv, NotedRight, AppsListed, S!Fields
<1>7. UserShown'
  <2>1. \A q : (BringsUser(q))' = BringsUser(q) /\ (LatestChoice(q))' = LatestChoice(q) /\ (OfPage(q))' = OfPage(q)
    BY <1>2 DEF BringsUser, LatestChoice, OfPage
  <2>2. ~LatestChoice(x) /\ ~OfPage(x) /\ x.kind # "view"
    BY <1>2, <1>4 DEF LatestChoice, OfPage, S!Fields
  <2> QED BY <1>2, <1>4, <2>1, <2>2 DEF SettingsInv, UserShown, Undisturbed
<1> QED BY <1>5, <1>6, <1>7 DEF SettingsInv

LEMMA ChangingView == ASSUME SettingsInv, NEW view \in Values, S!HandleViewChange(view) PROVE SettingsInv'
<1>1. PICK next \in Nat : next = page.sequence + 1
  BY DEF SettingsInv, SettingsTypes, SettingsPages
<1>2. page' = [page EXCEPT !.sequence = next, !.viewSave = "saving", !.timer = 0]
  BY <1>1 DEF S!HandleViewChange
<1>3. /\ page' \in SettingsPages /\ page'.sequence = next /\ page'.apps = page.apps
      /\ page'.currentUser = page.currentUser /\ page'.user = page.user /\ page'.viewSave = "saving" /\ page'.timer = 0
  BY <1>2 DEF SettingsInv, SettingsTypes, SettingsPages
<1>4. S!UpdateProfile("view", view, next) /\ UNCHANGED <<account, early>> /\ "view" \in S!Fields
  BY <1>3 DEF S!HandleViewChange, S!Fields
<1>5. PICK x : x = S!Request("view", view, next)
  OBVIOUS
<1>6. /\ net' = net \cup {x} /\ x.kind = "view" /\ x.sequence = next /\ x.state = "sent"
      /\ IsFiniteSet(net') /\ (\A q \in net' : Sound(q)) /\ cache' = None /\ overlapped' \in BOOLEAN
      /\ overlapped' = FALSE => overlapped = FALSE /\ \A q \in net : BringsUser(q) => q.kind = "view"
  <2>1. net' = net \cup {x} /\ cache' = None /\ OverlapNoted("view")
    BY <1>4, <1>5 DEF S!UpdateProfile, OverlapNoted
  <2>2. Sound(x) /\ x.kind = "view" /\ x.sequence = next /\ x.state = "sent"
    BY <1>4, <1>5, SettingsRequested DEF SettingsInv, SettingsTypes
  <2>3. /\ IsFiniteSet(net') /\ (\A q \in net' : Sound(q)) /\ overlapped' \in BOOLEAN
        /\ overlapped' = FALSE =>
             overlapped = FALSE /\ \A q \in net : BringsUser(q) => q.kind = "view"
    BY <1>4, <1>5, <2>1, ChangeAsked
  <2> QED BY <2>1, <2>2, <2>3
<1>7. SettingsTypes' /\ CacheAwaits' /\ CacheFresh' /\ AppsListed'
  BY <1>3, <1>4, <1>6 DEF SettingsInv, SettingsTypes, CacheAwaits, CacheFresh, AppsListed
<1>8. \A q \in net : q.kind = "view" => q.sequence < next /\ q.sequence \in Nat
  BY <1>1 DEF SettingsInv, SettingsTypes, SettingsPages, NotedRight, Sound
<1>9. NotedRight'
  <2>1. \A q \in net' : q.kind = "view" => q.sequence <= next /\ (q.sequence = next => q = x)
    BY <1>6, <1>8
  <2> QED BY <1>3, <1>6, <1>8, <2>1 DEF SettingsInv, NotedRight
<1>10. UserShown'
  <2>1. \A q \in net : ~LatestChoice(q)'
    BY <1>3, <1>8 DEF LatestChoice
  <2>2. LatestChoice(x)' /\ ~OfPage(x) /\ BringsUser(x)
    BY <1>3, <1>6 DEF LatestChoice, OfPage, BringsUser, S!Fields
  <2>3. \A q : (BringsUser(q))' = BringsUser(q) /\ (OfPage(q))' = OfPage(q)
    BY DEF BringsUser, OfPage
  <2> QED BY <1>3, <1>4, <1>6, <2>1, <2>2, <2>3 DEF SettingsInv, UserShown, Undisturbed
<1> QED BY <1>7, <1>9, <1>10 DEF SettingsInv

(* A request is replaced by its answer. *)
LEMMA ReplacedRequest ==
  ASSUME SettingsInv, NEW r \in net, Sound(r), r.state # "failed", NEW x, Sound(x), x.id = r.id, x.kind = r.kind,
         x.value = r.value, x.sequence = r.sequence, x.state \in {"ok", "failed"},
         net' = (net \ {r}) \cup {x}, UNCHANGED <<cache, page>>
  PROVE  /\ CacheAwaits' /\ NotedRight' /\ IsFiniteSet(net') /\ (\A q \in net' : Sound(q))
         /\ \A q \in net' : q \in net \/ q = x
<1>1. IsFiniteSet(net') /\ \A q \in net' : Sound(q)
  BY NetStays DEF SettingsInv
<1>2. CacheAwaits'
  BY DEF SettingsInv, CacheAwaits
<1>3. NotedRight'
  <2>1. \A q \in net' : \E p \in net : p.kind = q.kind /\ p.sequence = q.sequence /\ (p = q \/ (p = r /\ q = x))
    OBVIOUS
  <2>2. \A q \in net' : q.kind = "view" => q.sequence <= page.sequence
    BY <2>1 DEF SettingsInv, NotedRight
  <2>3. \A p \in net', q \in net' : p.kind = "view" /\ q.kind = "view" /\ p.sequence = q.sequence => p = q
    <3>1. SUFFICES ASSUME NEW p \in net', NEW q \in net', p.kind = "view", q.kind = "view", p.sequence = q.sequence
                   PROVE  p = q
      OBVIOUS
    <3>2. CASE p # x /\ q # x
      BY <3>1, <3>2 DEF SettingsInv, NotedRight
    <3>3. CASE p = x /\ q # x
      BY <3>1, <3>3 DEF SettingsInv, NotedRight
    <3>4. CASE p # x /\ q = x
      BY <3>1, <3>4 DEF SettingsInv, NotedRight
    <3> QED BY <3>2, <3>3, <3>4
  <2>4. (\E q \in net : q.kind = "view" /\ q.sequence = page.sequence)
          <=> (\E q \in net' : q.kind = "view" /\ q.sequence = page.sequence)
    BY <2>1
  <2> QED BY <2>2, <2>3, <2>4 DEF SettingsInv, NotedRight
<1> QED BY <1>1, <1>2, <1>3

LEMMA SettingsFails == ASSUME SettingsInv, NEW r \in net, S!Fails(r) PROVE SettingsInv'
<1>1. r.state # "failed" /\ Sound(r) /\ overlapped' = TRUE /\ UNCHANGED <<account, cache, page, early>>
  BY DEF SettingsInv, SettingsTypes, S!Fails
<1>2. PICK x : x = Answer(r, "failed", None)
  OBVIOUS
<1>3. net' = (net \ {r}) \cup {x}
  BY <1>2 DEF S!Fails, S!Answered, Answer
<1>4. /\ Sound(x) /\ x.id = r.id /\ x.kind = r.kind /\ x.value = r.value /\ x.sequence = r.sequence
      /\ x.state = "failed"
  BY <1>1, <1>2, SettingsAnswering
<1>5. /\ CacheAwaits' /\ NotedRight' /\ IsFiniteSet(net') /\ (\A q \in net' : Sound(q))
      /\ \A q \in net' : q \in net \/ q = x
  BY <1>1, <1>3, <1>4, ReplacedRequest
<1>6. SettingsTypes'
  BY <1>1, <1>5 DEF SettingsInv, SettingsTypes
<1>7. UserShown'
  BY <1>1 DEF UserShown, Undisturbed
<1>8. CacheFresh'
  BY <1>1, <1>4, <1>5 DEF SettingsInv, CacheFresh
<1>9. AppsListed'
  BY <1>1, <1>4, <1>5 DEF SettingsInv, AppsListed
<1> QED BY <1>5, <1>6, <1>7, <1>8, <1>9 DEF SettingsInv

LEMMA SettingsServed == ASSUME SettingsInv, NEW r \in net, S!Served(r) PROVE SettingsInv'
<1>1. /\ r.state = "sent" /\ Sound(r) /\ UNCHANGED <<cache, page, overlapped, early>>
      /\ \A q \in net : q.kind = r.kind /\ q.state = "sent" => r.sequence <= q.sequence
  BY DEF SettingsInv, SettingsTypes, S!Served, S!Of
<1>2. /\ account = None => account' = None
      /\ account # None /\ r.kind = "delete" => account' = None
      /\ account # None /\ r.kind = "disconnect" => account' = [account EXCEPT !.apps = @ \ {r.value}]
      /\ account # None /\ r.kind \in S!Fields => account' = [account EXCEPT !.user[r.kind] = r.value]
      /\ account # None /\ r.kind \notin S!Fields \cup {"disconnect", "delete"} => account' = account
  BY DEF S!Served, S!Fields
<1>3. account = None \/ (account \in SettingsAccounts /\ account.user \in Users /\ account.apps \subseteq Apps)
  BY DEF SettingsInv, SettingsTypes, SettingsAccounts
<1>4. /\ account' \in SettingsAccounts \cup {None}
      /\ account # None /\ r.kind # "delete" => account' \in SettingsAccounts
  <2>1. CASE account # None /\ r.kind \in S!Fields
    <3>1. PICK user \in Users : user = [account.user EXCEPT ![r.kind] = r.value]
      BY <1>1, <1>3, <2>1 DEF Sound, Users
    <3>2. account' = [account EXCEPT !.user = user]
      BY <1>2, <1>3, <2>1, <3>1 DEF SettingsAccounts
    <3> QED BY <1>3, <2>1, <3>2 DEF SettingsAccounts
  <2>2. CASE account # None /\ r.kind \notin S!Fields
    BY <1>2, <1>3, <2>2 DEF SettingsAccounts
  <2> QED BY <1>2, <2>1, <2>2
<1>5. account' # None =>
        /\ account # None /\ account'.apps \subseteq account.apps /\ account'.user \in Users
        /\ r.kind \notin S!Fields => account'.user = account.user
        /\ r.kind = "disconnect" => r.value \notin account'.apps
        /\ r.kind # "username" => account'.user.username = account.user.username
  <2>1. SUFFICES ASSUME account' # None
                 PROVE  /\ account # None /\ account'.apps \subseteq account.apps /\ account'.user \in Users
                        /\ r.kind \notin S!Fields => account'.user = account.user
                        /\ r.kind = "disconnect" => r.value \notin account'.apps
                        /\ r.kind # "username" => account'.user.username = account.user.username
    OBVIOUS
  <2>2. account # None /\ account'.user \in Users
    BY <1>2, <1>4, <2>1 DEF SettingsAccounts
  <2>3. CASE r.kind \in S!Fields
    BY <1>2, <1>3, <2>2, <2>3 DEF SettingsAccounts, Users, S!Fields
  <2>4. CASE r.kind \notin S!Fields
    BY <1>2, <1>3, <2>1, <2>2, <2>4 DEF SettingsAccounts
  <2> QED BY <2>2, <2>3, <2>4
<1>6. PICK state : state = IF account = None THEN "failed" ELSE "ok"
  OBVIOUS
<1>7. PICK user : user = IF account' # None THEN account'.user ELSE None
  OBVIOUS
<1>8. PICK x : x = Answer(r, state, user)
  OBVIOUS
<1>9. net' = (net \ {r}) \cup {x}
  BY <1>6, <1>7, <1>8 DEF S!Served, S!Answered, Answer
<1>10. user \in Users \cup {None} /\ state \in {"ok", "failed"}
       /\ (state = "ok" /\ r.kind \in S!Fields \cup {"me"} => user \in Users)
  <2>1. state = "ok" /\ r.kind \in S!Fields \cup {"me"} => account # None /\ r.kind # "delete"
    BY <1>6 DEF S!Fields
  <2>2. None \notin SettingsAccounts
    BY SettingsAssumption
  <2> QED BY <1>4, <1>5, <1>6, <1>7, <2>1, <2>2
<1>11. /\ Sound(x) /\ x.id = r.id /\ x.kind = r.kind /\ x.value = r.value /\ x.sequence = r.sequence
       /\ x.state = state /\ x.user = user
  BY <1>1, <1>8, <1>10, SettingsAnswering
<1>12. /\ CacheAwaits' /\ NotedRight' /\ IsFiniteSet(net') /\ (\A q \in net' : Sound(q))
       /\ \A q \in net' : q \in net \/ q = x
  BY <1>1, <1>9, <1>10, <1>11, ReplacedRequest
<1>13. SettingsTypes'
  BY <1>1, <1>4, <1>12 DEF SettingsInv, SettingsTypes
<1>14. AppsListed'
  BY <1>1, <1>5, <1>11, <1>12 DEF SettingsInv, AppsListed
<1>15. CacheFresh'
  BY <1>1, <1>5, <1>7, <1>11, <1>12 DEF SettingsInv, CacheFresh
<1>16. x.state # "sent" /\ (BringsUser(x) <=> BringsUser(r)) /\ (LatestChoice(x) <=> LatestChoice(r))
       /\ (OfPage(x) <=> OfPage(r))
  BY <1>10, <1>11 DEF BringsUser, LatestChoice, OfPage
<1>17. \A q : (BringsUser(q))' = BringsUser(q) /\ (LatestChoice(q))' = LatestChoice(q) /\ (OfPage(q))' = OfPage(q)
  BY <1>1 DEF BringsUser, LatestChoice, OfPage
<1>18. Undisturbed' => Undisturbed /\ account' # None /\ x.state = "ok" /\ x.user = account'.user
  BY <1>1, <1>5, <1>6, <1>7, <1>11 DEF Undisturbed
<1>19. \A p \in net, q \in net : LatestChoice(p) /\ LatestChoice(q) => p = q
  BY DEF SettingsInv, NotedRight, LatestChoice
<1>20. Undisturbed /\ r.kind = "view" => \E p \in net : LatestChoice(p) /\ p.state = "sent"
  BY <1>1 DEF SettingsInv, UserShown, Undisturbed
<1>21. \A q \in net' : q.state = "failed" => overlapped' = TRUE \/ account' = None
  BY <1>1, <1>2, <1>6, <1>11, <1>12 DEF SettingsInv, UserShown
<1>22. overlapped' = FALSE =>
         \A p \in net', q \in net' : BringsUser(p) /\ BringsUser(q) => p = q \/ (p.kind = "view" /\ q.kind = "view")
  <2>1. SUFFICES ASSUME overlapped' = FALSE, NEW p \in net', NEW q \in net', BringsUser(p), BringsUser(q), p # q
                 PROVE  p.kind = "view" /\ q.kind = "view"
    OBVIOUS
  <2>2. \A a \in net, b \in net : BringsUser(a) /\ BringsUser(b) => a = b \/ (a.kind = "view" /\ b.kind = "view")
    BY <1>1, <2>1 DEF SettingsInv, UserShown
  <2>3. CASE p = x
    BY <1>9, <1>11, <1>16, <2>1, <2>2, <2>3
  <2>4. CASE q = x
    BY <1>9, <1>11, <1>16, <2>1, <2>2, <2>4
  <2>5. CASE p # x /\ q # x
    BY <1>12, <2>1, <2>2, <2>5
  <2> QED BY <2>3, <2>4, <2>5
<1>23. overlapped' = FALSE /\ account' # None =>
         \A q \in net' : q.kind = "view" /\ q.state = "sent" => \E p \in net' : LatestChoice(p) /\ p.state = "sent"
  <2>1. SUFFICES ASSUME overlapped' = FALSE, account' # None, NEW q \in net', q.kind = "view", q.state = "sent"
                 PROVE  \E p \in net' : LatestChoice(p) /\ p.state = "sent"
    OBVIOUS
  <2>2. q \in net /\ q # x
    BY <1>12, <1>16, <2>1
  <2>3. PICK p \in net : LatestChoice(p) /\ p.state = "sent"
    BY <1>1, <1>5, <2>1, <2>2 DEF SettingsInv, UserShown
  <2>4. CASE p # r
    BY <1>9, <2>3, <2>4
  <2>5. CASE p = r
    <3>1. r.sequence <= q.sequence /\ q.sequence <= page.sequence /\ r.sequence = page.sequence /\ r.kind = "view"
      BY <1>1, <2>1, <2>2, <2>3, <2>5 DEF SettingsInv, NotedRight, LatestChoice
    <3>2. q.sequence \in Nat /\ page.sequence \in Nat
      BY <2>2 DEF SettingsInv, SettingsTypes, Sound, SettingsPages
    <3>3. LatestChoice(q)
      BY <2>1, <3>1, <3>2 DEF LatestChoice
    <3>4. q = r
      BY <1>19, <2>2, <2>3, <2>5, <3>3
    <3> QED BY <1>9, <2>1, <2>2, <3>4
  <2> QED BY <2>4, <2>5
<1>24. ASSUME Undisturbed', NEW q \in net', BringsUser(q), q.state = "ok", q.kind = "view" => LatestChoice(q)
       PROVE  q.user = account'.user
  <2>1. CASE q = x
    BY <1>18, <1>24, <2>1
  <2>2. CASE q # x
    <3>1. q \in net /\ q.user = account.user
      BY <1>12, <1>18, <1>24, <2>2 DEF SettingsInv, UserShown
    <3>2. CASE r.kind \notin S!Fields
      BY <1>5, <1>18, <1>24, <3>1, <3>2
    <3>3. CASE r.kind \in S!Fields
      <4>1. q # r /\ BringsUser(r) /\ overlapped = FALSE
        BY <1>1, <1>18, <1>24, <3>3 DEF BringsUser, Undisturbed
      <4>2. q.kind = "view" /\ r.kind = "view"
        BY <1>24, <3>1, <4>1 DEF SettingsInv, UserShown
      <4>3. PICK p \in net : LatestChoice(p) /\ p.state = "sent"
        BY <1>18, <1>20, <1>24, <4>2
      <4>4. p = q
        BY <1>19, <1>24, <3>1, <4>2, <4>3
      <4> QED BY <1>24, <4>3, <4>4
    <3> QED BY <3>2, <3>3
  <2> QED BY <2>1, <2>2
<1>25. ASSUME Undisturbed',
              \A q \in net' : ~LatestChoice(q) /\ ~OfPage(q) /\ ~(q.kind \in {"username", "email"} /\ q.state = "ok")
       PROVE  page'.user = account'.user
  <2>1. x \in net' /\ ~LatestChoice(r) /\ ~OfPage(r) /\ r.kind \notin {"username", "email"}
    BY <1>9, <1>11, <1>16, <1>18, <1>25
  <2>2. r.kind # "view"
    <3>1. SUFFICES ASSUME r.kind = "view" PROVE FALSE
      OBVIOUS
    <3>2. PICK p \in net : LatestChoice(p) /\ p.state = "sent"
      BY <1>18, <1>20, <1>25, <3>1
    <3>3. p \in net'
      BY <1>9, <2>1, <3>2
    <3> QED BY <1>25, <3>2, <3>3
  <2>3. r.kind \notin S!Fields
    BY <2>1, <2>2 DEF S!Fields
  <2>4. \A q \in net : ~LatestChoice(q) /\ ~OfPage(q) /\ ~(q.kind \in {"username", "email"} /\ q.state = "ok")
    BY <1>9, <1>25, <2>1
  <2>5. page.user = account.user
    BY <1>18, <1>25, <2>4 DEF SettingsInv, UserShown
  <2> QED BY <1>1, <1>5, <1>18, <1>25, <2>3, <2>5
<1>26. ASSUME Undisturbed', \A q \in net' : ~(q.kind = "username" /\ q.state = "ok")
       PROVE  page'.currentUser = account'.user.username
  <2>1. r.kind # "username"
    BY <1>9, <1>11, <1>18, <1>26
  <2>2. \A q \in net : ~(q.kind = "username" /\ q.state = "ok")
    BY <1>9, <1>26, <2>1
  <2>3. page.currentUser = account.user.username
    BY <1>18, <1>26, <2>2 DEF SettingsInv, UserShown
  <2> QED BY <1>1, <1>5, <1>18, <1>26, <2>1, <2>3
<1>27. UserShown'
  BY <1>17, <1>21, <1>22, <1>23, <1>24, <1>25, <1>26 DEF UserShown
<1> QED BY <1>12, <1>13, <1>14, <1>15, <1>27 DEF SettingsInv

LEMMA SettingsStep == SettingsInv /\ S!Next => SettingsInv'
<1>1. SUFFICES ASSUME SettingsInv, S!Next PROVE SettingsInv'
  OBVIOUS
<1>2. CASE S!Answers
  <2>1. PICK r \in net : \/ S!Served(r) \/ S!UserRead(r) \/ S!ProfileAnswer(r) \/ S!ViewAnswer(r)
                         \/ S!DisconnectAnswer(r) \/ S!ExportAnswer(r) \/ S!DeleteAnswer(r)
    BY <1>2 DEF S!Answers
  <2> QED BY <1>1, <2>1, SettingsServed, SettingsRead, ProfileAnswering, ViewAnswering, DisconnectAnswering,
             ExportAnswering
<1>3. CASE S!LoadApps \/ S!ViewTimerFires \/ S!ReadUser \/ S!HandleExport \/ S!HandleDeleteAccount \/ S!Reopen
  BY <1>1, <1>3, LoadingApps, ViewTimerFiring, ReadingUser, Exporting, Reopening
<1>4. ASSUME NEW r \in net, S!Fails(r) PROVE SettingsInv'
  BY <1>1, <1>4, SettingsFails
<1>5. ASSUME NEW shown \in BOOLEAN, S!ConfirmDelete(shown) PROVE SettingsInv'
  BY <1>1, <1>5, ConfirmingDeletion
<1>6. ASSUME NEW field \in {"username", "email"}, S!EditField(field) \/ S!CancelEdit(field) PROVE SettingsInv'
  BY <1>1, <1>6, EditingField
<1>7. ASSUME NEW value \in Values,
             S!HandleUsernameChange(value) \/ S!HandleEmailChange(value) \/ S!HandleViewChange(value)
      PROVE  SettingsInv'
  BY <1>1, <1>7, ChangingProfile, ChangingView
<1>8. ASSUME NEW app \in Apps, S!Disconnect(app) PROVE SettingsInv'
  BY <1>1, <1>8, Disconnecting
<1> QED BY <1>1, <1>2, <1>3, <1>4, <1>5, <1>6, <1>7, <1>8 DEF S!Next

LEMMA SettingsHold ==
  SettingsInv => S!TypeOK /\ S!PreferenceStatus /\ S!ShowsWhatIsStored /\ S!CachedUserFresh /\ S!UnlistedIsDisconnected
<1>1. SUFFICES ASSUME SettingsInv
               PROVE  /\ S!TypeOK /\ S!PreferenceStatus /\ S!ShowsWhatIsStored /\ S!CachedUserFresh
                      /\ S!UnlistedIsDisconnected
  OBVIOUS
<1>2. S!TypeOK
  <2>1. cache # None => (cache.request = 0 => cache.user \in [S!Fields -> Values])
                        /\ (cache.request # 0 => \E r \in S!Of("me") : r.id = cache.request)
    BY <1>1 DEF SettingsInv, CacheAwaits, Users, S!Of
  <2>2. page.busy \in {None} \cup Apps /\ page.timer \in 0..page.sequence
    <3>1. page.busy \in {None} \cup Apps /\ page.timer \in Nat /\ page.sequence \in Nat
      BY <1>1 DEF SettingsInv, SettingsTypes, SettingsPages
    <3>2. page.timer = 0 \/ page.timer = page.sequence
      BY <1>1 DEF SettingsInv, NotedRight
    <3> QED BY <3>1, <3>2
  <2> QED BY <2>1, <2>2 DEF S!TypeOK
<1>3. S!PreferenceStatus
  BY <1>1 DEF SettingsInv, NotedRight, S!PreferenceStatus, S!Of
<1>4. S!ShowsWhatIsStored
  <2>1. SUFFICES ASSUME net = {}, overlapped = FALSE, early = FALSE, account # None
                 PROVE  page.user = account.user /\ page.currentUser = account.user.username
    BY <1>1 DEF SettingsInv, SettingsTypes, S!ShowsWhatIsStored
  <2> QED BY <1>1, <2>1 DEF SettingsInv, UserShown, Undisturbed
<1>5. S!CachedUserFresh
  <2>1. SUFFICES ASSUME net = {}, early = FALSE, account # None, cache # None PROVE cache.user = account.user
    BY <1>1 DEF SettingsInv, SettingsTypes, S!CachedUserFresh
  <2> QED BY <1>1, <2>1 DEF SettingsInv, CacheAwaits, CacheFresh
<1>6. S!UnlistedIsDisconnected
  BY <1>1 DEF SettingsInv, AppsListed, S!UnlistedIsDisconnected
<1> QED BY <1>2, <1>3, <1>4, <1>5, <1>6

(* The note beside the library preference is about the choice made last, the settings show the stored user and the
   cached one is stored unless what they name got in between, and an app no longer listed has no access. *)
THEOREM SettingsHolds == Spec => []SettingsTruthful
<1> DEFINE Inv == tab = "settings" => SettingsInv
<1>1. Init => Inv
  BY SettingsInit DEF Init
<1>2. Inv /\ [Next]_vars => Inv'
  <2>1. SUFFICES ASSUME Inv, [Next]_vars, tab' = "settings" PROVE SettingsInv'
    OBVIOUS
  <2>2. tab' = tab /\ SettingsInv
    BY <2>1 DEF Next, vars, AtSettings, AtConnection, AtEvaluation, AtImport, AtText
  <2>3. S!Next \/ UNCHANGED settings
    BY <2>1, <2>2 DEF Next, vars, AtSettings, AtConnection, AtEvaluation, AtImport, AtText
  <2> QED BY <2>2, <2>3, SettingsStep, SettingsStutters
<1>3. Inv => SettingsTruthful
  BY SettingsHold DEF SettingsTruthful
<1> QED BY <1>1, <1>2, <1>3, PTL DEF Spec


-----------------------------------------------------------------------------
(* The import: what the dialog, the page and the server hold *)

(* Stored prompts by id. *)
Stocks == UNION {[ids -> StoredPrompts] : ids \in SUBSET Nat}

Dialogs ==
  [open : BOOLEAN, busy : BOOLEAN, resumed : BOOLEAN, source : Sources \cup {None}, file : BOOLEAN, original : BOOLEAN,
   preview : Seq(ImportPrompts) \cup {None}, toggled : SUBSET Nat, updating : SUBSET Nat,
   before : Seq(ImportPrompts) \cup {None}, unchosen : BOOLEAN, done : Nat]

(* A prompt with the stored one it will replace the text of. *)
Replacements == [prompt : ImportPrompts, id : Nat, current : StoredPrompts]

Imports ==
  [state : {"idle", "create"}, create : Seq(ImportPrompts),
   update : Seq(Replacements), saved : SavedPrompts \cup {None},
   created : Stocks, failed : Seq(ImportPrompts), answered : SUBSET Nat, chosen : Seq(ImportPrompts)]

ImportTypes ==
  /\ ui \in Dialogs /\ import \in Imports /\ overtaken \in BOOLEAN /\ walks \cup reads \subseteq Sources
  /\ server \in Stocks /\ existing \in Stocks /\ sessionPrompts \in Stocks /\ imported \in Stocks
  /\ \E n \in Nat : DOMAIN server = 1..n

(* Choices and Undo are about the rows of the preview. *)
RowsFit ==
  ui.preview # None =>
    /\ ui.toggled \cup ui.updating \subseteq DOMAIN ui.preview
    /\ ui.before # None => DOMAIN ui.before = DOMAIN ui.preview

(* A copy of a stored prompt is not newer than it, and has its text if it is as new. *)
CopyOf(row, id, rows) ==
  /\ id \in DOMAIN rows /\ row.stamp <= rows[id].stamp
  /\ row.stamp = rows[id].stamp => row.text = rows[id].text

CopiesPast ==
  /\ \A id \in DOMAIN existing : CopyOf(existing[id], id, server)
  /\ \A id \in DOMAIN sessionPrompts : CopyOf(sessionPrompts[id], id, server)

(* The same of what the import under way wrote and is about to replace. *)
JobPast(j, rows) ==
  /\ \A id \in DOMAIN j.created : CopyOf(j.created[id], id, rows)
  /\ \A k \in DOMAIN j.update : CopyOf(j.update[k].current, j.update[k].id, rows)
  /\ j.saved # None => CopyOf(j.saved.row, j.saved.id, rows)

Settled(j) == Len(j.chosen) - Len(j.create) - Len(j.update)

Unconfirmed(j) == (1..Settled(j)) \ j.answered

(* Of the prompts chosen the first were settled, those not confirmed failed, and the others are still to be written. *)
InTurn(j) ==
  /\ Settled(j) \in Nat /\ j.answered \subseteq 1..Settled(j)
  /\ \A k \in DOMAIN j.create : j.create[k] = j.chosen[Settled(j) + k]
  /\ \A k \in DOMAIN j.update : j.update[k].prompt = j.chosen[Settled(j) + Len(j.create) + k]
  /\ RowsOf(j.failed) = {j.chosen[k] : k \in Unconfirmed(j)}
  /\ Len(j.failed) = Cardinality(Unconfirmed(j))

IdleRests(j) == j.state = "idle" => j.create = <<>> /\ j.update = <<>> /\ j.saved = None

(* What was imported is handed over or kept to be, as last written. *)
Handed ==
  /\ DOMAIN imported \subseteq DOMAIN sessionPrompts
  /\ \A id \in DOMAIN sessionPrompts :
       IF id \in DOMAIN imported THEN imported[id] = sessionPrompts[id]
       ELSE id \in DOMAIN existing /\ existing[id] = sessionPrompts[id]

(* Unless a drop overtook the dialog, an import keeps it open and busy, and so does the one read under way. *)
DialogWaits ==
  overtaken = FALSE =>
    /\ ui.open = FALSE => DOMAIN imported = {}
    /\ import.state # "idle" => ui.open = TRUE /\ ui.busy = TRUE /\ reads = {}
    /\ reads # {} => ui.busy = TRUE /\ ui.preview = None /\ \A r \in reads, q \in reads : r = q

ImportInv ==
  /\ ImportTypes /\ RowsFit /\ CopiesPast /\ JobPast(import, server) /\ InTurn(import) /\ IdleRests(import)
  /\ Handed /\ DialogWaits

LEMMA ImportCounts == ASSUME NEW U PROVE I!Cardinality(U) = Cardinality(U)
  BY DEF I!Cardinality, Cardinality

LEMMA StocksAre == ASSUME NEW f PROVE f \in Stocks <=> (DOMAIN f \subseteq Nat /\ f \in [DOMAIN f -> StoredPrompts])
<1>1. ASSUME f \in Stocks PROVE DOMAIN f \subseteq Nat /\ f \in [DOMAIN f -> StoredPrompts]
  BY <1>1 DEF Stocks
<1>2. ASSUME DOMAIN f \subseteq Nat, f \in [DOMAIN f -> StoredPrompts] PROVE f \in Stocks
  BY <1>2 DEF Stocks
<1> QED BY <1>1, <1>2

(* Prompts with others put over them. *)
LEMMA OverlayIs ==
  ASSUME NEW f, NEW g
  PROVE  /\ DOMAIN I!Over(f, g) = DOMAIN f \cup DOMAIN g
         /\ \A id \in DOMAIN f : I!Over(f, g)[id] = f[id]
         /\ \A id \in DOMAIN g : id \notin DOMAIN f => I!Over(f, g)[id] = g[id]
         /\ f \in Stocks /\ g \in Stocks => I!Over(f, g) \in Stocks
<1>1. /\ DOMAIN I!Over(f, g) = DOMAIN f \cup DOMAIN g
      /\ \A id \in DOMAIN f : I!Over(f, g)[id] = f[id]
      /\ \A id \in DOMAIN g : id \notin DOMAIN f => I!Over(f, g)[id] = g[id]
  BY DEF I!Over
<1>2. ASSUME f \in Stocks, g \in Stocks PROVE I!Over(f, g) \in Stocks
  <2>1. DOMAIN f \subseteq Nat /\ f \in [DOMAIN f -> StoredPrompts] /\ DOMAIN g \subseteq Nat
        /\ g \in [DOMAIN g -> StoredPrompts]
    BY <1>2, StocksAre
  <2>2. I!Over(f, g) \in [DOMAIN f \cup DOMAIN g -> StoredPrompts]
    BY <2>1 DEF I!Over
  <2> HIDE DEF I!Over
  <2> QED BY <1>1, <2>1, <2>2, StocksAre
<1> QED BY <1>1, <1>2

LEMMA OneIs ==
  ASSUME NEW id, NEW row
  PROVE  /\ DOMAIN I!One(id, row) = {id} /\ I!One(id, row)[id] = row
         /\ id \in Nat /\ row \in StoredPrompts => I!One(id, row) \in Stocks
<1>1. DOMAIN I!One(id, row) = {id} /\ I!One(id, row)[id] = row
  BY DEF I!One
<1>2. ASSUME id \in Nat, row \in StoredPrompts PROVE I!One(id, row) \in Stocks
  <2>1. I!One(id, row) \in [{id} -> StoredPrompts]
    BY <1>2 DEF I!One
  <2> QED BY <1>1, <1>2, <2>1, StocksAre
<1> QED BY <1>1, <1>2

LEMMA StockRows ==
  ASSUME NEW f \in Stocks, NEW id \in DOMAIN f
  PROVE  /\ id \in Nat /\ f[id] \in StoredPrompts
         /\ f[id].name \in PromptNames /\ f[id].text \in ImportTexts /\ f[id].stamp \in Nat
<1>1. id \in Nat /\ f[id] \in StoredPrompts
  BY StocksAre
<1> QED BY <1>1 DEF StoredPrompts

LEMMA NoRows == <<>> \in Stocks /\ DOMAIN <<>> = {}
<1>1. DOMAIN <<>> = {} /\ <<>> \in [{} -> StoredPrompts]
  OBVIOUS
<1> QED BY <1>1, StocksAre

(* The rows listed in order are the rows. *)
LEMMA RowsListed ==
  ASSUME NEW n \in Nat, NEW rows \in SUBSET (1..n)
  PROVE  I!InOrder(rows) \in Seq(rows)
<1> DEFINE R == {p \in rows \X rows : p[1] <= p[2]}
           f == E!InOrder(rows, R)
           m == Cardinality(rows)
<1>1. IsFiniteSet(rows) /\ \A i \in rows : i \in Nat
  <2>1. IsFiniteSet(1..n)
    BY FS_Interval
  <2>2. IsFiniteSet(rows)
    BY <2>1, FS_Subset
  <2> QED BY <2>2
<1>2. \A i, j \in rows : <<i, j>> \in R <=> i <= j
  OBVIOUS
<1> HIDE DEF R
<1>3. /\ m \in Nat /\ f \in [1..m -> rows]
      /\ \A k \in 1..m : Cardinality({j \in rows : <<j, f[k]>> \in R}) = k
  <2>1. \A i, j \in rows : i <= j \/ j <= i
    BY <1>1
  <2>2. \A i, j \in rows : i <= j /\ j <= i => i = j
    BY <1>1
  <2>3. \A i, j, k \in rows : i <= j /\ j <= k => i <= k
    BY <1>1
  <2>4. \A i, j \in rows : <<i, j>> \in R \/ <<j, i>> \in R
    BY <1>2, <2>1, Zenon
  <2>5. \A i, j \in rows : <<i, j>> \in R /\ <<j, i>> \in R => i = j
    BY <1>2, <2>2, Zenon
  <2>6. \A i, j, k \in rows : <<i, j>> \in R /\ <<j, k>> \in R => <<i, k>> \in R
    BY <1>2, <2>3, Zenon
  <2>7. Total(rows, R)
    BY <2>4, <2>5, <2>6, Zenon DEF Total
  <2>8. Sorts(f, rows, R)
    BY <1>1, <2>7, InOrderLists, Zenon
  <2> HIDE DEF f
  <2> QED BY <2>8, Zenon DEF Sorts
<1> DEFINE Below(i) == {j \in rows : j < i}
           g == [k \in 1..m |-> CHOOSE i \in rows : Cardinality(Below(i)) = k - 1]
<1>4. \A k \in 1..m : Cardinality(Below(f[k])) = k - 1
  <2> TAKE k \in 1..m
  <2>1. PICK i \in rows : i = f[k]
    BY <1>3
  <2>2. {j \in rows : <<j, i>> \in R} = Below(i) \cup {i}
    <3>1. \A j \in rows : j <= i <=> j \in Below(i) \cup {i}
      BY <1>1
    <3>2. Below(i) \cup {i} \subseteq rows
      OBVIOUS
    <3> HIDE DEF Below
    <3> QED BY <1>2, <3>1, <3>2
  <2>3. IsFiniteSet(Below(i)) /\ i \notin Below(i)
    <3>1. Below(i) \in SUBSET rows /\ i \notin Below(i)
      BY <1>1
    <3> HIDE DEF Below
    <3> QED BY <1>1, <3>1, FS_Subset
  <2> HIDE DEF Below, f, m
  <2>4. Cardinality(Below(i) \cup {i}) = Cardinality(Below(i)) + 1 /\ Cardinality(Below(i)) \in Nat
    BY <2>3, FS_AddElement, FS_CardinalityType
  <2>5. Cardinality(Below(i) \cup {i}) = k
    BY <1>3, <2>1, <2>2
  <2> QED BY <2>1, <2>4, <2>5
<1>5. g \in [1..m -> rows]
  <2> HIDE DEF f, Below, m
  <2>1. \A k \in 1..m : \E i \in rows : Cardinality(Below(i)) = k - 1
    BY <1>3, <1>4
  <2>2. \A k \in 1..m : (CHOOSE i \in rows : Cardinality(Below(i)) = k - 1) \in rows
    BY <2>1
  <2> QED BY <2>2
<1>6. I!InOrder(rows) = g
  <2> DEFINE one(k) == CHOOSE i \in rows : Cardinality(Below(i)) = k - 1
             other(k) == CHOOSE i \in rows : I!Cardinality({j \in rows : j < i}) = k - 1
  <2>1. m = I!Cardinality(rows) /\ \A i : Cardinality(Below(i)) = I!Cardinality({j \in rows : j < i})
    BY ImportCounts
  <2>2. \A k : one(k) = other(k)
    <3> HIDE DEF Below
    <3> QED BY <2>1, Zenon
  <2>3. g = [k \in 1..m |-> one(k)] /\ I!InOrder(rows) = [k \in 1..I!Cardinality(rows) |-> other(k)]
    BY DEF I!InOrder
  <2> HIDE DEF one, other, m, g
  <2> QED BY <2>1, <2>2, <2>3
<1> HIDE DEF g, m, f
<1> QED BY <1>3, <1>5, <1>6

-----------------------------------------------------------------------------
(* The import: prompts, and what the dialog does to them *)

LEMMA TextsAre == ASSUME NEW text \in ImportTexts PROVE I!IsText(text)
  BY DEF ImportTexts, I!IsText

LEMMA PromptsAre ==
  ASSUME NEW prompt \in ImportPrompts
  PROVE  prompt.name \in PromptNames /\ prompt.text \in ImportTexts /\ prompt.flag \in BOOLEAN /\ prompt.fav \in BOOLEAN
  BY DEF ImportPrompts

LEMMA TextsChanged ==
  ASSUME NEW text \in ImportTexts
  PROVE  /\ [text EXCEPT !.place = "var"] \in ImportTexts /\ [text EXCEPT !.cut = TRUE] \in ImportTexts
         /\ [text EXCEPT !.head = None] \in ImportTexts
         /\ \A body \in Wordings : [text EXCEPT !.body = body] \in ImportTexts
  BY DEF ImportTexts

LEMMA PromptsChanged ==
  ASSUME NEW prompt \in ImportPrompts
  PROVE  /\ \A name \in PromptNames : [prompt EXCEPT !.name = name] \in ImportPrompts
         /\ \A text \in ImportTexts : [prompt EXCEPT !.text = text] \in ImportPrompts
         /\ [prompt EXCEPT !.flag = FALSE] \in ImportPrompts
         /\ [prompt EXCEPT !.flag = FALSE].name = prompt.name
  BY DEF ImportPrompts

LEMMA PromptsConverted ==
  ASSUME NEW prompt \in ImportPrompts
  PROVE  /\ I!ConvertPlaceholders(prompt) \in ImportPrompts
         /\ I!SplitLongSections(prompt) \in ImportPrompts
         /\ I!WithoutTitleLine(prompt) # None => I!WithoutTitleLine(prompt) \in ImportPrompts
         /\ \A current : I!ReapplyConversions(prompt, current) \in ImportPrompts
<1>1. prompt.text \in ImportTexts
  BY PromptsAre
<1>2. /\ [prompt EXCEPT !.text.place = "var"] \in ImportPrompts /\ [prompt EXCEPT !.text.cut = TRUE] \in ImportPrompts
      /\ [prompt EXCEPT !.text.head = None] \in ImportPrompts
  <2>1. /\ [prompt EXCEPT !.text.place = "var"] = [prompt EXCEPT !.text = [prompt.text EXCEPT !.place = "var"]]
        /\ [prompt EXCEPT !.text.cut = TRUE] = [prompt EXCEPT !.text = [prompt.text EXCEPT !.cut = TRUE]]
        /\ [prompt EXCEPT !.text.head = None] = [prompt EXCEPT !.text = [prompt.text EXCEPT !.head = None]]
    OBVIOUS
  <2>2. \A text \in ImportTexts : [prompt EXCEPT !.text = text] \in ImportPrompts
    BY PromptsChanged
  <2> QED BY <1>1, <2>1, <2>2, TextsChanged
<1>3. I!ConvertPlaceholders(prompt) \in ImportPrompts
  BY <1>2 DEF I!ConvertPlaceholders
<1>4. I!SplitLongSections(prompt) \in ImportPrompts
  BY <1>2 DEF I!SplitLongSections
<1>5. I!WithoutTitleLine(prompt) # None => I!WithoutTitleLine(prompt) \in ImportPrompts
  BY <1>2 DEF I!WithoutTitleLine
<1>6. \A current : I!ReapplyConversions(prompt, current) \in ImportPrompts
  BY <1>3 DEF I!ReapplyConversions
<1> QED BY <1>3, <1>4, <1>5, <1>6

LEMMA ListsValidated ==
  ASSUME NEW list \in Seq(ImportPrompts)
  PROVE  /\ I!ValidateImportPrompts(list) \in Seq(ImportPrompts)
         /\ Len(I!ValidateImportPrompts(list)) = Len(list)
         /\ DOMAIN I!ValidateImportPrompts(list) = 1..Len(list)
         /\ \A k \in 1..Len(list) : I!ValidateImportPrompts(list)[k] = [list[k] EXCEPT !.flag = FALSE]
<1>1. DOMAIN list = 1..Len(list) /\ Len(list) \in Nat /\ \A k \in 1..Len(list) : list[k] \in ImportPrompts
  OBVIOUS
<1>2. I!ValidateImportPrompts(list) = [k \in 1..Len(list) |-> [list[k] EXCEPT !.flag = FALSE]]
  BY <1>1 DEF I!ValidateImportPrompts
<1>3. \A k \in 1..Len(list) : [list[k] EXCEPT !.flag = FALSE] \in ImportPrompts
  BY <1>1, PromptsChanged
<1> DEFINE one(k) == [list[k] EXCEPT !.flag = FALSE]
           w == [k \in 1..Len(list) |-> one(k)]
<1>4. w = I!ValidateImportPrompts(list) /\ \A k \in 1..Len(list) : w[k] = one(k) /\ one(k) \in ImportPrompts
  BY <1>2, <1>3
<1>5. w \in Seq(ImportPrompts) /\ Len(w) = Len(list) /\ DOMAIN w = 1..Len(list)
  <2> HIDE DEF one
  <2> QED BY <1>1, <1>4
<1> QED BY <1>4, <1>5

(* A list in which every prompt is replaced by one. *)
LEMMA ListsMapped ==
  ASSUME NEW n \in Nat, NEW f, f = [k \in 1..n |-> f[k]], \A k \in 1..n : f[k] \in ImportPrompts
  PROVE  f \in Seq(ImportPrompts) /\ DOMAIN f = 1..n /\ Len(f) = n
<1>1. f \in [1..n -> ImportPrompts]
  OBVIOUS
<1> QED BY <1>1

-----------------------------------------------------------------------------
(* The import: fields, and steps that leave most of them alone *)

LEMMA DialogFields ==
  ASSUME NEW d \in Dialogs
  PROVE  /\ d.open \in BOOLEAN /\ d.busy \in BOOLEAN /\ d.resumed \in BOOLEAN /\ d.source \in Sources \cup {None}
         /\ d.file \in BOOLEAN /\ d.original \in BOOLEAN /\ d.preview \in Seq(ImportPrompts) \cup {None}
         /\ d.toggled \in SUBSET Nat /\ d.updating \in SUBSET Nat /\ d.before \in Seq(ImportPrompts) \cup {None}
         /\ d.unchosen \in BOOLEAN /\ d.done \in Nat
  BY DEF Dialogs

LEMMA ImportJobFields ==
  ASSUME NEW j \in Imports
  PROVE  /\ j.state \in {"idle", "create"} /\ j.create \in Seq(ImportPrompts)
         /\ j.update \in Seq(Replacements)
         /\ j.saved \in SavedPrompts \cup {None} /\ j.created \in Stocks /\ j.failed \in Seq(ImportPrompts)
         /\ j.answered \in SUBSET Nat /\ j.chosen \in Seq(ImportPrompts)
  BY DEF Imports

LEMMA UpdateFields ==
  ASSUME NEW j \in Imports, NEW k \in DOMAIN j.update
  PROVE  /\ j.update[k].prompt \in ImportPrompts /\ j.update[k].id \in Nat /\ j.update[k].current \in StoredPrompts
         /\ j.update[k].current.stamp \in Nat /\ j.update[k].current.text \in ImportTexts
<1>1. j.update \in Seq(Replacements)
  BY ImportJobFields
<1>2. j.update[k] \in Replacements
  BY <1>1
<1>3. j.update[k].prompt \in ImportPrompts /\ j.update[k].id \in Nat /\ j.update[k].current \in StoredPrompts
  BY <1>2 DEF Replacements
<1> QED BY <1>3 DEF StoredPrompts

LEMMA JobKept ==
  ASSUME UNCHANGED import
  PROVE  /\ InTurn(import) => InTurn(import)'
         /\ IdleRests(import) => IdleRests(import)'
         /\ JobPast(import, server) /\ UNCHANGED server => JobPast(import, server)'
<1>1. ASSUME InTurn(import) PROVE InTurn(import)'
  <2>1. Settled(import)' = Settled(import)
    BY DEF Settled
  <2>2. Unconfirmed(import)' = Unconfirmed(import)
    BY <2>1 DEF Unconfirmed
  <2> QED BY <1>1, <2>1, <2>2 DEF InTurn
<1>2. IdleRests(import) => IdleRests(import)'
  BY DEF IdleRests
<1>3. JobPast(import, server) /\ UNCHANGED server => JobPast(import, server)'
  BY DEF JobPast, CopyOf
<1> QED BY <1>1, <1>2, <1>3

(* Steps of the dialog alone, and of an open dialog without files. *)
LEMMA DialogMoves ==
  ASSUME ImportInv, UNCHANGED <<imported, sessionPrompts, existing, server, import>>,
         ui' \in Dialogs, overtaken' \in BOOLEAN, (walks \cup reads)' \subseteq Sources, RowsFit', DialogWaits'
  PROVE  ImportInv'
<1>1. ImportTypes'
  BY DEF ImportInv, ImportTypes
<1>2. CopiesPast'
  BY DEF ImportInv, CopiesPast, CopyOf
<1>3. Handed'
  BY DEF ImportInv, Handed
<1> QED BY <1>1, <1>2, <1>3, JobKept DEF ImportInv

LEMMA ImportStutters == ImportInv /\ UNCHANGED imports => ImportInv'
<1>1. SUFFICES ASSUME ImportInv, UNCHANGED imports PROVE ImportInv'
  OBVIOUS
<1>2. RowsFit' /\ DialogWaits'
  BY <1>1 DEF imports, ImportInv, RowsFit, DialogWaits
<1>3. ui' \in Dialogs /\ overtaken' \in BOOLEAN /\ (walks \cup reads)' \subseteq Sources
  BY <1>1 DEF imports, ImportInv, ImportTypes
<1> QED BY <1>1, <1>2, <1>3, DialogMoves DEF imports

LEMMA OpenDialogMoves ==
  ASSUME ImportInv, UNCHANGED <<I!dialog, I!files, server, import>>,
         ui' \in Dialogs, RowsFit', ui'.open = TRUE,
         ui.busy = FALSE \/ (ui'.busy = ui.busy /\ ui'.preview = ui.preview)
  PROVE  ImportInv'
<1>1. DialogWaits'
  BY DEF ImportInv, DialogWaits, I!dialog, I!files
<1>2. overtaken' \in BOOLEAN /\ (walks \cup reads)' \subseteq Sources
  BY DEF ImportInv, ImportTypes, I!files
<1> QED BY <1>1, <1>2, DialogMoves DEF I!dialog

-----------------------------------------------------------------------------
(* The import: filling the dialog *)

LEMMA Parses ==
  ASSUME NEW source \in Sources, NEW original \in BOOLEAN
  PROVE  Parsed[source][original] \in Seq(ImportPrompts)
<1>1. Parsed[source] \in [BOOLEAN -> Seq(ImportPrompts)]
  BY ImportAssumption
<1> QED BY <1>1

LEMMA Opening == ImportInv /\ I!Open => ImportInv'
<1>1. SUFFICES ASSUME ImportInv, I!Open PROVE ImportInv'
  OBVIOUS
<1>2. ui \in Dialogs /\ ui' = [ui EXCEPT !.open = TRUE, !.resumed = ui.preview # None]
  BY <1>1 DEF I!Open, ImportInv, ImportTypes
<1>3. ui' \in Dialogs /\ ui'.open = TRUE /\ ui'.busy = ui.busy /\ ui'.preview = ui.preview
  BY <1>2 DEF Dialogs
<1>4. RowsFit'
  BY <1>1, <1>2, <1>3 DEF ImportInv, RowsFit, Dialogs
<1> QED BY <1>1, <1>3, <1>4, OpenDialogMoves DEF I!Open

LEMMA SourceUpdated ==
  ASSUME NEW d \in Dialogs, NEW source \in Sources \cup {None}
  PROVE  /\ I!UpdateSource(d, source) \in Dialogs /\ I!UpdateSource(d, source).preview = None
         /\ I!UpdateSource(d, source).open = d.open /\ I!UpdateSource(d, source).busy = d.busy
  BY DEF I!UpdateSource, Dialogs

LEMMA Pasting == ASSUME ImportInv, NEW source \in Sources, I!Paste(source) PROVE ImportInv'
<1>1. ui \in Dialogs /\ ui' = I!UpdateSource(ui, source) /\ ui.open = TRUE /\ ui.busy = FALSE
  <2>1. ui \in Dialogs /\ ui' = I!UpdateSource(ui, source) /\ ui.open /\ ~ui.busy
    BY DEF I!Paste, I!AtSource, ImportInv, ImportTypes
  <2> QED BY <2>1, DialogFields
<1>2. ui' \in Dialogs /\ ui'.open = TRUE /\ ui'.preview = None
  BY <1>1, SourceUpdated
<1>3. RowsFit'
  BY <1>2 DEF RowsFit
<1> QED BY <1>1, <1>2, <1>3, OpenDialogMoves DEF I!Paste

LEMMA ClearingFiles == ImportInv /\ I!ClearFiles => ImportInv'
<1>1. SUFFICES ASSUME ImportInv, I!ClearFiles PROVE ImportInv'
  OBVIOUS
<1>2. /\ ui \in Dialogs /\ ui' = [ui EXCEPT !.source = None, !.file = FALSE] /\ ui.open = TRUE /\ ui.busy = FALSE
      /\ ui.preview = None
  <2>1. /\ ui \in Dialogs /\ ui' = [ui EXCEPT !.source = None, !.file = FALSE] /\ ui.open /\ ~ui.busy
        /\ ui.preview = None
    BY <1>1 DEF I!ClearFiles, I!AtSource, ImportInv, ImportTypes
  <2> QED BY <2>1, DialogFields
<1>3. ui' \in Dialogs /\ ui'.open = TRUE /\ ui'.preview = None
  BY <1>2 DEF Dialogs
<1>4. RowsFit'
  BY <1>3 DEF RowsFit
<1> QED BY <1>1, <1>2, <1>3, <1>4, OpenDialogMoves DEF I!ClearFiles

LEMMA Previews ==
  ASSUME ImportInv, ui.source \in Sources, NEW original \in BOOLEAN
  PROVE  /\ I!Preview(original) \in Dialogs /\ I!Preview(original).open = ui.open
         /\ \/ I!Preview(original) = ui
            \/ I!Preview(original).toggled = {} /\ I!Preview(original).updating = {} /\ I!Preview(original).before = None
<1>1. ui \in Dialogs
  BY DEF ImportInv, ImportTypes
<1> DEFINE list == Parsed[ui.source][original]
<1>2. list \in Seq(ImportPrompts)
  BY Parses
<1>3. I!Preview(original) = ui
      \/ I!Preview(original) = [ui EXCEPT !.preview = list, !.before = None, !.unchosen = FALSE, !.toggled = {},
                                          !.updating = {}]
  BY DEF I!Preview
<1> HIDE DEF list
<1> QED BY <1>1, <1>2, <1>3 DEF Dialogs

LEMMA ShowingPreview == ImportInv /\ I!ShowPreview => ImportInv'
<1>1. SUFFICES ASSUME ImportInv, I!ShowPreview PROVE ImportInv'
  OBVIOUS
<1>2. ui \in Dialogs /\ ui' = I!Preview(ui.original) /\ ui.open = TRUE /\ ui.busy = FALSE /\ ui.source # None
  <2>1. ui \in Dialogs /\ ui' = I!Preview(ui.original) /\ ui.open /\ ~ui.busy /\ ui.source # None
    BY <1>1 DEF I!ShowPreview, I!AtSource, ImportInv, ImportTypes
  <2> QED BY <2>1, DialogFields
<1>3. ui.source \in Sources /\ ui.original \in BOOLEAN
  BY <1>2, DialogFields
<1>4. /\ ui' \in Dialogs /\ ui'.open = TRUE
      /\ ui' = ui \/ (ui'.toggled = {} /\ ui'.updating = {} /\ ui'.before = None)
  BY <1>1, <1>2, <1>3, Previews
<1>5. RowsFit'
  BY <1>1, <1>4 DEF RowsFit, ImportInv
<1> QED BY <1>1, <1>2, <1>4, <1>5, OpenDialogMoves DEF I!ShowPreview

LEMMA ImportingMore == ImportInv /\ I!ImportMore => ImportInv'
<1>1. SUFFICES ASSUME ImportInv, I!ImportMore PROVE ImportInv'
  OBVIOUS
<1>2. ui \in Dialogs /\ ui' = [ui EXCEPT !.done = 0] /\ ui.open = TRUE
  <2>1. ui \in Dialogs /\ ui' = [ui EXCEPT !.done = 0] /\ ui.open
    BY <1>1 DEF I!ImportMore, ImportInv, ImportTypes
  <2> QED BY <2>1, DialogFields
<1>3. ui' \in Dialogs /\ ui'.open = TRUE /\ ui'.busy = ui.busy /\ ui'.preview = ui.preview
  BY <1>2 DEF Dialogs
<1>4. RowsFit'
  BY <1>1, <1>2, <1>3 DEF ImportInv, RowsFit, Dialogs
<1> QED BY <1>1, <1>3, <1>4, OpenDialogMoves DEF I!ImportMore

LEMMA Dropping == ASSUME ImportInv, NEW source \in Sources, I!Drop(source) PROVE ImportInv'
<1>1. /\ UNCHANGED <<ui, imported, sessionPrompts, existing, reads, overtaken, server, import>>
      /\ walks' = walks \cup {source}
  BY DEF I!Drop, I!dialog
<1>2. ui' \in Dialogs /\ overtaken' \in BOOLEAN /\ (walks \cup reads)' \subseteq Sources
  BY <1>1 DEF ImportInv, ImportTypes
<1>3. RowsFit' /\ DialogWaits'
  BY <1>1 DEF ImportInv, RowsFit, DialogWaits
<1> QED BY <1>1, <1>2, <1>3, DialogMoves

LEMMA ReadingStarts ==
  ASSUME ImportInv, NEW source \in Sources \cup {None}, I!StartsReading(source), walks' \subseteq walks,
         UNCHANGED <<I!dialog, server, import>>
  PROVE  ImportInv'
<1> DEFINE d == I!UpdateSource(ui, None)
<1>1. ui \in Dialogs /\ overtaken \in BOOLEAN /\ walks \cup reads \subseteq Sources
  BY DEF ImportInv, ImportTypes
<1>2. d \in Dialogs /\ d.preview = None /\ d.open = ui.open
  BY <1>1, SourceUpdated
<1>3. /\ ui' = [d EXCEPT !.file = FALSE, !.busy = (source # None \/ ui.busy)]
      /\ reads' = IF source = None THEN reads ELSE reads \cup {source}
      /\ overtaken' = (overtaken \/ ui.preview # None \/ import.state # "idle" \/ reads # {})
  BY DEF I!StartsReading
<1> HIDE DEF d
<1>4. ui.busy \in BOOLEAN /\ ui.open \in BOOLEAN
  BY <1>1, DialogFields
<1>5. /\ ui' \in Dialogs /\ ui'.preview = None /\ ui'.open = ui.open
      /\ source # None => ui'.busy = TRUE
  BY <1>2, <1>3, <1>4 DEF Dialogs
<1>6. overtaken' \in BOOLEAN /\ (walks \cup reads)' \subseteq Sources
  <2>1. overtaken' \in BOOLEAN
    BY <1>1, <1>3
  <2> QED BY <2>1, <1>1, <1>3
<1>7. RowsFit'
  BY <1>5 DEF RowsFit
<1>8. DialogWaits'
  <2>1. SUFFICES ASSUME overtaken' = FALSE
                 PROVE  /\ ui'.open = FALSE => DOMAIN imported' = {}
                        /\ import'.state = "idle"
                        /\ reads' # {} => ui'.busy = TRUE /\ \A r \in reads', q \in reads' : r = q
    BY <1>5 DEF DialogWaits
  <2>2. overtaken = FALSE /\ import.state = "idle" /\ reads = {}
    <3>1. ~(overtaken \/ ui.preview # None \/ import.state # "idle" \/ reads # {})
      BY <1>3, <2>1
    <3> QED BY <1>1, <3>1
  <2>3. ui.open = FALSE => DOMAIN imported = {}
    BY <2>2 DEF ImportInv, DialogWaits
  <2>4. reads' = {} \/ (source # None /\ reads' = {source})
    BY <1>3, <2>2
  <2> QED BY <1>5, <2>2, <2>3, <2>4 DEF I!dialog
<1> QED BY <1>5, <1>6, <1>7, <1>8, DialogMoves DEF I!dialog

LEMMA ChoosingFiles == ASSUME ImportInv, NEW source \in Sources \cup {None}, I!ChooseFiles(source) PROVE ImportInv'
  BY ReadingStarts DEF I!ChooseFiles

LEMMA DropsListed == ASSUME ImportInv, NEW source \in walks, I!DropListed(source) PROVE ImportInv'
<1>1. source \in Sources
  BY DEF ImportInv, ImportTypes
<1> QED BY <1>1, ReadingStarts DEF I!DropListed

LEMMA ReadingFiles ==
  ASSUME ImportInv, NEW source \in reads, NEW ok \in BOOLEAN, NEW several \in BOOLEAN, I!FilesRead(source, ok, several)
  PROVE  ImportInv'
<1> DEFINE d == IF ~ok THEN ui ELSE IF several THEN [ui EXCEPT !.source = source, !.file = TRUE]
                ELSE I!UpdateSource(ui, source)
<1>1. ui \in Dialogs /\ overtaken \in BOOLEAN /\ walks \cup reads \subseteq Sources
  BY DEF ImportInv, ImportTypes
<1>2. source \in Sources
  BY <1>1
<1>3. ui' = [d EXCEPT !.busy = FALSE] /\ reads' = reads \ {source} /\ UNCHANGED <<walks, overtaken, I!dialog, server, import>>
  BY DEF I!FilesRead
<1>4. /\ d \in Dialogs /\ d.open = ui.open
      /\ d.preview = None \/ (d.preview = ui.preview /\ d.toggled = ui.toggled /\ d.updating = ui.updating
                              /\ d.before = ui.before)
  <2>1. CASE ok /\ ~several
    BY <1>1, <1>2, <2>1, SourceUpdated
  <2>2. CASE ok /\ several
    <3>1. d = [ui EXCEPT !.source = source, !.file = TRUE]
      BY <2>2
    <3> HIDE DEF d
    <3> QED BY <1>1, <1>2, <3>1 DEF Dialogs
  <2>3. CASE ~ok
    BY <1>1, <2>3
  <2> QED BY <2>1, <2>2, <2>3
<1> HIDE DEF d
<1>5. /\ ui' \in Dialogs /\ ui'.open = ui.open /\ ui'.preview = d.preview /\ ui'.toggled = d.toggled
      /\ ui'.updating = d.updating /\ ui'.before = d.before
  BY <1>3, <1>4 DEF Dialogs
<1>6. RowsFit'
  BY <1>4, <1>5 DEF ImportInv, RowsFit
<1>7. overtaken' \in BOOLEAN /\ (walks \cup reads)' \subseteq Sources
  BY <1>1, <1>3
<1>8. DialogWaits'
  <2>1. SUFFICES ASSUME overtaken = FALSE
                 PROVE  (ui.open = FALSE => DOMAIN imported = {}) /\ import.state = "idle" /\ reads \ {source} = {}
    BY <1>3, <1>5 DEF DialogWaits, I!dialog
  <2> QED BY <2>1, DialogFields DEF ImportInv, DialogWaits
<1> QED BY <1>3, <1>5, <1>6, <1>7, <1>8, DialogMoves DEF I!dialog

-----------------------------------------------------------------------------
(* The import: reviewing the preview *)

LEMMA ReviewedRows ==
  ASSUME ImportInv, I!Reviewing
  PROVE  /\ ui \in Dialogs /\ ui.open = TRUE /\ ui.busy = FALSE /\ ui.preview \in Seq(ImportPrompts)
         /\ I!Rows = DOMAIN ui.preview /\ I!Rows = 1..Len(ui.preview) /\ Len(ui.preview) \in Nat
         /\ \A i \in I!Rows : ui.preview[i] \in ImportPrompts
         /\ ui.toggled \subseteq I!Rows /\ ui.updating \subseteq I!Rows
         /\ ui.before # None => ui.before \in Seq(ImportPrompts) /\ DOMAIN ui.before = I!Rows
<1>1. ui \in Dialogs /\ ui.open = TRUE /\ ui.busy = FALSE /\ ui.preview \in Seq(ImportPrompts) /\ ui.preview # None
  <2>1. ui \in Dialogs /\ ui.open /\ ~ui.busy /\ ui.preview # None
    BY DEF I!Reviewing, ImportInv, ImportTypes
  <2> QED BY <2>1, DialogFields
<1>2. I!Rows = DOMAIN ui.preview
  BY <1>1 DEF I!Rows
<1>3. I!Rows = 1..Len(ui.preview) /\ Len(ui.preview) \in Nat /\ \A i \in I!Rows : ui.preview[i] \in ImportPrompts
  BY <1>1, <1>2
<1>4. /\ ui.toggled \cup ui.updating \subseteq DOMAIN ui.preview
      /\ ui.before # None => DOMAIN ui.before = DOMAIN ui.preview
  BY <1>1 DEF ImportInv, RowsFit
<1>5. ui.before # None => ui.before \in Seq(ImportPrompts)
  BY <1>1, DialogFields
<1> QED BY <1>1, <1>2, <1>3, <1>4, <1>5

(* What a step of the review must keep. *)
Reviewed == ui' \in Dialogs /\ RowsFit' /\ ui'.open = TRUE

LEMMA Reparsing == ASSUME ImportInv, I!Reviewing, I!KeepOriginal PROVE Reviewed
<1> DEFINE d == I!Preview(~ui.original)
<1>1. ui \in Dialogs /\ ui.original \in BOOLEAN /\ ui.source \in Sources /\ ui.open = TRUE
  <2>1. ui \in Dialogs /\ ui.open = TRUE
    BY ReviewedRows
  <2>2. ui.source \in Sources
    BY ImportAssumption DEF I!KeepOriginal, I!FromNote
  <2> QED BY <2>1, <2>2, DialogFields
<1>2. (~ui.original) \in BOOLEAN
  BY <1>1
<1>3. /\ d \in Dialogs /\ d.open = ui.open
      /\ d = ui \/ (d.toggled = {} /\ d.updating = {} /\ d.before = None)
  BY <1>1, <1>2, Previews
<1>4. ui' = [d EXCEPT !.original = ~ui.original]
  BY DEF I!KeepOriginal
<1> HIDE DEF d
<1>5. /\ ui' \in Dialogs /\ ui'.open = d.open /\ ui'.preview = d.preview /\ ui'.toggled = d.toggled
      /\ ui'.updating = d.updating /\ ui'.before = d.before
  BY <1>2, <1>3, <1>4 DEF Dialogs
<1>6. RowsFit'
  BY <1>3, <1>5 DEF ImportInv, RowsFit
<1> QED BY <1>1, <1>3, <1>5, <1>6 DEF Reviewed

LEMMA PreviewLeft == ASSUME ImportInv, I!Reviewing, I!StartOver \/ I!Back PROVE Reviewed
<1>1. ui \in Dialogs /\ ui.open = TRUE /\ ui.done \in Nat
  BY ReviewedRows, DialogFields
<1>2. CASE I!Back
  <2>1. ui' = [ui EXCEPT !.preview = None, !.before = None]
    BY <1>2 DEF I!Back
  <2>2. ui' \in Dialogs /\ ui'.open = TRUE /\ ui'.preview = None
    BY <1>1, <2>1 DEF Dialogs
  <2> QED BY <2>2 DEF Reviewed, RowsFit
<1>3. CASE I!StartOver
  <2>1. ui' = [I!Closed EXCEPT !.open = TRUE, !.done = ui.done]
    BY <1>3 DEF I!StartOver
  <2>2. ui' \in Dialogs /\ ui'.open = TRUE /\ ui'.preview = None
    BY <1>1, <2>1 DEF Dialogs, I!Closed
  <2> QED BY <2>2 DEF Reviewed, RowsFit
<1> QED BY <1>2, <1>3

LEMMA ChoicesMade ==
  ASSUME ImportInv, I!Reviewing, NEW toggled \in SUBSET I!Rows, NEW updating \in SUBSET I!Rows,
         ui' = [ui EXCEPT !.toggled = toggled, !.updating = updating]
  PROVE  Reviewed
<1>1. /\ ui \in Dialogs /\ ui.open = TRUE /\ I!Rows = DOMAIN ui.preview /\ I!Rows \subseteq Nat
      /\ ui.before # None => DOMAIN ui.before = I!Rows
  <2>1. I!Rows = 1..Len(ui.preview) /\ Len(ui.preview) \in Nat
    BY ReviewedRows
  <2>2. I!Rows \subseteq Nat
    BY <2>1
  <2> QED BY <2>2, ReviewedRows
<1>2. /\ ui' \in Dialogs /\ ui'.open = TRUE /\ ui'.preview = ui.preview /\ ui'.before = ui.before
      /\ ui'.toggled = toggled /\ ui'.updating = updating
  BY <1>1 DEF Dialogs
<1>3. RowsFit'
  BY <1>1, <1>2 DEF RowsFit
<1> QED BY <1>2, <1>3 DEF Reviewed

LEMMA Choosing ==
  ASSUME ImportInv, I!Reviewing,
         \/ I!SelectAllNew \/ I!SelectNone
         \/ \E i \in I!Rows : I!Toggle(i) \/ \E choice \in {"skip", "update", "copy"} : I!ChooseDuplicate(i, choice)
  PROVE  Reviewed
<1>1. ui \in Dialogs /\ ui.toggled \subseteq I!Rows /\ ui.updating \subseteq I!Rows
  BY ReviewedRows
<1>2. \A toggled, updating : [ui EXCEPT !.toggled = toggled] = [ui EXCEPT !.toggled = toggled, !.updating = ui.updating]
                             /\ [ui EXCEPT !.updating = updating, !.toggled = toggled]
                                = [ui EXCEPT !.toggled = toggled, !.updating = updating]
  BY <1>1 DEF Dialogs
<1>3. CASE I!SelectAllNew
  <2>1. ui' = [ui EXCEPT !.toggled = {}]
    BY <1>3 DEF I!SelectAllNew
  <2>2. ui' = [ui EXCEPT !.toggled = {}, !.updating = ui.updating]
    BY <1>2, <2>1
  <2> QED BY <1>1, <2>2, ChoicesMade
<1>4. CASE I!SelectNone
  <2> DEFINE off == {i \in I!Rows : ~I!StartsUnticked(ui.preview[i])}
  <2>1. ui' = [ui EXCEPT !.toggled = off]
    BY <1>4 DEF I!SelectNone
  <2>2. off \in SUBSET I!Rows
    OBVIOUS
  <2> HIDE DEF off
  <2>3. ui' = [ui EXCEPT !.toggled = off, !.updating = ui.updating]
    BY <1>2, <2>1
  <2> QED BY <1>1, <2>2, <2>3, ChoicesMade
<1>5. ASSUME NEW i \in I!Rows, I!Toggle(i) PROVE Reviewed
  <2> DEFINE new == I!Flip(ui.toggled, i)
  <2>1. ui' = [ui EXCEPT !.toggled = new]
    BY <1>5 DEF I!Toggle
  <2>2. new \in SUBSET I!Rows
    BY <1>1 DEF I!Flip
  <2> HIDE DEF new
  <2>3. ui' = [ui EXCEPT !.toggled = new, !.updating = ui.updating]
    BY <1>2, <2>1
  <2> QED BY <1>1, <2>2, <2>3, ChoicesMade
<1>6. ASSUME NEW i \in I!Rows, NEW choice \in {"skip", "update", "copy"}, I!ChooseDuplicate(i, choice) PROVE Reviewed
  <2> DEFINE updating == IF choice = "update" THEN ui.updating \cup {i} ELSE ui.updating \ {i}
             toggled == IF choice = "copy" THEN ui.toggled \cup {i} ELSE ui.toggled \ {i}
  <2>1. ui' = [ui EXCEPT !.updating = updating, !.toggled = toggled]
    BY <1>6 DEF I!ChooseDuplicate
  <2>2. updating \in SUBSET I!Rows /\ toggled \in SUBSET I!Rows
    BY <1>1
  <2> HIDE DEF updating, toggled
  <2>3. ui' = [ui EXCEPT !.toggled = toggled, !.updating = updating]
    BY <1>2, <2>1
  <2> QED BY <2>2, <2>3, ChoicesMade
<1> QED BY <1>3, <1>4, <1>5, <1>6

LEMMA PreviewChanged ==
  ASSUME ImportInv, I!Reviewing, NEW list \in Seq(ImportPrompts), DOMAIN list = I!Rows,
         NEW before \in Seq(ImportPrompts) \cup {None}, before # None => DOMAIN before = I!Rows,
         ui' = [ui EXCEPT !.before = before, !.preview = list]
  PROVE  Reviewed
<1>1. ui \in Dialogs /\ ui.open = TRUE /\ ui.toggled \subseteq I!Rows /\ ui.updating \subseteq I!Rows
  BY ReviewedRows
<1>2. /\ ui' \in Dialogs /\ ui'.open = TRUE /\ ui'.preview = list /\ ui'.before = before
      /\ ui'.toggled = ui.toggled /\ ui'.updating = ui.updating
  BY <1>1 DEF Dialogs
<1>3. RowsFit'
  BY <1>1, <1>2 DEF RowsFit
<1> QED BY <1>2, <1>3 DEF Reviewed

LEMMA RowEdited ==
  ASSUME ImportInv, I!Reviewing, NEW i \in I!Rows, NEW change \in ImportPrompts, I!Edit(i, change)
  PROVE  Reviewed
<1> DEFINE list == [ui.preview EXCEPT ![i] = change]
<1>1. /\ ui \in Dialogs /\ ui.preview \in Seq(ImportPrompts) /\ I!Rows = DOMAIN ui.preview
      /\ ui.before # None => ui.before \in Seq(ImportPrompts) /\ DOMAIN ui.before = I!Rows
  BY ReviewedRows
<1>2. list \in Seq(ImportPrompts) /\ DOMAIN list = I!Rows
  BY <1>1
<1>3. ui' = [ui EXCEPT !.preview = list]
  BY DEF I!Edit
<1> HIDE DEF list
<1>4. ui' = [ui EXCEPT !.before = ui.before, !.preview = list]
  BY <1>1, <1>3 DEF Dialogs
<1> QED BY <1>1, <1>2, <1>4, PreviewChanged, DialogFields

LEMMA EditingRows ==
  ASSUME ImportInv, I!Reviewing, NEW i \in I!Rows,
         (\E title \in Titles : I!EditTitle(i, title)) \/ I!TakeOutTitle(i) \/ I!SplitSection(i)
  PROVE  Reviewed
<1>1. ui.preview[i] \in ImportPrompts
  BY ReviewedRows
<1>2. ASSUME NEW title \in Titles, I!EditTitle(i, title) PROVE Reviewed
  <2>1. title \in PromptNames
    BY ImportAssumption
  <2>2. [ui.preview[i] EXCEPT !.name = title] \in ImportPrompts
    BY <1>1, <2>1, PromptsChanged
  <2> QED BY <1>2, <2>2, RowEdited DEF I!EditTitle
<1>3. CASE I!TakeOutTitle(i)
  <2>1. I!WithoutTitleLine(ui.preview[i]) # None
    BY <1>3 DEF I!TakeOutTitle
  <2>2. I!WithoutTitleLine(ui.preview[i]) \in ImportPrompts
    BY <1>1, <2>1, PromptsConverted
  <2> QED BY <1>3, <2>2, RowEdited DEF I!TakeOutTitle
<1>4. CASE I!SplitSection(i)
  <2> DEFINE sent == I!WillSend(ui.preview[i], i)
  <2>1. sent \in ImportPrompts
    BY <1>1, PromptsConverted DEF I!WillSend
  <2>2. I!Edit(i, I!SplitLongSections(sent))
    BY <1>4 DEF I!SplitSection
  <2>3. I!SplitLongSections(sent) \in ImportPrompts
    BY <2>1, PromptsConverted
  <2> QED BY <2>2, <2>3, RowEdited
<1> QED BY <1>2, <1>3, <1>4

LEMMA Converting ==
  ASSUME ImportInv, I!Reviewing, I!UnchoosePlaceholder \/ I!Convert \/ I!UndoConvert
  PROVE  Reviewed
<1>1. /\ ui \in Dialogs /\ ui.preview \in Seq(ImportPrompts) /\ I!Rows = DOMAIN ui.preview
      /\ I!Rows = 1..Len(ui.preview) /\ Len(ui.preview) \in Nat
      /\ \A i \in I!Rows : ui.preview[i] \in ImportPrompts
      /\ ui.before # None => ui.before \in Seq(ImportPrompts) /\ DOMAIN ui.before = I!Rows
  BY ReviewedRows
<1>2. CASE I!UnchoosePlaceholder
  <2>1. ui' = [ui EXCEPT !.unchosen = ~ui.unchosen]
    BY <1>2 DEF I!UnchoosePlaceholder
  <2>2. ui.unchosen \in BOOLEAN /\ ui.open = TRUE
    BY ReviewedRows, DialogFields
  <2>3. /\ ui' \in Dialogs /\ ui'.open = TRUE /\ ui'.preview = ui.preview /\ ui'.before = ui.before
        /\ ui'.toggled = ui.toggled /\ ui'.updating = ui.updating
    BY <1>1, <2>1, <2>2 DEF Dialogs
  <2>4. RowsFit'
    BY <2>3 DEF ImportInv, RowsFit
  <2> QED BY <2>3, <2>4 DEF Reviewed
<1>3. CASE I!Convert
  <2> DEFINE list == [i \in I!Rows |-> I!ConvertPlaceholders(ui.preview[i])]
  <2>1. ui' = [ui EXCEPT !.before = ui.preview, !.preview = list]
    BY <1>3 DEF I!Convert
  <2>2. \A i \in I!Rows : I!ConvertPlaceholders(ui.preview[i]) \in ImportPrompts
    BY <1>1, PromptsConverted
  <2>3. list = [i \in 1..Len(ui.preview) |-> list[i]] /\ \A i \in 1..Len(ui.preview) : list[i] \in ImportPrompts
    <3>1. list = [i \in I!Rows |-> list[i]] /\ \A i \in I!Rows : list[i] = I!ConvertPlaceholders(ui.preview[i])
      OBVIOUS
    <3> HIDE DEF list
    <3> QED BY <1>1, <2>2, <3>1
  <2> HIDE DEF list
  <2>4. list \in Seq(ImportPrompts) /\ DOMAIN list = I!Rows
    BY <1>1, <2>3, ListsMapped
  <2> QED BY <1>1, <2>1, <2>4, PreviewChanged
<1>4. CASE I!UndoConvert
  <2> DEFINE list == [i \in I!Rows |-> [ui.preview[i] EXCEPT !.text = ui.before[i].text]]
  <2>1. ui.before # None /\ ui' = [ui EXCEPT !.preview = list, !.before = None]
    BY <1>4 DEF I!UndoConvert
  <2>2. \A i \in I!Rows : [ui.preview[i] EXCEPT !.text = ui.before[i].text] \in ImportPrompts
    <3> TAKE i \in I!Rows
    <3>1. ui.before[i] \in ImportPrompts
      BY <1>1, <2>1
    <3>2. ui.before[i].text \in ImportTexts
      BY <3>1, PromptsAre
    <3> QED BY <1>1, <3>2, PromptsChanged
  <2>3. list = [i \in 1..Len(ui.preview) |-> list[i]] /\ \A i \in 1..Len(ui.preview) : list[i] \in ImportPrompts
    <3>1. /\ list = [i \in I!Rows |-> list[i]]
          /\ \A i \in I!Rows : list[i] = [ui.preview[i] EXCEPT !.text = ui.before[i].text]
      OBVIOUS
    <3> HIDE DEF list
    <3>2. \A i \in I!Rows : list[i] \in ImportPrompts
      BY <2>2, <3>1, Zenon
    <3> QED BY <1>1, <3>1, <3>2
  <2> HIDE DEF list
  <2>4. list \in Seq(ImportPrompts) /\ DOMAIN list = I!Rows
    BY <1>1, <2>3, ListsMapped
  <2>5. ui' = [ui EXCEPT !.before = None, !.preview = list]
    BY <1>1, <2>1 DEF Dialogs
  <2> QED BY <2>4, <2>5, PreviewChanged
<1> QED BY <1>2, <1>3, <1>4

LEMMA ReviewingRows == ImportInv /\ I!Review => ImportInv'
<1>1. SUFFICES ASSUME ImportInv, I!Review PROVE ImportInv'
  OBVIOUS
<1>2. I!Reviewing /\ UNCHANGED <<I!dialog, I!files, server, import>>
  BY <1>1 DEF I!Review
<1>3. Reviewed
  BY <1>1, <1>2, Reparsing, PreviewLeft, Choosing, EditingRows, Converting DEF I!Review
<1>4. ui.busy = FALSE
  BY <1>1, <1>2, ReviewedRows
<1> QED BY <1>1, <1>2, <1>3, <1>4, OpenDialogMoves DEF Reviewed

-----------------------------------------------------------------------------
(* The import: what was imported is handed over *)

LEMMA HandsOver ==
  ASSUME ImportInv, I!HandOver, UNCHANGED <<I!files, server, import>>, ui.busy = FALSE, ui' \in Dialogs, RowsFit',
         sessionPrompts' = sessionPrompts \/ sessionPrompts' = <<>>
  PROVE  ImportInv'
<1>1. /\ existing' = I!Over(imported, existing) /\ imported' = <<>>
      /\ UNCHANGED <<server, import, walks, reads, overtaken>>
  BY DEF I!HandOver, I!AddImported, I!files
<1>2. existing \in Stocks /\ imported \in Stocks /\ sessionPrompts \in Stocks /\ Handed /\ CopiesPast
  BY DEF ImportInv, ImportTypes
<1>3. existing' \in Stocks /\ imported' \in Stocks /\ sessionPrompts' \in Stocks
  BY <1>1, <1>2, OverlayIs, NoRows
<1>4. ImportTypes'
  BY <1>1, <1>3 DEF ImportInv, ImportTypes
<1>5. /\ DOMAIN existing' = DOMAIN imported \cup DOMAIN existing
      /\ \A id \in DOMAIN imported : existing'[id] = imported[id]
      /\ \A id \in DOMAIN existing : id \notin DOMAIN imported => existing'[id] = existing[id]
  <2> DEFINE new == I!Over(imported, existing)
  <2>1. /\ DOMAIN new = DOMAIN imported \cup DOMAIN existing
        /\ \A id \in DOMAIN imported : new[id] = imported[id]
        /\ \A id \in DOMAIN existing : id \notin DOMAIN imported => new[id] = existing[id]
    BY OverlayIs, Zenon
  <2>2. existing' = new
    BY <1>1
  <2> HIDE DEF new
  <2> QED BY <2>1, <2>2
<1>6. CopiesPast'
  <2>1. ASSUME NEW id \in DOMAIN existing' PROVE CopyOf(existing'[id], id, server')
    <3>1. CASE id \in DOMAIN imported
      <4>1. id \in DOMAIN sessionPrompts /\ existing'[id] = sessionPrompts[id]
        BY <1>2, <1>5, <3>1 DEF Handed
      <4>2. CopyOf(sessionPrompts[id], id, server)
        BY <1>2, <4>1 DEF CopiesPast
      <4> QED BY <1>1, <4>1, <4>2
    <3>2. CASE id \notin DOMAIN imported
      <4>1. id \in DOMAIN existing /\ existing'[id] = existing[id]
        BY <1>5, <2>1, <3>2
      <4>2. CopyOf(existing[id], id, server)
        BY <1>2, <4>1 DEF CopiesPast
      <4> QED BY <1>1, <4>1, <4>2
    <3> QED BY <3>1, <3>2
  <2>2. ASSUME NEW id \in DOMAIN sessionPrompts' PROVE CopyOf(sessionPrompts'[id], id, server')
    <3>1. sessionPrompts' = sessionPrompts
      BY <2>2, NoRows
    <3> QED BY <1>1, <1>2, <2>2, <3>1 DEF CopiesPast
  <2> QED BY <2>1, <2>2 DEF CopiesPast
<1>7. Handed'
  <2>1. DOMAIN imported' = {}
    BY <1>1, NoRows
  <2>2. ASSUME NEW id \in DOMAIN sessionPrompts' PROVE id \in DOMAIN existing' /\ existing'[id] = sessionPrompts'[id]
    <3>1. sessionPrompts' = sessionPrompts
      BY <2>2, NoRows
    <3> QED BY <1>2, <1>5, <2>2, <3>1 DEF Handed
  <2> QED BY <2>1, <2>2 DEF Handed
<1>8. DialogWaits'
  <2>1. SUFFICES ASSUME overtaken = FALSE
                 PROVE  DOMAIN imported' = {} /\ import.state = "idle" /\ reads = {}
    BY <1>1 DEF DialogWaits
  <2> QED BY <1>1, <2>1, NoRows DEF ImportInv, DialogWaits
<1> QED BY <1>1, <1>4, <1>6, <1>7, <1>8, JobKept DEF ImportInv

LEMMA ClosedDialog == I!Closed \in Dialogs /\ I!Closed.preview = None
  BY DEF I!Closed, Dialogs

LEMMA Closing == ImportInv /\ (I!Close \/ I!ReuseWithAI \/ I!OpenImported) => ImportInv'
<1>1. SUFFICES ASSUME ImportInv, I!Close \/ I!ReuseWithAI \/ I!OpenImported PROVE ImportInv'
  OBVIOUS
<1>2. ui \in Dialogs /\ ui.busy = FALSE
  <2>1. ui \in Dialogs /\ ~ui.busy
    BY <1>1 DEF I!Close, I!ReuseWithAI, I!OpenImported, I!MayClose, I!Reviewing, ImportInv, ImportTypes
  <2> QED BY <2>1, DialogFields
<1>3. I!HandOver /\ UNCHANGED <<I!files, server, import>>
  BY <1>1 DEF I!Close, I!ReuseWithAI, I!OpenImported
<1>4. \/ ui' = I!Closed /\ sessionPrompts' = <<>>
      \/ ui' = [ui EXCEPT !.open = FALSE, !.done = 0] /\ sessionPrompts' = sessionPrompts
  BY <1>1 DEF I!Close, I!ReuseWithAI, I!OpenImported
<1>5. CASE ui' = I!Closed /\ sessionPrompts' = <<>>
  <2>1. ui' \in Dialogs /\ RowsFit'
    BY <1>5, ClosedDialog DEF RowsFit
  <2> QED BY <1>1, <1>2, <1>3, <1>5, <2>1, HandsOver
<1>6. CASE ui' = [ui EXCEPT !.open = FALSE, !.done = 0] /\ sessionPrompts' = sessionPrompts
  <2>1. /\ ui' \in Dialogs /\ ui'.preview = ui.preview /\ ui'.toggled = ui.toggled /\ ui'.updating = ui.updating
        /\ ui'.before = ui.before
    BY <1>2, <1>6 DEF Dialogs
  <2>2. RowsFit'
    BY <1>1, <2>1 DEF RowsFit, ImportInv
  <2> QED BY <1>1, <1>2, <1>3, <1>6, <2>1, <2>2, HandsOver
<1> QED BY <1>4, <1>5, <1>6

-----------------------------------------------------------------------------
(* The import: the prompts stored *)

(* Between two states of the server: every prompt is the same or was edited since. *)
Later(rows, since) ==
  /\ since \in Stocks /\ rows \in Stocks /\ DOMAIN since \subseteq DOMAIN rows
  /\ \A id \in DOMAIN since : rows[id] = since[id] \/ rows[id].stamp > since[id].stamp

LEMMA CopiesAge ==
  ASSUME NEW rows, NEW since, Later(rows, since), NEW row, NEW id, row.stamp \in Nat, CopyOf(row, id, since)
  PROVE  CopyOf(row, id, rows)
<1>1. id \in DOMAIN since /\ id \in DOMAIN rows
  BY DEF CopyOf, Later
<1>2. since[id].stamp \in Nat /\ rows[id].stamp \in Nat
  <2>1. rows \in Stocks /\ since \in Stocks
    BY DEF Later
  <2> QED BY <1>1, <2>1, StockRows
<1>3. CASE rows[id] = since[id]
  BY <1>1, <1>3 DEF CopyOf
<1>4. CASE rows[id].stamp > since[id].stamp
  BY <1>1, <1>2, <1>4 DEF CopyOf
<1> QED BY <1>1, <1>3, <1>4 DEF Later

(* A stored prompt as it was edited. *)
LEMMA RowsEdited ==
  ASSUME NEW rows \in Stocks, NEW id \in DOMAIN rows, NEW text \in ImportTexts
  PROVE  /\ I!Edited(rows[id], text) \in StoredPrompts
         /\ I!Edited(rows[id], text).stamp = rows[id].stamp + 1 /\ I!Edited(rows[id], text).text = text
         /\ [rows EXCEPT ![id] = I!Edited(rows[id], text)] \in Stocks
         /\ DOMAIN [rows EXCEPT ![id] = I!Edited(rows[id], text)] = DOMAIN rows
         /\ [rows EXCEPT ![id] = I!Edited(rows[id], text)][id] = I!Edited(rows[id], text)
         /\ Later([rows EXCEPT ![id] = I!Edited(rows[id], text)], rows)
<1> DEFINE row == I!Edited(rows[id], text)
           new == [rows EXCEPT ![id] = row]
<1>1. rows[id] \in StoredPrompts /\ rows[id].stamp \in Nat
  BY StockRows
<1>2. row \in StoredPrompts /\ row.stamp = rows[id].stamp + 1 /\ row.text = text
  <2>1. \A r \in StoredPrompts :
          /\ r.stamp \in Nat /\ [r EXCEPT !.text = text, !.stamp = r.stamp + 1] \in StoredPrompts
          /\ [r EXCEPT !.text = text, !.stamp = r.stamp + 1].stamp = r.stamp + 1
          /\ [r EXCEPT !.text = text, !.stamp = r.stamp + 1].text = text
    <3> TAKE r \in StoredPrompts
    <3> DEFINE mid == [r EXCEPT !.text = text]
               next == r.stamp + 1
    <3>1. r.stamp \in Nat /\ next \in Nat /\ mid \in StoredPrompts /\ mid.text = text
      BY DEF StoredPrompts
    <3> HIDE DEF mid, next
    <3>2. /\ [mid EXCEPT !.stamp = next] \in StoredPrompts /\ [mid EXCEPT !.stamp = next].stamp = next
          /\ [mid EXCEPT !.stamp = next].text = text
      BY <3>1 DEF StoredPrompts
    <3> QED BY <3>1, <3>2 DEF mid, next
  <2>2. row = [rows[id] EXCEPT !.text = text, !.stamp = rows[id].stamp + 1]
    BY DEF I!Edited
  <2> HIDE DEF row
  <2> QED BY <1>1, <2>1, <2>2
<1> HIDE DEF row
<1>3. DOMAIN new = DOMAIN rows /\ new[id] = row /\ \A i \in DOMAIN rows : i # id => new[i] = rows[i]
  OBVIOUS
<1>4. new \in Stocks
  <2>1. DOMAIN rows \subseteq Nat /\ rows \in [DOMAIN rows -> StoredPrompts]
    BY StocksAre
  <2>2. new \in [DOMAIN rows -> StoredPrompts]
    BY <1>2, <2>1
  <2> HIDE DEF new
  <2> QED BY <1>3, <2>1, <2>2, StocksAre
<1> HIDE DEF new
<1>5. Later(new, rows)
  BY <1>1, <1>2, <1>3, <1>4 DEF Later
<1> QED BY <1>2, <1>3, <1>4, <1>5 DEF new, row

(* What the page holds is past whatever the server did next. *)
LEMMA PageAges == ASSUME ImportInv, Later(server', server), UNCHANGED <<existing, sessionPrompts>> PROVE CopiesPast'
<1>1. existing \in Stocks /\ sessionPrompts \in Stocks /\ CopiesPast
  BY DEF ImportInv, ImportTypes
<1>2. ASSUME NEW id \in DOMAIN existing PROVE CopyOf(existing[id], id, server')
  <2>1. existing[id].stamp \in Nat
    BY <1>1, StockRows
  <2> QED BY <1>1, <2>1, CopiesAge DEF CopiesPast
<1>3. ASSUME NEW id \in DOMAIN sessionPrompts PROVE CopyOf(sessionPrompts[id], id, server')
  <2>1. sessionPrompts[id].stamp \in Nat
    BY <1>1, StockRows
  <2> QED BY <1>1, <2>1, CopiesAge DEF CopiesPast
<1> QED BY <1>2, <1>3 DEF CopiesPast

LEMMA JobAges ==
  ASSUME NEW j \in Imports, NEW rows, NEW since, JobPast(j, since), Later(rows, since)
  PROVE  JobPast(j, rows)
<1>1. ASSUME NEW id \in DOMAIN j.created PROVE CopyOf(j.created[id], id, rows)
  <2>1. j.created[id].stamp \in Nat
    BY ImportJobFields, StockRows
  <2> QED BY <2>1, CopiesAge DEF JobPast
<1>2. ASSUME NEW k \in DOMAIN j.update PROVE CopyOf(j.update[k].current, j.update[k].id, rows)
  <2>1. j.update[k].current.stamp \in Nat
    BY UpdateFields
  <2> QED BY <2>1, CopiesAge DEF JobPast
<1>3. ASSUME j.saved # None PROVE CopyOf(j.saved.row, j.saved.id, rows)
  <2>1. j.saved \in SavedPrompts
    BY <1>3, ImportJobFields
  <2>2. j.saved.row.stamp \in Nat
    BY <2>1 DEF SavedPrompts, StoredPrompts
  <2> QED BY <1>3, <2>2, CopiesAge DEF JobPast
<1> QED BY <1>1, <1>2, <1>3 DEF JobPast

LEMMA EditingElsewhere ==
  ASSUME ImportInv, NEW id \in DOMAIN Library, NEW body \in Bodies, I!ForeignEdit(id, body) PROVE ImportInv'
<1> DEFINE text == [server[id].text EXCEPT !.body = body]
<1>1. /\ server' = [server EXCEPT ![id] = I!Edited(server[id], text)]
      /\ UNCHANGED <<ui, imported, sessionPrompts, existing, walks, reads, overtaken, import>>
  BY DEF I!ForeignEdit, I!dialog, I!files
<1>2. server \in Stocks /\ import \in Imports /\ JobPast(import, server)
  BY DEF ImportInv, ImportTypes
<1>3. CASE id \in DOMAIN server
  <2>1. text \in ImportTexts
    <3>1. server[id].text \in ImportTexts /\ body \in Wordings
      BY <1>2, <1>3, StockRows, ImportAssumption
    <3> QED BY <3>1, TextsChanged
  <2> HIDE DEF text
  <2>2. server' \in Stocks /\ DOMAIN server' = DOMAIN server /\ Later(server', server)
    BY <1>1, <1>2, <1>3, <2>1, RowsEdited
  <2>3. ImportTypes'
    BY <1>1, <2>2 DEF ImportInv, ImportTypes
  <2>4. CopiesPast'
    BY <1>1, <2>2, PageAges
  <2>5. JobPast(import', server')
    BY <1>1, <1>2, <2>2, JobAges
  <2>6. RowsFit' /\ Handed' /\ DialogWaits'
    BY <1>1 DEF ImportInv, RowsFit, Handed, DialogWaits
  <2> QED BY <1>1, <2>3, <2>4, <2>5, <2>6, JobKept DEF ImportInv
<1>4. CASE id \notin DOMAIN server
  <2>1. server' = server
    <3> HIDE DEF text
    <3>1. server = [i \in DOMAIN server |-> server[i]]
      BY <1>2, StocksAre
    <3> QED BY <1>1, <1>4, <3>1
  <2> QED BY <1>1, <2>1, DialogMoves DEF ImportInv, ImportTypes, RowsFit, DialogWaits
<1> QED BY <1>3, <1>4

-----------------------------------------------------------------------------
(* The import: one prompt after the other is settled *)

LEMMA Tails ==
  ASSUME NEW X, NEW list \in Seq(X), list # <<>>
  PROVE  /\ Head(list) = list[1] /\ list[1] \in X /\ 1 \in DOMAIN list /\ Tail(list) \in Seq(X)
         /\ Len(list) \in Nat /\ Len(list) > 0 /\ Len(Tail(list)) = Len(list) - 1
         /\ DOMAIN Tail(list) = 1..(Len(list) - 1) /\ DOMAIN list = 1..Len(list)
         /\ \A k \in DOMAIN Tail(list) : k + 1 \in DOMAIN list /\ Tail(list)[k] = list[k + 1]
  OBVIOUS

LEMMA Longer ==
  ASSUME NEW X, NEW list \in Seq(X), NEW x \in X
  PROVE  /\ Append(list, x) \in Seq(X) /\ Len(Append(list, x)) = Len(list) + 1
         /\ RowsOf(Append(list, x)) = RowsOf(list) \cup {x}
<1>1. /\ Append(list, x) \in Seq(X) /\ Len(Append(list, x)) = Len(list) + 1 /\ Len(list) \in Nat
      /\ DOMAIN list = 1..Len(list) /\ DOMAIN Append(list, x) = 1..(Len(list) + 1)
      /\ Append(list, x)[Len(list) + 1] = x /\ \A k \in 1..Len(list) : Append(list, x)[k] = list[k]
  OBVIOUS
<1>2. RowsOf(Append(list, x)) = RowsOf(list) \cup {x}
  <2> DEFINE new == Append(list, x)
  <2> HIDE DEF new
  <2>1. DOMAIN new = DOMAIN list \cup {Len(list) + 1}
    BY <1>1 DEF new
  <2>2. new[Len(list) + 1] = x /\ \A k \in DOMAIN list : new[k] = list[k]
    BY <1>1 DEF new
  <2>3. RowsOf(new) = RowsOf(list) \cup {x}
    BY <2>1, <2>2, Zenon DEF RowsOf
  <2> QED BY <2>3 DEF new
<1> QED BY <1>1, <1>2

(* The next of the prompts of an import to be written. *)
Upcoming(j) == IF j.create # <<>> THEN Head(j.create) ELSE Head(j.update).prompt

(* Of an import with something left to write, and that import without the next. *)
Advances(j, i) ==
  /\ i \in Imports /\ i.chosen = j.chosen
  /\ \/ j.create # <<>> /\ i.create = Tail(j.create) /\ i.update = j.update
     \/ j.create = <<>> /\ i.create = <<>> /\ j.update # <<>> /\ i.update = Tail(j.update)

LEMMA TurnTaken ==
  ASSUME NEW j \in Imports, NEW i, InTurn(j), Advances(j, i)
  PROVE  /\ Settled(i) = Settled(j) + 1 /\ Settled(j) \in Nat
         /\ Upcoming(j) = j.chosen[Settled(j) + 1] /\ Upcoming(j) \in ImportPrompts
         /\ \A k \in DOMAIN i.create : i.create[k] = i.chosen[Settled(i) + k]
         /\ \A k \in DOMAIN i.update : i.update[k].prompt = i.chosen[Settled(i) + Len(i.create) + k]
<1>1. /\ j.create \in Seq(ImportPrompts) /\ j.update \in Seq(Replacements) /\ j.chosen \in Seq(ImportPrompts)
      /\ i.chosen = j.chosen
  BY ImportJobFields DEF Advances
<1>2. Len(j.create) \in Nat /\ Len(j.update) \in Nat /\ Len(j.chosen) \in Nat
  BY <1>1
<1>3. CASE j.create # <<>> /\ i.create = Tail(j.create) /\ i.update = j.update
  <2>1. /\ Head(j.create) = j.create[1] /\ j.create[1] \in ImportPrompts /\ 1 \in DOMAIN j.create
        /\ Len(i.create) = Len(j.create) - 1
        /\ \A k \in DOMAIN i.create : k \in Nat /\ k + 1 \in DOMAIN j.create /\ i.create[k] = j.create[k + 1]
    <3>1. /\ Head(j.create) = j.create[1] /\ j.create[1] \in ImportPrompts /\ 1 \in DOMAIN j.create
          /\ Len(i.create) = Len(j.create) - 1 /\ DOMAIN i.create = 1..(Len(j.create) - 1)
          /\ \A k \in DOMAIN i.create : k + 1 \in DOMAIN j.create /\ i.create[k] = j.create[k + 1]
      BY <1>1, <1>3, Tails
    <3> QED BY <1>2, <3>1
  <2>2. Settled(i) = Settled(j) + 1 /\ Settled(j) \in Nat
    <3>1. Settled(j) \in Nat
      BY DEF InTurn
    <3>2. Len(i.chosen) = Len(j.chosen) /\ Len(i.update) = Len(j.update) /\ Len(i.create) = Len(j.create) - 1
      BY <1>1, <1>3, <2>1
    <3>3. \A a, b, c \in Nat : a - (b - 1) - c = a - b - c + 1
      OBVIOUS
    <3>4. Len(j.chosen) - (Len(j.create) - 1) - Len(j.update) = Len(j.chosen) - Len(j.create) - Len(j.update) + 1
      BY <1>2, <3>3, Zenon
    <3> QED BY <3>1, <3>2, <3>4, Zenon DEF Settled
  <2>3. Upcoming(j) = j.chosen[Settled(j) + 1] /\ Upcoming(j) \in ImportPrompts
    BY <1>3, <2>1 DEF Upcoming, InTurn
  <2>4. ASSUME NEW k \in DOMAIN i.create PROVE i.create[k] = i.chosen[Settled(i) + k]
    <3>1. i.create[k] = j.chosen[Settled(j) + (k + 1)] /\ k \in Nat
      BY <2>1 DEF InTurn
    <3>2. Settled(j) + (k + 1) = Settled(i) + k
      BY <2>2, <3>1
    <3> QED BY <1>1, <3>1, <3>2
  <2>5. ASSUME NEW k \in DOMAIN i.update PROVE i.update[k].prompt = i.chosen[Settled(i) + Len(i.create) + k]
    <3>1. i.update[k].prompt = j.chosen[Settled(j) + Len(j.create) + k] /\ k \in Nat
      BY <1>1, <1>3 DEF InTurn
    <3>2. Settled(j) + Len(j.create) + k = Settled(i) + Len(i.create) + k
      BY <1>2, <2>1, <2>2, <3>1
    <3> QED BY <1>1, <3>1, <3>2
  <2> QED BY <2>2, <2>3, <2>4, <2>5
<1>4. CASE j.create = <<>> /\ i.create = <<>> /\ j.update # <<>> /\ i.update = Tail(j.update)
  <2>1. /\ Head(j.update) = j.update[1] /\ j.update[1] \in Replacements /\ 1 \in DOMAIN j.update
        /\ Len(i.update) = Len(j.update) - 1
        /\ \A k \in DOMAIN i.update : k \in Nat /\ k + 1 \in DOMAIN j.update /\ i.update[k] = j.update[k + 1]
    <3>1. /\ Head(j.update) = j.update[1] /\ j.update[1] \in Replacements /\ 1 \in DOMAIN j.update
          /\ Len(i.update) = Len(j.update) - 1 /\ DOMAIN i.update = 1..(Len(j.update) - 1)
          /\ \A k \in DOMAIN i.update : k + 1 \in DOMAIN j.update /\ i.update[k] = j.update[k + 1]
      BY <1>1, <1>4, Tails
    <3> QED BY <1>2, <3>1
  <2>2. Settled(i) = Settled(j) + 1 /\ Settled(j) \in Nat /\ Len(j.create) = 0 /\ Len(i.create) = 0
    <3>1. Settled(j) \in Nat
      BY DEF InTurn
    <3>2. /\ Len(i.chosen) = Len(j.chosen) /\ Len(i.update) = Len(j.update) - 1
          /\ Len(j.create) = 0 /\ Len(i.create) = 0
      BY <1>1, <1>4, <2>1
    <3> QED BY <1>2, <3>1, <3>2 DEF Settled
  <2>3. Upcoming(j) = j.chosen[Settled(j) + 1] /\ Upcoming(j) \in ImportPrompts
    <3>1. j.update[1].prompt = j.chosen[Settled(j) + Len(j.create) + 1] /\ j.update[1].prompt \in ImportPrompts
      BY <2>1, UpdateFields DEF InTurn
    <3>2. Settled(j) + Len(j.create) + 1 = Settled(j) + 1
      BY <2>2
    <3> QED BY <1>4, <2>1, <3>1, <3>2 DEF Upcoming
  <2>4. DOMAIN i.create = {}
    BY <1>4
  <2>5. ASSUME NEW k \in DOMAIN i.update PROVE i.update[k].prompt = i.chosen[Settled(i) + Len(i.create) + k]
    <3>1. i.update[k].prompt = j.chosen[Settled(j) + Len(j.create) + (k + 1)] /\ k \in Nat
      BY <2>1 DEF InTurn
    <3>2. Settled(j) + Len(j.create) + (k + 1) = Settled(i) + Len(i.create) + k
      BY <2>2, <3>1
    <3> QED BY <1>1, <3>1, <3>2
  <2> QED BY <2>2, <2>3, <2>4, <2>5
<1> QED BY <1>3, <1>4 DEF Advances

LEMMA Confirming ==
  ASSUME NEW j \in Imports, NEW i, InTurn(j), Advances(j, i), i.failed = j.failed,
         i.answered = j.answered \cup {Settled(j) + 1}
  PROVE  InTurn(i)
<1>1. /\ Settled(i) = Settled(j) + 1 /\ Settled(j) \in Nat
      /\ \A k \in DOMAIN i.create : i.create[k] = i.chosen[Settled(i) + k]
      /\ \A k \in DOMAIN i.update : i.update[k].prompt = i.chosen[Settled(i) + Len(i.create) + k]
  BY TurnTaken
<1>2. i.answered \subseteq 1..Settled(i) /\ Settled(i) \in Nat
  BY <1>1 DEF InTurn
<1>3. Unconfirmed(i) = Unconfirmed(j)
  BY <1>1 DEF Unconfirmed
<1> QED BY <1>1, <1>2, <1>3 DEF InTurn, Advances

LEMMA FailingToWrite ==
  ASSUME NEW j \in Imports, NEW i, InTurn(j), Advances(j, i), i.failed = Append(j.failed, Upcoming(j)),
         i.answered = j.answered
  PROVE  InTurn(i)
<1>1. /\ Settled(i) = Settled(j) + 1 /\ Settled(j) \in Nat
      /\ Upcoming(j) = j.chosen[Settled(j) + 1] /\ Upcoming(j) \in ImportPrompts
      /\ \A k \in DOMAIN i.create : i.create[k] = i.chosen[Settled(i) + k]
      /\ \A k \in DOMAIN i.update : i.update[k].prompt = i.chosen[Settled(i) + Len(i.create) + k]
  BY TurnTaken
<1>2. i.answered \subseteq 1..Settled(i) /\ Settled(i) \in Nat
  BY <1>1 DEF InTurn
<1> DEFINE n == Settled(j)
           U == Unconfirmed(j)
<1>3. Unconfirmed(i) = U \cup {n + 1} /\ n + 1 \notin U /\ U \in SUBSET (1..n)
  BY <1>1 DEF Unconfirmed, InTurn
<1>4. j.failed \in Seq(ImportPrompts) /\ RowsOf(j.failed) = {j.chosen[k] : k \in U} /\ Len(j.failed) = Cardinality(U)
  BY ImportJobFields DEF InTurn
<1>5. /\ RowsOf(i.failed) = RowsOf(j.failed) \cup {Upcoming(j)}
      /\ Len(i.failed) = Len(j.failed) + 1
  BY <1>1, <1>4, Longer
<1> HIDE DEF U, n
<1>6. Cardinality(U \cup {n + 1}) = Cardinality(U) + 1
  <2>1. n \in Nat
    BY <1>1 DEF n
  <2>2. IsFiniteSet(1..n)
    BY <2>1, FS_Interval
  <2>3. IsFiniteSet(U)
    BY <1>3, <2>2, FS_Subset
  <2> QED BY <1>3, <2>3, FS_AddElement
<1>7. RowsOf(i.failed) = {i.chosen[k] : k \in Unconfirmed(i)}
  <2>1. {i.chosen[k] : k \in Unconfirmed(i)} = {j.chosen[k] : k \in U} \cup {j.chosen[n + 1]}
    BY <1>3 DEF Advances
  <2>2. Upcoming(j) = j.chosen[n + 1]
    BY <1>1 DEF n
  <2> QED BY <1>4, <1>5, <2>1, <2>2
<1>8. Len(i.failed) = Cardinality(Unconfirmed(i))
  BY <1>3, <1>4, <1>5, <1>6
<1> QED BY <1>1, <1>2, <1>7, <1>8 DEF InTurn

(* An import of which nothing was written yet. *)
LEMMA Unturned ==
  ASSUME NEW j \in Imports, j.answered = {}, j.failed = <<>>, Len(j.chosen) = Len(j.create) + Len(j.update),
         \A k \in DOMAIN j.create : j.create[k] = j.chosen[k],
         \A k \in DOMAIN j.update : j.update[k].prompt = j.chosen[Len(j.create) + k]
  PROVE  InTurn(j)
<1>1. j.create \in Seq(ImportPrompts) /\ j.update \in Seq(Replacements)
  BY ImportJobFields
<1>2. Settled(j) = 0 /\ Len(j.create) \in Nat
  BY <1>1 DEF Settled
<1>3. Unconfirmed(j) = {}
  BY <1>2 DEF Unconfirmed
<1>4. RowsOf(j.failed) = {} /\ Len(j.failed) = 0
  BY DEF RowsOf
<1>5. ASSUME NEW k \in DOMAIN j.create PROVE j.create[k] = j.chosen[Settled(j) + k]
  BY <1>1, <1>2
<1>6. ASSUME NEW k \in DOMAIN j.update PROVE j.update[k].prompt = j.chosen[Settled(j) + Len(j.create) + k]
  BY <1>1, <1>2
<1>7. RowsOf(j.failed) = {j.chosen[k] : k \in Unconfirmed(j)}
  BY <1>3, <1>4
<1>8. Len(j.failed) = Cardinality(Unconfirmed(j))
  BY <1>3, <1>4, FS_EmptySet
<1> QED BY <1>2, <1>5, <1>6, <1>7, <1>8 DEF InTurn

-----------------------------------------------------------------------------
(* The import: answers *)

LEMMA AnswerMoves ==
  ASSUME ImportInv, UNCHANGED <<ui, I!dialog, I!files>>, Later(server', server), \E n \in Nat : DOMAIN server' = 1..n,
         import' \in Imports, JobPast(import', server'), InTurn(import'), import'.state = import.state,
         import.state # "idle"
  PROVE  ImportInv'
<1>1. ImportTypes'
  BY DEF ImportInv, ImportTypes, I!dialog, I!files, Later
<1>2. CopiesPast'
  BY PageAges DEF I!dialog
<1>3. RowsFit' /\ Handed' /\ DialogWaits' /\ IdleRests(import)'
  BY DEF ImportInv, RowsFit, Handed, DialogWaits, IdleRests, I!dialog, I!files
<1> QED BY <1>1, <1>2, <1>3 DEF ImportInv

(* A prompt written for the first time. *)
LEMMA Stores ==
  ASSUME NEW rows \in Stocks, NEW n \in Nat, DOMAIN rows = 1..n, NEW row \in StoredPrompts
  PROVE  /\ Later(I!Over(I!One(n + 1, row), rows), rows)
         /\ DOMAIN I!Over(I!One(n + 1, row), rows) = 1..(n + 1)
         /\ I!Over(I!One(n + 1, row), rows)[n + 1] = row
<1> DEFINE one == I!One(n + 1, row)
           new == I!Over(one, rows)
<1>1. one \in Stocks /\ DOMAIN one = {n + 1} /\ one[n + 1] = row
  <2>1. PICK id \in Nat : id = n + 1
    OBVIOUS
  <2>2. I!One(id, row) \in Stocks /\ DOMAIN I!One(id, row) = {id} /\ I!One(id, row)[id] = row
    BY OneIs
  <2> QED BY <2>1, <2>2
<1> HIDE DEF one
<1>2. /\ DOMAIN new = DOMAIN one \cup DOMAIN rows /\ \A id \in DOMAIN one : new[id] = one[id]
      /\ \A id \in DOMAIN rows : id \notin DOMAIN one => new[id] = rows[id]
      /\ new \in Stocks
  BY <1>1, OverlayIs
<1> HIDE DEF new
<1>3. DOMAIN new = 1..(n + 1) /\ new[n + 1] = row /\ \A id \in 1..n : new[id] = rows[id]
  BY <1>1, <1>2
<1>4. Later(new, rows)
  BY <1>2, <1>3 DEF Later
<1> QED BY <1>3, <1>4 DEF new, one

LEMMA SavesPrompts ==
  ASSUME NEW prompt \in ImportPrompts
  PROVE  I!Saved(prompt) \in StoredPrompts /\ I!Saved(prompt).stamp = 0
  BY PromptsAre DEF I!Saved, StoredPrompts

LEMMA LaterStays == ASSUME NEW rows \in Stocks PROVE Later(rows, rows)
  BY DEF Later

(* The same row put over what was created. *)
LEMMA CreatedPast ==
  ASSUME NEW created \in Stocks, NEW rows \in Stocks, \A id \in DOMAIN created : CopyOf(created[id], id, rows),
         NEW id \in Nat, NEW row \in StoredPrompts, CopyOf(row, id, rows)
  PROVE  /\ I!Over(I!One(id, row), created) \in Stocks
         /\ \A k \in DOMAIN I!Over(I!One(id, row), created) : CopyOf(I!Over(I!One(id, row), created)[k], k, rows)
<1> DEFINE one == I!One(id, row)
           new == I!Over(one, created)
<1>1. one \in Stocks /\ DOMAIN one = {id} /\ one[id] = row
  BY OneIs
<1> HIDE DEF one
<1>2. /\ DOMAIN new = DOMAIN one \cup DOMAIN created /\ \A k \in DOMAIN one : new[k] = one[k]
      /\ \A k \in DOMAIN created : k \notin DOMAIN one => new[k] = created[k]
      /\ new \in Stocks
  BY <1>1, OverlayIs
<1> HIDE DEF new
<1>3. ASSUME NEW k \in DOMAIN new PROVE CopyOf(new[k], k, rows)
  <2>1. CASE k = id
    BY <1>1, <1>2, <2>1
  <2>2. CASE k # id
    <3>1. k \in DOMAIN created /\ new[k] = created[k]
      BY <1>1, <1>2, <1>3, <2>2
    <3> QED BY <3>1
  <2> QED BY <2>1, <2>2
<1> QED BY <1>2, <1>3 DEF new, one

LEMMA Creating ==
  ASSUME ImportInv, NEW isStored \in BOOLEAN, NEW arrives \in BOOLEAN, I!CreateAnswer(isStored, arrives)
  PROVE  ImportInv'
<1> DEFINE prompt == Head(import.create)
           saved == I!Saved(prompt)
           answered == IF arrives THEN import.answered \cup {I!Position} ELSE import.answered
           rest == [import EXCEPT !.create = Tail(import.create), !.answered = answered]
<1>1. /\ import \in Imports /\ server \in Stocks /\ JobPast(import, server) /\ InTurn(import)
      /\ import.create # <<>> /\ import.saved = None /\ import.state # "idle"
      /\ UNCHANGED <<ui, I!dialog, I!files>>
  BY DEF ImportInv, ImportTypes, IdleRests, I!CreateAnswer
<1>2. PICK n \in Nat : DOMAIN server = 1..n
  BY DEF ImportInv, ImportTypes
<1>3. I!NextId = n + 1
  <2>1. Cardinality(1..n) = n
    BY FS_Interval
  <2>2. I!Cardinality(DOMAIN server) = n
    BY <1>2, <2>1, ImportCounts
  <2> QED BY <2>2 DEF I!NextId
<1>4. prompt \in ImportPrompts /\ Tail(import.create) \in Seq(ImportPrompts)
  <2>1. import.create \in Seq(ImportPrompts)
    BY <1>1, ImportJobFields
  <2> QED BY <1>1, <2>1, Tails
<1>5. saved \in StoredPrompts /\ saved.stamp = 0
  BY <1>4, SavesPrompts
<1>6. I!Position = Settled(import) + 1 /\ Settled(import) + 1 \in Nat
  <2>1. Settled(import) \in Nat
    BY <1>1 DEF InTurn
  <2>2. I!Position = Settled(import) + 1
    BY Zenon DEF I!Position, Settled
  <2> QED BY <2>1, <2>2
<1>7. /\ server' = IF isStored THEN I!Over(I!One(n + 1, saved), server) ELSE server
      /\ arrives => isStored
      /\ import' = IF ~arrives THEN [rest EXCEPT !.failed = Append(import.failed, prompt)]
                   ELSE IF prompt.fav THEN [rest EXCEPT !.saved = [id |-> n + 1, row |-> saved, prompt |-> prompt]]
                   ELSE [rest EXCEPT !.created = I!Over(I!One(n + 1, saved), import.created)]
  <2>1. import = [import EXCEPT !.create = import.create]
    BY <1>1 DEF Imports
  <2>2. rest.failed = import.failed /\ rest.created = import.created
    BY <1>1 DEF Imports
  <2> HIDE DEF rest, saved
  <2> QED BY <1>3, <2>2 DEF I!CreateAnswer, rest, saved
<1>8. answered \in SUBSET Nat
  BY <1>1, <1>6, ImportJobFields
<1> HIDE DEF prompt, saved, answered
<1>9. /\ rest \in Imports /\ rest.create = Tail(import.create) /\ rest.update = import.update
      /\ rest.answered = answered /\ rest.chosen = import.chosen /\ rest.saved = import.saved
      /\ rest.created = import.created /\ rest.failed = import.failed /\ rest.state = import.state
  BY <1>1, <1>4, <1>8 DEF Imports
<1> HIDE DEF rest
<1>10. Later(server', server) /\ \E m \in Nat : DOMAIN server' = 1..m
  <2>1. CASE isStored
    <3>1. Later(server', server) /\ DOMAIN server' = 1..(n + 1) /\ n + 1 \in Nat
      BY <1>1, <1>2, <1>5, <1>7, <2>1, Stores
    <3> QED BY <3>1
  <2>2. CASE ~isStored
    BY <1>1, <1>2, <1>7, <2>2, LaterStays
  <2> QED BY <2>1, <2>2
<1>11. JobPast(import, server')
  BY <1>1, <1>10, JobAges
<1>12. server' \in Stocks
  BY <1>10 DEF Later
<1>13. CASE ~arrives
  <2>1. import.failed \in Seq(ImportPrompts)
    BY <1>1, ImportJobFields
  <2> DEFINE failed == Append(import.failed, prompt)
  <2>2. failed \in Seq(ImportPrompts)
    BY <1>4, <2>1, Longer
  <2>3. import' = [rest EXCEPT !.failed = failed]
    BY <1>7, <1>13
  <2> HIDE DEF failed
  <2>4. /\ import' \in Imports /\ import'.create = Tail(import.create) /\ import'.update = import.update
        /\ import'.answered = answered /\ import'.chosen = import.chosen /\ import'.saved = import.saved
        /\ import'.created = import.created /\ import'.failed = failed /\ import'.state = import.state
    BY <1>9, <2>2, <2>3 DEF Imports
  <2>5. JobPast(import', server')
    BY <1>11, <2>4 DEF JobPast
  <2>6. Advances(import, import') /\ Upcoming(import) = prompt /\ answered = import.answered
    BY <1>1, <1>13, <2>4 DEF Advances, Upcoming, prompt, answered
  <2>7. InTurn(import')
    BY <1>1, <2>4, <2>6, FailingToWrite DEF failed
  <2> QED BY <1>1, <1>10, <2>4, <2>5, <2>7, AnswerMoves
<1>14. CASE arrives
  <2>1. answered = import.answered \cup {Settled(import) + 1}
    BY <1>6, <1>14 DEF answered
  <2>2. server'[n + 1] = saved /\ n + 1 \in DOMAIN server'
    <3>1. server' = I!Over(I!One(n + 1, saved), server)
      BY <1>7, <1>14
    <3>2. DOMAIN server' = 1..(n + 1) /\ server'[n + 1] = saved
      BY <1>1, <1>2, <1>5, <3>1, Stores
    <3> QED BY <3>2
  <2>3. CopyOf(saved, n + 1, server')
    BY <1>5, <2>2 DEF CopyOf
  <2>4. CASE prompt.fav
    <3> DEFINE new == [id |-> n + 1, row |-> saved, prompt |-> prompt]
    <3>1. new \in SavedPrompts /\ new.id = n + 1 /\ new.row = saved
      BY <1>4, <1>5 DEF SavedPrompts
    <3>2. import' = [rest EXCEPT !.saved = new]
      BY <1>7, <1>14, <2>4
    <3> HIDE DEF new
    <3>3. /\ import' \in Imports /\ import'.create = Tail(import.create) /\ import'.update = import.update
          /\ import'.answered = answered /\ import'.chosen = import.chosen /\ import'.saved = new
          /\ import'.created = import.created /\ import'.failed = import.failed /\ import'.state = import.state
      BY <1>9, <3>1, <3>2 DEF Imports
    <3>4. JobPast(import', server')
      BY <1>11, <2>3, <3>1, <3>3 DEF JobPast
    <3>5. Advances(import, import')
      BY <1>1, <3>3 DEF Advances
    <3>6. InTurn(import')
      BY <1>1, <2>1, <3>3, <3>5, Confirming
    <3> QED BY <1>1, <1>10, <3>3, <3>4, <3>6, AnswerMoves
  <2>5. CASE ~prompt.fav
    <3> DEFINE created == I!Over(I!One(n + 1, saved), import.created)
    <3>1. created \in Stocks /\ \A k \in DOMAIN created : CopyOf(created[k], k, server')
      <4>1. import.created \in Stocks /\ n + 1 \in Nat
        BY <1>1, ImportJobFields
      <4>2. \A id \in DOMAIN import.created : CopyOf(import.created[id], id, server')
        BY <1>11 DEF JobPast
      <4> QED BY <1>5, <1>12, <2>3, <4>1, <4>2, CreatedPast
    <3>2. import' = [rest EXCEPT !.created = created]
      BY <1>7, <1>14, <2>5
    <3> HIDE DEF created
    <3>3. /\ import' \in Imports /\ import'.create = Tail(import.create) /\ import'.update = import.update
          /\ import'.answered = answered /\ import'.chosen = import.chosen /\ import'.saved = import.saved
          /\ import'.created = created /\ import'.failed = import.failed /\ import'.state = import.state
      BY <1>9, <3>1, <3>2 DEF Imports
    <3>4. JobPast(import', server')
      BY <1>11, <3>1, <3>3 DEF JobPast
    <3>5. Advances(import, import')
      BY <1>1, <3>3 DEF Advances
    <3>6. InTurn(import')
      BY <1>1, <2>1, <3>3, <3>5, Confirming
    <3> QED BY <1>1, <1>10, <3>3, <3>4, <3>6, AnswerMoves
  <2> QED BY <2>4, <2>5
<1> QED BY <1>13, <1>14

LEMMA Favouring ==
  ASSUME ImportInv, NEW isStored \in BOOLEAN, NEW arrives \in BOOLEAN, I!FavoriteAnswer(isStored, arrives)
  PROVE  ImportInv'
<1> DEFINE saved == import.saved
           row == I!Edited(server[saved.id], server[saved.id].text)
           put == IF arrives THEN row ELSE saved.row
           created == I!Over(I!One(saved.id, put), import.created)
<1>1. /\ import \in Imports /\ server \in Stocks /\ JobPast(import, server) /\ InTurn(import)
      /\ saved # None /\ import.state # "idle" /\ UNCHANGED <<ui, I!dialog, I!files>>
  BY DEF ImportInv, ImportTypes, IdleRests, I!FavoriteAnswer
<1>2. PICK n \in Nat : DOMAIN server = 1..n
  BY DEF ImportInv, ImportTypes
<1>3. saved \in SavedPrompts /\ saved.id \in Nat /\ saved.row \in StoredPrompts /\ saved.row.stamp \in Nat
  <2>1. saved \in SavedPrompts
    BY <1>1, ImportJobFields
  <2>2. saved.id \in Nat /\ saved.row \in StoredPrompts
    BY <2>1 DEF SavedPrompts
  <2> QED BY <2>1, <2>2 DEF StoredPrompts
<1>4. saved.id \in DOMAIN server /\ CopyOf(saved.row, saved.id, server)
  BY <1>1 DEF JobPast, CopyOf
<1>5. /\ server' = IF isStored THEN [server EXCEPT ![saved.id] = row] ELSE server
      /\ arrives => isStored
      /\ import' = [import EXCEPT !.created = created, !.saved = None]
  BY DEF I!FavoriteAnswer, I!Flagged
<1> HIDE DEF saved
<1>6. /\ row \in StoredPrompts /\ row.stamp \in Nat
      /\ LET new == [server EXCEPT ![saved.id] = row]
         IN  DOMAIN new = DOMAIN server /\ new[saved.id] = row /\ Later(new, server)
  <2>1. server[saved.id].text \in ImportTexts
    BY <1>1, <1>4, StockRows
  <2>2. row \in StoredPrompts
    BY <1>1, <1>4, <2>1, RowsEdited
  <2>3. row.stamp \in Nat
    BY <2>2 DEF StoredPrompts
  <2> QED BY <1>1, <1>4, <2>1, <2>2, <2>3, RowsEdited
<1> HIDE DEF row
<1>7. Later(server', server) /\ DOMAIN server' = DOMAIN server /\ (isStored => server'[saved.id] = row)
  BY <1>1, <1>5, <1>6, LaterStays
<1>8. server' \in Stocks /\ JobPast(import, server')
  BY <1>1, <1>7, JobAges DEF Later
<1>9. put \in StoredPrompts /\ CopyOf(put, saved.id, server')
  <2>1. CASE arrives
    <3>1. CopyOf(row, saved.id, server')
      BY <1>4, <1>5, <1>6, <1>7, <2>1 DEF CopyOf
    <3> QED BY <1>6, <2>1, <3>1
  <2>2. CASE ~arrives
    <3>1. CopyOf(saved.row, saved.id, server')
      BY <1>3, <1>4, <1>7, CopiesAge
    <3> QED BY <1>3, <2>2, <3>1
  <2> QED BY <2>1, <2>2
<1> HIDE DEF put
<1>10. created \in Stocks /\ \A k \in DOMAIN created : CopyOf(created[k], k, server')
  <2>1. import.created \in Stocks
    BY <1>1, ImportJobFields
  <2>2. \A id \in DOMAIN import.created : CopyOf(import.created[id], id, server')
    BY <1>8 DEF JobPast
  <2> QED BY <1>3, <1>8, <1>9, <2>1, <2>2, CreatedPast
<1> HIDE DEF created
<1>11. /\ import' \in Imports /\ import'.create = import.create /\ import'.update = import.update
       /\ import'.answered = import.answered /\ import'.chosen = import.chosen /\ import'.saved = None
       /\ import'.created = created /\ import'.failed = import.failed /\ import'.state = import.state
  BY <1>1, <1>5, <1>10 DEF Imports
<1>12. JobPast(import', server')
  BY <1>8, <1>10, <1>11 DEF JobPast
<1>13. InTurn(import')
  <2>1. Settled(import') = Settled(import)
    BY <1>11 DEF Settled
  <2>2. Unconfirmed(import') = Unconfirmed(import)
    BY <1>11, <2>1 DEF Unconfirmed
  <2> QED BY <1>1, <1>11, <2>1, <2>2 DEF InTurn
<1>14. \E m \in Nat : DOMAIN server' = 1..m
  BY <1>2, <1>7
<1> QED BY <1>1, <1>7, <1>11, <1>12, <1>13, <1>14, AnswerMoves

LEMMA Updating ==
  ASSUME ImportInv, NEW isStored \in BOOLEAN, NEW arrives \in BOOLEAN, I!UpdateAnswer(isStored, arrives)
  PROVE  ImportInv'
<1> DEFINE update == Head(import.update)
           text == I!ReapplyConversions(update.prompt, update.current).text
           row == I!Edited(server[update.id], text)
           answered == IF arrives /\ isStored THEN import.answered \cup {I!Position} ELSE import.answered
           rest == [import EXCEPT !.update = Tail(import.update), !.answered = answered]
<1>1. /\ import \in Imports /\ server \in Stocks /\ JobPast(import, server) /\ InTurn(import)
      /\ import.create = <<>> /\ import.update # <<>> /\ import.saved = None /\ import.state # "idle"
      /\ UNCHANGED <<ui, I!dialog, I!files>>
  BY DEF ImportInv, ImportTypes, IdleRests, I!UpdateAnswer
<1>2. PICK n \in Nat : DOMAIN server = 1..n
  BY DEF ImportInv, ImportTypes
<1>3. /\ update = import.update[1] /\ 1 \in DOMAIN import.update /\ Tail(import.update) \in Seq(Replacements)
      /\ \A k \in DOMAIN Tail(import.update) :
           k + 1 \in DOMAIN import.update /\ Tail(import.update)[k] = import.update[k + 1]
  <2>1. import.update \in Seq(Replacements)
    BY <1>1, ImportJobFields
  <2> QED BY <1>1, <2>1, Tails
<1>4. update.prompt \in ImportPrompts /\ update.id \in Nat /\ update.id \in DOMAIN server
  <2>1. update.prompt \in ImportPrompts /\ update.id \in Nat
    BY <1>1, <1>3, UpdateFields
  <2>2. CopyOf(update.current, update.id, server)
    BY <1>1, <1>3 DEF JobPast
  <2> QED BY <2>1, <2>2 DEF CopyOf
<1>5. text \in ImportTexts
  <2>1. I!ReapplyConversions(update.prompt, update.current) \in ImportPrompts
    BY <1>4, PromptsConverted
  <2> QED BY <2>1, PromptsAre
<1>6. I!Position = Settled(import) + 1 /\ Settled(import) + 1 \in Nat
  <2>1. Settled(import) \in Nat
    BY <1>1 DEF InTurn
  <2>2. I!Position = Settled(import) + 1
    BY Zenon DEF I!Position, Settled
  <2> QED BY <2>1, <2>2
<1>7. /\ server' = IF isStored THEN [server EXCEPT ![update.id] = row] ELSE server
      /\ import' = IF arrives /\ isStored THEN [rest EXCEPT !.created = I!Over(I!One(update.id, row), import.created)]
                   ELSE [rest EXCEPT !.failed = Append(import.failed, update.prompt)]
  <2>1. rest.failed = import.failed /\ rest.created = import.created
    BY <1>1 DEF Imports
  <2> HIDE DEF rest, row
  <2> QED BY <2>1 DEF I!UpdateAnswer, rest, row
<1>8. answered \in SUBSET Nat
  BY <1>1, <1>6, ImportJobFields
<1> HIDE DEF update, text, answered
<1>9. /\ rest \in Imports /\ rest.create = import.create /\ rest.update = Tail(import.update)
      /\ rest.answered = answered /\ rest.chosen = import.chosen /\ rest.saved = import.saved
      /\ rest.created = import.created /\ rest.failed = import.failed /\ rest.state = import.state
  BY <1>1, <1>3, <1>8 DEF Imports
<1> HIDE DEF rest
<1>10. /\ row \in StoredPrompts
       /\ LET new == [server EXCEPT ![update.id] = row]
          IN  DOMAIN new = DOMAIN server /\ new[update.id] = row /\ Later(new, server)
  BY <1>1, <1>4, <1>5, RowsEdited
<1> HIDE DEF row
<1>11. Later(server', server) /\ DOMAIN server' = DOMAIN server /\ (isStored => server'[update.id] = row)
  BY <1>1, <1>7, <1>10, LaterStays
<1>12. server' \in Stocks /\ JobPast(import, server') /\ \E m \in Nat : DOMAIN server' = 1..m
  BY <1>1, <1>2, <1>11, JobAges DEF Later
<1>13. \A k \in DOMAIN Tail(import.update) :
         CopyOf(Tail(import.update)[k].current, Tail(import.update)[k].id, server')
  <2> TAKE k \in DOMAIN Tail(import.update)
  <2>1. k + 1 \in DOMAIN import.update /\ Tail(import.update)[k] = import.update[k + 1]
    BY <1>3
  <2>2. CopyOf(import.update[k + 1].current, import.update[k + 1].id, server')
    BY <1>12, <2>1 DEF JobPast
  <2> QED BY <2>1, <2>2
<1>14. CASE arrives /\ isStored
  <2> DEFINE created == I!Over(I!One(update.id, row), import.created)
  <2>1. created \in Stocks /\ \A k \in DOMAIN created : CopyOf(created[k], k, server')
    <3>1. import.created \in Stocks
      BY <1>1, ImportJobFields
    <3>2. \A id \in DOMAIN import.created : CopyOf(import.created[id], id, server')
      BY <1>12 DEF JobPast
    <3>3. row.stamp \in Nat
      BY <1>10 DEF StoredPrompts
    <3>4. CopyOf(row, update.id, server')
      BY <1>4, <1>11, <1>14, <3>3 DEF CopyOf
    <3> QED BY <1>4, <1>10, <1>12, <3>1, <3>2, <3>4, CreatedPast
  <2>2. import' = [rest EXCEPT !.created = created]
    BY <1>7, <1>14
  <2> HIDE DEF created
  <2>3. /\ import' \in Imports /\ import'.create = import.create /\ import'.update = Tail(import.update)
        /\ import'.answered = answered /\ import'.chosen = import.chosen /\ import'.saved = import.saved
        /\ import'.created = created /\ import'.failed = import.failed /\ import'.state = import.state
    BY <1>9, <2>1, <2>2 DEF Imports
  <2>4. JobPast(import', server')
    BY <1>1, <1>13, <2>1, <2>3 DEF JobPast
  <2>5. Advances(import, import')
    BY <1>1, <2>3 DEF Advances
  <2>6. import'.answered = import.answered \cup {Settled(import) + 1}
    BY <1>6, <1>14, <2>3 DEF answered
  <2>7. InTurn(import')
    BY <1>1, <2>3, <2>5, <2>6, Confirming
  <2> QED BY <1>1, <1>11, <1>12, <2>3, <2>4, <2>7, AnswerMoves
<1>15. CASE ~(arrives /\ isStored)
  <2> DEFINE failed == Append(import.failed, update.prompt)
  <2>1. import.failed \in Seq(ImportPrompts)
    BY <1>1, ImportJobFields
  <2>2. failed \in Seq(ImportPrompts)
    BY <1>4, <2>1, Longer
  <2>3. import' = [rest EXCEPT !.failed = failed]
    BY <1>7, <1>15
  <2> HIDE DEF failed
  <2>4. /\ import' \in Imports /\ import'.create = import.create /\ import'.update = Tail(import.update)
        /\ import'.answered = answered /\ import'.chosen = import.chosen /\ import'.saved = import.saved
        /\ import'.created = import.created /\ import'.failed = failed /\ import'.state = import.state
    BY <1>9, <2>2, <2>3 DEF Imports
  <2>5. JobPast(import', server')
    BY <1>1, <1>12, <1>13, <2>4 DEF JobPast
  <2>6. Advances(import, import') /\ Upcoming(import) = update.prompt /\ answered = import.answered
    BY <1>1, <1>15, <2>4 DEF Advances, Upcoming, update, answered
  <2>7. InTurn(import')
    BY <1>1, <2>4, <2>6, FailingToWrite DEF failed
  <2> QED BY <1>1, <1>11, <1>12, <2>4, <2>5, <2>7, AnswerMoves
<1> QED BY <1>14, <1>15

-----------------------------------------------------------------------------
(* The import: its start and its end *)

LEMMA IdleJob == I!Idle \in Imports /\ InTurn(I!Idle) /\ IdleRests(I!Idle) /\ \A rows : JobPast(I!Idle, rows)
<1>1. /\ I!Idle.state = "idle" /\ I!Idle.create = <<>> /\ I!Idle.update = <<>> /\ I!Idle.saved = None
      /\ I!Idle.created = <<>> /\ I!Idle.failed = <<>> /\ I!Idle.answered = {} /\ I!Idle.chosen = <<>>
  BY DEF I!Idle
<1>2. I!Idle \in Imports
  BY NoRows DEF I!Idle, Imports
<1>3. InTurn(I!Idle)
  <2>1. Len(I!Idle.chosen) = Len(I!Idle.create) + Len(I!Idle.update)
    BY <1>1
  <2>2. DOMAIN I!Idle.create = {} /\ DOMAIN I!Idle.update = {}
    BY <1>1
  <2> QED BY <1>1, <1>2, <2>1, <2>2, Unturned
<1>4. IdleRests(I!Idle)
  BY <1>1 DEF IdleRests
<1>5. \A rows : JobPast(I!Idle, rows)
  <2>1. DOMAIN I!Idle.created = {} /\ DOMAIN I!Idle.update = {}
    BY <1>1, NoRows
  <2> QED BY <1>1, <2>1 DEF JobPast
<1> QED BY <1>2, <1>3, <1>4, <1>5

LEMMA ImportStarts == I!Init => ImportInv
<1>1. SUFFICES ASSUME I!Init PROVE ImportInv
  OBVIOUS
<1>2. /\ ui = I!Closed /\ imported = <<>> /\ sessionPrompts = <<>> /\ existing = Library /\ server = Library
      /\ walks = {} /\ reads = {} /\ overtaken = FALSE /\ import = I!Idle
  BY <1>1 DEF I!Init
<1>3. Library \in Stocks /\ \E n \in Nat : DOMAIN Library = 1..n
  <2>1. Library \in Seq(StoredPrompts)
    BY ImportAssumption
  <2>2. /\ DOMAIN Library = 1..Len(Library) /\ Len(Library) \in Nat
        /\ Library \in [DOMAIN Library -> StoredPrompts] /\ DOMAIN Library \subseteq Nat
    BY <2>1
  <2> QED BY <2>2, StocksAre
<1>4. ImportTypes
  BY <1>2, <1>3, NoRows, IdleJob, ClosedDialog DEF ImportTypes
<1>5. RowsFit
  BY <1>2, ClosedDialog DEF RowsFit
<1>6. CopiesPast
  <2>1. ASSUME NEW id \in DOMAIN Library PROVE CopyOf(Library[id], id, Library)
    <3>1. Library[id].stamp \in Nat
      BY <1>3, StockRows
    <3> QED BY <3>1 DEF CopyOf
  <2> QED BY <1>2, <2>1, NoRows DEF CopiesPast
<1>7. Handed
  BY <1>2, NoRows DEF Handed
<1>8. DialogWaits
  <2>1. import.state = "idle"
    BY <1>2 DEF I!Idle
  <2> QED BY <1>2, <2>1, NoRows DEF DialogWaits
<1> QED BY <1>2, <1>4, <1>5, <1>6, <1>7, <1>8, IdleJob DEF ImportInv

LEMMA Ending == ImportInv /\ I!ImportEnds => ImportInv'
<1>1. SUFFICES ASSUME ImportInv, I!ImportEnds PROVE ImportInv'
  OBVIOUS
<1>2. /\ ui' = I!Imported(import.failed) /\ import' = I!Idle
      /\ imported' = I!Over(import.created, imported)
      /\ sessionPrompts' = I!Over(import.created, sessionPrompts)
      /\ UNCHANGED <<existing, server, walks, reads, overtaken>> /\ import.state # "idle"
  BY <1>1 DEF I!ImportEnds, I!files, I!Done
<1>3. /\ ui \in Dialogs /\ import \in Imports /\ imported \in Stocks /\ sessionPrompts \in Stocks
      /\ Handed /\ CopiesPast /\ JobPast(import, server) /\ DialogWaits
  BY <1>1 DEF ImportInv, ImportTypes
<1>4. import.created \in Stocks /\ import.failed \in Seq(ImportPrompts) /\ Len(import.chosen) \in Nat
  <2>1. import.created \in Stocks /\ import.failed \in Seq(ImportPrompts) /\ import.chosen \in Seq(ImportPrompts)
    BY <1>3, ImportJobFields
  <2> QED BY <2>1
<1>5. ui' \in Dialogs /\ RowsFit' /\ ui'.open = ui.open
  <2> DEFINE preview == IF import.failed = <<>> THEN None ELSE import.failed
             done == IF import.failed = <<>> THEN Len(import.chosen) ELSE 0
  <2>1. ui' = [ui EXCEPT !.preview = preview, !.done = done, !.toggled = {}, !.updating = {}, !.before = None,
                         !.source = None, !.file = FALSE, !.busy = FALSE]
    BY <1>2 DEF I!Imported
  <2>2. preview \in Seq(ImportPrompts) \cup {None} /\ done \in Nat
    BY <1>4
  <2> HIDE DEF preview, done
  <2>3. ui' \in Dialogs /\ ui'.toggled = {} /\ ui'.updating = {} /\ ui'.before = None /\ ui'.open = ui.open
    BY <1>3, <2>1, <2>2 DEF Dialogs
  <2> QED BY <2>3 DEF RowsFit
<1>6. imported' \in Stocks /\ sessionPrompts' \in Stocks
  BY <1>2, <1>3, <1>4, OverlayIs
<1>7. ImportTypes'
  BY <1>1, <1>2, <1>5, <1>6, IdleJob DEF ImportTypes, ImportInv
<1>8. /\ DOMAIN imported' = DOMAIN import.created \cup DOMAIN imported
      /\ \A id \in DOMAIN import.created : imported'[id] = import.created[id]
      /\ \A id \in DOMAIN imported : id \notin DOMAIN import.created => imported'[id] = imported[id]
  <2> DEFINE new == I!Over(import.created, imported)
  <2>1. /\ DOMAIN new = DOMAIN import.created \cup DOMAIN imported
        /\ \A id \in DOMAIN import.created : new[id] = import.created[id]
        /\ \A id \in DOMAIN imported : id \notin DOMAIN import.created => new[id] = imported[id]
    BY OverlayIs, Zenon
  <2>2. imported' = new
    BY <1>2
  <2> HIDE DEF new
  <2> QED BY <2>1, <2>2
<1>9. /\ DOMAIN sessionPrompts' = DOMAIN import.created \cup DOMAIN sessionPrompts
      /\ \A id \in DOMAIN import.created : sessionPrompts'[id] = import.created[id]
      /\ \A id \in DOMAIN sessionPrompts : id \notin DOMAIN import.created => sessionPrompts'[id] = sessionPrompts[id]
  <2> DEFINE new == I!Over(import.created, sessionPrompts)
  <2>1. /\ DOMAIN new = DOMAIN import.created \cup DOMAIN sessionPrompts
        /\ \A id \in DOMAIN import.created : new[id] = import.created[id]
        /\ \A id \in DOMAIN sessionPrompts : id \notin DOMAIN import.created => new[id] = sessionPrompts[id]
    BY OverlayIs, Zenon
  <2>2. sessionPrompts' = new
    BY <1>2
  <2> HIDE DEF new
  <2> QED BY <2>1, <2>2
<1>10. CopiesPast'
  <2>1. ASSUME NEW id \in DOMAIN sessionPrompts' PROVE CopyOf(sessionPrompts'[id], id, server)
    <3>1. CASE id \in DOMAIN import.created
      BY <1>3, <1>9, <3>1 DEF JobPast
    <3>2. CASE id \notin DOMAIN import.created
      <4>1. id \in DOMAIN sessionPrompts /\ sessionPrompts'[id] = sessionPrompts[id]
        BY <1>9, <2>1, <3>2
      <4> QED BY <1>3, <4>1 DEF CopiesPast
    <3> QED BY <3>1, <3>2
  <2> QED BY <1>2, <1>3, <2>1 DEF CopiesPast
<1>11. Handed'
  <2>1. DOMAIN imported' \subseteq DOMAIN sessionPrompts'
    BY <1>3, <1>8, <1>9 DEF Handed
  <2>2. ASSUME NEW id \in DOMAIN sessionPrompts'
        PROVE  IF id \in DOMAIN imported' THEN imported'[id] = sessionPrompts'[id]
               ELSE id \in DOMAIN existing' /\ existing'[id] = sessionPrompts'[id]
    <3>1. CASE id \in DOMAIN import.created
      BY <1>8, <1>9, <3>1
    <3>2. CASE id \notin DOMAIN import.created
      <4>1. id \in DOMAIN sessionPrompts /\ sessionPrompts'[id] = sessionPrompts[id]
        BY <1>9, <2>2, <3>2
      <4>2. id \in DOMAIN imported' <=> id \in DOMAIN imported
        BY <1>8, <3>2
      <4>3. id \in DOMAIN imported => imported'[id] = imported[id]
        BY <1>8, <3>2
      <4> QED BY <1>2, <1>3, <4>1, <4>2, <4>3 DEF Handed
    <3> QED BY <3>1, <3>2
  <2> QED BY <2>1, <2>2 DEF Handed
<1>12. DialogWaits'
  <2>1. SUFFICES ASSUME overtaken = FALSE PROVE ui'.open = TRUE /\ import'.state = "idle" /\ reads = {}
    BY <1>2 DEF DialogWaits
  <2>2. ui.open = TRUE /\ reads = {}
    BY <1>2, <1>3, <2>1 DEF DialogWaits
  <2>3. import'.state = "idle"
    BY <1>2 DEF I!Idle
  <2> QED BY <1>5, <2>2, <2>3
<1> QED BY <1>2, <1>5, <1>7, <1>10, <1>11, <1>12, IdleJob DEF ImportInv

LEMMA PromptsListed ==
  ASSUME ImportInv, I!Reviewing, NEW rows \in Seq(I!Rows)
  PROVE  /\ I!PromptsAt(rows) \in Seq(ImportPrompts) /\ Len(I!PromptsAt(rows)) = Len(rows)
         /\ \A k \in 1..Len(rows) : I!PromptsAt(rows)[k] = ui.preview[rows[k]]
<1> DEFINE one(k) == ui.preview[rows[k]]
           list == [k \in DOMAIN rows |-> one(k)]
<1>1. DOMAIN rows = 1..Len(rows) /\ Len(rows) \in Nat /\ \A k \in 1..Len(rows) : rows[k] \in I!Rows
  OBVIOUS
<1>2. \A k \in 1..Len(rows) : one(k) \in ImportPrompts
  BY <1>1, ReviewedRows
<1>3. I!PromptsAt(rows) = list
  BY DEF I!PromptsAt
<1>4. DOMAIN list = 1..Len(rows) /\ \A k \in 1..Len(rows) : list[k] = one(k)
  BY <1>1
<1>5. list = [k \in 1..Len(rows) |-> list[k]]
  <2> HIDE DEF one
  <2> QED BY <1>1
<1> HIDE DEF list, one
<1>6. \A k \in 1..Len(rows) : list[k] \in ImportPrompts
  BY <1>2, <1>4
<1>7. list \in Seq(ImportPrompts) /\ Len(list) = Len(rows)
  BY <1>1, <1>5, <1>6, ListsMapped
<1> QED BY <1>3, <1>4, <1>7 DEF one

LEMMA JoinedLists ==
  ASSUME NEW X, NEW a \in Seq(X), NEW b \in Seq(X)
  PROVE  /\ a \o b \in Seq(X) /\ Len(a \o b) = Len(a) + Len(b) /\ Len(a) \in Nat /\ Len(b) \in Nat
         /\ \A k \in 1..Len(a) : k \in 1..Len(a \o b) /\ (a \o b)[k] = a[k]
         /\ \A k \in 1..Len(b) : Len(a) + k \in 1..Len(a \o b) /\ (a \o b)[Len(a) + k] = b[k]
  OBVIOUS

(* The library prompt to update is found by its title, when exactly one has it. *)
LEMMA TargetsStored ==
  ASSUME NEW p, NEW q, q.name = p.name, I!UpdateTarget(p) # None
  PROVE  I!UpdateTarget(q) \in DOMAIN I!ByTitle
<1>1. I!Matches(q) = I!Matches(p)
  BY DEF I!Matches
<1>2. I!Cardinality(I!Matches(q)) = 1
  BY <1>1 DEF I!UpdateTarget
<1>3. I!Matches(q) # {}
  <2>1. Cardinality(I!Matches(q)) = 1
    BY <1>2, ImportCounts
  <2>2. Cardinality({}) = 0
    BY FS_EmptySet
  <2> QED BY <2>1, <2>2
<1>4. I!UpdateTarget(q) \in I!Matches(q)
  <2>1. I!UpdateTarget(q) = CHOOSE id \in I!Matches(q) : TRUE
    BY <1>2 DEF I!UpdateTarget
  <2> QED BY <1>3, <2>1
<1> QED BY <1>4 DEF I!Matches

LEMMA PagePast ==
  ASSUME ImportInv, NEW id \in DOMAIN I!ByTitle
  PROVE  id \in Nat /\ I!ByTitle[id] \in StoredPrompts /\ CopyOf(I!ByTitle[id], id, server)
<1> DEFINE all == I!Over(sessionPrompts, existing)
<1>1. sessionPrompts \in Stocks /\ existing \in Stocks /\ CopiesPast
  BY DEF ImportInv, ImportTypes
<1>2. /\ DOMAIN all = DOMAIN sessionPrompts \cup DOMAIN existing
      /\ \A i \in DOMAIN sessionPrompts : all[i] = sessionPrompts[i]
      /\ \A i \in DOMAIN existing : i \notin DOMAIN sessionPrompts => all[i] = existing[i]
      /\ all \in Stocks
  BY <1>1, OverlayIs
<1>3. all = I!ByTitle
  BY DEF I!ByTitle
<1> HIDE DEF all
<1>4. id \in Nat /\ all[id] \in StoredPrompts
  BY <1>2, <1>3, StockRows
<1>5. CASE id \in DOMAIN sessionPrompts
  BY <1>1, <1>2, <1>3, <1>4, <1>5 DEF CopiesPast
<1>6. CASE id \notin DOMAIN sessionPrompts
  <2>1. id \in DOMAIN existing /\ all[id] = existing[id]
    BY <1>2, <1>3, <1>6
  <2> QED BY <1>1, <1>3, <1>4, <2>1 DEF CopiesPast
<1> QED BY <1>5, <1>6

LEMMA Starting == ImportInv /\ I!StartImport => ImportInv'
<1>1. SUFFICES ASSUME ImportInv, I!StartImport PROVE ImportInv'
  OBVIOUS
<1> DEFINE a == I!NewRows
           b == I!UpdatedRows
           c == a \o b
           news == I!ValidateImportPrompts(I!PromptsAt(a))
           ups == I!ValidateImportPrompts(I!PromptsAt(b))
           all == I!ValidateImportPrompts(I!PromptsAt(c))
           target(k) == I!UpdateTarget(ups[k])
           one(k) == [prompt |-> ups[k], id |-> target(k), current |-> I!ByTitle[target(k)]]
           update == [k \in DOMAIN ups |-> one(k)]
<1>2. /\ I!Reviewing /\ ui' = [ui EXCEPT !.busy = TRUE] /\ UNCHANGED <<I!dialog, I!files, server>>
      /\ import' = [I!Idle EXCEPT !.state = "create", !.chosen = all, !.create = news, !.update = update]
  BY <1>1 DEF I!StartImport
<1>3. /\ ui \in Dialogs /\ ui.open = TRUE /\ ui.busy = FALSE /\ I!Rows = 1..Len(ui.preview) /\ Len(ui.preview) \in Nat
      /\ \A i \in I!Rows : ui.preview[i] \in ImportPrompts
  BY <1>1, <1>2, ReviewedRows
<1>4. a \in Seq(I!Rows) /\ b \in Seq(I!Rows) /\ \A k \in 1..Len(b) : I!Updates(ui.preview[b[k]], b[k])
  <2> DEFINE new == {i \in I!Rows : I!Included(ui.preview[i], i)}
             upd == {i \in I!Rows : I!Updates(ui.preview[i], i)}
  <2>1. new \in SUBSET (1..Len(ui.preview)) /\ upd \in SUBSET (1..Len(ui.preview))
    BY <1>3
  <2>2. \A i \in upd : I!Updates(ui.preview[i], i)
    OBVIOUS
  <2>3. new \subseteq I!Rows /\ upd \subseteq I!Rows
    OBVIOUS
  <2>4. a = I!InOrder(new) /\ b = I!InOrder(upd)
    BY DEF I!NewRows, I!UpdatedRows
  <2> HIDE DEF new, upd, a, b
  <2>5. a \in Seq(new) /\ b \in Seq(upd)
    BY <1>3, <2>1, <2>4, RowsListed
  <2>6. a \in Seq(I!Rows) /\ b \in Seq(I!Rows)
    BY <2>3, <2>5
  <2>7. \A k \in 1..Len(b) : b[k] \in upd
    BY <2>5
  <2> QED BY <2>2, <2>6, <2>7
<1> HIDE DEF a, b
<1> DEFINE n == Len(a)
           m == Len(b)
<1>5. /\ c \in Seq(I!Rows) /\ Len(c) = n + m /\ n \in Nat /\ m \in Nat
      /\ \A k \in 1..n : k \in 1..Len(c) /\ c[k] = a[k]
      /\ \A k \in 1..m : n + k \in 1..Len(c) /\ c[n + k] = b[k]
  BY <1>4, JoinedLists
<1> HIDE DEF c
<1>6. \A rows \in Seq(I!Rows) :
        LET list == I!ValidateImportPrompts(I!PromptsAt(rows))
        IN  /\ list \in Seq(ImportPrompts) /\ Len(list) = Len(rows) /\ DOMAIN list = 1..Len(rows)
            /\ \A k \in 1..Len(rows) : list[k] = [ui.preview[rows[k]] EXCEPT !.flag = FALSE]
  <2> TAKE rows \in Seq(I!Rows)
  <2> DEFINE prompts == I!PromptsAt(rows)
             list == I!ValidateImportPrompts(prompts)
  <2>1. /\ prompts \in Seq(ImportPrompts) /\ Len(prompts) = Len(rows)
        /\ \A k \in 1..Len(rows) : prompts[k] = ui.preview[rows[k]]
    BY <1>1, <1>2, PromptsListed
  <2> HIDE DEF prompts
  <2>2. /\ list \in Seq(ImportPrompts) /\ Len(list) = Len(prompts) /\ DOMAIN list = 1..Len(prompts)
        /\ \A k \in 1..Len(prompts) : list[k] = [prompts[k] EXCEPT !.flag = FALSE]
    BY <2>1, ListsValidated
  <2> HIDE DEF list
  <2>3. /\ list \in Seq(ImportPrompts) /\ Len(list) = Len(rows) /\ DOMAIN list = 1..Len(rows)
        /\ \A k \in 1..Len(rows) : list[k] = [ui.preview[rows[k]] EXCEPT !.flag = FALSE]
    BY <2>1, <2>2
  <2> QED BY <2>3 DEF list, prompts
<1>7. /\ news \in Seq(ImportPrompts) /\ Len(news) = n /\ DOMAIN news = 1..n
      /\ \A k \in 1..n : news[k] = [ui.preview[a[k]] EXCEPT !.flag = FALSE]
  BY <1>4, <1>6
<1>8. /\ ups \in Seq(ImportPrompts) /\ Len(ups) = m /\ DOMAIN ups = 1..m
      /\ \A k \in 1..m : ups[k] = [ui.preview[b[k]] EXCEPT !.flag = FALSE]
  BY <1>4, <1>6
<1>9. /\ all \in Seq(ImportPrompts) /\ Len(all) = n + m
      /\ \A k \in 1..Len(c) : all[k] = [ui.preview[c[k]] EXCEPT !.flag = FALSE]
  BY <1>5, <1>6
<1> HIDE DEF news, ups, all, n, m
<1>10. /\ \A k \in 1..n : all[k] = news[k]
       /\ \A k \in 1..m : all[n + k] = ups[k]
  <2> DEFINE checked(i) == [ui.preview[i] EXCEPT !.flag = FALSE]
  <2>1. /\ \A k \in 1..n : news[k] = checked(a[k])
        /\ \A k \in 1..m : ups[k] = checked(b[k])
        /\ \A k \in 1..Len(c) : all[k] = checked(c[k])
    BY <1>7, <1>8, <1>9
  <2> HIDE DEF checked
  <2>2. ASSUME NEW k \in 1..n PROVE all[k] = news[k]
    <3>1. k \in 1..Len(c) /\ c[k] = a[k]
      BY <1>5
    <3>2. all[k] = checked(c[k]) /\ news[k] = checked(a[k])
      BY <2>1, <3>1
    <3> QED BY <3>1, <3>2
  <2>3. ASSUME NEW k \in 1..m PROVE all[n + k] = ups[k]
    <3>1. n + k \in 1..Len(c) /\ c[n + k] = b[k]
      BY <1>5
    <3>2. all[n + k] = checked(c[n + k]) /\ ups[k] = checked(b[k])
      BY <2>1, <3>1
    <3> QED BY <3>1, <3>2
  <2> QED BY <2>2, <2>3
<1>11. \A k \in 1..m : /\ ups[k] \in ImportPrompts /\ target(k) \in Nat /\ I!ByTitle[target(k)] \in StoredPrompts
                       /\ CopyOf(I!ByTitle[target(k)], target(k), server)
  <2> TAKE k \in 1..m
  <2>1. b[k] \in I!Rows /\ I!Updates(ui.preview[b[k]], b[k])
    BY <1>4 DEF m
  <2>2. I!UpdateTarget(ui.preview[b[k]]) # None
    BY <2>1 DEF I!Updates, I!Updatable
  <2>3. ups[k].name = ui.preview[b[k]].name
    BY <1>3, <1>8, <2>1, PromptsChanged
  <2>4. target(k) \in DOMAIN I!ByTitle
    BY <2>2, <2>3, TargetsStored
  <2> HIDE DEF target
  <2>5. ups[k] \in ImportPrompts
    BY <1>8
  <2> QED BY <1>1, <2>4, <2>5, PagePast
<1> HIDE DEF target
<1>12. \A k \in 1..m : one(k) \in Replacements
  BY <1>11 DEF Replacements
<1>13. \A k \in 1..m : one(k).prompt = ups[k] /\ one(k).id = target(k) /\ one(k).current = I!ByTitle[target(k)]
  OBVIOUS
<1>14. update \in Seq(Replacements) /\ Len(update) = m /\ DOMAIN update = 1..m /\ \A k \in 1..m : update[k] = one(k)
  <2> HIDE DEF one
  <2>1. update \in [1..m -> Replacements]
    BY <1>8, <1>12
  <2>2. update \in Seq(Replacements) /\ DOMAIN update = 1..m
    BY <1>5, <2>1 DEF m
  <2>3. Len(update) = m
    BY <1>5, <2>1
  <2> QED BY <1>8, <2>2, <2>3
<1> HIDE DEF one, update
<1>15. /\ import' \in Imports /\ import'.state = "create" /\ import'.chosen = all /\ import'.create = news
       /\ import'.update = update /\ import'.saved = None /\ import'.created = <<>> /\ import'.failed = <<>>
       /\ import'.answered = {}
  <2>1. /\ I!Idle \in Imports /\ I!Idle.saved = None /\ I!Idle.created = <<>> /\ I!Idle.failed = <<>>
        /\ I!Idle.answered = {}
    BY IdleJob DEF I!Idle
  <2> QED BY <1>2, <1>7, <1>9, <1>14, <2>1 DEF Imports
<1>16. InTurn(import')
  <2>1. Len(import'.chosen) = Len(import'.create) + Len(import'.update)
    BY <1>7, <1>9, <1>14, <1>15
  <2>2. \A k \in DOMAIN import'.create : import'.create[k] = import'.chosen[k]
    BY <1>7, <1>10, <1>15
  <2>3. \A k \in DOMAIN import'.update : import'.update[k].prompt = import'.chosen[Len(import'.create) + k]
    <3>1. DOMAIN import'.update = 1..m /\ Len(import'.create) = n
      BY <1>7, <1>14, <1>15
    <3>2. \A k \in 1..m : update[k].prompt = all[n + k]
      BY <1>10, <1>13, <1>14
    <3> QED BY <1>15, <3>1, <3>2
  <2> QED BY <1>15, <2>1, <2>2, <2>3, Unturned
<1>17. JobPast(import', server')
  <2>1. server' = server /\ DOMAIN import'.created = {}
    BY <1>2, <1>15, NoRows
  <2>2. \A k \in DOMAIN import'.update : CopyOf(import'.update[k].current, import'.update[k].id, server)
    BY <1>11, <1>13, <1>14, <1>15
  <2> QED BY <1>15, <2>1, <2>2 DEF JobPast
<1>18. /\ ui' \in Dialogs /\ ui'.open = TRUE /\ ui'.busy = TRUE /\ ui'.preview = ui.preview
       /\ ui'.toggled = ui.toggled /\ ui'.updating = ui.updating /\ ui'.before = ui.before
  BY <1>2, <1>3 DEF Dialogs
<1>19. ImportTypes'
  BY <1>1, <1>2, <1>15, <1>18 DEF ImportInv, ImportTypes, I!dialog, I!files
<1>20. CopiesPast' /\ Handed'
  BY <1>1, <1>2 DEF ImportInv, CopiesPast, CopyOf, Handed, I!dialog
<1>21. RowsFit'
  BY <1>1, <1>18 DEF ImportInv, RowsFit
<1>22. IdleRests(import')
  BY <1>15 DEF IdleRests
<1>23. DialogWaits'
  <2>1. SUFFICES ASSUME overtaken = FALSE PROVE reads = {}
    BY <1>2, <1>18 DEF DialogWaits, I!files
  <2> QED BY <1>1, <1>3, <2>1 DEF ImportInv, DialogWaits
<1> QED BY <1>16, <1>17, <1>19, <1>20, <1>21, <1>22, <1>23 DEF ImportInv

LEMMA ImportStep == ImportInv /\ I!Next => ImportInv'
<1>1. SUFFICES ASSUME ImportInv, I!Next PROVE ImportInv'
  OBVIOUS
<1>2. CASE \/ I!Open \/ I!Close \/ I!ClearFiles \/ I!ShowPreview \/ I!Review \/ I!ReuseWithAI \/ I!ImportMore
           \/ I!OpenImported \/ I!StartImport
  BY <1>1, <1>2, Opening, Closing, ClearingFiles, ShowingPreview, ReviewingRows, ImportingMore, Starting
<1>3. ASSUME NEW source \in Sources, I!Paste(source) \/ I!Drop(source) PROVE ImportInv'
  BY <1>1, <1>3, Pasting, Dropping
<1>4. ASSUME NEW source \in Sources \cup {None}, I!ChooseFiles(source) PROVE ImportInv'
  BY <1>1, <1>4, ChoosingFiles
<1>5. CASE I!FileSteps
  BY <1>1, <1>5, DropsListed, ReadingFiles DEF I!FileSteps
<1>6. CASE I!Answers
  <2>1. ASSUME NEW isStored \in BOOLEAN, NEW arrives \in BOOLEAN,
               \/ I!CreateAnswer(isStored, arrives) \/ I!FavoriteAnswer(isStored, arrives)
               \/ I!UpdateAnswer(isStored, arrives)
        PROVE  ImportInv'
    BY <1>1, <2>1, Creating, Favouring, Updating
  <2> QED BY <1>1, <1>6, <2>1, Ending DEF I!Answers
<1>7. ASSUME NEW id \in DOMAIN Library, NEW body \in Bodies, I!ForeignEdit(id, body) PROVE ImportInv'
  BY <1>1, <1>7, EditingElsewhere
<1> QED BY <1>1, <1>2, <1>3, <1>4, <1>5, <1>6, <1>7 DEF I!Next

LEMMA DialogHolds == ImportInv => I!TypeOK /\ I!HandedOver
<1>1. SUFFICES ASSUME ImportInv PROVE I!TypeOK /\ I!HandedOver
  OBVIOUS
<1>2. ui \in Dialogs /\ import \in Imports /\ overtaken \in BOOLEAN
  BY <1>1 DEF ImportInv, ImportTypes
<1>3. ASSUME NEW rows \in Stocks PROVE I!IsRows(rows)
  <2>1. ASSUME NEW id \in DOMAIN rows PROVE I!IsText(rows[id].text) /\ rows[id].stamp \in Nat
    BY StockRows, TextsAre
  <2> QED BY <2>1 DEF I!IsRows
<1>4. ASSUME ui.preview # None
      PROVE  /\ \A i \in I!Rows : I!IsText(ui.preview[i].text)
             /\ ui.toggled \cup ui.updating \subseteq I!Rows
             /\ ui.before # None => DOMAIN ui.before = I!Rows
  <2>1. I!Rows = DOMAIN ui.preview
    BY <1>4 DEF I!Rows
  <2>2. ui.preview \in Seq(ImportPrompts)
    BY <1>2, <1>4, DialogFields
  <2>3. ASSUME NEW i \in I!Rows PROVE I!IsText(ui.preview[i].text)
    <3>1. ui.preview[i] \in ImportPrompts
      BY <2>1, <2>2
    <3> QED BY <3>1, PromptsAre, TextsAre
  <2> QED BY <1>1, <1>4, <2>1, <2>3 DEF ImportInv, RowsFit
<1>5. Len(import.failed) <= Len(import.chosen)
  <2>1. /\ import.create \in Seq(ImportPrompts) /\ import.update \in Seq(Replacements)
        /\ import.chosen \in Seq(ImportPrompts)
    BY <1>2, ImportJobFields
  <2>2. InTurn(import)
    BY <1>1 DEF ImportInv
  <2> DEFINE n == Settled(import)
  <2>3. n \in Nat /\ Len(import.failed) = Cardinality(Unconfirmed(import))
    BY <2>2 DEF InTurn
  <2>4. n <= Len(import.chosen)
    <3>1. Len(import.create) \in Nat /\ Len(import.update) \in Nat /\ Len(import.chosen) \in Nat
      BY <2>1
    <3>2. \A a, b, c \in Nat : c - a - b <= c
      OBVIOUS
    <3>3. Len(import.chosen) - Len(import.create) - Len(import.update) <= Len(import.chosen)
      BY <3>1, <3>2, Zenon
    <3> QED BY <3>3, Zenon DEF Settled
  <2>5. Unconfirmed(import) \in SUBSET (1..n)
    BY DEF Unconfirmed
  <2> HIDE DEF n
  <2>6. IsFiniteSet(1..n) /\ Cardinality(1..n) = n
    BY <2>3, FS_Interval
  <2>7. Cardinality(Unconfirmed(import)) <= n /\ Cardinality(Unconfirmed(import)) \in Nat
    <3>1. IsFiniteSet(Unconfirmed(import)) /\ Cardinality(Unconfirmed(import)) <= Cardinality(1..n)
      BY <2>5, <2>6, FS_Subset
    <3> QED BY <2>6, <3>1, FS_CardinalityType
  <2>8. Len(import.chosen) \in Nat
    BY <2>1
  <2> QED BY <2>3, <2>4, <2>7, <2>8
<1>6. I!TypeOK
  <2>1. server \in Stocks /\ existing \in Stocks /\ sessionPrompts \in Stocks /\ walks \cup reads \subseteq Sources
    BY <1>1 DEF ImportInv, ImportTypes
  <2>2. DOMAIN imported \subseteq DOMAIN sessionPrompts
    BY <1>1 DEF ImportInv, Handed
  <2> QED BY <1>3, <1>4, <1>5, <2>1, <2>2 DEF I!TypeOK
<1>7. I!HandedOver
  <2>1. SUFFICES ASSUME ~ui.open, ~overtaken, NEW id \in DOMAIN sessionPrompts
                 PROVE  id \in DOMAIN existing /\ existing[id] = sessionPrompts[id]
    BY DEF I!HandedOver
  <2>2. ui.open = FALSE /\ overtaken = FALSE
    BY <1>2, <2>1, DialogFields
  <2>3. DOMAIN imported = {}
    BY <1>1, <2>2 DEF ImportInv, DialogWaits
  <2> QED BY <1>1, <2>1, <2>3 DEF ImportInv, Handed
<1> QED BY <1>6, <1>7

LEMMA KeepingWhatFailed == ImportInv => I!KeepsWhatFailed
<1>1. SUFFICES ASSUME ImportInv, I!ImportEnds
               PROVE  LET failed == {import.chosen[k] : k \in DOMAIN import.chosen \ import.answered}
                      IN  IF failed = {} THEN ui'.preview = None
                          ELSE /\ {ui'.preview[i] : i \in DOMAIN ui'.preview} = failed
                               /\ Len(ui'.preview) = I!Cardinality(DOMAIN import.chosen \ import.answered)
  BY DEF I!KeepsWhatFailed
<1> DEFINE failed == {import.chosen[k] : k \in DOMAIN import.chosen \ import.answered}
<1>2. ui \in Dialogs /\ import \in Imports /\ InTurn(import)
  BY <1>1 DEF ImportInv, ImportTypes
<1>3. import.create = <<>> /\ import.update = <<>> /\ ui' = I!Imported(import.failed)
  BY <1>1 DEF I!ImportEnds, I!Done
<1>4. import.chosen \in Seq(ImportPrompts) /\ import.failed \in Seq(ImportPrompts)
  BY <1>2, ImportJobFields
<1>5. Settled(import) = Len(import.chosen)
  <2>1. Len(import.create) = 0 /\ Len(import.update) = 0 /\ Len(import.chosen) \in Nat
    BY <1>3, <1>4
  <2> QED BY <2>1 DEF Settled
<1>6. Unconfirmed(import) = DOMAIN import.chosen \ import.answered
  BY <1>4, <1>5 DEF Unconfirmed
<1>7. /\ RowsOf(import.failed) = failed
      /\ Len(import.failed) = Cardinality(DOMAIN import.chosen \ import.answered)
  BY <1>2, <1>6 DEF InTurn
<1>8. ui'.preview = IF import.failed = <<>> THEN None ELSE import.failed
  BY <1>2, <1>3 DEF I!Imported, Dialogs
<1>9. import.failed = <<>> <=> failed = {}
  <2>1. RowsOf(<<>>) = {}
    BY DEF RowsOf
  <2>2. ASSUME import.failed # <<>> PROVE RowsOf(import.failed) # {}
    <3>1. 1 \in DOMAIN import.failed
      BY <1>4, <2>2
    <3> QED BY <3>1 DEF RowsOf
  <2> QED BY <1>7, <2>1, <2>2
<1>10. I!Cardinality(DOMAIN import.chosen \ import.answered) = Cardinality(DOMAIN import.chosen \ import.answered)
  BY ImportCounts
<1> HIDE DEF failed
<1>11. CASE failed = {}
  <2>1. ui'.preview = None
    BY <1>8, <1>9, <1>11
  <2> QED BY <1>11, <2>1 DEF failed
<1>12. CASE failed # {}
  <2>1. ui'.preview = import.failed
    BY <1>8, <1>9, <1>12
  <2>2. {ui'.preview[i] : i \in DOMAIN ui'.preview} = failed
    BY <1>7, <2>1 DEF RowsOf
  <2>3. Len(ui'.preview) = I!Cardinality(DOMAIN import.chosen \ import.answered)
    BY <1>7, <1>10, <2>1
  <2> QED BY <1>12, <2>2, <2>3 DEF failed
<1> QED BY <1>11, <1>12

LEMMA ReplacingWhatItSaw == ImportInv /\ I!Next => I!ReplacesWhatItSaw
<1>1. SUFFICES ASSUME ImportInv, I!Next, NEW id \in DOMAIN server, import.update # <<>>,
                      import'.update # import.update, id = Head(import.update).id, server'[id] # server[id],
                      Head(import.update).current.stamp # 0
               PROVE  server[id].text = Head(import.update).current.text
  BY DEF I!ReplacesWhatItSaw
<1>2. import \in Imports /\ JobPast(import, server)
  BY <1>1 DEF ImportInv, ImportTypes
<1>3. PICK isStored \in BOOLEAN, arrives \in BOOLEAN :
        \/ I!CreateAnswer(isStored, arrives) \/ I!FavoriteAnswer(isStored, arrives) \/ I!UpdateAnswer(isStored, arrives)
  <2>1. import' # import /\ server' # server
    BY <1>1
  <2>2. ~(I!ImportEnds \/ I!StartImport \/ I!Review)
    BY <2>1 DEF I!ImportEnds, I!StartImport, I!Review
  <2>3. ~(I!Open \/ I!Close \/ I!ClearFiles \/ I!ShowPreview \/ I!ReuseWithAI \/ I!ImportMore \/ I!OpenImported)
    BY <2>1 DEF I!Open, I!Close, I!ClearFiles, I!ShowPreview, I!ReuseWithAI, I!ImportMore, I!OpenImported
  <2>4. ~(I!FileSteps \/ (\E source \in Sources : I!Paste(source) \/ I!Drop(source))
          \/ \E source \in Sources \cup {None} : I!ChooseFiles(source))
    BY <2>1 DEF I!FileSteps, I!DropListed, I!FilesRead, I!Paste, I!Drop, I!ChooseFiles
  <2>5. ~(\E i \in DOMAIN Library, body \in Bodies : I!ForeignEdit(i, body))
    BY <2>1 DEF I!ForeignEdit
  <2> QED BY <1>1, <2>2, <2>3, <2>4, <2>5 DEF I!Next, I!Answers
<1>4. ASSUME I!CreateAnswer(isStored, arrives) PROVE FALSE
  <2> DEFINE answered == IF arrives THEN import.answered \cup {I!Position} ELSE import.answered
             rest == [import EXCEPT !.create = Tail(import.create), !.answered = answered]
  <2>1. rest.update = import.update
    BY <1>2 DEF Imports
  <2>2. \/ \E x : import' = [rest EXCEPT !.failed = x]
        \/ \E x : import' = [rest EXCEPT !.saved = x]
        \/ \E x : import' = [rest EXCEPT !.created = x]
    <3> HIDE DEF answered
    <3> QED BY <1>4 DEF I!CreateAnswer, answered
  <2>3. import'.update = rest.update
    <3>1. DOMAIN rest = {"state", "create", "update", "saved", "created", "failed", "answered", "chosen"}
      BY <1>2 DEF Imports
    <3> HIDE DEF rest
    <3> QED BY <2>2, <3>1
  <2> QED BY <1>1, <2>1, <2>3
<1>5. ASSUME I!FavoriteAnswer(isStored, arrives) PROVE FALSE
  <2>1. import'.update = import.update
    BY <1>2, <1>5 DEF I!FavoriteAnswer, I!Flagged, Imports
  <2> QED BY <1>1, <2>1
<1>6. CASE I!UpdateAnswer(isStored, arrives)
  <2> DEFINE update == Head(import.update)
  <2>1. update = import.update[1] /\ 1 \in DOMAIN import.update
    <3>1. import.update \in Seq(Replacements)
      BY <1>2, ImportJobFields
    <3> QED BY <1>1, <3>1, Tails
  <2>2. CopyOf(update.current, update.id, server)
    BY <1>2, <2>1 DEF JobPast
  <2>3. isStored
    BY <1>1, <1>6 DEF I!UpdateAnswer
  <2>4. ~I!Stale(update)
    BY <1>6, <2>3 DEF I!UpdateAnswer
  <2>5. update.current.stamp = server[id].stamp
    BY <1>1, <2>4 DEF I!Stale
  <2> HIDE DEF update
  <2>6. id = update.id
    BY <1>1 DEF update
  <2>7. server[id].text = update.current.text
    BY <2>2, <2>5, <2>6 DEF CopyOf
  <2> QED BY <2>7 DEF update
<1> QED BY <1>3, <1>4, <1>5, <1>6

(* A closed import dialog has handed over what was imported, the preview after an import holds exactly the prompts
   whose writing was not confirmed, and an update replaces only the text the dialog compared with. *)
THEOREM ImportHolds == Spec => ImportExact
<1> DEFINE Inv == tab = "import" => ImportInv
<1>1. Init => Inv
  BY ImportStarts DEF Init
<1>2. [Next]_vars /\ tab = "import" => I!Next \/ UNCHANGED imports
  BY DEF Next, vars, AtSettings, AtConnection, AtEvaluation, AtImport, AtText
<1>3. Inv /\ [Next]_vars => Inv'
  <2>1. SUFFICES ASSUME Inv, [Next]_vars, tab' = "import" PROVE ImportInv'
    OBVIOUS
  <2>2. tab' = tab /\ ImportInv
    BY <2>1 DEF Next, vars, AtSettings, AtConnection, AtEvaluation, AtImport, AtText
  <2> QED BY <1>2, <2>1, <2>2, ImportStep, ImportStutters
<1>4. Inv => (tab = "import" => I!TypeOK /\ I!HandedOver)
  BY DialogHolds
<1>5. Inv /\ [Next]_vars => [tab = "import" => I!KeepsWhatFailed /\ I!ReplacesWhatItSaw]_imports
  <2>1. SUFFICES ASSUME Inv, [Next]_vars, tab = "import", ~UNCHANGED imports
                 PROVE  I!KeepsWhatFailed /\ I!ReplacesWhatItSaw
    OBVIOUS
  <2> QED BY <1>2, <2>1, KeepingWhatFailed, ReplacingWhatItSaw
<1> QED BY <1>1, <1>3, <1>4, <1>5, PTL DEF Spec, ImportExact

-----------------------------------------------------------------------------

(* Whichever page a tab shows, what it says is stored, tested, rated or paid for is. *)
THEOREM PagesHold == Spec => []PagesTruthful
<1>1. SettingsTruthful /\ ConnectionTruthful /\ EvaluationTruthful => PagesTruthful
  BY DEF PagesTruthful
<1> QED BY <1>1, SettingsHolds, ConnectionHolds, EvaluationHolds, PTL
=============================================================================
