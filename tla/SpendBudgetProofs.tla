------------------------- MODULE SpendBudgetProofs -------------------------
(***************************************************************************)
(* Theorems about SpendBudget for every number of worker threads, every    *)
(* limit, every price and every calendar.  The last part is about the      *)
(* ceilings that are checked and not reserved (BudgetService.check): by    *)
(* how much a month's spend may pass them.                                 *)
(***************************************************************************)
EXTENDS SpendBudget, FiniteSetTheorems, TLAPS

-----------------------------------------------------------------------------
(* The operators                                                           *)

\* A product of natural numbers is one.
LEMMA ProductNat == ASSUME NEW a \in Nat, NEW b \in Nat PROVE a * b \in Nat
  OBVIOUS

\* Prices are natural numbers (cost_usd_for, priced_usage, estimated_cost_usd).
LEMMA PricesNat ==
    /\ \A m : RateOf(m) \in Nat
    /\ \A m : PublicEstimate(m) \in Nat
    /\ \A m : \A t \in Nat : PricedUsage(m, t) \in Nat
  <1>1. \A m : RateOf(m) \in Nat
    BY SpendAssumptions DEF RateOf
  <1>2. \A m : EstTokens * RateOf(m) \in Nat /\ AssumedTokens * RateOf(m) \in Nat
    BY <1>1, ProductNat, SpendAssumptions
  <1>3. \A m : PublicEstimate(m) \in Nat
    BY <1>2 DEF PublicEstimate, AttemptsPerCall
  <1>4. \A m : \A t \in Nat : PricedUsage(m, t) \in Nat
    BY <1>1, <1>2, ProductNat DEF PricedUsage
  <1> QED BY <1>1, <1>3, <1>4

\* Adding a row to the sums leaves them sums.
LEMMA AddType ==
    ASSUME NEW s \in Sums, NEW m \in Months, NEW c \in Int
    PROVE  Add(s, m, c) \in Sums
  <1>1. \A w \in Months : s[w] \in Int /\ s[w] + c \in Int
    BY DEF Sums
  <1> QED BY <1>1 DEF Add, Sums

LEMMA MonthType == today \in Days => month \in Months
  BY SpendAssumptions DEF month, Days, Months

LEMMA NoTaskType == NoTask \in Task
  BY SpendAssumptions DEF NoTask, Task, Months

\* Reading the sums changes only what the task has read.
LEMMA WindowType ==
    ASSUME NEW t \in Task, NEW w \in Months, NEW s \in Int
    PROVE  /\ [t EXCEPT !.window = w, !.seen = s] \in Task
           /\ [t EXCEPT !.window = w, !.seen = s].user = t.user
  BY DEF Task

\* What Finish and Refuse leave is well typed.
LEMMA FinishType ==
    ASSUME TypeOK, NEW h \in Handlers, Finish(h)
    PROVE  pc' \in [Handlers -> Steps] /\ task' \in [Handlers -> Task]
  BY NoTaskType DEF TypeOK, Finish, Goto, Steps

LEMMA RefuseType ==
    ASSUME TypeOK, NEW h \in Handlers, Refuse(h)
    PROVE  TypeOK'
  <1>1. pc' \in [Handlers -> Steps] /\ task' \in [Handlers -> Task]
    BY FinishType DEF Refuse
  <1> QED BY <1>1 DEF TypeOK, Refuse, Unlock, ledgers

-----------------------------------------------------------------------------
(* Type correctness                                                        *)

LEMMA AttemptOverType ==
    ASSUME TypeOK, NEW h \in Handlers, NEW t \in Task, AttemptOver(h, t)
    PROVE  pc' \in [Handlers -> Steps] /\ task' \in [Handlers -> Task]
  <1>1. /\ [t EXCEPT !.last = TRUE, !.answered = FALSE] \in Task
        /\ [t EXCEPT !.last = FALSE] \in Task
    BY DEF Task
  <1> QED BY <1>1 DEF TypeOK, AttemptOver, Goto, Steps

LEMMA AnswerType ==
    ASSUME TypeOK, NEW h \in Handlers, NEW n \in Tokens, Answer(h, n)
    PROVE  TypeOK'
  <1> DEFINE c == PricedUsage(task[h].model, n)
             t == [task[h] EXCEPT !.cost = @ + c, !.tokens = @ + n,
                                  !.silent = @ \/ n = 0, !.answered = TRUE]
  <1>1. n \in Nat
    BY SpendAssumptions
  <1>2. c \in Nat
    BY <1>1, PricesNat
  <1>3. task[h] \in Task
    BY DEF TypeOK
  <1>4. t \in Task
    <2> HIDE DEF c
    <2>1. task[h].cost + c \in Nat /\ task[h].tokens + n \in Nat
      BY <1>1, <1>2, <1>3 DEF Task
    <2>2. (task[h].silent \/ n = 0) \in BOOLEAN
      OBVIOUS
    <2> QED BY <2>1, <2>2, <1>3 DEF Task
  <1>5. AttemptOver(h, t)
    BY DEF Answer
  <1>6. pc' \in [Handlers -> Steps] /\ task' \in [Handlers -> Task]
    BY <1>4, <1>5, AttemptOverType
  <1>7. reported' \in Nat
    <2>1. reported' = IF task[h].user = None THEN reported + c ELSE reported
      BY DEF Answer
    <2> HIDE DEF c
    <2> QED BY <2>1, <1>2 DEF TypeOK
  <1> QED BY <1>6, <1>7 DEF TypeOK, Answer, ledgers

LEMMA ReserveType ==
    ASSUME TypeOK, NEW h \in Handlers, Reserve(h)
    PROVE  TypeOK'
  <1>0. 0 \in Int
    OBVIOUS
  <1>1. task[h] \in Task /\ month \in Months
    BY MonthType DEF TypeOK
  <1>2. task[h].est \in Int
    BY <1>1 DEF Task
  <1>3. publicSince' \in Sums
    BY <1>1, <1>2, AddType DEF TypeOK, Reserve
  <1>4. callsSince' \in [Days -> Nat]
    BY DEF TypeOK, Reserve
  <1>5. task' \in [Handlers -> Task]
    <2>1. [task[h] EXCEPT !.window = month, !.seen = 0] \in Task
      BY <1>1, <1>0, WindowType, Zenon
    <2> QED BY <2>1 DEF TypeOK, Reserve
  <1>6. pc' \in [Handlers -> Steps] /\ lock' \in Handlers \cup {None}
    BY DEF TypeOK, Reserve, Goto, Steps, Unlock
  <1> QED BY <1>3, <1>4, <1>5, <1>6 DEF TypeOK, Reserve

LEMMA SettleType ==
    ASSUME TypeOK, NEW h \in Handlers, Settle(h)
    PROVE  TypeOK'
  <1>1. task[h] \in Task
    BY DEF TypeOK
  <1>2. SettledCost(task[h]) - task[h].est \in Int /\ task[h].window \in Months
    BY <1>1 DEF Task, SettledCost
  <1>3. publicSince' \in Sums
    BY <1>2, AddType DEF TypeOK, Settle
  <1>4. pc' \in [Handlers -> Steps] /\ task' \in [Handlers -> Task]
    BY FinishType DEF Settle
  <1> QED BY <1>3, <1>4 DEF TypeOK, Settle

LEMMA RecordType ==
    ASSUME TypeOK, NEW h \in Handlers, Record(h)
    PROVE  TypeOK'
  <1>1. task[h] \in Task /\ month \in Months
    BY MonthType DEF TypeOK
  <1>2. task[h].user \in Accounts
    BY <1>1 DEF Record, Task
  <1>3. \A c \in RecordedCosts(task[h]) : c \in Int
    <2>1. task[h].cost \in Nat /\ PricedUsage(task[h].model, task[h].tokens) \in Nat
      BY <1>1, PricesNat DEF Task
    <2> QED BY <2>1 DEF RecordedCosts
  <1> DEFINE Costs == IF task[h].user \in live THEN RecordedCosts(task[h]) ELSE {0}
  <1>4. PICK c \in Int : /\ userSince' = [userSince EXCEPT ![task[h].user] =
                                             Add(userSince[task[h].user], month, c)]
                         /\ billedSince' = Add(billedSince, month, c)
    <2>1. PICK c \in Costs : /\ userSince' = [userSince EXCEPT ![task[h].user] =
                                                 Add(userSince[task[h].user], month, c)]
                             /\ billedSince' = Add(billedSince, month, c)
      BY DEF Record
    <2>2. c \in Int
      BY <1>3, <2>1
    <2> QED BY <2>1, <2>2
  <1>5. userSince' \in [Accounts -> Sums] /\ billedSince' \in Sums
    <2>1. Add(userSince[task[h].user], month, c) \in Sums /\ Add(billedSince, month, c) \in Sums
      BY <1>1, <1>2, AddType DEF TypeOK
    <2> QED BY <1>4, <2>1 DEF TypeOK
  <1>6. pc' \in [Handlers -> Steps] /\ task' \in [Handlers -> Task]
    BY FinishType DEF Record
  <1> QED BY <1>5, <1>6 DEF TypeOK, Record

\* One step preserves the types.
LEMMA TypeStep == TypeOK /\ [Next]_vars => TypeOK'
  <1> SUFFICES ASSUME TypeOK, [Next]_vars PROVE TypeOK'
    OBVIOUS
  <1>1. month \in Months
    BY MonthType DEF TypeOK
  <1>2. ASSUME NEW h \in Handlers, Visit(h) PROVE TypeOK'
    <2>1. [NoTask EXCEPT !.model = ServerModel, !.est = PublicEstimate(ServerModel)] \in Task
      BY NoTaskType, PricesNat, SpendAssumptions DEF Task
    <2> QED BY <1>2, <2>1 DEF TypeOK, Visit, Goto, Steps, ledgers
  <1>3. ASSUME NEW h \in Handlers, NEW u \in Accounts, NEW m \in Models, Ask(h, u, m)
        PROVE  TypeOK'
    <2>1. [NoTask EXCEPT !.user = u, !.model = m] \in Task
      BY NoTaskType DEF Task
    <2> QED BY <1>3, <2>1 DEF TypeOK, Ask, Goto, Steps, ledgers
  <1>4. ASSUME NEW h \in Handlers, Acquire(h) PROVE TypeOK'
    BY <1>4 DEF TypeOK, Acquire, Goto, Steps, ledgers
  <1>5. ASSUME NEW h \in Handlers, CountCalls(h) PROVE TypeOK'
    BY <1>5, RefuseType DEF TypeOK, CountCalls, Goto, Steps, ledgers
  <1>5a. ASSUME NEW h \in Handlers, SumBilled(h) PROVE TypeOK'
    <2>1. billedSince[month] \in Int /\ task[h] \in Task
      BY <1>1 DEF TypeOK, Sums
    <2>2. [task[h] EXCEPT !.window = month, !.seen = billedSince[month]] \in Task
      BY <1>1, <2>1, WindowType
    <2>3. task' \in [Handlers -> Task]
      BY <1>5a, <2>2 DEF TypeOK, SumBilled
    <2> QED BY <1>5a, <2>3 DEF TypeOK, SumBilled, Goto, Steps, ledgers
  <1>6. ASSUME NEW h \in Handlers, CheckGlobal(h) PROVE TypeOK'
    BY <1>6, RefuseType DEF TypeOK, CheckGlobal, Goto, Steps, ledgers
  <1>7. ASSUME NEW h \in Handlers, CheckPublic(h) PROVE TypeOK'
    BY <1>7, RefuseType DEF TypeOK, CheckPublic, Goto, Steps, ledgers
  <1>8. ASSUME NEW h \in Handlers, CheckUser(h) PROVE TypeOK'
    <2>1. CASE Refuse(h)
      BY <2>1, RefuseType
    <2>2. CASE ~Refuse(h)
      <3>1. [task[h] EXCEPT !.window = 0, !.seen = 0] \in Task
        <4>1. 0 \in Months /\ 0 \in Int /\ task[h] \in Task
          BY SpendAssumptions DEF TypeOK, Months
        <4> QED BY <4>1, WindowType, Zenon
      <3>2. task' \in [Handlers -> Task]
        BY <1>8, <2>2, <3>1 DEF TypeOK, CheckUser
      <3> QED BY <1>8, <2>2, <3>2 DEF TypeOK, CheckUser, Goto, Steps, ledgers
    <2> QED BY <2>1, <2>2
  <1>9. ASSUME NEW h \in Handlers, NoAnswer(h) PROVE TypeOK'
    <2>1. task[h] \in Task
      BY DEF TypeOK
    <2>2. pc' \in [Handlers -> Steps] /\ task' \in [Handlers -> Task]
      BY <1>9, <2>1, AttemptOverType DEF NoAnswer
    <2> QED BY <1>9, <2>2 DEF TypeOK, NoAnswer, ledgers
  <1>10. ASSUME NEW h \in Handlers, CommitFails(h) PROVE TypeOK'
    BY <1>10, RefuseType DEF CommitFails
  <1>11. ASSUME NEW u \in Accounts, DeleteAccount(u) PROVE TypeOK'
    <2>1. billedSince' \in Sums
      BY <1>11 DEF TypeOK, DeleteAccount, Sums
    <2>2. userSince' \in [Accounts -> Sums]
      BY <1>11 DEF TypeOK, DeleteAccount, Sums
    <2> QED BY <1>11, <2>1, <2>2 DEF TypeOK, DeleteAccount
  <1>12. CASE Crash
    BY <1>12, NoTaskType DEF TypeOK, Crash, Steps, ledgers
  <1>13. CASE NextDay
    BY <1>13, SpendAssumptions DEF TypeOK, NextDay, Days, ledgers
  <1>14. CASE UNCHANGED vars
    BY <1>14 DEF TypeOK, vars
  <1> QED
    BY <1>2, <1>3, <1>4, <1>5, <1>6, <1>7, <1>8, <1>9, <1>10, <1>11, <1>12, <1>13, <1>14,
       <1>5a, ReserveType, SettleType, RecordType, AnswerType
    DEF Next, ServerStep

\* Every reachable state is well typed (BudgetService, public_refine).
THEOREM SpendTypes == Spec => []TypeOK
  <1>1. Init => TypeOK
    BY SpendAssumptions, NoTaskType DEF Init, TypeOK, Sums, Steps, Days, Months
  <1> QED BY <1>1, TypeStep, PTL DEF Spec

-----------------------------------------------------------------------------
(* The daily cap                                                           *)

\* The handler has counted today's calls and has not left the lock's block.
Counted(h) ==
    \/ pc[h] \in {"public", "reserve"}
    \/ pc[h] \in {"sum", "global"} /\ task[h].user = None

\* A visitor's request is inside the block only as the holder of the lock, and
\* once it has counted, the room it saw is still there: only the holder adds
\* rows, and the next day starts empty.
Admission ==
    /\ \A h \in Handlers : pc[h] \in {"admit", "count"} => task[h].user = None
    /\ \A h \in Handlers : pc[h] = "count" \/ Counted(h) => lock = h
    /\ \A h \in Handlers : Counted(h) => callsSince[today] < DailyLimit
    /\ \A d \in Days : today < d => callsSince[d] = 0

DailyInv == TypeOK /\ Admission /\ DailyCap

\* A handler that gives up leaves nothing to maintain.
LEMMA RefuseDaily ==
    ASSUME DailyInv, NEW h \in Handlers, Refuse(h)
    PROVE  Admission' /\ DailyCap'
  <1>1. \A g \in Handlers : pc'[g] = IF g = h THEN "idle" ELSE pc[g]
    BY DEF DailyInv, TypeOK, Refuse, Finish, Goto
  <1>2. \A g \in Handlers : g # h => task'[g] = task[g]
    BY DEF DailyInv, TypeOK, Refuse, Finish
  <1>3. UNCHANGED <<today, callsSince>>
    BY DEF Refuse, ledgers
  <1>4. \A g \in Handlers : lock = g /\ g # h => lock' = g
    BY DEF Refuse, Unlock
  <1>5. \A g \in Handlers : g # h => (Counted(g)' <=> Counted(g))
    BY <1>1, <1>2 DEF Counted
  <1>6. ~Counted(h)'
    BY <1>1 DEF Counted
  <1> QED BY <1>1, <1>2, <1>3, <1>4, <1>5, <1>6 DEF DailyInv, Admission, DailyCap

\* A step of one handler outside the block, or on its way out, that leaves the
\* ledger's rows alone.
LEMMA OutsideDaily ==
    ASSUME DailyInv, NEW h \in Handlers,
           UNCHANGED <<today, callsSince, lock>>,
           pc'[h] \notin {"admit", "count", "sum", "global", "public", "reserve"},
           \A g \in Handlers : g # h => pc'[g] = pc[g] /\ task'[g] = task[g]
    PROVE  Admission' /\ DailyCap'
  <1>1. \A g \in Handlers : g # h => (Counted(g)' <=> Counted(g))
    BY DEF Counted
  <1>2. ~Counted(h)'
    BY DEF Counted
  <1> QED BY <1>1, <1>2 DEF DailyInv, Admission, DailyCap

\* One step preserves the admission discipline and the cap.
LEMMA DailyStep == DailyInv /\ [Next]_vars => DailyInv'
  <1> SUFFICES ASSUME DailyInv, [Next]_vars PROVE Admission' /\ DailyCap'
    BY TypeStep DEF DailyInv
  <1> USE DEF DailyInv
  <1>1. ASSUME NEW h \in Handlers, Visit(h) PROVE Admission' /\ DailyCap'
    <2>1. task'[h].user = None /\ pc'[h] = "admit"
      BY <1>1 DEF TypeOK, Visit, Goto, NoTask
    <2>2. \A g \in Handlers : g # h => pc'[g] = pc[g] /\ task'[g] = task[g]
      BY <1>1 DEF TypeOK, Visit, Goto
    <2>3. UNCHANGED <<today, callsSince, lock>>
      BY <1>1 DEF Visit, ledgers
    <2> QED BY <2>1, <2>2, <2>3 DEF Admission, DailyCap, Counted
  <1>2. ASSUME NEW h \in Handlers, NEW u \in Accounts, NEW m \in Models, Ask(h, u, m)
        PROVE  Admission' /\ DailyCap'
    <2>1. task'[h].user # None /\ pc'[h] = "sum"
      BY <1>2, SpendAssumptions DEF TypeOK, Ask, Goto, NoTask
    <2>2. \A g \in Handlers : g # h => pc'[g] = pc[g] /\ task'[g] = task[g]
      BY <1>2 DEF TypeOK, Ask, Goto
    <2>3. UNCHANGED <<today, callsSince, lock>>
      BY <1>2 DEF Ask, ledgers
    <2> QED BY <2>1, <2>2, <2>3 DEF Admission, DailyCap, Counted
  <1>3. ASSUME NEW h \in Handlers, Acquire(h) PROVE Admission' /\ DailyCap'
    <2>1. \A g \in Handlers : pc'[g] = IF g = h THEN "count" ELSE pc[g]
      BY <1>3 DEF TypeOK, Acquire, Goto
    <2>2. UNCHANGED <<today, callsSince, task>> /\ lock = None /\ lock' = h /\ pc[h] = "admit"
      BY <1>3 DEF Acquire, ledgers
    <2>3. \A g \in Handlers : pc[g] # "count" /\ ~Counted(g)
      BY <2>2, SpendAssumptions DEF Admission
    <2> QED BY <2>1, <2>2, <2>3 DEF Admission, DailyCap, Counted
  <1>4. ASSUME NEW h \in Handlers, CountCalls(h) PROVE Admission' /\ DailyCap'
    <2>1. CASE Refuse(h)
      BY <2>1, RefuseDaily
    <2>2. CASE ~Refuse(h)
      <3>1. \A g \in Handlers : pc'[g] = IF g = h THEN "sum" ELSE pc[g]
        BY <1>4, <2>2 DEF TypeOK, CountCalls, Goto
      <3>2. UNCHANGED <<today, callsSince, lock, task>> /\ pc[h] = "count"
            /\ callsSince[today] < DailyLimit
        BY <1>4, <2>2 DEF CountCalls, ledgers, UnderDailyLimit
      <3>3. lock = h
        BY <3>2 DEF Admission
      <3> QED BY <3>1, <3>2, <3>3 DEF Admission, DailyCap, Counted
    <2> QED BY <2>1, <2>2
  <1>4a. ASSUME NEW h \in Handlers, SumBilled(h) PROVE Admission' /\ DailyCap'
    <2>1. \A g \in Handlers : pc'[g] = IF g = h THEN "global" ELSE pc[g]
      BY <1>4a DEF TypeOK, SumBilled, Goto
    <2>2. \A g \in Handlers : task'[g].user = task[g].user
      <3>1. billedSince[month] \in Int /\ month \in Months /\ task[h] \in Task
        BY MonthType DEF TypeOK, Sums
      <3>2. [task[h] EXCEPT !.window = month, !.seen = billedSince[month]].user = task[h].user
        BY <3>1, WindowType
      <3> QED BY <1>4a, <3>2 DEF TypeOK, SumBilled
    <2>3. UNCHANGED <<today, callsSince, lock>> /\ pc[h] = "sum"
      BY <1>4a DEF SumBilled, ledgers
    <2> QED BY <2>1, <2>2, <2>3 DEF Admission, DailyCap, Counted
  <1>5. ASSUME NEW h \in Handlers, CheckGlobal(h) PROVE Admission' /\ DailyCap'
    <2>1. CASE Refuse(h)
      BY <2>1, RefuseDaily
    <2>2. CASE ~Refuse(h)
      <3>1. \A g \in Handlers :
               pc'[g] = IF g # h THEN pc[g] ELSE IF task[h].user = None THEN "public" ELSE "user"
        BY <1>5, <2>2 DEF TypeOK, CheckGlobal, Goto
      <3>2. UNCHANGED <<today, callsSince, lock, task>> /\ pc[h] = "global"
        BY <1>5, <2>2 DEF CheckGlobal, ledgers
      <3> QED BY <3>1, <3>2 DEF Admission, DailyCap, Counted
    <2> QED BY <2>1, <2>2
  <1>6. ASSUME NEW h \in Handlers, CheckPublic(h) PROVE Admission' /\ DailyCap'
    <2>1. CASE Refuse(h)
      BY <2>1, RefuseDaily
    <2>2. CASE ~Refuse(h)
      <3>1. \A g \in Handlers : pc'[g] = IF g = h THEN "reserve" ELSE pc[g]
        BY <1>6, <2>2 DEF TypeOK, CheckPublic, Goto
      <3>2. UNCHANGED <<today, callsSince, lock, task>> /\ pc[h] = "public"
        BY <1>6, <2>2 DEF CheckPublic, ledgers
      <3> QED BY <3>1, <3>2 DEF Admission, DailyCap, Counted
    <2> QED BY <2>1, <2>2
  <1>7. ASSUME NEW h \in Handlers, Reserve(h) PROVE Admission' /\ DailyCap'
    <2>1. pc[h] = "reserve" /\ Counted(h)
      BY <1>7 DEF Reserve, Counted
    <2>2. lock = h /\ callsSince[today] < DailyLimit
      BY <2>1 DEF Admission
    <2>3. \A g \in Handlers : pc'[g] = IF g = h THEN "call" ELSE pc[g]
      BY <1>7 DEF TypeOK, Reserve, Goto
    <2>4. \A g \in Handlers : g # h => task'[g] = task[g]
      BY <1>7 DEF TypeOK, Reserve
    <2>5. \A g \in Handlers : g # h => pc[g] # "count" /\ ~Counted(g)
      BY <2>2 DEF Admission
    <2>6. today' = today
      BY <1>7 DEF Reserve
    <2>7. callsSince'[today] = callsSince[today] + 1
      BY <1>7 DEF TypeOK, Reserve, Days
    <2>8. \A d \in Days : today < d => callsSince'[d] = callsSince[d]
      BY <1>7 DEF TypeOK, Reserve, Days
    <2>9. DailyCap'
      BY <2>2, <2>6, <2>7, SpendAssumptions DEF TypeOK, DailyCap
    <2>10. \A g \in Handlers : pc'[g] # "count" /\ ~Counted(g)'
      BY <2>3, <2>4, <2>5 DEF Counted
    <2> QED BY <2>3, <2>4, <2>6, <2>8, <2>9, <2>10 DEF Admission
  <1>8. ASSUME NEW h \in Handlers, CheckUser(h) PROVE Admission' /\ DailyCap'
    <2>1. CASE Refuse(h)
      BY <2>1, RefuseDaily
    <2>2. CASE ~Refuse(h)
      <3>1. pc'[h] = "call" /\ \A g \in Handlers : g # h => pc'[g] = pc[g] /\ task'[g] = task[g]
        BY <1>8, <2>2 DEF TypeOK, CheckUser, Goto
      <3>2. UNCHANGED <<today, callsSince, lock>>
        BY <1>8, <2>2 DEF CheckUser, ledgers
      <3> QED BY <3>1, <3>2, OutsideDaily
    <2> QED BY <2>1, <2>2
  <1>9. ASSUME NEW h \in Handlers, (\E n \in Tokens : Answer(h, n)) \/ NoAnswer(h)
        PROVE  Admission' /\ DailyCap'
    <2>1. PICK t : AttemptOver(h, t) /\ pc[h] = "call"
      BY <1>9 DEF Answer, NoAnswer
    <2>2. /\ pc'[h] \in {"call", "settle"}
          /\ \A g \in Handlers : g # h => pc'[g] = pc[g] /\ task'[g] = task[g]
      BY <2>1 DEF TypeOK, AttemptOver, Goto
    <2>3. UNCHANGED <<today, callsSince, lock>>
      BY <1>9 DEF Answer, NoAnswer, ledgers
    <2> QED BY <2>2, <2>3, OutsideDaily
  <1>10. ASSUME NEW h \in Handlers, Settle(h) \/ Record(h) PROVE Admission' /\ DailyCap'
    <2>1. /\ pc'[h] = "idle"
          /\ \A g \in Handlers : g # h => pc'[g] = pc[g] /\ task'[g] = task[g]
      BY <1>10 DEF TypeOK, Settle, Record, Finish, Goto
    <2>2. UNCHANGED <<today, callsSince, lock>>
      BY <1>10 DEF Settle, Record
    <2> QED BY <2>1, <2>2, OutsideDaily
  <1>11. ASSUME NEW h \in Handlers, CommitFails(h) PROVE Admission' /\ DailyCap'
    BY <1>11, RefuseDaily DEF CommitFails
  <1>12. ASSUME NEW u \in Accounts, DeleteAccount(u) PROVE Admission' /\ DailyCap'
    BY <1>12 DEF DeleteAccount, Admission, DailyCap, Counted
  <1>13. CASE Crash
    BY <1>13 DEF Crash, Admission, DailyCap, Counted, ledgers
  <1>14. CASE NextDay
    <2>1. today' = today + 1 /\ today' \in Days /\ UNCHANGED <<callsSince, lock, pc, task>>
      BY <1>14, SpendAssumptions DEF NextDay, ledgers, TypeOK, Days
    <2>2. callsSince[today'] = 0
      BY <2>1 DEF Admission, TypeOK, Days
    <2>3. \A h \in Handlers : Counted(h)' => 0 < DailyLimit
      BY <2>1, SpendAssumptions DEF Admission, TypeOK, Counted
    <2> QED BY <2>1, <2>2, <2>3, SpendAssumptions DEF Admission, DailyCap, Counted, TypeOK, Days
  <1>15. CASE UNCHANGED vars
    BY <1>15 DEF vars, Admission, DailyCap, Counted
  <1> QED
    BY <1>1, <1>2, <1>3, <1>4, <1>5, <1>6, <1>7, <1>8, <1>9, <1>10, <1>11, <1>12, <1>13,
       <1>14, <1>15, <1>4a
    DEF Next, ServerStep

LEMMA DailyInit == Init => DailyInv
  <1> SUFFICES ASSUME Init PROVE DailyInv
    OBVIOUS
  <1>1. TypeOK
    BY SpendAssumptions, NoTaskType DEF Init, TypeOK, Sums, Steps, Days, Months
  <1>2. Admission
    BY DEF Init, Admission, Counted
  <1>3. DailyCap
    BY <1>1, SpendAssumptions DEF Init, DailyCap, TypeOK
  <1> QED BY <1>1, <1>2, <1>3 DEF DailyInv

\* reserve_call never puts more rows of one day into public_billed_calls than
\* PUBLIC_REFINE_DAILY_LIMIT, for any number of threads and wherever midnight,
\* failed commits and restarts fall.
THEOREM DailyCapHolds == Spec => []DailyCap
  <1>1. DailyInv => DailyCap
    BY DEF DailyInv
  <1> QED BY <1>1, DailyInit, DailyStep, PTL DEF Spec

-----------------------------------------------------------------------------
(* Sums over the worker threads                                            *)

\* e lists the threads as e[1], ..., e[n].
Lists(n, e) ==
    /\ n = Cardinality(Handlers) /\ n \in Nat
    /\ e \in [1..n -> Handlers]
    /\ \A i, j \in 1..n : e[i] = e[j] => i = j
    /\ \A h \in Handlers : \E i \in 1..n : e[i] = h

\* t is the sum of g[h] over the threads h: it has partial sums along e.
SumsTo(n, e, g, t) ==
    \E s \in [0..n -> Nat] :
       /\ s[0] = 0 /\ s[n] = t
       /\ \A i \in 1..n : s[i] = s[i - 1] + g[e[i]]
       /\ \A i, j \in 0..n : i <= j => s[i] <= s[j]

LEMMA ThreadsCanBeListed == \E n, e : Lists(n, e)
  <1>1. ExistsBijection(1..Cardinality(Handlers), Handlers) /\ Cardinality(Handlers) \in Nat
    BY FS_CardinalityType, SpendAssumptions
  <1>2. PICK e : e \in Bijection(1..Cardinality(Handlers), Handlers)
    BY <1>1 DEF ExistsBijection
  <1>3. Lists(Cardinality(Handlers), e)
    BY <1>1, <1>2 DEF Lists, Bijection, Injection, Surjection, IsInjective
  <1> QED BY <1>3

LEMMA SumOfZeros ==
    ASSUME NEW n, NEW e, Lists(n, e), NEW g, \A h \in Handlers : g[h] = 0
    PROVE  SumsTo(n, e, g, 0)
  <1> DEFINE s == [i \in 0..n |-> 0]
  <1>1. n \in Nat /\ s \in [0..n -> Nat] /\ s[0] = 0 /\ s[n] = 0
    BY DEF Lists
  <1>2. \A i \in 1..n : s[i] = s[i - 1] + g[e[i]]
    BY DEF Lists
  <1>3. \A i, j \in 0..n : i <= j => s[i] <= s[j]
    BY <1>1
  <1> QED BY <1>1, <1>2, <1>3 DEF SumsTo

\* One term of a sum changes.
LEMMA SumChanges ==
    ASSUME NEW n, NEW e, Lists(n, e),
           NEW g, \A x \in Handlers : g[x] \in Nat, NEW t, SumsTo(n, e, g, t),
           NEW h \in Handlers,
           NEW f, f[h] \in Nat, \A x \in Handlers \ {h} : f[x] = g[x]
    PROVE  /\ t \in Nat /\ g[h] <= t
           /\ SumsTo(n, e, f, t - g[h] + f[h])
  <1>n. n \in Nat
    BY DEF Lists
  <1>e. \A i \in 1..n : e[i] \in Handlers
    BY DEF Lists
  <1>1. PICK s \in [0..n -> Nat] :
          /\ s[0] = 0 /\ s[n] = t
          /\ \A i \in 1..n : s[i] = s[i - 1] + g[e[i]]
          /\ \A i, j \in 0..n : i <= j => s[i] <= s[j]
    BY DEF SumsTo
  <1>2. PICK k \in 1..n : e[k] = h
    BY DEF Lists
  <1>k. k \in Nat /\ k \in 0..n /\ k - 1 \in 0..n /\ 0 < k /\ k <= n /\ n \in 0..n
    BY <1>n, <1>2
  <1>o. \A i \in 1..n : i # k => e[i] \in Handlers \ {h}
    BY <1>2, <1>e DEF Lists
  <1>g. PICK gh \in Nat : gh = g[h]
    OBVIOUS
  <1>f. PICK fh \in Nat : fh = f[h]
    OBVIOUS
  <1>r. PICK r : r = [i \in 0..n |-> IF i < k THEN s[i] ELSE s[i] - gh + fh]
    OBVIOUS
  <1>s. \A i \in 0..n : r[i] = IF i < k THEN s[i] ELSE s[i] - gh + fh
    BY <1>r
  <1>3. s[k] = s[k - 1] + gh
    BY <1>1, <1>2, <1>g
  <1>t. \A i \in 0..n : s[i] \in Nat
    BY <1>1
  <1>4. \A i \in 0..n : i >= k => s[i] >= s[k - 1] + gh
    BY <1>1, <1>3, <1>k
  <1>5. t \in Nat /\ gh <= t
    <2>1. s[n] >= s[k - 1] + gh /\ s[n] \in Nat /\ s[k - 1] \in Nat
      BY <1>4, <1>k, <1>t
    <2> QED BY <1>1, <2>1
  <1>6. ASSUME NEW i \in 0..n PROVE r[i] \in Nat
    <2>1. s[i] \in Nat /\ s[k - 1] \in Nat /\ (i >= k => s[i] >= s[k - 1] + gh) /\ i \in Nat
      BY <1>t, <1>k, <1>4
    <2>2. r[i] = IF i < k THEN s[i] ELSE s[i] - gh + fh
      BY <1>s
    <2> QED BY <2>1, <2>2, <1>k
  <1>7. r \in [0..n -> Nat]
    BY <1>r, <1>6
  <1>8. r[0] = 0 /\ r[n] = t - gh + fh
    <2>1. 0 \in 0..n
      BY <1>n
    <2> QED BY <2>1, <1>1, <1>k, <1>s
  <1>9. ASSUME NEW i \in 1..n PROVE r[i] = r[i - 1] + f[e[i]]
    <2>1. i \in Nat /\ i - 1 \in 0..n /\ i \in 0..n
      BY <1>n
    <2>2. s[i] = s[i - 1] + g[e[i]] /\ s[i] \in Nat /\ s[i - 1] \in Nat
      BY <1>1, <1>t, <2>1
    <2>3. r[i] = (IF i < k THEN s[i] ELSE s[i] - gh + fh)
          /\ r[i - 1] = (IF i - 1 < k THEN s[i - 1] ELSE s[i - 1] - gh + fh)
      BY <1>s, <2>1
    <2>4. CASE i # k
      <3>1. PICK x \in Nat : x = g[e[i]] /\ x = f[e[i]]
        BY <1>o, <2>4
      <3>2. (i < k) = (i - 1 < k)
        BY <1>k, <2>1, <2>4
      <3>3. s[i] = s[i - 1] + x
        BY <2>2, <3>1
      <3>4. r[i] = r[i - 1] + x
        <4>1. CASE i < k
          BY <2>3, <3>2, <3>3, <4>1
        <4>2. CASE ~(i < k)
          BY <2>2, <2>3, <3>2, <3>3, <4>2
        <4> QED BY <4>1, <4>2
      <3> QED BY <3>1, <3>4
    <2>5. CASE i = k
      <3>1. g[e[i]] = gh /\ f[e[i]] = fh
        BY <1>2, <1>g, <1>f, <2>5
      <3> QED BY <1>k, <2>1, <2>2, <2>3, <2>5, <3>1
    <2> QED BY <2>4, <2>5
  <1>10. ASSUME NEW i \in 0..n, NEW j \in 0..n, i <= j PROVE r[i] <= r[j]
    <2>1. s[i] \in Nat /\ s[j] \in Nat /\ s[i] <= s[j] /\ i \in Nat /\ j \in Nat
          /\ s[k - 1] \in Nat
      BY <1>1, <1>t, <1>10, <1>k
    <2>2. r[i] = (IF i < k THEN s[i] ELSE s[i] - gh + fh)
          /\ r[j] = (IF j < k THEN s[j] ELSE s[j] - gh + fh)
      BY <1>s
    <2>3. i < k => s[i] <= s[k - 1]
      BY <1>1, <1>k, <2>1
    <2>4. j >= k => s[j] >= s[k - 1] + gh
      BY <1>4
    <2> QED BY <1>k, <1>10, <2>1, <2>2, <2>3, <2>4
  <1>11. SumsTo(n, e, f, t - gh + fh)
    BY <1>7, <1>8, <1>9, <1>10 DEF SumsTo
  <1> QED BY <1>5, <1>11, <1>g, <1>f

\* A sum depends on nothing but its terms.
LEMMA SumSame ==
    ASSUME NEW n, NEW e, Lists(n, e), NEW g, NEW f, \A h \in Handlers : f[h] = g[h],
           NEW t, SumsTo(n, e, g, t)
    PROVE  SumsTo(n, e, f, t)
  <1>1. \A i \in 1..n : f[e[i]] = g[e[i]]
    BY DEF Lists
  <1>2. PICK s \in [0..n -> Nat] :
          /\ s[0] = 0 /\ s[n] = t
          /\ \A i \in 1..n : s[i] = s[i - 1] + g[e[i]]
          /\ \A i, j \in 0..n : i <= j => s[i] <= s[j]
    BY DEF SumsTo
  <1>3. \A i \in 1..n : s[i] = s[i - 1] + f[e[i]]
    BY <1>1, <1>2
  <1> QED BY <1>2, <1>3 DEF SumsTo

\* The sum of g over the threads is at most c.
AtMost(g, c) == \E n, e, t : Lists(n, e) /\ SumsTo(n, e, g, t) /\ t <= c

\* Nothing sums to nothing.
LEMMA NothingAtMost ==
    ASSUME NEW g, \A h \in Handlers : g[h] = 0, NEW c \in Int, 0 <= c
    PROVE  AtMost(g, c)
  <1>1. PICK n, e : Lists(n, e)
    BY ThreadsCanBeListed
  <1> QED BY <1>1, SumOfZeros DEF AtMost

\* A bound that covers the sum covers each term.
LEMMA TermAtMost ==
    ASSUME NEW g, \A x \in Handlers : g[x] \in Nat, NEW c \in Int, AtMost(g, c),
           NEW h \in Handlers
    PROVE  g[h] <= c
  <1>1. PICK n, e, t : Lists(n, e) /\ SumsTo(n, e, g, t) /\ t <= c
    BY DEF AtMost
  <1>2. t \in Nat /\ g[h] <= t
    BY <1>1, SumChanges
  <1> QED BY <1>1, <1>2

\* A bound on a sum of natural numbers is one.
LEMMA BoundIsNat ==
    ASSUME NEW g, NEW c \in Int, AtMost(g, c)
    PROVE  0 <= c
  <1>1. PICK n, e, t : Lists(n, e) /\ SumsTo(n, e, g, t) /\ t <= c
    BY DEF AtMost
  <1>2. t \in Nat
    BY <1>1 DEF Lists, SumsTo
  <1> QED BY <1>1, <1>2

\* One thread's term rises by no more than the bound does.
LEMMA SumMoves ==
    ASSUME NEW g, \A x \in Handlers : g[x] \in Nat, NEW c \in Int, AtMost(g, c),
           NEW h \in Handlers,
           NEW f, f[h] \in Nat, \A x \in Handlers \ {h} : f[x] = g[x],
           NEW d \in Int, f[h] - g[h] <= d - c
    PROVE  AtMost(f, d)
  <1>1. PICK n, e, t : Lists(n, e) /\ SumsTo(n, e, g, t) /\ t <= c
    BY DEF AtMost
  <1>2. t \in Nat /\ SumsTo(n, e, f, t - g[h] + f[h])
    BY <1>1, SumChanges
  <1>3. t - g[h] + f[h] <= d
    <2>1. PICK x, y \in Nat : x = g[h] /\ y = f[h]
      OBVIOUS
    <2> QED BY <1>1, <1>2, <2>1
  <1> QED BY <1>1, <1>2, <1>3 DEF AtMost

\* No term changes.
LEMMA SumStays ==
    ASSUME NEW g, NEW c \in Int, AtMost(g, c), NEW f, \A x \in Handlers : f[x] = g[x]
    PROVE  AtMost(f, c)
  BY SumSame DEF AtMost

-----------------------------------------------------------------------------
(* Visitors' calls                                                         *)

\* The most one attempt of a visitor's call is charged (priced_usage): the
\* assumed tokens are within twice the estimate of one attempt.
TwiceEstimated == 2 * (EstTokens * RateOf(ServerModel))

LEMMA ProductMono ==
    ASSUME NEW a \in Nat, NEW b \in Nat, NEW r \in Nat, a <= b
    PROVE  a * r <= b * r
  OBVIOUS

LEMMA EstimateOfTwo ==
    ASSUME AnyLimitConfigured
    PROVE  TwiceEstimated \in Nat /\ PublicEstimate(ServerModel) = 2 * TwiceEstimated
  <1>1. PICK x \in Nat : x = EstTokens * RateOf(ServerModel)
    BY PricesNat, ProductNat, SpendAssumptions
  <1> QED BY <1>1 DEF PublicEstimate, TwiceEstimated, AttemptsPerCall

LEMMA AttemptIsEstimated ==
    ASSUME AnyLimitConfigured, NEW n \in Tokens
    PROVE  /\ PricedUsage(ServerModel, n) \in Nat
           /\ PricedUsage(ServerModel, n) <= TwiceEstimated
  <1>1. PICK r \in Nat : r = RateOf(ServerModel)
    BY PricesNat
  <1>2. n \in Nat /\ EstTokens \in Nat /\ AssumedTokens \in Nat /\ 2 * EstTokens \in Nat
    BY SpendAssumptions
  <1>3. n <= EstTokens /\ AssumedTokens <= 2 * EstTokens
    BY EstimateIsPessimistic
  <1>4. n * r <= EstTokens * r /\ AssumedTokens * r <= (2 * EstTokens) * r
    BY <1>1, <1>2, <1>3, ProductMono
  <1>5. (2 * EstTokens) * r = 2 * (EstTokens * r) /\ EstTokens * r \in Nat
        /\ n * r \in Nat /\ AssumedTokens * r \in Nat
    BY <1>1, <1>2, ProductNat
  <1>6. n * r <= TwiceEstimated /\ AssumedTokens * r <= TwiceEstimated
    BY <1>1, <1>4, <1>5 DEF TwiceEstimated
  <1>7. PricedUsage(ServerModel, n) \in {n * r, AssumedTokens * r}
    BY <1>1 DEF PricedUsage
  <1> QED BY <1>5, <1>6, <1>7

-----------------------------------------------------------------------------
(* The public ceiling                                                      *)

Visitor(h) == pc[h] # "idle" /\ task[h].user = None

\* A visitor's call that has its row in public_billed_calls.
Calling(h) == Visitor(h) /\ pc[h] \in {"call", "settle"}

\* What the reservations still open in month w or later come to.
ReservedSince(w) ==
    [h \in Handlers |-> IF Calling(h) /\ w <= task[h].window THEN task[h].est ELSE 0]

\* What open reservations hold beyond the answers already reported.
Headroom == [h \in Handlers |-> IF Calling(h) THEN task[h].est - task[h].cost ELSE 0]

\* A visitor's call carries the estimate and stays within it: the first attempt
\* within half, both within all of it.
WithinEstimate(h) ==
    /\ task[h].model = ServerModel /\ task[h].est = PublicEstimate(ServerModel)
    /\ pc[h] \notin {"call", "settle"} => task[h].cost = 0 /\ ~task[h].last
    /\ pc[h] = "call" => task[h].cost <= IF task[h].last THEN TwiceEstimated ELSE 0
    /\ pc[h] = "settle" => task[h].cost <= task[h].est
    /\ pc[h] \in {"global", "public", "reserve", "call", "settle"} => task[h].window <= month

\* The branch a check takes is the one of its caller.
Routed(h) ==
    /\ pc[h] \in {"public", "reserve"} => task[h].user = None
    /\ pc[h] = "user" => task[h].user # None

Estimates == \A h \in Handlers : Routed(h) /\ (Visitor(h) => WithinEstimate(h))

\* The ledger backs every open reservation, from every month on, and what was
\* reported so far with the headroom that is left.
Backed ==
    /\ \A w \in Months : AtMost(ReservedSince(w), publicSince[w])
    /\ AtMost(Headroom, publicSince[0] - reported)

\* The reservation about to be written fits; months to come have no rows; one
\* that was checked in an earlier month finds the new month empty.
Fits(h) ==
    /\ pc[h] = "reserve" => publicSince[month] + task[h].est < PublicLimit
    /\ Visitor(h) /\ pc[h] \in {"global", "public"} /\ task[h].window < month
          => publicSince[month] <= 0

UnderCeiling ==
    /\ publicSince[month] <= PublicLimit
    /\ \A w \in Months : month < w => publicSince[w] <= 0
    /\ \A h \in Handlers : Fits(h)

\* A step of one thread leaves what the others carry.
LEMMA OthersStay ==
    ASSUME TypeOK, NEW h \in Handlers,
           \/ Visit(h) \/ ServerStep(h) \/ NoAnswer(h)
           \/ \E u \in Accounts, m \in Models : Ask(h, u, m)
           \/ \E n \in Tokens : Answer(h, n)
    PROVE  \A g \in Handlers \ {h} : pc'[g] = pc[g] /\ task'[g] = task[g]
  <1>1. \A p : \A g \in Handlers \ {h} : [pc EXCEPT ![h] = p][g] = pc[g]
    BY DEF TypeOK
  <1>2. \A t : \A g \in Handlers \ {h} : [task EXCEPT ![h] = t][g] = task[g]
    BY DEF TypeOK
  <1>3. ASSUME NEW t, AttemptOver(h, t)
        PROVE  \A g \in Handlers \ {h} : pc'[g] = pc[g] /\ task'[g] = task[g]
    BY <1>3 DEF TypeOK, AttemptOver, Goto
  <1>4. ASSUME Refuse(h)
        PROVE  \A g \in Handlers \ {h} : pc'[g] = pc[g] /\ task'[g] = task[g]
    BY <1>4 DEF TypeOK, Refuse, Finish, Goto
  <1>5. CASE Visit(h) \/ \E u \in Accounts, m \in Models : Ask(h, u, m)
    BY <1>5 DEF TypeOK, Visit, Ask, Goto
  <1>6. CASE NoAnswer(h) \/ \E n \in Tokens : Answer(h, n)
    BY <1>3, <1>6 DEF NoAnswer, Answer
  <1>7. CASE Acquire(h) \/ SumBilled(h) \/ Reserve(h)
    BY <1>7 DEF TypeOK, Acquire, SumBilled, Reserve, Goto
  <1>8. CASE CountCalls(h) \/ CheckGlobal(h) \/ CheckPublic(h) \/ CheckUser(h) \/ CommitFails(h)
    BY <1>4, <1>8 DEF TypeOK, CountCalls, CheckGlobal, CheckPublic, CheckUser, CommitFails, Goto
  <1>9. CASE Settle(h) \/ Record(h)
    BY <1>9 DEF TypeOK, Settle, Record, Finish, Goto
  <1> QED BY <1>5, <1>6, <1>7, <1>8, <1>9 DEF ServerStep

\* The terms of the sums are natural numbers.
TermsAreNat ==
    /\ \A h \in Handlers : Headroom[h] \in Nat
    /\ \A w \in Months : \A h \in Handlers : ReservedSince(w)[h] \in Nat

LEMMA TermsNat == TypeOK /\ Estimates /\ AnyLimitConfigured => TermsAreNat
  <1> SUFFICES ASSUME TypeOK, Estimates, AnyLimitConfigured PROVE TermsAreNat
    OBVIOUS
  <1>1. \A h \in Handlers : task[h].est \in Nat /\ task[h].cost \in Nat
    BY DEF TypeOK, Task
  <1>2. ASSUME NEW h \in Handlers, Calling(h) PROVE task[h].cost <= task[h].est
    <2>1. PublicEstimate(ServerModel) = 2 * TwiceEstimated /\ TwiceEstimated \in Nat
      BY EstimateOfTwo
    <2>2. WithinEstimate(h) /\ pc[h] \in {"call", "settle"}
      BY <1>2 DEF Calling, Estimates
    <2> QED BY <1>1, <2>1, <2>2 DEF WithinEstimate
  <1>3. \A h \in Handlers : Headroom[h] \in Nat
    BY <1>1, <1>2 DEF Headroom
  <1>4. \A w \in Months : \A h \in Handlers : ReservedSince(w)[h] \in Nat
    BY <1>1 DEF ReservedSince
  <1> QED BY <1>3, <1>4 DEF TermsAreNat

\* The ledger follows one thread: its row changes by no less than what the
\* thread reserves and keeps in hand.
LEMMA BackedFollows ==
    ASSUME TypeOK, TypeOK', Estimates, Estimates', AnyLimitConfigured, Backed,
           NEW h \in Handlers,
           \A g \in Handlers \ {h} : pc'[g] = pc[g] /\ task'[g] = task[g],
           \A w \in Months :
              ReservedSince(w)'[h] - ReservedSince(w)[h] <= publicSince'[w] - publicSince[w],
           Headroom'[h] - Headroom[h]
              <= (publicSince'[0] - reported') - (publicSince[0] - reported)
    PROVE  Backed'
  <1>0. 0 \in Months
    BY SpendAssumptions DEF Months
  <1>1. \A w \in Months : publicSince[w] \in Int /\ publicSince'[w] \in Int
    BY DEF TypeOK, Sums
  <1>2. reported \in Int /\ reported' \in Int
    BY DEF TypeOK
  <1>3. \A g \in Handlers \ {h} : Headroom'[g] = Headroom[g]
    BY DEF Headroom, Calling, Visitor
  <1>4. \A w \in Months : \A g \in Handlers \ {h} : ReservedSince(w)'[g] = ReservedSince(w)[g]
    BY DEF ReservedSince, Calling, Visitor
  <1>5. /\ \A g \in Handlers : Headroom'[g] \in Nat
        /\ \A w \in Months : \A g \in Handlers : ReservedSince(w)'[g] \in Nat
    <2>0. AnyLimitConfigured'
      BY DEF AnyLimitConfigured
    <2>1. TermsAreNat'
      BY <2>0, TermsNat, PTL
    <2> QED BY <2>1 DEF TermsAreNat
  <1>6. ASSUME NEW w \in Months PROVE AtMost(ReservedSince(w), publicSince[w])'
    <2>1. PICK g : g = ReservedSince(w)
      OBVIOUS
    <2>2. PICK f : f = ReservedSince(w)'
      OBVIOUS
    <2>3. AtMost(g, publicSince[w])
      BY <2>1 DEF Backed
    <2>4. AtMost(f, publicSince'[w])
      BY <1>1, <1>4, <1>5, <2>1, <2>2, <2>3, TermsNat, SumMoves DEF TermsAreNat
    <2> QED BY <2>2, <2>4
  <1>7. AtMost(Headroom, publicSince[0] - reported)'
    <2>1. PICK g : g = Headroom
      OBVIOUS
    <2>2. PICK f : f = Headroom'
      OBVIOUS
    <2>3. PICK c \in Int : c = publicSince[0] - reported
      BY <1>0, <1>1, <1>2
    <2>4. PICK d \in Int : d = publicSince'[0] - reported'
      BY <1>0, <1>1, <1>2
    <2>5. AtMost(g, c)
      BY <2>1, <2>3 DEF Backed
    <2>6. AtMost(f, d)
      BY <1>3, <1>5, <2>1, <2>2, <2>3, <2>4, <2>5, TermsNat, SumMoves DEF TermsAreNat
    <2> QED BY <2>2, <2>4, <2>6
  <1> QED BY <1>6, <1>7 DEF Backed

\* What the end of an attempt leaves of the task it was given.
LEMMA AttemptFields ==
    ASSUME TypeOK, NEW h \in Handlers, NEW t \in Task, AttemptOver(h, t), pc[h] = "call"
    PROVE  /\ \/ pc'[h] = "call" /\ task'[h].last /\ ~t.last
              \/ pc'[h] = "settle"
           /\ task'[h].user = t.user /\ task'[h].model = t.model /\ task'[h].est = t.est
           /\ task'[h].window = t.window /\ task'[h].cost = t.cost
           /\ task'[h].tokens = t.tokens /\ task'[h].seen = t.seen
  <1>1. CASE task'[h] = [t EXCEPT !.last = TRUE, !.answered = FALSE] /\ ~t.last /\ pc' = pc
    BY <1>1 DEF Task
  <1>2. CASE task'[h] = [t EXCEPT !.last = FALSE] /\ pc'[h] = "settle"
    BY <1>2 DEF Task
  <1> QED BY <1>1, <1>2 DEF AttemptOver, TypeOK, Goto

\* The task an answer leaves: its usage is added up.
LEMMA AnsweredTask ==
    ASSUME TypeOK, NEW h \in Handlers, NEW n \in Tokens, Answer(h, n)
    PROVE  \E t \in Task :
              /\ AttemptOver(h, t) /\ t.user = task[h].user /\ t.est = task[h].est
              /\ t.model = task[h].model /\ t.window = task[h].window
              /\ t.last = task[h].last /\ t.tokens = task[h].tokens + n
              /\ t.cost = task[h].cost + PricedUsage(task[h].model, n)
  <1> DEFINE c == PricedUsage(task[h].model, n)
             t == [task[h] EXCEPT !.cost = @ + c, !.tokens = @ + n,
                                  !.silent = @ \/ n = 0, !.answered = TRUE]
  <1>1. n \in Nat /\ c \in Nat /\ task[h] \in Task
    BY PricesNat, SpendAssumptions DEF TypeOK
  <1>2. AttemptOver(h, t)
    BY DEF Answer
  <1> HIDE DEF c
  <1>3. task[h].cost + c \in Nat /\ task[h].tokens + n \in Nat
        /\ (task[h].silent \/ n = 0) \in BOOLEAN
    BY <1>1 DEF Task
  <1>4. t \in Task /\ t.user = task[h].user /\ t.est = task[h].est
        /\ t.model = task[h].model /\ t.window = task[h].window /\ t.last = task[h].last
        /\ t.cost = task[h].cost + c /\ t.tokens = task[h].tokens + n
    BY <1>1, <1>3 DEF Task
  <1> HIDE DEF t
  <1> QED BY <1>2, <1>4 DEF c

\* One thread moves: only its own estimate is in question.
LEMMA EstimatesFollow ==
    ASSUME Estimates, NEW h \in Handlers, today' = today,
           \A g \in Handlers \ {h} : pc'[g] = pc[g] /\ task'[g] = task[g],
           Routed(h)', Visitor(h)' => WithinEstimate(h)'
    PROVE  Estimates'
  <1>1. month' = month
    BY DEF month
  <1>2. ASSUME NEW g \in Handlers \ {h}
        PROVE  Routed(g)' /\ (Visitor(g)' => WithinEstimate(g)')
    BY <1>1 DEF Estimates, Visitor, WithinEstimate, Routed
  <1> QED BY <1>2 DEF Estimates

\* A thread that gives up carries nothing.
LEMMA RefusedIsIdle ==
    ASSUME TypeOK, NEW h \in Handlers, Finish(h)
    PROVE  pc'[h] = "idle" /\ task'[h] = NoTask
  BY DEF TypeOK, Finish, Goto

\* Time does not run backwards.
LEMMA MonthsPass ==
    ASSUME TypeOK, NextDay
    PROVE  month \in Nat /\ month' \in Nat /\ month <= month'
  <1>1. today \in Days /\ today + 1 \in Days /\ today' = today + 1 /\ today <= today + 1
    BY SpendAssumptions DEF TypeOK, NextDay, Days
  <1>2. MonthOf[today] <= MonthOf[today + 1]
    BY <1>1, SpendAssumptions DEF Days
  <1>3. MonthOf[today] \in Nat /\ MonthOf[today + 1] \in Nat
    BY <1>1, SpendAssumptions DEF Days
  <1> QED BY <1>1, <1>2, <1>3 DEF month

\* One step keeps every visitor's call within its estimate.
LEMMA EstimatesStep ==
    ASSUME DailyInv, DailyInv', AnyLimitConfigured, Estimates, [Next]_vars
    PROVE  Estimates'
  <1>1. TypeOK /\ TypeOK' /\ month \in Months /\ Admission
    BY MonthType DEF DailyInv, TypeOK
  <1>2. \A h \in Handlers : task[h] \in Task /\ task'[h] \in Task
    BY <1>1 DEF TypeOK
  <1>m. month \in Nat /\ (today' = today => month' = month)
    BY <1>1, SpendAssumptions DEF Months, month
  <1>3. ASSUME NEW h \in Handlers, Visit(h) PROVE Estimates'
    <2>1. /\ pc'[h] = "admit" /\ today' = today /\ task'[h] =
                [NoTask EXCEPT !.model = ServerModel, !.est = PublicEstimate(ServerModel)]
      BY <1>1, <1>3 DEF TypeOK, Visit, Goto
    <2>2. WithinEstimate(h)'
      BY <2>1 DEF WithinEstimate, NoTask
    <2> QED BY <1>1, <1>3, <2>1, <2>2, EstimatesFollow, OthersStay DEF Routed
  <1>4. ASSUME NEW h \in Handlers, NEW u \in Accounts, NEW m \in Models, Ask(h, u, m)
        PROVE  Estimates'
    <2>1. pc'[h] = "sum" /\ task'[h].user = u /\ today' = today
      BY <1>1, <1>4 DEF TypeOK, Ask, Goto, NoTask
    <2>2. ~Visitor(h)'
      BY <2>1, SpendAssumptions DEF Visitor
    <2> QED BY <1>1, <1>4, <2>1, <2>2, EstimatesFollow, OthersStay DEF Routed
  <1>5. ASSUME NEW h \in Handlers, ServerStep(h), pc'[h] = "idle", today' = today
        PROVE  Estimates'
    BY <1>1, <1>5, EstimatesFollow, OthersStay DEF Visitor, Routed
  <1>6. ASSUME NEW h \in Handlers, Refuse(h), ServerStep(h) PROVE Estimates'
    BY <1>1, <1>5, <1>6, RefusedIsIdle DEF Refuse
  <1>7. ASSUME NEW h \in Handlers, Acquire(h) \/ CountCalls(h) PROVE Estimates'
    <2>1. CASE Refuse(h)
      BY <1>6, <1>7, <2>1 DEF ServerStep
    <2>2. CASE ~Refuse(h)
      <3>1. /\ pc[h] \in {"admit", "count"} /\ pc'[h] \in {"count", "sum"}
            /\ task'[h] = task[h] /\ today' = today
        BY <1>1, <1>7, <2>2 DEF TypeOK, Acquire, CountCalls, Goto
      <3>2. Visitor(h)' => WithinEstimate(h)'
        BY <3>1, <1>m DEF Visitor, WithinEstimate, Estimates
      <3> QED BY <1>1, <1>7, <3>1, <3>2, EstimatesFollow, OthersStay DEF ServerStep, Routed
    <2> QED BY <2>1, <2>2
  <1>8. ASSUME NEW h \in Handlers, SumBilled(h) PROVE Estimates'
    <2>1. /\ pc[h] = "sum" /\ pc'[h] = "global" /\ today' = today
          /\ task'[h] = [task[h] EXCEPT !.window = month, !.seen = billedSince[month]]
      BY <1>1, <1>8 DEF TypeOK, SumBilled, Goto
    <2>2. /\ task'[h].user = task[h].user /\ task'[h].model = task[h].model
          /\ task'[h].est = task[h].est /\ task'[h].cost = task[h].cost
          /\ task'[h].last = task[h].last /\ task'[h].window = month
      BY <1>2, <2>1 DEF Task
    <2>3. Visitor(h)' => WithinEstimate(h)'
      BY <2>1, <2>2, <1>m DEF Visitor, WithinEstimate, Estimates
    <2> QED BY <1>1, <1>8, <2>1, <2>3, EstimatesFollow, OthersStay DEF ServerStep, Routed
  <1>9. ASSUME NEW h \in Handlers, CheckGlobal(h) \/ CheckPublic(h) PROVE Estimates'
    <2>1. CASE Refuse(h)
      BY <1>6, <1>9, <2>1 DEF ServerStep
    <2>2. CASE ~Refuse(h)
      <3>1. /\ pc[h] \in {"global", "public"} /\ pc'[h] \in {"public", "user", "reserve"}
            /\ task'[h] = task[h] /\ today' = today
            /\ pc'[h] = "user" => task[h].user # None
            /\ pc'[h] = "public" => task[h].user = None
            /\ pc'[h] = "reserve" => pc[h] = "public"
        BY <1>1, <1>9, <2>2 DEF TypeOK, CheckGlobal, CheckPublic, Goto
      <3>2. Visitor(h)' => WithinEstimate(h)'
        BY <3>1, <1>m DEF Visitor, WithinEstimate, Estimates
      <3>3. Routed(h)'
        BY <3>1 DEF Estimates, Routed
      <3> QED BY <1>1, <1>9, <3>1, <3>2, <3>3, EstimatesFollow, OthersStay DEF ServerStep, Routed
    <2> QED BY <2>1, <2>2
  <1>10. ASSUME NEW h \in Handlers, CheckUser(h) PROVE Estimates'
    <2>1. CASE Refuse(h)
      BY <1>6, <1>10, <2>1 DEF ServerStep
    <2>2. CASE ~Refuse(h)
      <3>1. pc[h] = "user" /\ pc'[h] = "call" /\ task'[h].user = task[h].user /\ today' = today
        <4>1. [task[h] EXCEPT !.window = 0, !.seen = 0].user = task[h].user
          BY <1>2 DEF Task
        <4> QED BY <1>1, <1>10, <2>2, <4>1 DEF TypeOK, CheckUser, Goto
      <3>2. task[h].user # None
        BY <3>1 DEF Estimates, Routed
      <3>3. ~Visitor(h)'
        BY <3>1, <3>2 DEF Visitor
      <3> QED BY <1>1, <1>10, <3>1, <3>3, EstimatesFollow, OthersStay DEF ServerStep, Routed
    <2> QED BY <2>1, <2>2
  <1>11. ASSUME NEW h \in Handlers, Reserve(h) PROVE Estimates'
    <2>1. /\ pc[h] = "reserve" /\ pc'[h] = "call" /\ today' = today
          /\ task'[h] = [task[h] EXCEPT !.window = month, !.seen = 0]
      BY <1>1, <1>11 DEF TypeOK, Reserve, Goto
    <2>2. /\ task'[h].user = task[h].user /\ task'[h].model = task[h].model
          /\ task'[h].est = task[h].est /\ task'[h].cost = task[h].cost
          /\ task'[h].last = task[h].last /\ task'[h].window = month
      BY <1>2, <2>1 DEF Task
    <2>3. Visitor(h)' => WithinEstimate(h)'
      BY <2>1, <2>2, <1>m DEF Visitor, WithinEstimate, Estimates
    <2> QED BY <1>1, <1>11, <2>1, <2>3, EstimatesFollow, OthersStay DEF ServerStep, Routed
  <1>12. ASSUME NEW h \in Handlers, NEW t \in Task, pc[h] = "call", AttemptOver(h, t),
                today' = today, t.user = task[h].user, t.est = task[h].est,
                t.model = task[h].model, t.window = task[h].window, t.last = task[h].last,
                \A g \in Handlers \ {h} : pc'[g] = pc[g] /\ task'[g] = task[g],
                Visitor(h) => t.cost <= task[h].cost + TwiceEstimated
         PROVE  Estimates'
    <2>1. /\ \/ pc'[h] = "call" /\ task'[h].last /\ ~t.last
             \/ pc'[h] = "settle"
          /\ task'[h].user = t.user /\ task'[h].est = t.est /\ task'[h].cost = t.cost
          /\ task'[h].model = t.model /\ task'[h].window = t.window
      BY <1>1, <1>12, AttemptFields
    <2>2. PICK e \in Nat : e = TwiceEstimated /\ PublicEstimate(ServerModel) = 2 * e
      BY EstimateOfTwo
    <2>3. ASSUME Visitor(h) PROVE WithinEstimate(h)'
      <3>1. WithinEstimate(h) /\ task[h].cost \in Nat /\ t.cost \in Nat
        BY <1>2, <2>3 DEF Estimates, Task
      <3>2. /\ task[h].est = 2 * e /\ task[h].model = ServerModel /\ task[h].window <= month
            /\ task[h].cost <= (IF task[h].last THEN e ELSE 0)
        BY <1>12, <2>2, <3>1 DEF WithinEstimate
      <3>3. t.cost <= task[h].cost + e
        BY <1>12, <2>2, <2>3
      <3>4. t.cost <= 2 * e /\ (~task[h].last => t.cost <= e)
        BY <3>1, <3>2, <3>3
      <3> QED BY <1>12, <1>m, <2>1, <2>2, <3>2, <3>4 DEF WithinEstimate
    <2>4. Visitor(h)' => Visitor(h)
      BY <1>12, <2>1 DEF Visitor
    <2> QED BY <1>12, <2>1, <2>3, <2>4, EstimatesFollow DEF Routed
  <1>13. ASSUME NEW h \in Handlers, NEW n \in Tokens, Answer(h, n) PROVE Estimates'
    <2>1. PICK c \in Nat : c = PricedUsage(task[h].model, n)
      BY PricesNat, SpendAssumptions
    <2>2. pc[h] = "call" /\ today' = today
      BY <1>13 DEF Answer
    <2>3. PICK t \in Task :
             /\ AttemptOver(h, t) /\ t.user = task[h].user /\ t.est = task[h].est
             /\ t.model = task[h].model /\ t.window = task[h].window /\ t.last = task[h].last
             /\ t.cost = task[h].cost + c
      BY <1>1, <1>13, <2>1, AnsweredTask
    <2>4. Visitor(h) => c <= TwiceEstimated
      BY <2>1, AttemptIsEstimated DEF Estimates, WithinEstimate
    <2>5. TwiceEstimated \in Nat /\ task[h].cost \in Nat
      BY <1>2, EstimateOfTwo DEF Task
    <2>6. Visitor(h) => t.cost <= task[h].cost + TwiceEstimated
      BY <2>3, <2>4, <2>5
    <2> QED BY <1>1, <1>12, <1>13, <2>2, <2>3, <2>6, OthersStay
  <1>14. ASSUME NEW h \in Handlers, NoAnswer(h) PROVE Estimates'
    <2>1. pc[h] = "call" /\ AttemptOver(h, task[h]) /\ today' = today
      BY <1>14 DEF NoAnswer
    <2>2. task[h] \in Task /\ task[h].cost \in Nat /\ TwiceEstimated \in Nat
      BY <1>2, EstimateOfTwo DEF Task
    <2>3. task[h].cost <= task[h].cost + TwiceEstimated
      BY <2>2
    <2> QED BY <1>1, <1>12, <1>14, <2>1, <2>2, <2>3, OthersStay
  <1>15. ASSUME NEW h \in Handlers, Settle(h) \/ Record(h) \/ CommitFails(h) PROVE Estimates'
    <2>1. Finish(h) /\ today' = today
      BY <1>15 DEF Settle, Record, CommitFails, Refuse
    <2> QED BY <1>1, <1>5, <1>15, <2>1, RefusedIsIdle DEF ServerStep
  <1>16. ASSUME NEW u \in Accounts, DeleteAccount(u) PROVE Estimates'
    BY <1>16 DEF DeleteAccount, Estimates, Routed, Visitor, WithinEstimate, month
  <1>17. CASE Crash
    BY <1>17 DEF Crash, Estimates, Routed, Visitor
  <1>18. CASE NextDay
    <2>1. month \in Nat /\ month' \in Nat /\ month <= month'
      BY <1>1, <1>18, MonthsPass
    <2>2. \A h \in Handlers : task[h].window \in Nat
      BY <1>2, SpendAssumptions DEF Task, Months
    <2>3. pc' = pc /\ task' = task
      BY <1>18 DEF NextDay
    <2>4. ASSUME NEW h \in Handlers PROVE Routed(h)' /\ (Visitor(h)' => WithinEstimate(h)')
      <3>1. Routed(h) /\ (Visitor(h) => WithinEstimate(h)) /\ task[h].window \in Nat
        BY <2>2 DEF Estimates
      <3>2. task[h].window <= month => task[h].window <= month'
        BY <2>1, <3>1
      <3> QED BY <2>3, <3>1, <3>2 DEF Routed, Visitor, WithinEstimate
    <2> QED BY <2>4 DEF Estimates
  <1>19. CASE UNCHANGED vars
    BY <1>19 DEF vars, Estimates, Routed, Visitor, WithinEstimate, month
  <1> QED
    BY <1>3, <1>4, <1>7, <1>8, <1>9, <1>10, <1>11, <1>13, <1>14, <1>15, <1>16, <1>17, <1>18,
       <1>19
    DEF Next, ServerStep

\* A row changes the sums of its month and the months before.
LEMMA AddSums ==
    ASSUME NEW since \in Sums, NEW m \in Months, NEW c \in Int, NEW w \in Months
    PROVE  /\ w <= m => Add(since, m, c)[w] = since[w] + c
           /\ m < w => Add(since, m, c)[w] = since[w]
           /\ Add(since, m, c)[0] = since[0] + c
  BY SpendAssumptions DEF Add, Sums, Months

\* A step that touches neither the ledger nor a visitor's reservation.
LEMMA QuietBacked ==
    ASSUME TypeOK, TypeOK', Estimates, Estimates', AnyLimitConfigured, Backed,
           NEW h \in Handlers,
           \A g \in Handlers \ {h} : pc'[g] = pc[g] /\ task'[g] = task[g],
           UNCHANGED <<publicSince, reported>>, ~Calling(h)'
    PROVE  Backed'
  <1>1. TermsAreNat
    BY TermsNat
  <1>2. \A w \in Months : publicSince[w] \in Int
    BY DEF TypeOK, Sums
  <1>3. 0 \in Months /\ reported \in Int
    BY SpendAssumptions DEF Months, TypeOK
  <1>4. Headroom'[h] = 0 /\ \A w \in Months : ReservedSince(w)'[h] = 0
    BY DEF Headroom, ReservedSince
  <1>5. Headroom'[h] - Headroom[h] <= (publicSince'[0] - reported') - (publicSince[0] - reported)
    <2>1. PICK x \in Nat : x = Headroom[h]
      BY <1>1 DEF TermsAreNat
    <2>2. PICK p \in Int : p = publicSince[0] /\ p = publicSince'[0]
      BY <1>2, <1>3
    <2>3. PICK q \in Int : q = reported /\ q = reported'
      BY <1>3
    <2> QED BY <1>4, <2>1, <2>2, <2>3
  <1>6. ASSUME NEW w \in Months
        PROVE  ReservedSince(w)'[h] - ReservedSince(w)[h] <= publicSince'[w] - publicSince[w]
    <2>1. PICK x \in Nat : x = ReservedSince(w)[h]
      BY <1>1 DEF TermsAreNat
    <2>2. PICK p \in Int : p = publicSince[w] /\ p = publicSince'[w]
      BY <1>2
    <2> QED BY <1>4, <2>1, <2>2
  <1> QED BY <1>5, <1>6, BackedFollows

\* Before its reservation a visitor's call owes nothing; reserving adds as much
\* to the ledger as to what is open.
LEMMA ReserveBacked ==
    ASSUME TypeOK, TypeOK', Estimates, Estimates', AnyLimitConfigured, Backed,
           NEW h \in Handlers, Reserve(h)
    PROVE  Backed'
  <1>1. month \in Months /\ 0 \in Months /\ publicSince \in Sums /\ reported \in Nat
        /\ publicSince' \in Sums
    BY MonthType, SpendAssumptions DEF TypeOK, Months
  <1>2. /\ pc[h] = "reserve" /\ pc'[h] = "call" /\ reported' = reported
        /\ publicSince' = Add(publicSince, month, task[h].est)
        /\ task'[h] = [task[h] EXCEPT !.window = month, !.seen = 0]
    BY DEF TypeOK, Reserve, Goto
  <1>3. task[h] \in Task /\ task[h].est \in Nat
    BY DEF TypeOK, Task
  <1>4. /\ task'[h].user = None /\ task'[h].est = task[h].est /\ task'[h].cost = 0
        /\ task'[h].window = month
    BY <1>2, <1>3 DEF Task, Estimates, Routed, Visitor, WithinEstimate
  <1>5. ~Calling(h) /\ Calling(h)'
    BY <1>2, <1>4 DEF Calling, Visitor
  <1>6. Headroom[h] = 0 /\ Headroom'[h] = task[h].est
    BY <1>3, <1>4, <1>5 DEF Headroom
  <1>7. Headroom'[h] - Headroom[h] <= (publicSince'[0] - reported') - (publicSince[0] - reported)
    <2>1. publicSince'[0] = publicSince[0] + task[h].est
      BY <1>1, <1>2, <1>3, AddSums
    <2>2. publicSince[0] \in Int
      BY <1>1 DEF Sums
    <2> QED BY <1>1, <1>2, <1>3, <1>6, <2>1, <2>2
  <1>8. ASSUME NEW w \in Months
        PROVE  ReservedSince(w)'[h] - ReservedSince(w)[h] <= publicSince'[w] - publicSince[w]
    <2>1. publicSince[w] \in Int /\ w \in Int /\ month \in Int
      BY <1>1, SpendAssumptions DEF Sums, Months
    <2>2. ReservedSince(w)[h] = 0
      BY <1>5 DEF ReservedSince
    <2>3. CASE w <= month
      <3>1. ReservedSince(w)'[h] = task[h].est
        BY <1>4, <1>5, <2>3 DEF ReservedSince
      <3>2. publicSince'[w] = publicSince[w] + task[h].est
        BY <1>1, <1>2, <1>3, <2>3, AddSums
      <3> QED BY <1>3, <2>1, <2>2, <3>1, <3>2
    <2>4. CASE month < w
      <3>1. ReservedSince(w)'[h] = 0
        BY <1>4, <2>1, <2>4 DEF ReservedSince
      <3>2. publicSince'[w] = publicSince[w]
        BY <1>1, <1>2, <1>3, <2>4, AddSums
      <3> QED BY <2>1, <2>2, <3>1, <3>2
    <2> QED BY <2>1, <2>3, <2>4
  <1> QED BY <1>7, <1>8, BackedFollows, OthersStay DEF ServerStep

\* Settling frees the reservation and leaves at least what was reported.
LEMMA SettleBacked ==
    ASSUME TypeOK, TypeOK', Estimates, Estimates', AnyLimitConfigured, Backed,
           NEW h \in Handlers, Settle(h)
    PROVE  Backed'
  <1>1. 0 \in Months /\ publicSince \in Sums /\ reported \in Nat /\ task[h].window \in Months
    BY SpendAssumptions DEF TypeOK, Months, Task
  <1>2. PICK e \in Nat : e = task[h].est
    BY DEF TypeOK, Task
  <1>3. PICK c \in Nat : c = task[h].cost
    BY DEF TypeOK, Task
  <1>4. PICK k \in Nat : k = SettledCost(task[h]) /\ c <= k
    BY <1>2, <1>3 DEF SettledCost
  <1>5. /\ Calling(h) /\ pc'[h] = "idle" /\ reported' = reported
        /\ publicSince' = Add(publicSince, task[h].window, k - e)
    BY <1>2, <1>4, RefusedIsIdle DEF Settle, Calling, Visitor
  <1>6. ~Calling(h)'
    BY <1>5 DEF Calling, Visitor
  <1>7. Headroom'[h] - Headroom[h] <= (publicSince'[0] - reported') - (publicSince[0] - reported)
    <2>1. publicSince'[0] = publicSince[0] + (k - e)
      BY <1>1, <1>5, AddSums
    <2>2. PICK p \in Int : p = publicSince[0]
      BY <1>1 DEF Sums
    <2>3. Headroom[h] = e - c /\ Headroom'[h] = 0
      BY <1>2, <1>3, <1>5, <1>6 DEF Headroom
    <2> QED BY <1>1, <1>4, <1>5, <2>1, <2>2, <2>3
  <1>8. ASSUME NEW w \in Months
        PROVE  ReservedSince(w)'[h] - ReservedSince(w)[h] <= publicSince'[w] - publicSince[w]
    <2>1. PICK p \in Int : p = publicSince[w]
      BY <1>1 DEF Sums
    <2>2. w \in Int /\ task[h].window \in Int /\ ReservedSince(w)'[h] = 0
      BY <1>1, <1>6, SpendAssumptions DEF Months, ReservedSince
    <2>3. CASE w <= task[h].window
      <3>1. publicSince'[w] = p + (k - e) /\ ReservedSince(w)[h] = e
        BY <1>1, <1>2, <1>5, <2>1, <2>3, AddSums DEF ReservedSince
      <3> QED BY <2>1, <2>2, <3>1
    <2>4. CASE task[h].window < w
      <3>1. publicSince'[w] = p /\ ReservedSince(w)[h] = 0
        BY <1>1, <1>5, <2>1, <2>2, <2>4, AddSums DEF ReservedSince
      <3> QED BY <2>1, <2>2, <3>1
    <2> QED BY <2>2, <2>3, <2>4
  <1> QED BY <1>7, <1>8, BackedFollows, OthersStay DEF ServerStep

\* An attempt moves what it reports from the headroom to the reported cost.
LEMMA AttemptBacked ==
    ASSUME TypeOK, TypeOK', Estimates, Estimates', AnyLimitConfigured, Backed,
           NEW h \in Handlers, NEW c \in Nat, pc[h] = "call", pc'[h] \in {"call", "settle"},
           \A g \in Handlers \ {h} : pc'[g] = pc[g] /\ task'[g] = task[g],
           task'[h].user = task[h].user, task'[h].est = task[h].est,
           task'[h].window = task[h].window, task'[h].cost = task[h].cost + c,
           publicSince' = publicSince,
           reported' = IF task[h].user = None THEN reported + c ELSE reported
    PROVE  Backed'
  <1>1. 0 \in Months /\ publicSince \in Sums /\ reported \in Nat
    BY SpendAssumptions DEF TypeOK, Months
  <1>2. CASE task[h].user # None
    <2>1. ~Calling(h)' /\ reported' = reported
      BY <1>2 DEF Calling, Visitor
    <2> QED BY <2>1, QuietBacked
  <1>3. CASE task[h].user = None
    <2>1. Calling(h) /\ Calling(h)' /\ reported' = reported + c
      BY <1>3 DEF Calling, Visitor
    <2>2. PICK e \in Nat : e = task[h].est
      BY DEF TypeOK, Task
    <2>3. PICK k \in Nat : k = task[h].cost
      BY DEF TypeOK, Task
    <2>4. Headroom[h] = e - k /\ Headroom'[h] = e - (k + c)
      BY <2>1, <2>2, <2>3 DEF Headroom
    <2>5. PICK p \in Int : p = publicSince[0]
      BY <1>1 DEF Sums
    <2>6. Headroom'[h] - Headroom[h]
            <= (publicSince'[0] - reported') - (publicSince[0] - reported)
      BY <1>1, <2>1, <2>4, <2>5
    <2>7. ASSUME NEW w \in Months
          PROVE  ReservedSince(w)'[h] - ReservedSince(w)[h] <= publicSince'[w] - publicSince[w]
      <3>1. PICK q \in Int : q = publicSince[w]
        BY <1>1 DEF Sums
      <3>2. PICK x \in Nat : x = ReservedSince(w)[h] /\ x = ReservedSince(w)'[h]
        BY <2>1, <2>2 DEF ReservedSince
      <3> QED BY <3>1, <3>2
    <2> QED BY <2>6, <2>7, BackedFollows
  <1> QED BY <1>2, <1>3

\* One step keeps the ledger backing the calls that are out.
LEMMA BackedStep ==
    ASSUME TypeOK, TypeOK', Estimates, Estimates', AnyLimitConfigured, Backed, [Next]_vars
    PROVE  Backed'
  <1>0. 0 \in Months /\ publicSince \in Sums /\ reported \in Nat
    BY SpendAssumptions DEF TypeOK, Months
  <1>1. ASSUME NEW h \in Handlers,
               \/ Visit(h) \/ Acquire(h) \/ CountCalls(h) \/ SumBilled(h) \/ CheckGlobal(h)
               \/ CheckPublic(h) \/ CommitFails(h) \/ Record(h)
               \/ \E u \in Accounts, m \in Models : Ask(h, u, m)
        PROVE  Backed'
    <2>1. UNCHANGED <<publicSince, reported>>
      BY <1>1 DEF Visit, Acquire, CountCalls, SumBilled, CheckGlobal, CheckPublic, CommitFails,
                  Record, Ask, Refuse, ledgers
    <2>2. ~Calling(h)'
      BY <1>1, RefusedIsIdle
      DEF TypeOK, Visit, Acquire, CountCalls, SumBilled, CheckGlobal, CheckPublic, CommitFails,
          Record, Ask, Refuse, Goto, Calling, Visitor
    <2> QED BY <1>1, <2>1, <2>2, QuietBacked, OthersStay DEF ServerStep
  <1>2. ASSUME NEW h \in Handlers, CheckUser(h) PROVE Backed'
    <2>1. UNCHANGED <<publicSince, reported>>
      BY <1>2 DEF CheckUser, Refuse, ledgers
    <2>2. ~Calling(h)'
      <3>1. CASE Refuse(h)
        BY <3>1, RefusedIsIdle DEF Refuse, Calling, Visitor
      <3>2. CASE ~Refuse(h)
        <4>1. [task[h] EXCEPT !.window = 0, !.seen = 0].user = task[h].user
          BY DEF TypeOK, Task
        <4>2. task'[h].user = task[h].user /\ pc[h] = "user"
          BY <1>2, <3>2, <4>1 DEF TypeOK, CheckUser
        <4> QED BY <4>2 DEF Estimates, Routed, Calling, Visitor
      <3> QED BY <3>1, <3>2
    <2> QED BY <1>2, <2>1, <2>2, QuietBacked, OthersStay DEF ServerStep
  <1>3. ASSUME NEW h \in Handlers, NEW n \in Tokens, Answer(h, n) PROVE Backed'
    <2>1. PICK c \in Nat : c = PricedUsage(task[h].model, n)
      BY PricesNat, SpendAssumptions
    <2>2. /\ pc[h] = "call" /\ publicSince' = publicSince
          /\ reported' = IF task[h].user = None THEN reported + c ELSE reported
      BY <1>3, <2>1 DEF Answer, ledgers
    <2>3. PICK t \in Task :
             /\ AttemptOver(h, t) /\ t.user = task[h].user /\ t.est = task[h].est
             /\ t.window = task[h].window /\ t.cost = task[h].cost + c
      BY <1>3, <2>1, AnsweredTask
    <2> QED BY <1>3, <2>2, <2>3, AttemptFields, AttemptBacked, OthersStay
  <1>4. ASSUME NEW h \in Handlers, NoAnswer(h) PROVE Backed'
    <2>1. /\ pc[h] = "call" /\ AttemptOver(h, task[h]) /\ publicSince' = publicSince
          /\ reported' = reported /\ task[h] \in Task
      BY <1>4 DEF NoAnswer, ledgers, TypeOK
    <2>2. /\ pc'[h] \in {"call", "settle"} /\ task'[h].user = task[h].user
          /\ task'[h].est = task[h].est /\ task'[h].window = task[h].window
          /\ task'[h].cost = task[h].cost
      BY <2>1, AttemptFields
    <2>3. 0 \in Nat /\ task[h].cost = task[h].cost + 0 /\ reported = reported + 0
      BY <1>0, <2>1 DEF Task
    <2> QED BY <1>4, <2>1, <2>2, <2>3, AttemptBacked, OthersStay
  <1>5. ASSUME NEW u \in Accounts, DeleteAccount(u) PROVE Backed'
    BY <1>5 DEF DeleteAccount, Backed, ReservedSince, Headroom, Calling, Visitor
  <1>6. CASE Crash
    <2>1. \A h \in Handlers : ~Calling(h)'
      BY <1>6 DEF Crash, Calling, Visitor
    <2>2. /\ \A h \in Handlers : Headroom'[h] = 0
          /\ \A w \in Months : \A h \in Handlers : ReservedSince(w)'[h] = 0
      BY <2>1 DEF Headroom, ReservedSince
    <2>3. UNCHANGED <<publicSince, reported>>
      BY <1>6 DEF Crash, ledgers
    <2>4. PICK q \in Int : q = publicSince[0] - reported
      BY <1>0 DEF Sums
    <2>5. 0 <= q
      BY <2>4, BoundIsNat DEF Backed
    <2>6. AtMost(Headroom, publicSince[0] - reported)'
      BY <2>2, <2>3, <2>4, <2>5, NothingAtMost
    <2>7. ASSUME NEW w \in Months PROVE AtMost(ReservedSince(w), publicSince[w])'
      <3>1. PICK p \in Int : p = publicSince[w]
        BY <1>0 DEF Sums
      <3>2. 0 <= p
        BY <3>1, BoundIsNat DEF Backed
      <3> QED BY <2>2, <2>3, <3>1, <3>2, NothingAtMost
    <2> QED BY <2>6, <2>7 DEF Backed
  <1>7. CASE NextDay \/ UNCHANGED vars
    <2>1. UNCHANGED <<pc, task, publicSince, reported>>
      BY <1>7 DEF NextDay, vars, ledgers
    <2> QED BY <2>1 DEF Backed, ReservedSince, Headroom, Calling, Visitor
  <1> QED
    BY <1>1, <1>2, <1>3, <1>4, <1>5, <1>6, <1>7, SettleBacked, ReserveBacked DEF Next, ServerStep

\* A step that adds no row keeps the ceiling.
LEMMA CeilingKept ==
    ASSUME TypeOK, TypeOK', UnderCeiling, PublicLimit \in Nat, today' = today,
           \A w \in Months : publicSince'[w] <= publicSince[w],
           \A g \in Handlers : Fits(g)'
    PROVE  UnderCeiling'
  <1>1. month' = month /\ month \in Months
    BY MonthType DEF month, TypeOK
  <1>2. \A w \in Months : publicSince[w] \in Int /\ publicSince'[w] \in Int
    BY DEF TypeOK, Sums
  <1>3. publicSince'[month] <= PublicLimit
    BY <1>1, <1>2 DEF UnderCeiling
  <1>4. \A w \in Months : month < w => publicSince'[w] <= 0
    BY <1>2 DEF UnderCeiling
  <1> QED BY <1>1, <1>3, <1>4 DEF UnderCeiling

\* What fits still fits when nothing is added.
LEMMA FitsKept ==
    ASSUME TypeOK, TypeOK', PublicLimit \in Nat, today' = today, NEW g \in Handlers, Fits(g),
           pc'[g] = pc[g], task'[g] = task[g],
           \A w \in Months : publicSince'[w] <= publicSince[w]
    PROVE  Fits(g)'
  <1>1. month' = month /\ month \in Months
    BY MonthType DEF month, TypeOK
  <1>2. PICK p \in Int : p = publicSince[month]
    BY <1>1 DEF TypeOK, Sums
  <1>3. PICK q \in Int : q = publicSince'[month] /\ q <= p
    BY <1>1, <1>2 DEF TypeOK, Sums
  <1>4. PICK e \in Nat : e = task[g].est
    BY DEF TypeOK, Task
  <1>5. pc[g] = "reserve" => q + e < PublicLimit
    BY <1>2, <1>3, <1>4 DEF Fits
  <1>6. Visitor(g) /\ pc[g] \in {"global", "public"} /\ task[g].window < month => q <= 0
    BY <1>2, <1>3 DEF Fits
  <1> QED BY <1>1, <1>3, <1>4, <1>5, <1>6 DEF Fits, Visitor

\* One step keeps visitors' spend under the ceiling.
LEMMA CeilingStep ==
    ASSUME DailyInv, DailyInv', Estimates, Estimates', Backed, UnderCeiling,
           PublicLimit \in Nat, AnyLimitConfigured, [Next]_vars
    PROVE  UnderCeiling'
  <1>1. TypeOK /\ TypeOK' /\ Admission /\ month \in Months /\ publicSince \in Sums
    BY MonthType DEF DailyInv, TypeOK
  <1>2. \A h \in Handlers : task[h].est \in Nat /\ task[h].window \in Months
    BY <1>1 DEF TypeOK, Task
  <1>3. \A w \in Months : publicSince[w] \in Int /\ 0 <= publicSince[w] /\ w \in Int
    <2>1. ASSUME NEW w \in Months PROVE publicSince[w] \in Int /\ w \in Int
      BY <1>1, SpendAssumptions DEF Sums, Months
    <2>2. ASSUME NEW w \in Months PROVE AtMost(ReservedSince(w), publicSince[w])
      BY DEF Backed
    <2>3. ASSUME NEW w \in Months PROVE 0 <= publicSince[w]
      BY <2>1, <2>2, BoundIsNat
    <2> QED BY <2>1, <2>3
  <1>4. ASSUME NEW h \in Handlers, today' = today, Fits(h)',
               \A w \in Months : publicSince'[w] <= publicSince[w],
               \A g \in Handlers \ {h} : pc'[g] = pc[g] /\ task'[g] = task[g]
        PROVE  UnderCeiling'
    <2>1. \A g \in Handlers \ {h} : Fits(g)'
      BY <1>1, <1>4, FitsKept DEF UnderCeiling
    <2> QED BY <1>1, <1>4, <2>1, CeilingKept
  <1>5. publicSince' = publicSince => \A w \in Months : publicSince'[w] <= publicSince[w]
    BY <1>3
  <1>6. ASSUME NEW h \in Handlers,
               \/ Visit(h) \/ Acquire(h) \/ CountCalls(h) \/ CheckUser(h) \/ CommitFails(h)
               \/ Record(h) \/ NoAnswer(h)
               \/ \E u \in Accounts, m \in Models : Ask(h, u, m)
               \/ \E n \in Tokens : Answer(h, n)
        PROVE  UnderCeiling'
    <2>1. UNCHANGED <<publicSince, today>>
      BY <1>6 DEF Visit, Acquire, CountCalls, CommitFails, CheckUser, Record, Ask, Refuse,
                  Answer, NoAnswer, ledgers
    <2>2. pc'[h] \notin {"global", "public", "reserve"}
      BY <1>1, <1>6, RefusedIsIdle
      DEF TypeOK, Visit, Acquire, CountCalls, CommitFails, CheckUser, Record, Ask, Refuse,
          Answer, NoAnswer, AttemptOver, Goto
    <2> QED BY <1>1, <1>4, <1>5, <1>6, <2>1, <2>2, OthersStay DEF ServerStep, Fits
  <1>7. ASSUME NEW h \in Handlers, SumBilled(h) PROVE UnderCeiling'
    <2>1. UNCHANGED <<publicSince, today>> /\ pc'[h] = "global" /\ task'[h].window = month
      <3>1. [task[h] EXCEPT !.window = month, !.seen = billedSince[month]].window = month
        BY <1>1 DEF TypeOK, Task
      <3> QED BY <1>1, <1>7, <3>1 DEF TypeOK, SumBilled, Goto, ledgers
    <2>2. Fits(h)'
      BY <1>1, <1>3, <2>1 DEF Fits, month
    <2> QED BY <1>1, <1>4, <1>5, <1>7, <2>1, <2>2, OthersStay DEF ServerStep
  <1>8. ASSUME NEW h \in Handlers, CheckGlobal(h) PROVE UnderCeiling'
    <2>1. UNCHANGED <<publicSince, today>>
      BY <1>8 DEF CheckGlobal, Refuse, ledgers
    <2>2. \/ pc'[h] \in {"idle", "user"}
          \/ pc[h] = "global" /\ pc'[h] = "public" /\ task'[h] = task[h]
      BY <1>1, <1>8, RefusedIsIdle DEF TypeOK, CheckGlobal, Refuse, Goto
    <2>3. Fits(h)'
      BY <2>1, <2>2 DEF UnderCeiling, Fits, Visitor, month
    <2> QED BY <1>1, <1>4, <1>5, <1>8, <2>1, <2>3, OthersStay DEF ServerStep
  <1>9. ASSUME NEW h \in Handlers, CheckPublic(h) PROVE UnderCeiling'
    <2>1. UNCHANGED <<publicSince, today>>
      BY <1>9 DEF CheckPublic, Refuse, ledgers
    <2>2. Fits(h)'
      <3>1. CASE Refuse(h)
        BY <1>1, <3>1, RefusedIsIdle DEF Refuse, Fits
      <3>2. CASE ~Refuse(h)
        <4>1. /\ pc[h] = "public" /\ pc'[h] = "reserve" /\ task'[h] = task[h]
              /\ ~Exceeds(publicSince[task[h].window], task[h].est, PublicLimit)
          BY <1>1, <1>9, <3>2 DEF TypeOK, CheckPublic, Goto
        <4>2. Visitor(h) /\ WithinEstimate(h)
          BY <4>1 DEF Estimates, Routed, Visitor
        <4>3. PICK e \in Nat : e = task[h].est
          BY <1>2
        <4>4. PICK p \in Int : p = publicSince[task[h].window] /\ 0 <= p
          BY <1>2, <1>3
        <4>5. p + e < PublicLimit
          <5>1. PublicLimit # NoLimit
            BY SpendAssumptions
          <5>2. ~(p + e >= PublicLimit)
            BY <4>1, <4>3, <4>4, <5>1 DEF Exceeds
          <5> QED BY <5>2
        <4>6. publicSince[month] <= p
          <5>1. CASE task[h].window = month
            BY <1>1, <1>3, <4>4, <5>1
          <5>2. CASE task[h].window < month
            BY <1>1, <1>3, <4>1, <4>2, <4>4, <5>2 DEF UnderCeiling, Fits
          <5> QED BY <1>1, <1>2, <1>3, <4>1, <4>2, <5>1, <5>2 DEF WithinEstimate
        <4>7. publicSince[month] + e < PublicLimit
          BY <1>1, <1>3, <4>4, <4>5, <4>6
        <4> QED BY <2>1, <4>1, <4>3, <4>7 DEF Fits, month
      <3> QED BY <3>1, <3>2
    <2> QED BY <1>1, <1>4, <1>5, <1>9, <2>1, <2>2, OthersStay DEF ServerStep
  <1>10. ASSUME NEW h \in Handlers, Settle(h) PROVE UnderCeiling'
    <2>1. PICK d \in Int : d = SettledCost(task[h]) - task[h].est /\ d <= 0
      <3>1. Visitor(h) /\ pc[h] = "settle" /\ task[h].cost \in Nat
        BY <1>1, <1>10 DEF Settle, Visitor, TypeOK, Task
      <3>2. task[h].cost <= task[h].est
        BY <3>1 DEF Estimates, WithinEstimate
      <3> QED BY <1>2, <3>1, <3>2 DEF SettledCost
    <2>2. publicSince' = Add(publicSince, task[h].window, d) /\ today' = today /\ pc'[h] = "idle"
      BY <1>1, <1>10, <2>1, RefusedIsIdle DEF Settle
    <2>3. \A w \in Months : publicSince'[w] <= publicSince[w]
      BY <1>1, <1>2, <1>3, <2>1, <2>2, AddSums
    <2> QED BY <1>1, <1>4, <1>10, <2>2, <2>3, OthersStay DEF ServerStep, Fits
  <1>11. ASSUME NEW h \in Handlers, Reserve(h) PROVE UnderCeiling'
    <2>1. /\ pc[h] = "reserve" /\ pc'[h] = "call" /\ today' = today
          /\ publicSince' = Add(publicSince, month, task[h].est)
      BY <1>1, <1>11 DEF TypeOK, Reserve, Goto
    <2>2. publicSince[month] + task[h].est < PublicLimit
      BY <2>1 DEF UnderCeiling, Fits
    <2>3. month' = month /\ publicSince'[month] = publicSince[month] + task[h].est
      BY <1>1, <1>2, <1>3, <2>1, AddSums DEF month
    <2>4. publicSince'[month] <= PublicLimit
      BY <1>1, <1>2, <1>3, <2>2, <2>3
    <2>5. \A w \in Months : month < w => publicSince'[w] <= 0
      BY <1>1, <1>2, <2>1, AddSums DEF UnderCeiling
    <2>6. lock = h
      BY <1>1, <2>1 DEF Admission, Counted
    <2>7. \A g \in Handlers \ {h} : ~Counted(g) /\ pc'[g] = pc[g] /\ task'[g] = task[g]
      BY <1>1, <1>11, <2>6, OthersStay DEF Admission, ServerStep
    <2>8. \A g \in Handlers : Fits(g)'
      BY <2>1, <2>7 DEF Counted, Fits, Visitor
    <2> QED BY <2>3, <2>4, <2>5, <2>8 DEF UnderCeiling
  <1>12. ASSUME NEW u \in Accounts, DeleteAccount(u) PROVE UnderCeiling'
    BY <1>12 DEF DeleteAccount, UnderCeiling, Fits, Visitor, month
  <1>13. CASE Crash
    <2>1. \A g \in Handlers : Fits(g)'
      BY <1>13 DEF Crash, Fits
    <2> QED BY <1>1, <1>5, <1>13, <2>1, CeilingKept DEF Crash, ledgers
  <1>14. CASE NextDay
    <2>1. UNCHANGED <<publicSince, pc, task>>
      BY <1>14 DEF NextDay, ledgers
    <2>2. month \in Nat /\ month' \in Nat /\ month <= month' /\ month' \in Months
      BY <1>1, <1>14, MonthsPass, MonthType, SpendAssumptions DEF TypeOK, month, Days, Months
    <2>3. CASE month' = month
      BY <2>1, <2>3 DEF UnderCeiling, Fits, Visitor
    <2>4. CASE month < month'
      <3>1. publicSince[month'] <= 0 /\ publicSince[month] \in Int /\ 0 <= publicSince[month]
            /\ publicSince[month'] \in Int
        BY <1>1, <1>3, <2>2, <2>4 DEF UnderCeiling
      <3>2. \A w \in Months : month' < w => publicSince[w] <= 0
        BY <1>3, <2>2, <2>4 DEF UnderCeiling
      <3>3. ASSUME NEW g \in Handlers PROVE Fits(g)'
        <4>1. pc[g] = "reserve" => publicSince[month] + task[g].est < PublicLimit
          BY DEF UnderCeiling, Fits
        <4>2. pc[g] = "reserve" => publicSince[month'] + task[g].est < PublicLimit
          BY <1>2, <3>1, <4>1
        <4> QED BY <2>1, <3>1, <4>2 DEF Fits
      <3> QED BY <2>1, <3>1, <3>2, <3>3 DEF UnderCeiling
    <2> QED BY <2>2, <2>3, <2>4
  <1>15. CASE UNCHANGED vars
    BY <1>15 DEF vars, UnderCeiling, Fits, Visitor, month
  <1> QED
    BY <1>6, <1>7, <1>8, <1>9, <1>10, <1>11, <1>12, <1>13, <1>14, <1>15 DEF Next, ServerStep

\* The inductive invariant of the public ledger.
PublicInv ==
    /\ DailyInv
    /\ AnyLimitConfigured => Estimates /\ Backed
    /\ PublicLimit # NoLimit => UnderCeiling

LEMMA PublicLimitType == PublicLimit # NoLimit => PublicLimit \in Nat /\ AnyLimitConfigured
  BY SpendAssumptions DEF Limits, AnyLimitConfigured

LEMMA PublicInit == Init => PublicInv
  <1> SUFFICES ASSUME Init PROVE PublicInv
    OBVIOUS
  <1>1. DailyInv
    BY DailyInit
  <1>2. \A h \in Handlers : pc[h] = "idle"
    BY DEF Init
  <1>3. Estimates
    BY <1>2 DEF Estimates, Routed, Visitor
  <1>4. /\ \A h \in Handlers : Headroom[h] = 0
        /\ \A w \in Months : \A h \in Handlers : ReservedSince(w)[h] = 0
    BY <1>2 DEF Headroom, ReservedSince, Calling, Visitor
  <1>5. reported = 0 /\ \A w \in Months : publicSince[w] = 0
    BY DEF Init
  <1>6. Backed
    <2>1. publicSince[0] - reported = 0
      BY <1>5, SpendAssumptions DEF Months
    <2>2. AtMost(Headroom, 0)
      BY <1>4, NothingAtMost
    <2>3. ASSUME NEW w \in Months PROVE AtMost(ReservedSince(w), publicSince[w])
      BY <1>4, <1>5, NothingAtMost
    <2> QED BY <2>1, <2>2, <2>3 DEF Backed
  <1>7. ASSUME PublicLimit # NoLimit PROVE UnderCeiling
    <2>1. month \in Months
      BY <1>1, MonthType DEF DailyInv, TypeOK
    <2> QED BY PublicLimitType, <1>2, <1>5, <1>7, <2>1 DEF UnderCeiling, Fits
  <1> QED BY <1>1, <1>3, <1>6, <1>7 DEF PublicInv

LEMMA PublicStep == PublicInv /\ [Next]_vars => PublicInv'
  <1> SUFFICES ASSUME PublicInv, [Next]_vars PROVE PublicInv'
    OBVIOUS
  <1>1. DailyInv /\ DailyInv'
    BY DailyStep DEF PublicInv
  <1>2. ASSUME AnyLimitConfigured PROVE Estimates' /\ Backed'
    <2>1. Estimates /\ Backed
      BY <1>2 DEF PublicInv
    <2>2. Estimates'
      BY <1>1, <1>2, <2>1, EstimatesStep
    <2> QED BY <1>1, <1>2, <2>1, <2>2, BackedStep DEF DailyInv
  <1>3. ASSUME PublicLimit # NoLimit PROVE UnderCeiling'
    BY PublicLimitType, <1>1, <1>2, <1>3, CeilingStep DEF PublicInv
  <1> QED BY <1>1, <1>2, <1>3 DEF PublicInv, AnyLimitConfigured

LEMMA PublicInductive == Spec => []PublicInv
  BY PublicInit, PublicStep, PTL DEF Spec

\* Public spend of a month, reservations included, never passes
\* PUBLIC_MONTHLY_BUDGET_USD, for any number of threads, prices and calendar
\* (check_public and reserve_call under the admission lock, settle_call).
THEOREM PublicCapHolds == Spec => []PublicCap
  <1>1. PublicInv => PublicCap
    BY DEF PublicInv, PublicCap, UnderCeiling
  <1> QED BY <1>1, PublicInductive, PTL

\* With a ceiling configured, the public ledger covers whatever the provider
\* reported for visitors' calls, at every moment (reserve_call, settle_call).
THEOREM LedgerCovers == Spec => []LedgerCoversReported
  <1>1. PublicInv => LedgerCoversReported
    <2> SUFFICES ASSUME PublicInv, AnyLimitConfigured PROVE reported <= publicSince[0]
      BY DEF LedgerCoversReported
    <2>1. reported \in Nat /\ publicSince[0] \in Int
      BY SpendAssumptions DEF PublicInv, DailyInv, TypeOK, Sums, Months
    <2>2. PICK q \in Int : q = publicSince[0] - reported
      BY <2>1
    <2>3. 0 <= q
      BY <2>2, BoundIsNat DEF PublicInv, Backed
    <2> QED BY <2>1, <2>2, <2>3
  <1> QED BY <1>1, PublicInductive, PTL

-----------------------------------------------------------------------------
(* More about sums                                                         *)

\* Induction along a list: the least index outside T would have a predecessor
\* in T.
LEMMA PrefixInduction ==
    ASSUME NEW n \in Nat, NEW T, T \subseteq 0..n, 0 \in T,
           \A i \in 1..n : i - 1 \in T => i \in T
    PROVE  0..n \subseteq T
  <1> SUFFICES ASSUME (0..n) \ T # {} PROVE FALSE
    OBVIOUS
  <1> DEFINE R == StrictSubsetOrdering(Nat)
             S == FiniteSubsetsOf(Nat)
             W == {0..i : i \in (0..n) \ T}
  <1>1. IsWellFoundedOn(R, S)
    BY FS_StrictSubsetOrderingWellFounded
  <1>2. W \subseteq S /\ W # {}
    <2>1. \A i \in 0..n : 0..i \subseteq Nat /\ IsFiniteSet(0..i)
      BY FS_Interval
    <2> QED BY <2>1 DEF FiniteSubsetsOf
  <1> HIDE DEF W, R, S
  <1>3. PICK x \in W : \A y \in W : ~ (<<y, x>> \in R)
    BY <1>1, <1>2, WFMin
  <1>4. PICK i \in (0..n) \ T : x = 0..i
    BY <1>3 DEF W
  <1>5. i \in 1..n /\ i - 1 \in (0..n) \ T
    <2>1. i # 0
      BY <1>4
    <2>2. i \in 1..n /\ i - 1 \in 0..n
      BY <2>1
    <2> QED BY <2>2
  <1>6. 0..(i - 1) \in W
    BY <1>5 DEF W
  <1>7. <<0..(i - 1), 0..i>> \in R
    <2>1. 0..(i - 1) \subseteq 0..i /\ 0..i \subseteq Nat /\ i \in 0..i /\ i \notin 0..(i - 1)
      BY <1>5
    <2> QED BY <2>1 DEF R, StrictSubsetOrdering
  <1> QED BY <1>3, <1>4, <1>6, <1>7

\* Numbers up to m have a greatest.
LEMMA GreatestExists ==
    ASSUME NEW m \in Nat, NEW S, S \subseteq 0..m, S # {}
    PROVE  \E c \in S : \A d \in S : d <= c
  <1> SUFFICES ASSUME \A c \in S : \E d \in S : ~(d <= c) PROVE FALSE
    OBVIOUS
  <1> DEFINE T == {i \in 0..m : \A c \in S : c <= m - i}
  <1>1. 0 \in T
    OBVIOUS
  <1>2. ASSUME NEW i \in 1..m, i - 1 \in T PROVE i \in T
    <2>1. \A c \in S : c <= m - (i - 1) /\ c \in Nat
      BY <1>2
    <2>2. m - (i - 1) \notin S
      BY <2>1
    <2>3. \A c \in S : c <= m - i
      BY <2>1, <2>2
    <2> QED BY <2>3
  <1>3. m \in T
    <2> HIDE DEF T
    <2>1. T \subseteq 0..m
      BY DEF T
    <2>2. 0..m \subseteq T
      BY <1>1, <1>2, <2>1, PrefixInduction
    <2> QED BY <2>2
  <1>4. \A c \in S : c = 0
    <2>1. \A c \in S : c <= m - m /\ c \in Nat
      BY <1>3
    <2> QED BY <2>1
  <1> HIDE DEF T
  <1>5. PICK c \in S : \A d \in S : d = c
    BY <1>4
  <1>6. PICK d \in S : ~(d <= c)
    OBVIOUS
  <1> QED BY <1>4, <1>5, <1>6

\* Terms can be summed.
LEMMA SumExists ==
    ASSUME NEW n, NEW e, Lists(n, e), NEW g, \A x \in Handlers : g[x] \in Nat
    PROVE  \E t \in Nat : SumsTo(n, e, g, t)
  <1> DEFINE Partial(k, s) == /\ s \in [0..k -> Nat] /\ s[0] = 0
                              /\ \A i \in 1..k : s[i] = s[i - 1] + g[e[i]]
                              /\ \A i, j \in 0..k : i <= j => s[i] <= s[j]
             T == {k \in 0..n : \E s : Partial(k, s)}
  <1>1. n \in Nat /\ \A i \in 1..n : g[e[i]] \in Nat
    BY DEF Lists
  <1>2. 0 \in T
    <2>1. PICK s : s = [i \in 0..0 |-> 0]
      OBVIOUS
    <2>2. s \in [0..0 -> Nat] /\ s[0] = 0 /\ \A i \in 0..0 : s[i] = 0
      BY <2>1
    <2>3. Partial(0, s)
      BY <2>2
    <2> QED BY <1>1, <2>3
  <1>3. ASSUME NEW k \in 1..n, k - 1 \in T PROVE k \in T
    <2>1. PICK s : Partial(k - 1, s)
      BY <1>3
    <2>2. PICK a \in Nat : a = g[e[k]]
      BY <1>1
    <2>3. PICK r : r = [i \in 0..k |-> IF i < k THEN s[i] ELSE s[k - 1] + a]
      OBVIOUS
    <2>4. k \in Nat /\ k - 1 \in 0..(k - 1) /\ s[k - 1] \in Nat
          /\ \A i \in 0..(k - 1) : s[i] \in Nat /\ s[i] <= s[k - 1]
      BY <2>1
    <2>5. \A i \in 0..k : i < k => i \in 0..(k - 1)
      BY <2>4
    <2>6. \A i \in 0..k : r[i] = IF i < k THEN s[i] ELSE s[k - 1] + a
      BY <2>3
    <2>7. r \in [0..k -> Nat]
      BY <2>2, <2>3, <2>4, <2>5
    <2>8. r[0] = 0
      BY <2>1, <2>4, <2>6
    <2>9. ASSUME NEW i \in 1..k PROVE r[i] = r[i - 1] + g[e[i]]
      <3>1. i \in 0..k /\ i - 1 \in 0..k /\ i - 1 < k
        BY <2>4
      <3>2. CASE i < k
        <4>1. i \in 1..(k - 1)
          BY <2>4, <3>2
        <4> QED BY <2>1, <2>6, <3>1, <3>2, <4>1
      <3>3. CASE i = k
        BY <2>2, <2>4, <2>6, <3>1, <3>3
      <3> QED BY <2>4, <3>2, <3>3
    <2>10. ASSUME NEW i \in 0..k, NEW j \in 0..k, i <= j PROVE r[i] <= r[j]
      <3>1. CASE j < k
        <4>1. i \in 0..(k - 1) /\ j \in 0..(k - 1) /\ i < k
          BY <2>4, <2>10, <3>1
        <4> QED BY <2>1, <2>6, <2>10, <3>1, <4>1
      <3>2. CASE i < k /\ ~(j < k)
        <4>1. r[i] = s[i] /\ s[i] <= s[k - 1] /\ s[i] \in Nat
          BY <2>4, <2>5, <2>6, <3>2
        <4>2. r[j] = s[k - 1] + a
          BY <2>6, <3>2
        <4> QED BY <2>2, <2>4, <4>1, <4>2
      <3>3. CASE ~(i < k) /\ ~(j < k)
        BY <2>2, <2>4, <2>6, <3>3
      <3>4. i < k \/ ~(j < k)
        BY <2>4, <2>10
      <3> QED BY <3>1, <3>2, <3>3, <3>4
    <2>11. Partial(k, r)
      BY <2>7, <2>8, <2>9, <2>10
    <2>12. k \in 0..n
      BY <1>1
    <2> HIDE DEF Partial
    <2> QED BY <2>11, <2>12
  <1>4. n \in T
    <2> HIDE DEF T
    <2>1. T \subseteq 0..n
      BY DEF T
    <2>2. 0..n \subseteq T
      BY <1>1, <1>2, <1>3, <2>1, PrefixInduction
    <2> QED BY <1>1, <2>2
  <1>5. PICK s : Partial(n, s)
    BY <1>4
  <1>6. s[n] \in Nat
    BY <1>1, <1>5
  <1> QED BY <1>5, <1>6 DEF SumsTo

\* Smaller terms, smaller sum.
LEMMA SumMonotone ==
    ASSUME NEW n, NEW e, Lists(n, e),
           NEW f, NEW g, NEW a, NEW b, SumsTo(n, e, f, a), SumsTo(n, e, g, b),
           \A x \in Handlers : f[x] \in Nat /\ g[x] \in Nat /\ f[x] <= g[x]
    PROVE  a \in Nat /\ b \in Nat /\ a <= b
  <1>1. n \in Nat /\ \A i \in 1..n : f[e[i]] \in Nat /\ g[e[i]] \in Nat /\ f[e[i]] <= g[e[i]]
    BY DEF Lists
  <1>2. PICK s \in [0..n -> Nat] :
          s[0] = 0 /\ s[n] = a /\ \A i \in 1..n : s[i] = s[i - 1] + f[e[i]]
    BY DEF SumsTo
  <1>3. PICK r \in [0..n -> Nat] :
          r[0] = 0 /\ r[n] = b /\ \A i \in 1..n : r[i] = r[i - 1] + g[e[i]]
    BY DEF SumsTo
  <1> DEFINE T == {i \in 0..n : s[i] <= r[i]}
  <1>4. 0 \in T /\ n \in 0..n
    BY <1>1, <1>2, <1>3
  <1>5. ASSUME NEW i \in 1..n, i - 1 \in T PROVE i \in T
    <2>1. i \in 0..n /\ i - 1 \in 0..n
      BY <1>1
    <2>2. PICK x, y \in Nat : x = f[e[i]] /\ y = g[e[i]] /\ x <= y
      BY <1>1
    <2>3. PICK u, v \in Nat : u = s[i - 1] /\ v = r[i - 1] /\ u <= v
      BY <1>2, <1>3, <1>5, <2>1
    <2>4. s[i] = u + x /\ r[i] = v + y
      BY <1>2, <1>3, <2>2, <2>3
    <2>5. u + x <= v + y
      BY <2>2, <2>3
    <2> QED BY <2>1, <2>4, <2>5
  <1>6. n \in T
    <2> HIDE DEF T
    <2>1. T \subseteq 0..n
      BY DEF T
    <2>2. 0..n \subseteq T
      BY <1>1, <1>4, <1>5, <2>1, PrefixInduction
    <2> QED BY <1>4, <2>2
  <1> QED BY <1>2, <1>3, <1>4, <1>6

\* n equal terms.
LEMMA SumOfEqual ==
    ASSUME NEW n, NEW e, Lists(n, e), NEW d \in Nat, NEW g, \A x \in Handlers : g[x] = d
    PROVE  SumsTo(n, e, g, n * d)
  <1>1. n \in Nat /\ \A i \in 1..n : e[i] \in Handlers
    BY DEF Lists
  <1>2. PICK s : s = [i \in 0..n |-> i * d]
    OBVIOUS
  <1>3. \A i \in 0..n : i \in Nat /\ i * d \in Nat /\ s[i] = i * d
    BY <1>1, <1>2, ProductNat
  <1>4. s \in [0..n -> Nat] /\ s[0] = 0 /\ s[n] = n * d
    <2>1. 0 \in 0..n /\ n \in 0..n /\ 0 * d = 0
      BY <1>1
    <2> QED BY <1>2, <1>3, <2>1
  <1>5. ASSUME NEW i \in 1..n PROVE s[i] = s[i - 1] + g[e[i]]
    <2>1. i \in 0..n /\ i - 1 \in 0..n /\ g[e[i]] = d
      BY <1>1
    <2>2. i * d = (i - 1) * d + d
      BY <2>1
    <2> QED BY <1>3, <2>1, <2>2
  <1>6. ASSUME NEW i \in 0..n, NEW j \in 0..n, i <= j PROVE s[i] <= s[j]
    BY <1>3, <1>6, ProductMono
  <1> QED BY <1>4, <1>5, <1>6 DEF SumsTo

\* The sum of g over the threads is at least c.
AtLeast(g, c) == \E n, e, t : Lists(n, e) /\ SumsTo(n, e, g, t) /\ c <= t

\* Every sum is at least nothing.
LEMMA AtLeastNothing ==
    ASSUME NEW g, \A x \in Handlers : g[x] \in Nat, NEW c \in Int, c <= 0
    PROVE  AtLeast(g, c)
  <1>1. PICK n, e : Lists(n, e)
    BY ThreadsCanBeListed
  <1>2. PICK t \in Nat : SumsTo(n, e, g, t)
    BY <1>1, SumExists
  <1>3. c <= t
    BY <1>2
  <1> QED BY <1>1, <1>2, <1>3 DEF AtLeast

\* Larger terms, larger sum.
LEMMA AtLeastGrows ==
    ASSUME NEW g, NEW f, NEW c \in Int, NEW d \in Int, AtLeast(g, c), d <= c,
           \A x \in Handlers : g[x] \in Nat /\ f[x] \in Nat /\ g[x] <= f[x]
    PROVE  AtLeast(f, d)
  <1>1. PICK n, e, t : Lists(n, e) /\ SumsTo(n, e, g, t) /\ c <= t
    BY DEF AtLeast
  <1>2. PICK u \in Nat : SumsTo(n, e, f, u)
    BY <1>1, SumExists
  <1>3. t \in Nat /\ t <= u
    BY <1>1, <1>2, SumMonotone
  <1> QED BY <1>1, <1>2, <1>3 DEF AtLeast

\* One term falls, or the others rise, by no less than the bound moves.
LEMMA AtLeastMoves ==
    ASSUME NEW g, NEW f, NEW c \in Int, NEW d \in Int, AtLeast(g, c), NEW h \in Handlers,
           \A x \in Handlers : g[x] \in Nat /\ f[x] \in Nat,
           \A x \in Handlers \ {h} : g[x] <= f[x], d - c <= f[h] - g[h]
    PROVE  AtLeast(f, d)
  <1>1. PICK n, e, t : Lists(n, e) /\ SumsTo(n, e, g, t) /\ c <= t
    BY DEF AtLeast
  <1>2. PICK k : k = [x \in Handlers |-> IF x = h THEN f[h] ELSE g[x]]
    OBVIOUS
  <1>3. k[h] = f[h] /\ \A x \in Handlers \ {h} : k[x] = g[x]
    BY <1>2
  <1>4. t \in Nat /\ SumsTo(n, e, k, t - g[h] + k[h])
    BY <1>1, <1>3, SumChanges
  <1>5. d <= t - g[h] + k[h] /\ t - g[h] + k[h] \in Int
    <2>1. PICK a, b \in Nat : a = g[h] /\ b = f[h]
      OBVIOUS
    <2> QED BY <1>1, <1>3, <1>4, <2>1
  <1>6. AtLeast(k, t - g[h] + k[h])
    BY <1>1, <1>4, <1>5 DEF AtLeast
  <1>7. \A x \in Handlers : k[x] \in Nat /\ k[x] <= f[x]
    BY <1>3
  <1> QED BY <1>5, <1>6, <1>7, AtLeastGrows

\* No thread counts more than d.
LEMMA AtLeastBounded ==
    ASSUME NEW g, NEW c \in Int, AtLeast(g, c), NEW d \in Nat,
           \A x \in Handlers : g[x] \in Nat /\ g[x] <= d
    PROVE  c <= Cardinality(Handlers) * d
  <1>1. PICK n, e, t : Lists(n, e) /\ SumsTo(n, e, g, t) /\ c <= t
    BY DEF AtLeast
  <1>2. PICK k : k = [x \in Handlers |-> d]
    OBVIOUS
  <1>3. SumsTo(n, e, k, n * d)
    BY <1>1, <1>2, SumOfEqual
  <1>4. t \in Nat /\ n * d \in Nat /\ t <= n * d
    BY <1>1, <1>2, <1>3, SumMonotone
  <1>5. n = Cardinality(Handlers)
    BY <1>1 DEF Lists
  <1> QED BY <1>1, <1>4, <1>5
-----------------------------------------------------------------------------
(* What a call may cost                                                    *)

MaxUser == Dearest(UserCallCosts)
MaxCall == Dearest(UserCallCosts \cup {PublicEstimate(ServerModel)})

\* The most one attempt may be charged.
Attempt(m) == (IF EstTokens < AssumedTokens THEN AssumedTokens ELSE EstTokens) * RateOf(m)

LEMMA DearestIs ==
    ASSUME NEW m \in Nat, NEW S, S \subseteq 0..m, S # {}
    PROVE  Dearest(S) \in Nat /\ \A d \in S : d <= Dearest(S)
  <1>1. \E c \in S : \A d \in S : d <= c
    BY GreatestExists
  <1>2. Dearest(S) \in S /\ \A d \in S : d <= Dearest(S)
    BY <1>1 DEF Dearest
  <1>3. \A x \in S : x \in Nat
    OBVIOUS
  <1> QED BY <1>2, <1>3

\* The dearest calls are what they are called.
LEMMA Dearests ==
    /\ MaxUser \in Nat /\ MaxCall \in Nat
    /\ \A c \in UserCallCosts : c \in Nat /\ c <= MaxUser /\ c <= MaxCall
    /\ PublicEstimate(ServerModel) <= MaxCall
  <1> DEFINE Costs == {2 * t * r : t \in {EstTokens, AssumedTokens}, r \in {Rate, FallbackRate, 0}}
  <1>1. UserCallCosts \subseteq Costs /\ UserCallCosts # {}
    <2>1. \A m \in Models : RateOf(m) \in {Rate, FallbackRate, 0}
      BY DEF RateOf
    <2>2. UserCallCosts \subseteq Costs
      BY <2>1 DEF UserCallCosts
    <2>3. 2 * EstTokens * RateOf(ServerModel) \in UserCallCosts
      BY SpendAssumptions DEF UserCallCosts
    <2> QED BY <2>2, <2>3
  <1>2. PICK a, b, c, d, p \in Nat :
           /\ a = 2 * EstTokens * Rate /\ b = 2 * EstTokens * FallbackRate
           /\ c = 2 * AssumedTokens * Rate /\ d = 2 * AssumedTokens * FallbackRate
           /\ p = PublicEstimate(ServerModel)
    <2>1. PICK x, y, r, f \in Nat : /\ x = 2 * EstTokens /\ y = 2 * AssumedTokens
                                   /\ r = Rate /\ f = FallbackRate
      BY SpendAssumptions
    <2>2. x * r \in Nat /\ x * f \in Nat /\ y * r \in Nat /\ y * f \in Nat
      BY ProductNat
    <2>3. PublicEstimate(ServerModel) \in Nat
      BY PricesNat
    <2> QED BY <2>1, <2>2, <2>3
  <1>3. Costs \subseteq {a, b, c, d, 0}
    <2>1. 2 * EstTokens * 0 = 0 /\ 2 * AssumedTokens * 0 = 0
      BY SpendAssumptions
    <2> QED BY <1>2, <2>1
  <1> HIDE DEF Costs
  <1>4. PICK k \in Nat : k = a + b + c + d + p
    BY <1>2
  <1>5. UserCallCosts \subseteq 0..k /\ p \in 0..k
    BY <1>1, <1>3, <1>4
  <1>6. MaxUser \in Nat /\ \A x \in UserCallCosts : x <= MaxUser
    BY <1>1, <1>5, DearestIs DEF MaxUser
  <1>7. MaxCall \in Nat /\ \A x \in UserCallCosts \cup {p} : x <= MaxCall
    BY <1>1, <1>2, <1>5, DearestIs DEF MaxCall
  <1> QED BY <1>2, <1>5, <1>6, <1>7

\* One attempt costs at most Attempt, two at most a dearest call.
LEMMA AttemptCosts ==
    ASSUME NEW m \in Models
    PROVE  /\ Attempt(m) \in Nat
           /\ \A n \in Tokens : PricedUsage(m, n) \in Nat /\ PricedUsage(m, n) <= Attempt(m)
           /\ \A k \in Nat : k <= 2 * EstTokens => PricedUsage(m, k) <= 2 * Attempt(m)
           /\ 2 * Attempt(m) \in UserCallCosts
  <1>1. PICK r \in Nat : r = RateOf(m)
    BY PricesNat
  <1>2. EstTokens \in Nat /\ AssumedTokens \in Nat /\ 2 * EstTokens \in Nat
    BY SpendAssumptions
  <1>3. PICK x \in Nat : /\ x = (IF EstTokens < AssumedTokens THEN AssumedTokens ELSE EstTokens)
                         /\ EstTokens <= x /\ AssumedTokens <= x
    BY <1>2
  <1>4. Attempt(m) = x * r /\ x * r \in Nat
    BY <1>1, <1>3, ProductNat DEF Attempt
  <1>5. AssumedTokens * r <= x * r /\ AssumedTokens * r \in Nat
    BY <1>1, <1>2, <1>3, ProductMono, ProductNat
  <1>6. ASSUME NEW n \in Tokens
        PROVE  PricedUsage(m, n) \in Nat /\ PricedUsage(m, n) <= Attempt(m)
    <2>1. n \in Nat /\ n <= x
      BY <1>2, <1>3, EstimateIsPessimistic, SpendAssumptions
    <2>2. n * r <= x * r /\ n * r \in Nat
      BY <1>1, <1>3, <2>1, ProductMono, ProductNat
    <2>3. PricedUsage(m, n) \in {n * r, AssumedTokens * r}
      BY <1>1 DEF PricedUsage
    <2> QED BY <1>4, <1>5, <2>2, <2>3
  <1>7. ASSUME NEW k \in Nat, k <= 2 * EstTokens PROVE PricedUsage(m, k) <= 2 * Attempt(m)
    <2>1. k <= 2 * x /\ 2 * x \in Nat
      BY <1>2, <1>3, <1>7
    <2>2. k * r <= (2 * x) * r /\ k * r \in Nat
      BY <1>1, <2>1, ProductMono, ProductNat
    <2>3. (2 * x) * r = 2 * (x * r)
      BY <1>1, <1>3
    <2>4. PricedUsage(m, k) \in {k * r, AssumedTokens * r}
      BY <1>1 DEF PricedUsage
    <2> QED BY <1>4, <1>5, <2>2, <2>3, <2>4
  <1>8. 2 * Attempt(m) \in UserCallCosts
    <2>1. 2 * x * r = 2 * (x * r)
      BY <1>1, <1>3
    <2>2. 2 * x * RateOf(m) \in UserCallCosts
      BY <1>3 DEF UserCallCosts
    <2> QED BY <1>1, <1>4, <2>1, <2>2
  <1> QED BY <1>4, <1>6, <1>7, <1>8

-----------------------------------------------------------------------------
(* Signed-in users' calls                                                  *)

Asking(h) == pc[h] # "idle" /\ task[h].user # None

\* Such a call costs no more than two attempts, by cost and by tokens.
WithinTwoAttempts(h) ==
    /\ task[h].model \in Models
    /\ pc[h] \notin {"call", "settle"} =>
          task[h].cost = 0 /\ task[h].tokens = 0 /\ ~task[h].last
    /\ pc[h] = "call" =>
          /\ task[h].cost <= IF task[h].last THEN Attempt(task[h].model) ELSE 0
          /\ task[h].tokens <= IF task[h].last THEN EstTokens ELSE 0
    /\ pc[h] = "settle" =>
          task[h].cost <= 2 * Attempt(task[h].model) /\ task[h].tokens <= 2 * EstTokens

UserCall(h) ==
    /\ pc[h] \in {"global", "user"} => task[h].window <= month
    /\ Asking(h) => WithinTwoAttempts(h)

UserCalls == \A h \in Handlers : UserCall(h)

\* A user's sums fall from month to month, and months to come have no rows.
Ledgers ==
    /\ \A u \in Accounts : \A v, w \in Months :
          v <= w => 0 <= userSince[u][w] /\ userSince[u][w] <= userSince[u][v]
    /\ \A w \in Months : month < w => /\ billedSince[w] = 0 /\ publicSince[w] = 0
                                      /\ \A u \in Accounts : userSince[u][w] = 0

\* One thread moves: only its own call is in question.
LEMMA UserCallsFollow ==
    ASSUME UserCalls, NEW h \in Handlers, today' = today,
           \A g \in Handlers \ {h} : pc'[g] = pc[g] /\ task'[g] = task[g],
           UserCall(h)'
    PROVE  UserCalls'
  <1>1. month' = month
    BY DEF month
  <1>2. \A g \in Handlers \ {h} : UserCall(g)'
    BY <1>1 DEF UserCalls, UserCall, Asking, WithinTwoAttempts
  <1> QED BY <1>2 DEF UserCalls

\* The end of an attempt keeps a user's call within two.
LEMMA AttemptKeepsCall ==
    ASSUME TypeOK, UserCalls, NEW h \in Handlers, NEW t \in Task, pc[h] = "call",
           AttemptOver(h, t), NEW c \in Nat, NEW n \in Nat,
           Asking(h) => c <= Attempt(task[h].model) /\ n <= EstTokens,
           t.user = task[h].user, t.model = task[h].model, t.last = task[h].last,
           t.cost = task[h].cost + c, t.tokens = task[h].tokens + n
    PROVE  UserCall(h)'
  <1>1. /\ \/ pc'[h] = "call" /\ task'[h].last /\ ~t.last
           \/ pc'[h] = "settle"
        /\ task'[h].user = t.user /\ task'[h].model = t.model /\ task'[h].cost = t.cost
        /\ task'[h].tokens = t.tokens
    BY AttemptFields
  <1>2. Asking(h)' => Asking(h)
    BY <1>1 DEF Asking
  <1>3. ASSUME Asking(h) PROVE WithinTwoAttempts(h)'
    <2>1. WithinTwoAttempts(h) /\ task[h] \in Task
      BY <1>3 DEF UserCalls, UserCall, TypeOK
    <2>2. PICK a \in Nat : a = Attempt(task[h].model)
      BY <2>1, AttemptCosts DEF WithinTwoAttempts
    <2>3. PICK k, s \in Nat : k = task[h].cost /\ s = task[h].tokens
      BY <2>1 DEF Task
    <2>4. k <= (IF task[h].last THEN a ELSE 0) /\ s <= (IF task[h].last THEN EstTokens ELSE 0)
      BY <2>1, <2>2, <2>3 DEF WithinTwoAttempts
    <2>5. c <= a /\ n <= EstTokens /\ EstTokens \in Nat
      BY <1>3, <2>2, SpendAssumptions
    <2>6. /\ k + c <= 2 * a /\ s + n <= 2 * EstTokens
          /\ ~task[h].last => k + c <= a /\ s + n <= EstTokens
      BY <2>4, <2>5
    <2>7. task[h].model \in Models
      BY <2>1 DEF WithinTwoAttempts
    <2> QED BY <1>1, <2>2, <2>3, <2>6, <2>7 DEF WithinTwoAttempts
  <1> QED BY <1>1, <1>2, <1>3 DEF UserCall
\* One step keeps users' calls within two attempts.
LEMMA UserCallsStep ==
    ASSUME TypeOK, UserCalls, [Next]_vars
    PROVE  UserCalls'
  <1>1. \A h \in Handlers : task[h] \in Task /\ UserCall(h)
    BY DEF TypeOK, UserCalls
  <1>2. month \in Nat /\ (today' = today => month' = month)
    BY MonthType, SpendAssumptions DEF TypeOK, Months, month
  <1>3. ASSUME NEW h \in Handlers, Visit(h) PROVE UserCalls'
    <2>1. pc'[h] = "admit" /\ task'[h].user = None /\ today' = today
      BY <1>3 DEF TypeOK, Visit, Goto, NoTask
    <2> QED BY <1>3, <2>1, UserCallsFollow, OthersStay DEF UserCall, Asking
  <1>4. ASSUME NEW h \in Handlers, NEW u \in Accounts, NEW m \in Models, Ask(h, u, m)
        PROVE  UserCalls'
    <2>1. /\ pc'[h] = "sum" /\ task'[h] = [NoTask EXCEPT !.user = u, !.model = m]
          /\ today' = today
      BY <1>4 DEF TypeOK, Ask, Goto
    <2>2. UserCall(h)'
      BY <2>1 DEF UserCall, Asking, WithinTwoAttempts, NoTask
    <2> QED BY <1>4, <2>1, <2>2, UserCallsFollow, OthersStay
  <1>5. ASSUME NEW h \in Handlers, Finish(h), ServerStep(h), today' = today PROVE UserCalls'
    <2>1. UserCall(h)'
      BY <1>5, RefusedIsIdle DEF UserCall, Asking
    <2> QED BY <1>5, <2>1, UserCallsFollow, OthersStay
  <1>6. ASSUME NEW h \in Handlers, ServerStep(h), today' = today, pc[h] # "idle",
               pc[h] \notin {"call", "settle"}, pc'[h] \notin {"idle", "settle"},
               task'[h].user = task[h].user, task'[h].model = task[h].model,
               task'[h].cost = task[h].cost, task'[h].tokens = task[h].tokens,
               task'[h].last = task[h].last,
               pc'[h] \in {"global", "user"} => task'[h].window <= month
        PROVE  UserCalls'
    <2>1. UserCall(h)'
      <3>1. ASSUME Asking(h)' PROVE WithinTwoAttempts(h)'
        <4>1. Asking(h)
          BY <1>6, <3>1 DEF Asking
        <4>2. WithinTwoAttempts(h)
          BY <1>1, <4>1 DEF UserCall
        <4>3. 0 <= 0 /\ 0 \in Nat
          OBVIOUS
        <4> QED BY <1>6, <4>2, <4>3 DEF WithinTwoAttempts
      <3> QED BY <1>2, <1>6, <3>1 DEF UserCall
    <2> QED BY <1>6, <2>1, UserCallsFollow, OthersStay
  <1>7. ASSUME NEW h \in Handlers,
               \/ Acquire(h) \/ CountCalls(h) \/ CheckGlobal(h) \/ CheckPublic(h)
        PROVE  UserCalls'
    <2>1. CASE Refuse(h)
      BY <1>5, <1>7, <2>1 DEF Refuse, ServerStep
    <2>2. CASE ~Refuse(h)
      <3>1. /\ task'[h] = task[h] /\ today' = today
            /\ pc[h] \in {"admit", "count", "global", "public"}
            /\ pc'[h] \in {"count", "sum", "public", "user", "reserve"}
            /\ pc'[h] = "user" => pc[h] = "global"
        BY <1>7, <2>2 DEF TypeOK, Acquire, CountCalls, CheckGlobal, CheckPublic, Goto
      <3>2. pc'[h] \in {"global", "user"} => task'[h].window <= month
        BY <1>1, <3>1 DEF UserCall
      <3> QED BY <1>6, <1>7, <3>1, <3>2 DEF ServerStep
    <2> QED BY <2>1, <2>2
  <1>8. ASSUME NEW h \in Handlers, SumBilled(h) PROVE UserCalls'
    <2>1. /\ pc[h] = "sum" /\ pc'[h] = "global" /\ today' = today
          /\ task'[h] = [task[h] EXCEPT !.window = month, !.seen = billedSince[month]]
      BY <1>8 DEF TypeOK, SumBilled, Goto
    <2>2. /\ task'[h].user = task[h].user /\ task'[h].model = task[h].model
          /\ task'[h].tokens = task[h].tokens /\ task'[h].cost = task[h].cost
          /\ task'[h].last = task[h].last /\ task'[h].window = month
      BY <1>1, <2>1 DEF Task
    <2>3. task'[h].window <= month /\ ServerStep(h)
      BY <1>2, <1>8, <2>2 DEF ServerStep
    <2>4. /\ pc[h] # "idle" /\ pc[h] \notin {"call", "settle"}
          /\ pc'[h] \notin {"idle", "settle"}
      BY <2>1
    <2> QED BY <1>6, <2>1, <2>2, <2>3, <2>4
  <1>9. ASSUME NEW h \in Handlers, CheckUser(h) \/ Reserve(h) PROVE UserCalls'
    <2>1. CASE Refuse(h)
      BY <1>5, <1>9, <2>1 DEF Refuse, ServerStep
    <2>2. CASE ~Refuse(h)
      <3>1. PICK w : task'[h] = [task[h] EXCEPT !.window = w, !.seen = 0]
        BY <1>9, <2>2 DEF TypeOK, CheckUser, Reserve
      <3>2. /\ pc[h] \in {"user", "reserve"} /\ pc'[h] = "call" /\ today' = today
        BY <1>9, <2>2 DEF TypeOK, CheckUser, Reserve, Goto
      <3>3. /\ task'[h].user = task[h].user /\ task'[h].model = task[h].model
            /\ task'[h].tokens = task[h].tokens /\ task'[h].cost = task[h].cost
            /\ task'[h].last = task[h].last
        BY <1>1, <3>1 DEF Task
      <3> QED BY <1>6, <1>9, <3>2, <3>3 DEF ServerStep
    <2> QED BY <2>1, <2>2
  <1>10. ASSUME NEW h \in Handlers, NEW n \in Tokens, Answer(h, n) PROVE UserCalls'
    <2>1. PICK c \in Nat : c = PricedUsage(task[h].model, n)
      BY PricesNat, SpendAssumptions
    <2>2. PICK t \in Task :
             /\ AttemptOver(h, t) /\ t.user = task[h].user /\ t.model = task[h].model
             /\ t.last = task[h].last /\ t.tokens = task[h].tokens + n
             /\ t.cost = task[h].cost + c
      BY <1>10, <2>1, AnsweredTask
    <2>3. Asking(h) => c <= Attempt(task[h].model) /\ n <= EstTokens
      BY <1>1, <2>1, AttemptCosts, EstimateIsPessimistic DEF UserCall, WithinTwoAttempts
    <2>4. pc[h] = "call" /\ today' = today /\ n \in Nat
      BY <1>10, SpendAssumptions DEF Answer
    <2>5. UserCall(h)'
      BY <2>2, <2>3, <2>4, AttemptKeepsCall
    <2> QED BY <1>10, <2>4, <2>5, UserCallsFollow, OthersStay
  <1>11. ASSUME NEW h \in Handlers, NoAnswer(h) PROVE UserCalls'
    <2>1. pc[h] = "call" /\ AttemptOver(h, task[h]) /\ today' = today
      BY <1>11 DEF NoAnswer
    <2>2. /\ task[h].cost = task[h].cost + 0 /\ task[h].tokens = task[h].tokens + 0
          /\ 0 \in Nat /\ 0 <= EstTokens
      BY <1>1, SpendAssumptions DEF Task
    <2>3. Asking(h) => 0 <= Attempt(task[h].model)
      BY <1>1, AttemptCosts DEF UserCall, WithinTwoAttempts
    <2>4. UserCall(h)'
      BY <1>1, <2>1, <2>2, <2>3, AttemptKeepsCall
    <2> QED BY <1>11, <2>1, <2>4, UserCallsFollow, OthersStay
  <1>12. ASSUME NEW h \in Handlers, Settle(h) \/ Record(h) \/ CommitFails(h) PROVE UserCalls'
    BY <1>5, <1>12 DEF Settle, Record, CommitFails, Refuse, ServerStep
  <1>13. ASSUME NEW u \in Accounts, DeleteAccount(u) PROVE UserCalls'
    BY <1>13 DEF DeleteAccount, UserCalls, UserCall, Asking, WithinTwoAttempts, month
  <1>14. CASE Crash
    BY <1>14 DEF Crash, UserCalls, UserCall, Asking
  <1>15. CASE NextDay
    <2>1. month' \in Nat /\ month <= month' /\ pc' = pc /\ task' = task
      BY <1>15, MonthsPass DEF NextDay
    <2>2. ASSUME NEW h \in Handlers PROVE UserCall(h)'
      <3>1. task[h].window \in Nat
        BY <1>1, SpendAssumptions DEF Task, Months
      <3>2. task[h].window <= month => task[h].window <= month'
        BY <1>2, <2>1, <3>1
      <3> QED BY <1>1, <2>1, <3>2 DEF UserCall, Asking, WithinTwoAttempts
    <2> QED BY <2>2 DEF UserCalls
  <1>16. CASE UNCHANGED vars
    BY <1>16 DEF vars, UserCalls, UserCall, Asking, WithinTwoAttempts, month
  <1> QED
    BY <1>3, <1>4, <1>7, <1>8, <1>9, <1>10, <1>11, <1>12, <1>13, <1>14, <1>15, <1>16
    DEF Next, ServerStep

\* What a user's call is recorded at is no more than a dearest call.
LEMMA RecordedIsBounded ==
    ASSUME TypeOK, UserCalls, NEW h \in Handlers, Asking(h), pc[h] = "settle",
           NEW c \in RecordedCosts(task[h])
    PROVE  c \in Nat /\ c <= MaxUser /\ c <= MaxCall
  <1>1. /\ task[h] \in Task /\ task[h].model \in Models
        /\ task[h].cost <= 2 * Attempt(task[h].model) /\ task[h].tokens <= 2 * EstTokens
    BY DEF TypeOK, UserCalls, UserCall, WithinTwoAttempts
  <1>2. PICK a \in Nat : a = 2 * Attempt(task[h].model) /\ a \in UserCallCosts
    BY <1>1, AttemptCosts
  <1>3. task[h].cost \in Nat /\ task[h].tokens \in Nat
    BY <1>1 DEF Task
  <1>4. PICK x \in Nat : x = PricedUsage(task[h].model, task[h].tokens) /\ x <= a
    BY <1>1, <1>2, <1>3, AttemptCosts, PricesNat
  <1>5. c \in Nat /\ c <= a
    BY <1>1, <1>2, <1>3, <1>4 DEF RecordedCosts
  <1>6. a <= MaxUser /\ a <= MaxCall /\ MaxUser \in Nat /\ MaxCall \in Nat
    BY <1>2, Dearests
  <1> QED BY <1>5, <1>6

\* What recording a call does to the sums.
LEMMA RecordAdds ==
    ASSUME TypeOK, UserCalls, NEW h \in Handlers, Record(h)
    PROVE  \E c \in Nat :
              /\ c <= MaxUser /\ c <= MaxCall /\ task[h].user \in Accounts
              /\ userSince' = [userSince EXCEPT ![task[h].user] =
                                  Add(userSince[task[h].user], month, c)]
              /\ billedSince' = Add(billedSince, month, c)
  <1>1. Asking(h) /\ pc[h] = "settle" /\ task[h].user \in Accounts
    BY DEF Record, Asking, TypeOK, Task
  <1>2. MaxUser \in Nat /\ MaxCall \in Nat
    BY Dearests
  <1>3. \A c \in (IF task[h].user \in live THEN RecordedCosts(task[h]) ELSE {0}) :
           c \in Nat /\ c <= MaxUser /\ c <= MaxCall
    BY <1>1, <1>2, RecordedIsBounded
  <1> QED BY <1>1, <1>3 DEF Record

\* One step keeps the sums falling and the future empty.
LEMMA LedgersStep ==
    ASSUME TypeOK, TypeOK', Estimates, UserCalls, Ledgers, [Next]_vars
    PROVE  Ledgers'
  <1>1. /\ month \in Months /\ publicSince \in Sums /\ billedSince \in Sums
        /\ \A u \in Accounts : userSince[u] \in Sums
    BY MonthType DEF TypeOK
  <1>2. \A h \in Handlers : task[h].est \in Int /\ task[h].cost \in Int /\ task[h].window \in Months
    BY DEF TypeOK, Task
  <1>3. \A w \in Months : w \in Int
    BY SpendAssumptions DEF Months
  <1>4. ASSUME UNCHANGED <<billedSince, publicSince, userSince>>, today' = today
        PROVE  Ledgers'
    BY <1>4 DEF Ledgers, month
  <1>5. ASSUME NEW h \in Handlers,
               \/ Visit(h) \/ Acquire(h) \/ CountCalls(h) \/ SumBilled(h) \/ CheckGlobal(h)
               \/ CheckPublic(h) \/ CheckUser(h) \/ CommitFails(h) \/ NoAnswer(h)
               \/ \E u \in Accounts, m \in Models : Ask(h, u, m)
               \/ \E n \in Tokens : Answer(h, n)
        PROVE  Ledgers'
    BY <1>4, <1>5
    DEF Visit, Acquire, CountCalls, SumBilled, CheckGlobal, CheckPublic, CheckUser, CommitFails,
        NoAnswer, Ask, Answer, Refuse, ledgers
  <1>6. ASSUME NEW w \in Months, w <= month, NEW c \in Int,
               publicSince' = Add(publicSince, w, c), UNCHANGED <<today, billedSince, userSince>>
        PROVE  Ledgers'
    <2>1. month' = month
      BY <1>6 DEF month
    <2>2. \A v \in Months : month < v => publicSince'[v] = 0
      BY <1>1, <1>3, <1>6, AddSums DEF Ledgers
    <2> QED BY <1>6, <2>1, <2>2 DEF Ledgers
  <1>7. ASSUME NEW h \in Handlers, Reserve(h) PROVE Ledgers'
    <2>1. month <= month
      BY <1>1, <1>3
    <2> QED BY <1>1, <1>2, <1>6, <1>7, <2>1 DEF Reserve
  <1>8. ASSUME NEW h \in Handlers, Settle(h) PROVE Ledgers'
    <2>1. task[h].window <= month
      BY <1>8 DEF Settle, Estimates, Visitor, WithinEstimate
    <2>2. SettledCost(task[h]) - task[h].est \in Int
      BY <1>2 DEF SettledCost
    <2> QED BY <1>2, <1>6, <1>8, <2>1, <2>2 DEF Settle
  <1>9. ASSUME NEW h \in Handlers, Record(h) PROVE Ledgers'
    <2>1. PICK c \in Nat :
             /\ task[h].user \in Accounts
             /\ userSince' = [userSince EXCEPT ![task[h].user] =
                                 Add(userSince[task[h].user], month, c)]
             /\ billedSince' = Add(billedSince, month, c)
      BY <1>9, RecordAdds
    <2>2. publicSince' = publicSince /\ month' = month
      BY <1>9 DEF Record, month
    <2>3. \A v \in Months : month < v => billedSince'[v] = 0
      BY <1>1, <1>3, <2>1, AddSums DEF Ledgers
    <2>4. \A u \in Accounts \ {task[h].user} : userSince'[u] = userSince[u]
      BY <2>1 DEF TypeOK
    <2>5. PICK s : s = userSince[task[h].user] /\ s \in Sums
      BY <1>1, <2>1
    <2>6. PICK r : r = userSince'[task[h].user] /\ r = Add(s, month, c)
      BY <2>1, <2>5 DEF TypeOK
    <2>7. /\ \A v \in Months : s[v] \in Int /\ 0 <= s[v] /\ (month < v => s[v] = 0)
          /\ \A v, w \in Months : v <= w => s[w] <= s[v]
      <3>1. \A v \in Months : v <= v
        BY <1>3
      <3> QED BY <2>1, <2>5, <3>1 DEF Ledgers, Sums
    <2>8. \A v \in Months : r[v] = IF v <= month THEN s[v] + c ELSE s[v]
      BY <1>1, <1>3, <2>5, <2>6, AddSums
    <2>9. \A v \in Months : month < v => r[v] = 0
      BY <1>1, <1>3, <2>7, <2>8
    <2>10. ASSUME NEW v \in Months, NEW w \in Months, v <= w PROVE 0 <= r[w] /\ r[w] <= r[v]
      <3>1. /\ s[v] \in Int /\ s[w] \in Int /\ 0 <= s[w] /\ s[w] <= s[v]
            /\ v \in Int /\ w \in Int /\ month \in Int
        BY <1>1, <1>3, <2>7, <2>10
      <3>2. r[v] = (IF v <= month THEN s[v] + c ELSE s[v])
            /\ r[w] = (IF w <= month THEN s[w] + c ELSE s[w])
        BY <2>8
      <3> QED BY <2>10, <3>1, <3>2
    <2> QED BY <2>2, <2>3, <2>4, <2>6, <2>9, <2>10 DEF Ledgers
  <1>10. ASSUME NEW u \in Accounts, DeleteAccount(u) PROVE Ledgers'
    <2>1. /\ \A x \in Accounts \ {u} : userSince'[x] = userSince[x]
          /\ \A w \in Months : userSince'[u][w] = 0
          /\ \A w \in Months : billedSince'[w] = billedSince[w] - userSince[u][w]
          /\ publicSince' = publicSince /\ month' = month
      BY <1>10 DEF DeleteAccount, TypeOK, month
    <2>2. \A w \in Months : month < w => billedSince'[w] = 0
      BY <2>1 DEF Ledgers
    <2> QED BY <2>1, <2>2 DEF Ledgers
  <1>11. CASE Crash
    BY <1>4, <1>11 DEF Crash, ledgers
  <1>12. CASE NextDay
    <2>1. month \in Nat /\ month' \in Nat /\ month <= month'
      BY <1>12, MonthsPass
    <2>2. UNCHANGED <<billedSince, publicSince, userSince>>
      BY <1>12 DEF NextDay, ledgers
    <2>3. \A w \in Months : month' < w => month < w
      BY <1>3, <2>1
    <2> QED BY <2>2, <2>3 DEF Ledgers
  <1>13. CASE UNCHANGED vars
    BY <1>4, <1>13 DEF vars, ledgers
  <1> QED
    BY <1>5, <1>7, <1>8, <1>9, <1>10, <1>11, <1>12, <1>13 DEF Next, ServerStep
-----------------------------------------------------------------------------
(* The user's ceiling                                                      *)

\* The thread runs a call of user u that has passed its checks.
Runs(u, h) == task[h].user = u /\ pc[h] \in {"call", "settle"}

\* What a thread that runs no call of u could still spend for u.
FreeFor(u) == [h \in Handlers |-> IF Runs(u, h) THEN 0 ELSE MaxUser]

\* A user's month is under the ceiling, but for one call of each thread that
\* already runs one.
UserRoom == \A u \in Accounts : AtLeast(FreeFor(u), userSince[u][month] - UserLimit + 1)

LEMMA MonthTypes ==
    ASSUME TypeOK, TypeOK'
    PROVE  month \in Months /\ month' \in Months /\ (today' = today => month' = month)
  BY SpendAssumptions DEF TypeOK, month, Days, Months

\* A step that records nothing and admits no call of u.
LEMMA UserRoomKept ==
    ASSUME TypeOK, TypeOK', UserLimit \in Nat, NEW u \in Accounts,
           AtLeast(FreeFor(u), userSince[u][month] - UserLimit + 1),
           userSince'[u][month'] <= userSince[u][month],
           \A g \in Handlers : Runs(u, g)' => Runs(u, g)
    PROVE  AtLeast(FreeFor(u), userSince[u][month] - UserLimit + 1)'
  <1>1. PICK g : g = FreeFor(u)
    OBVIOUS
  <1>2. PICK f : f = FreeFor(u)'
    OBVIOUS
  <1>3. \A x \in Handlers : g[x] \in Nat /\ f[x] \in Nat /\ g[x] <= f[x]
    BY <1>1, <1>2, Dearests DEF FreeFor
  <1>4. PICK s, r \in Int : s = userSince[u][month] /\ r = userSince'[u][month']
    <2>1. month \in Months /\ month' \in Months
      BY MonthTypes
    <2> QED BY <2>1 DEF TypeOK, Sums
  <1>5. s - UserLimit + 1 \in Int /\ r - UserLimit + 1 \in Int
        /\ r - UserLimit + 1 <= s - UserLimit + 1
    BY <1>4
  <1>6. AtLeast(f, r - UserLimit + 1)
    BY <1>1, <1>3, <1>4, <1>5, AtLeastGrows
  <1> QED BY <1>2, <1>4, <1>6

\* One step keeps every user's month within its bound.
LEMMA UserRoomStep ==
    ASSUME TypeOK, TypeOK', Estimates, UserCalls, Ledgers, UserRoom,
           UserLimit \in Nat, UserLimit > 0, [Next]_vars
    PROVE  UserRoom'
  <1>1. \A u \in Accounts : AtLeast(FreeFor(u), userSince[u][month] - UserLimit + 1)
    BY DEF UserRoom
  <1>2. /\ month \in Months /\ month' \in Months /\ (today' = today => month' = month)
        /\ \A u \in Accounts : userSince[u] \in Sums /\ userSince'[u] \in Sums
    BY MonthTypes DEF TypeOK
  <1>3. ASSUME \A u \in Accounts : userSince'[u][month'] <= userSince[u][month],
               \A u \in Accounts, g \in Handlers : Runs(u, g)' => Runs(u, g)
        PROVE  UserRoom'
    BY <1>1, <1>3, UserRoomKept DEF UserRoom
  <1>4. ASSUME UNCHANGED <<today, userSince>>
        PROVE  \A u \in Accounts : userSince'[u][month'] <= userSince[u][month]
    BY <1>2, <1>4 DEF Sums
  <1>5. ASSUME NEW h \in Handlers,
               \/ Visit(h) \/ Acquire(h) \/ CountCalls(h) \/ SumBilled(h) \/ CheckGlobal(h)
               \/ CheckPublic(h) \/ Settle(h) \/ CommitFails(h)
               \/ \E u \in Accounts, m \in Models : Ask(h, u, m)
        PROVE  UserRoom'
    <2>1. UNCHANGED <<today, userSince>>
      BY <1>5
      DEF Visit, Acquire, CountCalls, SumBilled, CheckGlobal, CheckPublic, Settle, CommitFails,
          Ask, Refuse, ledgers
    <2>2. pc'[h] \notin {"call", "settle"}
      BY <1>5, RefusedIsIdle
      DEF TypeOK, Visit, Acquire, CountCalls, SumBilled, CheckGlobal, CheckPublic, Settle,
          CommitFails, Ask, Refuse, Goto
    <2>3. \A u \in Accounts, g \in Handlers : Runs(u, g)' => Runs(u, g)
      BY <1>5, <2>2, OthersStay DEF ServerStep, Runs
    <2> QED BY <1>3, <1>4, <2>1, <2>3
  <1>6. ASSUME NEW h \in Handlers, Reserve(h) PROVE UserRoom'
    <2>1. task'[h].user = None
      <3>1. task[h].user = None /\ task[h] \in Task
        BY <1>6 DEF Reserve, Estimates, Routed, TypeOK
      <3> QED BY <1>6, <3>1 DEF Reserve, TypeOK, Task
    <2>2. \A u \in Accounts, g \in Handlers : Runs(u, g)' => Runs(u, g)
      BY <1>6, <2>1, OthersStay, SpendAssumptions DEF ServerStep, Runs
    <2> QED BY <1>3, <1>4, <1>6, <2>2 DEF Reserve
  <1>7. ASSUME NEW h \in Handlers, NoAnswer(h) \/ \E n \in Tokens : Answer(h, n)
        PROVE  UserRoom'
    <2>1. UNCHANGED <<today, userSince>> /\ pc[h] = "call"
      BY <1>7 DEF NoAnswer, Answer, ledgers
    <2>2. task'[h].user = task[h].user
      <3>1. \E t \in Task : AttemptOver(h, t) /\ t.user = task[h].user
        BY <1>7, AnsweredTask DEF NoAnswer, TypeOK
      <3> QED BY <2>1, <3>1, AttemptFields
    <2>3. \A u \in Accounts, g \in Handlers : Runs(u, g)' => Runs(u, g)
      BY <1>7, <2>1, <2>2, OthersStay DEF Runs
    <2> QED BY <1>3, <1>4, <2>1, <2>3
  <1>8. ASSUME NEW h \in Handlers, CheckUser(h) PROVE UserRoom'
    <2>1. CASE Refuse(h)
      <3>1. UNCHANGED <<today, userSince>> /\ pc'[h] = "idle"
        BY <2>1, RefusedIsIdle DEF Refuse, ledgers
      <3>2. \A u \in Accounts, g \in Handlers : Runs(u, g)' => Runs(u, g)
        BY <1>8, <3>1, OthersStay DEF Runs, ServerStep
      <3> QED BY <1>3, <1>4, <3>1, <3>2
    <2>2. CASE ~Refuse(h)
      <3>1. /\ pc[h] = "user" /\ UNCHANGED <<today, userSince>>
            /\ ~Exceeds(userSince[task[h].user][task[h].window], task[h].est, UserLimit)
        BY <1>8, <2>2 DEF CheckUser, ledgers
      <3>2. /\ task[h].user \in Accounts /\ task[h].window <= month /\ task[h].window \in Months
            /\ task[h].est \in Nat /\ task'[h].user = task[h].user
        <4>1. task[h] \in Task /\ task[h].user # None
          BY <3>1 DEF TypeOK, Estimates, Routed
        <4>2. task[h].window <= month
          BY <3>1 DEF UserCalls, UserCall
        <4>3. [task[h] EXCEPT !.window = 0, !.seen = 0].user = task[h].user
          BY <4>1 DEF Task
        <4> QED BY <1>8, <2>2, <4>1, <4>2, <4>3 DEF CheckUser, TypeOK, Task
      <3>3. userSince[task[h].user][month] < UserLimit
        <4>1. PICK s, r \in Int : /\ s = userSince[task[h].user][month]
                                  /\ r = userSince[task[h].user][task[h].window] /\ s <= r
          BY <1>2, <3>2 DEF Ledgers, Sums
        <4>2. UserLimit # NoLimit
          BY SpendAssumptions
        <4>3. ~(r + task[h].est >= UserLimit)
          BY <3>1, <4>1, <4>2 DEF Exceeds
        <4> QED BY <3>2, <4>1, <4>3
      <3>4. ASSUME NEW u \in Accounts
            PROVE  AtLeast(FreeFor(u), userSince[u][month] - UserLimit + 1)'
        <4>1. CASE u = task[h].user
          <5>1. PICK f : f = FreeFor(u)'
            OBVIOUS
          <5>2. \A x \in Handlers : f[x] \in Nat
            BY <5>1, Dearests DEF FreeFor
          <5>3. PICK d \in Int : d = userSince'[u][month'] - UserLimit + 1 /\ d <= 0
            BY <1>2, <3>1, <3>3, <4>1 DEF Sums
          <5>4. AtLeast(f, d)
            BY <5>2, <5>3, AtLeastNothing
          <5> QED BY <5>1, <5>3, <5>4
        <4>2. CASE u # task[h].user
          <5>1. \A g \in Handlers : Runs(u, g)' => Runs(u, g)
            BY <1>8, <3>2, <4>2, OthersStay DEF Runs, ServerStep
          <5>2. userSince'[u][month'] <= userSince[u][month]
            BY <1>4, <3>1
          <5> QED BY <1>1, <5>1, <5>2, UserRoomKept
        <4> QED BY <4>1, <4>2
      <3> QED BY <3>4 DEF UserRoom
    <2> QED BY <2>1, <2>2
  <1>9. ASSUME NEW h \in Handlers, Record(h) PROVE UserRoom'
    <2>1. PICK c \in Nat :
             /\ c <= MaxUser /\ task[h].user \in Accounts
             /\ userSince' = [userSince EXCEPT ![task[h].user] =
                                 Add(userSince[task[h].user], month, c)]
      BY <1>9, RecordAdds
    <2>2. pc[h] = "settle" /\ pc'[h] = "idle" /\ month' = month
      BY <1>9, RefusedIsIdle DEF Record, month
    <2>3. \A g \in Handlers \ {h} : \A u \in Accounts : Runs(u, g)' <=> Runs(u, g)
      BY <1>9, OthersStay DEF Runs, ServerStep
    <2>4. ASSUME NEW u \in Accounts
          PROVE  AtLeast(FreeFor(u), userSince[u][month] - UserLimit + 1)'
      <3>1. CASE u # task[h].user
        <4>1. userSince'[u] = userSince[u]
          BY <2>1, <3>1 DEF TypeOK
        <4>2. \A g \in Handlers : Runs(u, g)' => Runs(u, g)
          BY <2>2, <2>3 DEF Runs
        <4>3. userSince'[u][month'] <= userSince[u][month]
          BY <1>2, <2>2, <4>1 DEF Sums
        <4> QED BY <1>1, <4>2, <4>3, UserRoomKept
      <3>2. CASE u = task[h].user
        <4>1. PICK g : g = FreeFor(u)
          OBVIOUS
        <4>2. PICK f : f = FreeFor(u)'
          OBVIOUS
        <4>3. MaxUser \in Nat
          BY Dearests
        <4>4. \A x \in Handlers : g[x] \in Nat /\ f[x] \in Nat
          BY <4>1, <4>2, <4>3 DEF FreeFor
        <4>5. \A x \in Handlers \ {h} : g[x] <= f[x]
          BY <2>3, <4>1, <4>2, <4>3 DEF FreeFor
        <4>6. g[h] = 0 /\ f[h] = MaxUser
          BY <2>2, <3>2, <4>1, <4>2 DEF FreeFor, Runs
        <4>7. PICK s \in Int : s = userSince[u][month]
          BY <1>2 DEF Sums
        <4>8. userSince'[u][month'] = s + c
          <5>1. userSince'[u] = Add(userSince[u], month, c)
            BY <2>1, <3>2 DEF TypeOK
          <5>2. month <= month
            BY <1>2, SpendAssumptions DEF Months
          <5> QED BY <1>2, <2>2, <4>7, <5>1, <5>2, AddSums
        <4>9. AtLeast(g, s - UserLimit + 1)
          BY <1>1, <4>1, <4>7
        <4>10. AtLeast(f, s + c - UserLimit + 1)
          <5>1. PICK a, b \in Int : a = s - UserLimit + 1 /\ b = s + c - UserLimit + 1
                                    /\ b - a <= f[h] - g[h]
            BY <2>1, <4>3, <4>6
          <5> QED BY <4>4, <4>5, <4>9, <5>1, AtLeastMoves
        <4> QED BY <4>2, <4>8, <4>10
      <3> QED BY <3>1, <3>2
    <2> QED BY <2>4 DEF UserRoom
  <1>10. ASSUME NEW v \in Accounts, DeleteAccount(v) PROVE UserRoom'
    <2>1. \A u \in Accounts, g \in Handlers : Runs(u, g)' => Runs(u, g)
      BY <1>10 DEF DeleteAccount, Runs
    <2>2. ASSUME NEW u \in Accounts PROVE userSince'[u][month'] <= userSince[u][month]
      <3>1. month' = month /\ userSince'[u][month] \in {0, userSince[u][month]}
        BY <1>2, <1>10 DEF DeleteAccount, TypeOK
      <3>2. 0 <= userSince[u][month] /\ userSince[u][month] \in Int
        <4>1. month <= month
          BY <1>2, SpendAssumptions DEF Months
        <4> QED BY <1>2, <4>1 DEF Ledgers, Sums
      <3> QED BY <3>1, <3>2
    <2> QED BY <1>3, <2>1, <2>2
  <1>11. CASE Crash
    <2>1. \A u \in Accounts, g \in Handlers : Runs(u, g)' => Runs(u, g)
      BY <1>11 DEF Crash, Runs
    <2> QED BY <1>3, <1>4, <1>11, <2>1 DEF Crash, ledgers
  <1>12. CASE NextDay
    <2>1. month <= month' /\ UNCHANGED <<pc, task, userSince>>
      BY <1>12, MonthsPass DEF NextDay, ledgers
    <2>2. \A u \in Accounts, g \in Handlers : Runs(u, g)' => Runs(u, g)
      BY <2>1 DEF Runs
    <2>3. \A u \in Accounts : userSince'[u][month'] <= userSince[u][month]
      BY <1>2, <2>1 DEF Ledgers
    <2> QED BY <1>3, <2>2, <2>3
  <1>13. CASE UNCHANGED vars
    BY <1>3, <1>4, <1>13 DEF vars, ledgers, Runs
  <1> QED
    BY <1>5, <1>6, <1>7, <1>8, <1>9, <1>10, <1>11, <1>12, <1>13 DEF Next, ServerStep
-----------------------------------------------------------------------------
(* The shared ceiling                                                      *)

\* With public spend at p, the thread has taken its place: it would pass the
\* check on what it has read, or has passed it and has not been booked yet.
\* What was read in an earlier month counts as passing.
Taken(h, p) ==
    \/ pc[h] = "global" /\ (task[h].window < month
                            \/ task[h].seen + p + task[h].est < GlobalLimit)
    \/ pc[h] \in {"public", "reserve"}
    \/ pc[h] \in {"user", "call", "settle"} /\ task[h].user # None

\* What a thread that has no place could still spend.
FreeAt(p) == [h \in Handlers |-> IF Taken(h, p) THEN 0 ELSE MaxCall]

\* Were public spend at p, no more than it is, the month would be under the
\* ceiling but for one call of each thread that has its place.  A smaller p
\* lets more threads pass on what they have read: settling lowers public spend.
RoomAt(p) == AtLeast(FreeAt(p), billedSince[month] + p - GlobalLimit + 1)

GlobalRoom == \A p \in Int : p <= publicSince[month] => RoomAt(p)

LEMMA FreeAtNat == \A p, h : h \in Handlers => FreeAt(p)[h] \in {0, MaxCall} /\ FreeAt(p)[h] \in Nat
  BY Dearests DEF FreeAt

\* A step of one thread that adds no more than the room it gives back.
LEMMA RoomFollows ==
    ASSUME TypeOK, TypeOK', GlobalLimit \in Nat, today' = today,
           NEW h \in Handlers, NEW p \in Int, RoomAt(p),
           \A g \in Handlers \ {h} : pc'[g] = pc[g] /\ task'[g] = task[g],
           billedSince'[month] - billedSince[month] <= FreeAt(p)'[h] - FreeAt(p)[h]
    PROVE  RoomAt(p)'
  <1>1. month \in Months /\ month' = month
    BY MonthTypes
  <1>2. PICK g : g = FreeAt(p)
    OBVIOUS
  <1>3. PICK f : f = FreeAt(p)'
    OBVIOUS
  <1>4. \A x \in Handlers : g[x] \in Nat /\ f[x] \in Nat
    BY <1>2, <1>3, Dearests DEF FreeAt
  <1>5. \A x \in Handlers \ {h} : g[x] = f[x]
    BY <1>1, <1>2, <1>3 DEF FreeAt, Taken
  <1>6. PICK b, a \in Int : b = billedSince[month] /\ a = billedSince'[month]
    BY <1>1 DEF TypeOK, Sums
  <1>7. PICK c, d \in Int : c = b + p - GlobalLimit + 1 /\ d = a + p - GlobalLimit + 1
                            /\ d - c = a - b
    OBVIOUS
  <1>8. AtLeast(g, c)
    BY <1>2, <1>6, <1>7 DEF RoomAt
  <1>9. \A x \in Handlers \ {h} : g[x] <= f[x]
    BY <1>4, <1>5
  <1>10. AtLeast(f, d)
    BY <1>2, <1>3, <1>4, <1>6, <1>7, <1>8, <1>9, AtLeastMoves
  <1> QED BY <1>1, <1>3, <1>6, <1>7, <1>10 DEF RoomAt

\* A step of one thread that books nothing and takes no new place.
LEMMA RoomKept ==
    ASSUME TypeOK, TypeOK', GlobalLimit \in Nat, today' = today, GlobalRoom,
           NEW h \in Handlers,
           \A g \in Handlers \ {h} : pc'[g] = pc[g] /\ task'[g] = task[g],
           billedSince' = billedSince, publicSince'[month] <= publicSince[month],
           \A p \in Int : p <= publicSince[month] /\ Taken(h, p)' => Taken(h, p)
    PROVE  GlobalRoom'
  <1>1. month \in Months /\ month' = month
    BY MonthTypes
  <1>2. PICK q, r \in Int : q = publicSince[month] /\ r = publicSince'[month] /\ r <= q
    BY <1>1 DEF TypeOK, Sums
  <1>3. ASSUME NEW p \in Int, p <= r PROVE RoomAt(p)'
    <2>1. p <= q /\ RoomAt(p)
      BY <1>2, <1>3 DEF GlobalRoom
    <2>2. PICK x, y \in Nat : x = FreeAt(p)[h] /\ y = FreeAt(p)'[h] /\ x <= y
      <3>1. Taken(h, p)' => Taken(h, p)
        BY <1>2, <2>1
      <3> QED BY <3>1, Dearests DEF FreeAt
    <2>3. PICK b \in Int : b = billedSince[month] /\ b = billedSince'[month]
      BY <1>1 DEF TypeOK, Sums
    <2>4. billedSince'[month] - billedSince[month] <= FreeAt(p)'[h] - FreeAt(p)[h]
      BY <2>2, <2>3
    <2> QED BY <2>1, <2>4, RoomFollows
  <1> QED BY <1>1, <1>2, <1>3 DEF GlobalRoom

\* The room grows when the bill falls and no thread takes a place.
LEMMA RoomGrows ==
    ASSUME TypeOK, TypeOK', GlobalLimit \in Nat, today' = today, GlobalRoom,
           publicSince' = publicSince, billedSince'[month] <= billedSince[month],
           \A h \in Handlers : \A p \in Int : Taken(h, p)' => Taken(h, p)
    PROVE  GlobalRoom'
  <1>1. month \in Months /\ month' = month
    BY MonthTypes
  <1>2. ASSUME NEW p \in Int, RoomAt(p) PROVE RoomAt(p)'
    <2>1. PICK g : g = FreeAt(p)
      OBVIOUS
    <2>2. PICK f : f = FreeAt(p)'
      OBVIOUS
    <2>3. \A x \in Handlers : g[x] \in Nat /\ f[x] \in Nat /\ g[x] <= f[x]
      BY <2>1, <2>2, Dearests DEF FreeAt
    <2>4. PICK b, a \in Int : b = billedSince[month] /\ a = billedSince'[month] /\ a <= b
      BY <1>1 DEF TypeOK, Sums
    <2>5. PICK c, d \in Int : c = b + p - GlobalLimit + 1 /\ d = a + p - GlobalLimit + 1 /\ d <= c
      BY <2>4
    <2>6. AtLeast(g, c)
      BY <1>2, <2>1, <2>4, <2>5 DEF RoomAt
    <2>7. AtLeast(f, d)
      BY <2>3, <2>5, <2>6, AtLeastGrows
    <2> QED BY <1>1, <2>2, <2>4, <2>5, <2>7 DEF RoomAt
  <1> QED BY <1>1, <1>2 DEF GlobalRoom

\* Reserving adds what one thread had its place for, and gives the place back.
LEMMA RoomReserve ==
    ASSUME TypeOK, TypeOK', Estimates, GlobalLimit \in Nat, GlobalRoom, NEW h \in Handlers,
           Reserve(h)
    PROVE  GlobalRoom'
  <1>1. month \in Months /\ month' = month /\ publicSince \in Sums
    BY MonthTypes DEF Reserve, TypeOK
  <1>2. PICK e \in Nat : e = task[h].est /\ e <= MaxCall
    <2>1. WithinEstimate(h) /\ task[h].est \in Nat
      BY DEF Reserve, Estimates, Routed, Visitor, TypeOK, Task
    <2> QED BY <2>1, Dearests DEF WithinEstimate
  <1>3. pc[h] = "reserve" /\ pc'[h] = "call" /\ task'[h].user = None /\ today' = today
        /\ billedSince' = billedSince
    <2>1. task[h].user = None /\ task[h] \in Task
      BY DEF Reserve, Estimates, Routed, TypeOK
    <2> QED BY <2>1 DEF Reserve, TypeOK, Task, Goto
  <1>4. \A g \in Handlers \ {h} : pc'[g] = pc[g] /\ task'[g] = task[g]
    BY OthersStay DEF ServerStep
  <1>5. PICK q, r \in Int : q = publicSince[month] /\ r = publicSince'[month] /\ r = q + e
    <2>1. month <= month /\ e \in Int
      BY <1>1, SpendAssumptions DEF Months
    <2> QED BY <1>1, <1>2, <2>1, AddSums DEF Reserve, Sums
  <1>6. PICK b \in Int : b = billedSince[month]
    BY <1>1 DEF TypeOK, Sums
  <1>7. ASSUME NEW p \in Int, p <= r PROVE RoomAt(p)'
    <2>1. PICK k \in Int : k = (IF p <= q THEN p ELSE q) /\ k <= q /\ k <= p /\ p - k <= e
      BY <1>5, <1>7
    <2>2. RoomAt(k)
      BY <1>5, <2>1 DEF GlobalRoom
    <2>3. PICK g : g = FreeAt(k)
      OBVIOUS
    <2>4. PICK f : f = FreeAt(p)'
      OBVIOUS
    <2>5. \A x \in Handlers : g[x] \in Nat /\ f[x] \in Nat
      BY <2>3, <2>4, Dearests DEF FreeAt
    <2>6. ASSUME NEW x \in Handlers \ {h} PROVE g[x] <= f[x]
      <3>1. Taken(x, p)' => Taken(x, k)
        <4>1. task[x].seen \in Int /\ task[x].est \in Int
          BY DEF TypeOK, Task
        <4>2. task[x].seen + p + task[x].est < GlobalLimit
                 => task[x].seen + k + task[x].est < GlobalLimit
          BY <2>1, <4>1
        <4> QED BY <1>1, <1>4, <4>2 DEF Taken
      <3> QED BY <2>3, <2>4, <3>1, Dearests DEF FreeAt
    <2>7. g[h] = 0 /\ f[h] = MaxCall
      BY <1>3, <2>3, <2>4 DEF FreeAt, Taken
    <2>8. PICK c, d \in Int : c = b + k - GlobalLimit + 1 /\ d = b + p - GlobalLimit + 1
                              /\ d - c <= f[h] - g[h]
      BY <1>2, <2>1, <2>7, Dearests
    <2>9. AtLeast(g, c)
      BY <1>6, <2>2, <2>3, <2>8 DEF RoomAt
    <2>10. AtLeast(f, d)
      BY <2>5, <2>6, <2>8, <2>9, AtLeastMoves
    <2> QED BY <1>1, <1>3, <1>6, <2>4, <2>8, <2>10 DEF RoomAt
  <1> QED BY <1>1, <1>5, <1>7 DEF GlobalRoom
\* Reading the sums takes a place only while there is room.
LEMMA RoomRead ==
    ASSUME TypeOK, TypeOK', Estimates, GlobalLimit \in Nat, GlobalRoom, NEW h \in Handlers,
           SumBilled(h)
    PROVE  GlobalRoom'
  <1>1. /\ month \in Months /\ month' = month /\ today' = today /\ billedSince' = billedSince
        /\ publicSince' = publicSince
    BY MonthTypes DEF SumBilled, ledgers
  <1>2. PICK b, q \in Int : b = billedSince[month] /\ q = publicSince[month]
    BY <1>1 DEF TypeOK, Sums
  <1>3. PICK e \in Nat : e = task[h].est
    BY DEF TypeOK, Task
  <1>4. /\ pc[h] = "sum" /\ pc'[h] = "global" /\ task'[h].seen = b /\ task'[h].est = e
        /\ task'[h].window = month
    <2>1. task[h] \in Task
      BY DEF TypeOK
    <2> QED BY <1>2, <1>3, <2>1 DEF SumBilled, Goto, TypeOK, Task
  <1>5. \A g \in Handlers \ {h} : pc'[g] = pc[g] /\ task'[g] = task[g]
    BY OthersStay DEF ServerStep
  <1>6. ASSUME NEW p \in Int, p <= q PROVE RoomAt(p)'
    <2>1. CASE b + p + e < GlobalLimit
      <3>1. PICK d \in Int : d = b + p - GlobalLimit + 1 /\ d <= 0
        BY <2>1
      <3>2. PICK f : f = FreeAt(p)'
        OBVIOUS
      <3>3. \A x \in Handlers : f[x] \in Nat
        BY <3>2, Dearests DEF FreeAt
      <3>4. AtLeast(f, d)
        BY <3>1, <3>3, AtLeastNothing
      <3> QED BY <1>1, <1>2, <3>1, <3>2, <3>4 DEF RoomAt
    <2>2. CASE ~(b + p + e < GlobalLimit)
      <3>1. ~Taken(h, p)' /\ ~Taken(h, p)
        <4>1. ~(month < month)
          BY <1>1, SpendAssumptions DEF Months
        <4> QED BY <1>1, <1>4, <2>2, <4>1 DEF Taken
      <3>2. PICK x \in Nat : x = FreeAt(p)[h] /\ x = FreeAt(p)'[h]
        BY <3>1, Dearests DEF FreeAt
      <3>3. billedSince'[month] - billedSince[month] <= FreeAt(p)'[h] - FreeAt(p)[h]
        BY <1>1, <1>2, <3>2
      <3>4. RoomAt(p)
        BY <1>2, <1>6 DEF GlobalRoom
      <3> QED BY <1>1, <1>5, <3>3, <3>4, RoomFollows
    <2> QED BY <2>1, <2>2
  <1> QED BY <1>1, <1>2, <1>6 DEF GlobalRoom

\* Passing the check is having had a place already.
LEMMA RoomPassed ==
    ASSUME TypeOK, TypeOK', UserCalls, GlobalLimit \in Nat, GlobalRoom, NEW h \in Handlers,
           CheckGlobal(h)
    PROVE  GlobalRoom'
  <1>1. /\ month \in Months /\ month' = month /\ today' = today /\ billedSince' = billedSince
        /\ publicSince' = publicSince
    BY MonthTypes DEF CheckGlobal, Refuse, ledgers
  <1>2. publicSince[month] \in Int
    BY <1>1 DEF TypeOK, Sums
  <1>3. \A g \in Handlers \ {h} : pc'[g] = pc[g] /\ task'[g] = task[g]
    BY OthersStay DEF ServerStep
  <1>4. ASSUME NEW p \in Int, p <= publicSince[month], Taken(h, p)' PROVE Taken(h, p)
    <2>1. ~Refuse(h)
      BY <1>4, RefusedIsIdle DEF Refuse, Taken
    <2>2. /\ pc[h] = "global"
          /\ ~Exceeds(task[h].seen + publicSince[task[h].window], task[h].est, GlobalLimit)
      BY <2>1 DEF CheckGlobal
    <2>3. PICK s, w \in Int, e \in Nat :
             s = task[h].seen /\ w = task[h].window /\ e = task[h].est
      <3>1. task[h] \in Task /\ Months \subseteq Int
        BY SpendAssumptions DEF TypeOK, Months
      <3> QED BY <3>1 DEF Task
    <2>4. w <= month
      BY <2>2, <2>3 DEF UserCalls, UserCall
    <2>5. CASE w < month
      BY <2>2, <2>3, <2>5 DEF Taken
    <2>6. CASE w = month
      <3>1. PICK q \in Int : q = publicSince[month] /\ p <= q
        BY <1>2, <1>4
      <3>2. GlobalLimit # NoLimit
        BY SpendAssumptions
      <3>3. ~(s + q + e >= GlobalLimit)
        BY <2>2, <2>3, <2>6, <3>1, <3>2 DEF Exceeds
      <3>4. s + p + e < GlobalLimit
        BY <3>1, <3>3
      <3> QED BY <2>2, <2>3, <3>4 DEF Taken
    <2>7. PICK m \in Int : m = month
      BY <1>1, SpendAssumptions DEF Months
    <2>8. w < m \/ w = m
      BY <2>3, <2>4, <2>7
    <2> QED BY <2>5, <2>6, <2>7, <2>8
  <1> QED BY <1>1, <1>2, <1>3, <1>4, RoomKept

\* Recording costs no more than the place it gives back.
LEMMA RoomRecord ==
    ASSUME TypeOK, TypeOK', UserCalls, GlobalLimit \in Nat, GlobalRoom, NEW h \in Handlers,
           Record(h)
    PROVE  GlobalRoom'
  <1>1. /\ month \in Months /\ month' = month /\ today' = today /\ publicSince' = publicSince
        /\ billedSince \in Sums
    BY MonthTypes DEF Record, TypeOK
  <1>2. PICK c \in Nat : c <= MaxCall /\ billedSince' = Add(billedSince, month, c)
    BY RecordAdds
  <1>3. PICK b \in Int : b = billedSince[month]
    BY <1>1 DEF Sums
  <1>4. billedSince'[month] = b + c
    <2>1. month <= month /\ c \in Int
      BY <1>1, SpendAssumptions DEF Months
    <2> QED BY <1>1, <1>2, <1>3, <2>1, AddSums
  <1>5. pc[h] = "settle" /\ task[h].user # None /\ pc'[h] = "idle"
    BY RefusedIsIdle DEF Record
  <1>6. \A g \in Handlers \ {h} : pc'[g] = pc[g] /\ task'[g] = task[g]
    BY OthersStay DEF ServerStep
  <1>7. ASSUME NEW p \in Int, RoomAt(p) PROVE RoomAt(p)'
    <2>1. FreeAt(p)[h] = 0 /\ FreeAt(p)'[h] = MaxCall
      BY <1>5 DEF FreeAt, Taken
    <2>2. billedSince'[month] - billedSince[month] <= FreeAt(p)'[h] - FreeAt(p)[h]
      BY <1>2, <1>3, <1>4, <2>1, Dearests
    <2> QED BY <1>1, <1>6, <1>7, <2>2, RoomFollows
  <1> QED BY <1>1, <1>7 DEF GlobalRoom

\* One step keeps the month within its bound.
LEMMA GlobalRoomStep ==
    ASSUME TypeOK, TypeOK', Estimates, UserCalls, Ledgers, Ledgers', GlobalRoom,
           GlobalLimit \in Nat, GlobalLimit > 0, AnyLimitConfigured, [Next]_vars
    PROVE  GlobalRoom'
  <1>1. /\ month \in Months /\ month' \in Months /\ (today' = today => month' = month)
        /\ publicSince[month] \in Int /\ billedSince[month] \in Int
    BY MonthTypes DEF TypeOK, Sums
  <1>2. month \in Nat /\ month' \in Nat
    BY <1>1, SpendAssumptions DEF Months
  <1>3. ASSUME NEW h \in Handlers,
               \/ Visit(h) \/ Acquire(h) \/ CountCalls(h)
               \/ CheckPublic(h) \/ CheckUser(h) \/ CommitFails(h)
               \/ NoAnswer(h) \/ \E n \in Tokens : Answer(h, n)
               \/ \E u \in Accounts, m \in Models : Ask(h, u, m)
        PROVE  GlobalRoom'
    <2>1. UNCHANGED <<today, billedSince, publicSince>>
      BY <1>3
      DEF Visit, Acquire, CountCalls, CheckPublic, CheckUser, CommitFails, NoAnswer, Answer, Ask,
          Refuse, ledgers
    <2>2. \/ pc'[h] \in {"idle", "admit", "count", "sum"}
          \/ pc[h] = "public" /\ pc'[h] = "reserve"
          \/ /\ pc[h] \in {"user", "call"} /\ pc'[h] \in {"call", "settle"}
             /\ task'[h].user = task[h].user
      <3>1. CASE NoAnswer(h) \/ \E n \in Tokens : Answer(h, n)
        <4>1. pc[h] = "call"
          BY <3>1 DEF NoAnswer, Answer
        <4>2. \E t \in Task : AttemptOver(h, t) /\ t.user = task[h].user
          BY <3>1, AnsweredTask DEF NoAnswer, TypeOK
        <4> QED BY <4>1, <4>2, AttemptFields
      <3>2. CASE CheckUser(h)
        <4>1. [task[h] EXCEPT !.window = 0, !.seen = 0].user = task[h].user
          BY DEF TypeOK, Task
        <4> QED BY <3>2, <4>1, RefusedIsIdle DEF CheckUser, Refuse, TypeOK, Goto
      <3>3. CASE \/ Visit(h) \/ Acquire(h) \/ CountCalls(h) \/ CheckPublic(h) \/ CommitFails(h)
                 \/ \E u \in Accounts, m \in Models : Ask(h, u, m)
        BY <3>3, RefusedIsIdle
        DEF Visit, Acquire, CountCalls, CheckPublic, CommitFails, Ask, Refuse, TypeOK, Goto
      <3> QED BY <1>3, <3>1, <3>2, <3>3
    <2>3. \A p \in Int : Taken(h, p)' => Taken(h, p)
      BY <2>2 DEF Taken
    <2>4. \A g \in Handlers \ {h} : pc'[g] = pc[g] /\ task'[g] = task[g]
      BY <1>3, OthersStay DEF ServerStep
    <2>5. publicSince'[month] <= publicSince[month]
      BY <1>1, <2>1
    <2> QED BY <2>1, <2>3, <2>4, <2>5, RoomKept
  <1>4. ASSUME NEW h \in Handlers, Settle(h) PROVE GlobalRoom'
    <2>1. /\ today' = today /\ billedSince' = billedSince /\ pc'[h] = "idle"
          /\ publicSince' = Add(publicSince, task[h].window, SettledCost(task[h]) - task[h].est)
      BY <1>4, RefusedIsIdle DEF Settle
    <2>2. PICK d \in Int : d = SettledCost(task[h]) - task[h].est /\ d <= 0
      <3>1. task[h].cost \in Nat /\ task[h].est \in Nat /\ task[h].cost <= task[h].est
        BY <1>4 DEF Settle, Estimates, Visitor, WithinEstimate, TypeOK, Task
      <3> QED BY <3>1 DEF SettledCost
    <2>3. publicSince'[month] <= publicSince[month]
      <3>1. publicSince \in Sums /\ task[h].window \in Months /\ task[h].window \in Int
            /\ month \in Int
        BY <1>2, SpendAssumptions DEF TypeOK, Task, Months
      <3> QED BY <1>1, <2>1, <2>2, <3>1, AddSums
    <2>4. \A g \in Handlers \ {h} : pc'[g] = pc[g] /\ task'[g] = task[g]
      BY <1>4, OthersStay DEF ServerStep
    <2>5. \A p \in Int : ~Taken(h, p)'
      BY <2>1 DEF Taken
    <2> QED BY <2>1, <2>3, <2>4, <2>5, RoomKept
  <1>5. ASSUME NEW u \in Accounts, DeleteAccount(u) PROVE GlobalRoom'
    <2>1. UNCHANGED <<today, publicSince, pc, task>> /\ month' = month
          /\ billedSince'[month] = billedSince[month] - userSince[u][month]
      BY <1>1, <1>5 DEF DeleteAccount
    <2>2. 0 <= userSince[u][month] /\ userSince[u][month] \in Int
      <3>1. month <= month
        BY <1>2
      <3> QED BY <1>1, <3>1 DEF Ledgers, TypeOK, Sums
    <2>3. billedSince'[month] <= billedSince[month]
      BY <1>1, <2>1, <2>2
    <2>4. \A h \in Handlers : \A p \in Int : Taken(h, p)' => Taken(h, p)
      BY <2>1 DEF Taken
    <2> QED BY <2>1, <2>3, <2>4, RoomGrows
  <1>6. CASE Crash
    <2>1. UNCHANGED <<today, billedSince, publicSince>>
      BY <1>6 DEF Crash, ledgers
    <2>2. \A h \in Handlers : \A p \in Int : ~Taken(h, p)'
      BY <1>6 DEF Crash, Taken
    <2>3. billedSince'[month] <= billedSince[month]
      BY <1>1, <2>1
    <2> QED BY <2>1, <2>2, <2>3, RoomGrows
  <1>7. CASE NextDay
    <2>1. UNCHANGED <<billedSince, publicSince, pc, task>> /\ month <= month'
      BY <1>7, MonthsPass DEF NextDay, ledgers
    <2>2. CASE month' = month
      <3>1. \A p, h : Taken(h, p)' <=> Taken(h, p)
        BY <2>1, <2>2 DEF Taken
      <3>2. \A p \in Int : FreeAt(p)' = FreeAt(p)
        BY <3>1 DEF FreeAt
      <3> QED BY <2>1, <2>2, <3>2 DEF GlobalRoom, RoomAt
    <2>3. CASE month < month'
      <3>1. billedSince'[month'] = 0 /\ publicSince'[month'] = 0
        BY <1>1, <2>1, <2>3 DEF Ledgers
      <3>2. ASSUME NEW p \in Int, p <= 0 PROVE RoomAt(p)'
        <4>1. PICK d \in Int : d = 0 + p - GlobalLimit + 1 /\ d <= 0
          BY <3>2
        <4>2. PICK f : f = FreeAt(p)'
          OBVIOUS
        <4>3. \A x \in Handlers : f[x] \in Nat
          BY <4>2, Dearests DEF FreeAt
        <4>4. AtLeast(f, d)
          BY <4>1, <4>3, AtLeastNothing
        <4> QED BY <3>1, <4>1, <4>2, <4>4 DEF RoomAt
      <3> QED BY <3>1, <3>2 DEF GlobalRoom
    <2> QED BY <1>2, <2>1, <2>2, <2>3
  <1>8. CASE UNCHANGED vars
    <2>1. \A p \in Int : FreeAt(p)' = FreeAt(p)
      BY <1>8 DEF vars, FreeAt, Taken, month
    <2> QED BY <1>8, <2>1 DEF vars, GlobalRoom, RoomAt, month
  <1> QED
    BY <1>3, <1>4, <1>5, <1>6, <1>7, <1>8, RoomRead, RoomPassed, RoomRecord, RoomReserve
    DEF Next, ServerStep

-----------------------------------------------------------------------------
(* The bound                                                               *)

OvershootInv ==
    /\ PublicInv
    /\ AnyLimitConfigured => UserCalls /\ Ledgers
    /\ UserLimit # NoLimit /\ UserLimit > 0 => UserRoom
    /\ GlobalLimit # NoLimit /\ GlobalLimit > 0 => GlobalRoom

LEMMA OvershootInit == Init => OvershootInv
  <1> SUFFICES ASSUME Init PROVE OvershootInv
    OBVIOUS
  <1>1. PublicInv /\ TypeOK
    BY PublicInit DEF PublicInv, DailyInv
  <1>2. month \in Months
    BY <1>1, MonthType DEF TypeOK
  <1>3. \A w \in Months : /\ publicSince[w] = 0 /\ billedSince[w] = 0
                          /\ \A u \in Accounts : userSince[u][w] = 0
    BY DEF Init
  <1>4. UserCalls /\ Ledgers
    <2>1. UserCalls
      BY DEF Init, UserCalls, UserCall, Asking
    <2> QED BY <1>3, <2>1 DEF Ledgers
  <1>5. ASSUME UserLimit # NoLimit /\ UserLimit > 0 PROVE UserRoom
    <2>1. ASSUME NEW u \in Accounts
          PROVE  AtLeast(FreeFor(u), userSince[u][month] - UserLimit + 1)
      <3>1. PICK d \in Int : d = userSince[u][month] - UserLimit + 1 /\ d <= 0
        <4>1. UserLimit \in Nat
          BY <1>5, SpendAssumptions DEF Limits
        <4> QED BY <1>2, <1>3, <1>5, <4>1
      <3>2. \A x \in Handlers : FreeFor(u)[x] \in Nat
        BY Dearests DEF FreeFor
      <3> QED BY <3>1, <3>2, AtLeastNothing
    <2> QED BY <2>1 DEF UserRoom
  <1>6. ASSUME GlobalLimit # NoLimit /\ GlobalLimit > 0 PROVE GlobalRoom
    <2>1. ASSUME NEW p \in Int, p <= 0 PROVE RoomAt(p)
      <3>1. PICK d \in Int : d = billedSince[month] + p - GlobalLimit + 1 /\ d <= 0
        <4>1. GlobalLimit \in Nat
          BY <1>6, SpendAssumptions DEF Limits
        <4> QED BY <1>2, <1>3, <1>6, <2>1, <4>1
      <3>2. \A x \in Handlers : FreeAt(p)[x] \in Nat
        BY FreeAtNat
      <3> QED BY <3>1, <3>2, AtLeastNothing DEF RoomAt
    <2> QED BY <1>2, <1>3, <2>1 DEF GlobalRoom
  <1> QED BY <1>1, <1>4, <1>5, <1>6 DEF OvershootInv

LEMMA OvershootStep == OvershootInv /\ [Next]_vars => OvershootInv'
  <1> SUFFICES ASSUME OvershootInv, [Next]_vars PROVE OvershootInv'
    OBVIOUS
  <1>1. PublicInv /\ PublicInv'
    BY PublicStep DEF OvershootInv
  <1>2. TypeOK /\ TypeOK'
    BY <1>1 DEF PublicInv, DailyInv
  <1>3. ASSUME AnyLimitConfigured PROVE UserCalls' /\ Ledgers' /\ Estimates /\ UserCalls /\ Ledgers
    <2>1. Estimates /\ UserCalls /\ Ledgers
      BY <1>1, <1>3 DEF OvershootInv, PublicInv
    <2> QED BY <1>2, <2>1, UserCallsStep, LedgersStep
  <1>4. ASSUME UserLimit # NoLimit /\ UserLimit > 0 PROVE UserRoom'
    <2>1. UserLimit \in Nat /\ AnyLimitConfigured /\ UserRoom
      BY <1>4, SpendAssumptions DEF Limits, AnyLimitConfigured, OvershootInv
    <2> QED BY <1>2, <1>3, <1>4, <2>1, UserRoomStep
  <1>5. ASSUME GlobalLimit # NoLimit /\ GlobalLimit > 0 PROVE GlobalRoom'
    <2>1. GlobalLimit \in Nat /\ AnyLimitConfigured /\ GlobalRoom
      BY <1>5, SpendAssumptions DEF Limits, AnyLimitConfigured, OvershootInv
    <2> QED BY <1>2, <1>3, <1>5, <2>1, GlobalRoomStep
  <1> QED BY <1>1, <1>3, <1>4, <1>5 DEF OvershootInv, AnyLimitConfigured

\* The invariant bounds a month's spend.
LEMMA OvershootFollows == OvershootInv => OvershootBounded
  <1> SUFFICES ASSUME OvershootInv PROVE UserOvershoot /\ GlobalOvershoot
    BY DEF OvershootBounded
  <1>1. TypeOK /\ month \in Months
    BY MonthType DEF OvershootInv, PublicInv, DailyInv, TypeOK
  <1>2. PICK k \in Nat : k = Cardinality(Handlers)
    BY FS_CardinalityType, SpendAssumptions
  <1>3. UserOvershoot
    <2> SUFFICES ASSUME UserLimit # NoLimit, UserLimit > 0, NEW u \in Accounts
                 PROVE  userSince[u][month] < UserLimit + k * MaxUser
      BY <1>2 DEF UserOvershoot, MaxUser
    <2>1. UserLimit \in Nat
      BY SpendAssumptions DEF Limits
    <2>2. PICK s \in Int : s = userSince[u][month]
      BY <1>1 DEF TypeOK, Sums
    <2>3. PICK c \in Int : c = s - UserLimit + 1
      BY <2>1
    <2>4. \A x \in Handlers : FreeFor(u)[x] \in Nat /\ FreeFor(u)[x] <= MaxUser
      BY Dearests DEF FreeFor
    <2>5. c <= k * MaxUser
      BY <1>2, <2>2, <2>3, <2>4, AtLeastBounded, Dearests DEF OvershootInv, UserRoom
    <2>6. PICK b \in Nat : b = k * MaxUser
      BY <1>2, ProductNat, Dearests
    <2> QED BY <2>1, <2>2, <2>3, <2>5, <2>6
  <1>4. GlobalOvershoot
    <2> SUFFICES ASSUME GlobalLimit # NoLimit, GlobalLimit > 0
                 PROVE  billedSince[month] + publicSince[month] < GlobalLimit + k * MaxCall
      BY <1>2 DEF GlobalOvershoot, MaxCall
    <2>1. GlobalLimit \in Nat
      BY SpendAssumptions DEF Limits
    <2>2. PICK s, p \in Int : s = billedSince[month] /\ p = publicSince[month] /\ p <= p
      BY <1>1 DEF TypeOK, Sums
    <2>3. PICK c \in Int : c = s + p - GlobalLimit + 1
      BY <2>1
    <2>4. \A x \in Handlers : FreeAt(p)[x] \in Nat /\ FreeAt(p)[x] <= MaxCall
      BY Dearests DEF FreeAt
    <2>5. c <= k * MaxCall
      BY <1>2, <2>2, <2>3, <2>4, AtLeastBounded, Dearests DEF OvershootInv, GlobalRoom, RoomAt
    <2>6. PICK b \in Nat : b = k * MaxCall
      BY <1>2, ProductNat, Dearests
    <2> QED BY <2>1, <2>2, <2>3, <2>5, <2>6
  <1> QED BY <1>3, <1>4

\* Though checking a ceiling reserves nothing, a month's spend passes the user's
\* ceiling and the shared one by less than one call for each worker thread: for
\* any number of threads, wherever calls end, accounts are deleted, the server
\* restarts and months turn (BudgetService.check, check_public).
THEOREM OvershootIsBounded == Spec => []OvershootBounded
  BY OvershootInit, OvershootStep, OvershootFollows, PTL DEF Spec

=============================================================================
