---------------------------- MODULE SpendBudget ----------------------------
(***************************************************************************)
(* Spend ceilings and the ledgers behind them: BudgetService,              *)
(* spend_ledger and the free refiner (public_refine).                      *)
(*                                                                         *)
(* A signed-in call is checked against the ledger, made, and recorded      *)
(* afterwards.  A visitor's call is checked and recorded at an estimate    *)
(* under the admission lock, made, and settled to what it cost.  The       *)
(* ledgers are only ever summed from the start of a day or a month, so     *)
(* they are kept as those sums: callsSince[d] is the number of             *)
(* public_billed_calls created on day d or later; publicSince[m],          *)
(* billedSince[m] and userSince[u][m] are costs since month m, of          *)
(* visitors, of all accounts and of one.                                   *)
(*                                                                         *)
(* Costs are whole units: tokens times the rate of the model.  All models  *)
(* here are hosted; the rates do not change while the server runs.         *)
(***************************************************************************)
EXTENDS Integers, FiniteSets

CONSTANTS
    Handlers,       \* worker threads
    Accounts,       \* signed-in users
    None,           \* nobody
    NoLimit,        \* a ceiling that is not configured
    Models,         \* hosted models
    ServerModel,    \* the model of the server default connection
    Priced,         \* the models with published rates
    Rate,           \* rate of a priced model
    FallbackRate,   \* FALLBACK_RATES_USD_PER_MILLION
    Tokens,         \* token counts one attempt may report; 0 is no usage block
    EstTokens,      \* tokens a visitor's attempt is estimated at
    AssumedTokens,  \* ASSUMED_TOKENS_WHEN_USAGE_MISSING
    DailyLimit, GlobalLimit, UserLimit, PublicLimit,
    MonthOf,        \* day -> its month
    MaxDay          \* bound: the last day

Limits == Nat \cup {NoLimit}

ASSUME SpendAssumptions ==
    /\ IsFiniteSet(Handlers)
    /\ DailyLimit \in Nat /\ MaxDay \in Nat
    /\ MonthOf \in [0..MaxDay -> 0..MaxDay]
    /\ \A d, e \in 0..MaxDay : d <= e => MonthOf[d] <= MonthOf[e]
    /\ GlobalLimit \in Limits /\ UserLimit \in Limits /\ PublicLimit \in Limits
    /\ NoLimit \notin Nat /\ None \notin Accounts \cup Handlers
    /\ Priced \subseteq Models /\ ServerModel \in Models
    /\ Rate \in Nat /\ FallbackRate \in Nat
    /\ EstTokens \in Nat /\ AssumedTokens \in Nat /\ Tokens \subseteq Nat

\* What makes the estimate pessimistic: no attempt uses more tokens than the
\* input length and the output cap allow, and the tokens assumed for a silent
\* attempt are within the estimate of two.
ASSUME EstimateIsPessimistic ==
    /\ \A t \in Tokens : t <= EstTokens
    /\ AssumedTokens <= 2 * EstTokens

Days == 0..MaxDay
Months == 0..MaxDay

VARIABLES
    today,        \* the UTC day
    callsSince, publicSince, billedSince, userSince,
    live,         \* accounts that exist
    lock,         \* _admission: the handler that holds it, or None
    pc,           \* handler -> what it does next
    task,         \* handler -> what it carries
    reported      \* history variable: cost of all answers to visitors' calls

ledgers == <<callsSince, publicSince, billedSince, userSince>>
vars == <<today, callsSince, publicSince, billedSince, userSince, live, lock, pc, task,
          reported>>

month == MonthOf[today]

-----------------------------------------------------------------------------
(* Prices                                                                  *)

AnyLimitConfigured ==
    GlobalLimit # NoLimit \/ UserLimit # NoLimit \/ PublicLimit # NoLimit

\* cost_usd_for with assume_cost_when_unknown = AnyLimitConfigured
RateOf(m) ==
    IF m \in Priced THEN Rate ELSE IF AnyLimitConfigured THEN FallbackRate ELSE 0

\* priced_usage: with a ceiling, a silent answer of a priced model is charged
\* at the assumed tokens.
PricedUsage(m, t) ==
    IF AnyLimitConfigured /\ t = 0 /\ m \in Priced
    THEN AssumedTokens * RateOf(m)
    ELSE t * RateOf(m)

\* _ATTEMPTS_PER_CALL: json_completion tries twice, the SDK retries each once.
AttemptsPerCall == 4

\* estimated_cost_usd of the free refiner.
MutOneAttempt(m) == IF AnyLimitConfigured THEN EstTokens * RateOf(m) ELSE 0
PublicEstimate(m) ==
    IF AnyLimitConfigured THEN AttemptsPerCall * (EstTokens * RateOf(m)) ELSE 0

-----------------------------------------------------------------------------
(* Handlers                                                                *)

Steps == {"idle", "admit", "count", "sum", "global", "public", "reserve", "user", "call",
          "settle"}

\* window: first month the sums cover, then the month of the reserved row;
\* seen: the sum of billed_calls read; last: the second attempt is running;
\* answered: the attempt that ended the call was answered; cost, tokens and
\* silent describe the captured usage.
Task == [user : Accounts \cup {None}, model : Models \cup {None}, est : Nat,
         window : Months, seen : Int, last : BOOLEAN, answered : BOOLEAN,
         cost : Nat, tokens : Nat, silent : BOOLEAN]

NoTask == [user |-> None, model |-> None, est |-> 0, window |-> 0, seen |-> 0,
           last |-> FALSE, answered |-> FALSE, cost |-> 0, tokens |-> 0,
           silent |-> FALSE]

Goto(h, step) == pc' = [pc EXCEPT ![h] = step]

Finish(h) == Goto(h, "idle") /\ task' = [task EXCEPT ![h] = NoTask]

\* Leaving the `with _admission' block, if the handler is in it.
MutKeepLock(h) == UNCHANGED lock
Unlock(h) == lock' = IF lock = h THEN None ELSE lock

\* public_refine_questions and public_refine_draft: the estimate is computed
\* before the lock is taken.
Visit(h) ==
    /\ pc[h] = "idle"
    /\ Goto(h, "admit")
    /\ task' = [task EXCEPT ![h] = [NoTask EXCEPT !.model = ServerModel,
                                                  !.est = PublicEstimate(ServerModel)]]
    /\ UNCHANGED <<today, ledgers, live, lock, reported>>

\* A signed-in user's single call (try once, refine, import) is checked without
\* an estimate.
Ask(h, u, m) ==
    /\ pc[h] = "idle"
    /\ u \in live
    /\ Goto(h, "sum")
    /\ task' = [task EXCEPT ![h] = [NoTask EXCEPT !.user = u, !.model = m]]
    /\ UNCHANGED <<today, ledgers, live, lock, reported>>

Acquire(h) ==
    /\ pc[h] = "admit"
    /\ lock = None
    /\ lock' = h
    /\ Goto(h, "count")
    /\ UNCHANGED <<today, ledgers, live, task, reported>>

\* Raising OperationError or BudgetExceededError.
Refuse(h) == Finish(h) /\ Unlock(h) /\ UNCHANGED <<today, ledgers, live, reported>>

\* _calls_today against daily_limit
MutOneTooMany(d) == callsSince[d] <= DailyLimit
UnderDailyLimit(d) == callsSince[d] < DailyLimit

CountCalls(h) ==
    /\ pc[h] = "count"
    /\ \/ ~UnderDailyLimit(today) /\ Refuse(h)
       \/ /\ UnderDailyLimit(today)
          /\ Goto(h, "sum")
          /\ UNCHANGED <<today, ledgers, live, lock, task, reported>>

\* check and check_public read the clock for the window, and _spent_since sums
\* billed_calls; public_billed_calls is another query.
SumBilled(h) ==
    /\ pc[h] = "sum"
    /\ task' = [task EXCEPT ![h] = [@ EXCEPT !.window = month, !.seen = billedSince[month]]]
    /\ Goto(h, "global")
    /\ UNCHANGED <<today, ledgers, live, lock, reported>>

\* A ceiling is reached, or would be by the estimate.
MutIgnoreEstimate(spent, est, limit) == limit # NoLimit /\ spent >= limit
MutPastLimit(spent, est, limit) == limit # NoLimit /\ spent + est > limit
Exceeds(spent, est, limit) == limit # NoLimit /\ spent + est >= limit

\* _check_global: billed_calls was summed in the step before.
CheckGlobal(h) ==
    /\ pc[h] = "global"
    /\ LET spent == task[h].seen + publicSince[task[h].window]
       IN \/ Exceeds(spent, task[h].est, GlobalLimit) /\ Refuse(h)
          \/ /\ ~Exceeds(spent, task[h].est, GlobalLimit)
             /\ Goto(h, IF task[h].user = None THEN "public" ELSE "user")
             /\ UNCHANGED <<today, ledgers, live, lock, task, reported>>

\* The second half of check_public.
CheckPublic(h) ==
    /\ pc[h] = "public"
    /\ LET spent == publicSince[task[h].window]
       IN \/ Exceeds(spent, task[h].est, PublicLimit) /\ Refuse(h)
          \/ /\ ~Exceeds(spent, task[h].est, PublicLimit)
             /\ Goto(h, "reserve")
             /\ UNCHANGED <<today, ledgers, live, lock, task, reported>>

\* The second half of check.
CheckUser(h) ==
    /\ pc[h] = "user"
    /\ LET spent == userSince[task[h].user][task[h].window]
       IN \/ Exceeds(spent, task[h].est, UserLimit) /\ Refuse(h)
          \/ /\ ~Exceeds(spent, task[h].est, UserLimit)
             /\ Goto(h, "call")
             /\ task' = [task EXCEPT ![h] = [@ EXCEPT !.window = 0, !.seen = 0]]
             /\ UNCHANGED <<today, ledgers, live, lock, reported>>

\* A row of month m that costs c, as the sums see it.
MutAddDropsLater(since, m, c) == [w \in 0..m |-> since[w] + c]
Add(since, m, c) == [w \in Months |-> IF w <= m THEN since[w] + c ELSE since[w]]

\* The commit of reserve_call.  created_at is set when the row is written.
Reserve(h) ==
    /\ pc[h] = "reserve"
    /\ callsSince' = [d \in Days |-> IF d <= today THEN callsSince[d] + 1 ELSE callsSince[d]]
    /\ publicSince' = Add(publicSince, month, task[h].est)
    /\ task' = [task EXCEPT ![h] = [@ EXCEPT !.window = month, !.seen = 0]]
    /\ Goto(h, "call")
    /\ Unlock(h)
    /\ UNCHANGED <<today, billedSince, userSince, live, reported>>

-----------------------------------------------------------------------------
(* The call and its bill                                                   *)

\* An attempt of json_completion is over: the first may be followed by
\* another, and either may end the call.
AttemptOver(h, t) ==
    \/ /\ ~t.last
       /\ task' = [task EXCEPT ![h] = [t EXCEPT !.last = TRUE, !.answered = FALSE]]
       /\ UNCHANGED pc
    \/ /\ task' = [task EXCEPT ![h] = [t EXCEPT !.last = FALSE]]
       /\ Goto(h, "settle")

\* The provider answers with n tokens: usage is captured before the answer is
\* parsed or validated.
Answer(h, n) ==
    /\ pc[h] = "call"
    /\ LET t == task[h]
           c == PricedUsage(t.model, n)
       IN /\ AttemptOver(h, [t EXCEPT !.cost = @ + c, !.tokens = @ + n,
                                      !.silent = @ \/ n = 0, !.answered = TRUE])
          /\ reported' = IF t.user = None THEN reported + c ELSE reported
    /\ UNCHANGED <<today, ledgers, live, lock>>

\* The provider rejects the request, or fails, or times out.
NoAnswer(h) ==
    /\ pc[h] = "call"
    /\ AttemptOver(h, task[h])
    /\ UNCHANGED <<today, ledgers, live, lock, reported>>

\* settle_call: what the row costs in the end.
SettledCost(t) ==
    IF t.silent /\ t.cost < t.est THEN t.est ELSE t.cost

Settle(h) ==
    /\ pc[h] = "settle" /\ task[h].user = None
    /\ publicSince' = Add(publicSince, task[h].window, SettledCost(task[h]) - task[h].est)
    /\ Finish(h)
    /\ UNCHANGED <<today, callsSince, billedSince, userSince, live, lock, reported>>

\* record_billed_call: a call that succeeds is one row at its total usage, one
\* that fails (bill_failed_attempts) is one row per captured answer.  An answer
\* may still fail to parse or to validate.
RecordedCosts(t) ==
    {t.cost} \cup (IF t.answered THEN {PricedUsage(t.model, t.tokens)} ELSE {})

\* The commit fails on the foreign key when the account is gone.
Record(h) ==
    /\ pc[h] = "settle" /\ task[h].user # None
    /\ LET u == task[h].user
       IN \E c \in IF u \in live THEN RecordedCosts(task[h]) ELSE {0} :
             /\ userSince' = [userSince EXCEPT ![u] = Add(userSince[u], month, c)]
             /\ billedSince' = Add(billedSince, month, c)
    /\ Finish(h)
    /\ UNCHANGED <<today, callsSince, publicSince, live, lock, reported>>

\* The database stays locked past busy_timeout: nothing is written, the
\* exception leaves the handler, and a reservation not settled stays.
CommitFails(h) ==
    /\ pc[h] \in {"reserve", "settle"}
    /\ Refuse(h)

\* delete_account: the rows of billed_calls go with the account.
DeleteAccount(u) ==
    /\ u \in live
    /\ live' = live \ {u}
    /\ userSince' = [userSince EXCEPT ![u] = [m \in Months |-> 0]]
    /\ billedSince' = [m \in Months |-> billedSince[m] - userSince[u][m]]
    /\ UNCHANGED <<today, callsSince, publicSince, lock, pc, task, reported>>

\* The backend process stops and starts again: what handlers and the lock held
\* is gone, the ledgers stay.
Crash ==
    /\ pc' = [h \in Handlers |-> "idle"]
    /\ task' = [h \in Handlers |-> NoTask]
    /\ lock' = None
    /\ UNCHANGED <<today, ledgers, live, reported>>

NextDay ==
    /\ today < MaxDay
    /\ today' = today + 1
    /\ UNCHANGED <<ledgers, live, lock, pc, task, reported>>

Init ==
    /\ today = 0
    /\ callsSince = [d \in Days |-> 0]
    /\ publicSince = [m \in Months |-> 0]
    /\ billedSince = [m \in Months |-> 0]
    /\ userSince = [u \in Accounts |-> [m \in Months |-> 0]]
    /\ live = Accounts
    /\ lock = None
    /\ pc = [h \in Handlers |-> "idle"]
    /\ task = [h \in Handlers |-> NoTask]
    /\ reported = 0

\* What the server does by itself once a request is in.
ServerStep(h) ==
    \/ Acquire(h) \/ CountCalls(h) \/ SumBilled(h) \/ CheckGlobal(h) \/ CheckPublic(h)
    \/ CheckUser(h) \/ Reserve(h) \/ Settle(h) \/ Record(h) \/ CommitFails(h)

Next ==
    \/ \E h \in Handlers :
          \/ Visit(h)
          \/ \E u \in Accounts, m \in Models : Ask(h, u, m)
          \/ ServerStep(h)
          \/ \E n \in Tokens : Answer(h, n)
          \/ NoAnswer(h)
    \/ \E u \in Accounts : DeleteAccount(u)
    \/ Crash
    \/ NextDay

Spec == Init /\ [][Next]_vars

\* Threads of the server run; nothing is assumed of the provider, so a call may
\* last for ever.
FairSpec == Spec /\ \A h \in Handlers : WF_vars(ServerStep(h))

-----------------------------------------------------------------------------
(* Properties                                                              *)

Sums == [Months -> Int]

TypeOK ==
    /\ today \in Days
    /\ callsSince \in [Days -> Nat]
    /\ publicSince \in Sums /\ billedSince \in Sums
    /\ userSince \in [Accounts -> Sums]
    /\ live \subseteq Accounts
    /\ lock \in Handlers \cup {None}
    /\ pc \in [Handlers -> Steps]
    /\ task \in [Handlers -> Task]
    /\ reported \in Nat

\* No day has more calls in the public ledger than PUBLIC_REFINE_DAILY_LIMIT,
\* however requests, midnight, failures and restarts fall (reserve_call).
DailyCap == callsSince[today] <= DailyLimit

\* Public spend of a month, reservations included, never passes
\* PUBLIC_MONTHLY_BUDGET_USD: checking and reserving are one step under the
\* admission lock, and settling never raises a row above its reservation.
PublicCap == PublicLimit # NoLimit => publicSince[month] <= PublicLimit

\* With a ceiling configured, the public ledger is never below what the
\* provider reported for visitors' calls, also in the middle of a call, after
\* a failed settlement and after a crash.
LedgerCoversReported == AnyLimitConfigured => reported <= publicSince[0]

\* The most one admitted call of a signed-in user can cost: two attempts on
\* the dearest model.
UserCallCosts == {2 * t * RateOf(m) : t \in {EstTokens, AssumedTokens}, m \in Models}
Dearest(costs) == CHOOSE c \in costs : \A d \in costs : d <= c

\* check is "not a reservation": concurrent calls may pass with the same
\* headroom.  A month's spend still passes the user's and the shared ceiling
\* by less than one call for each worker thread.
UserOvershoot ==
    UserLimit # NoLimit /\ UserLimit > 0 =>
       \A u \in Accounts :
          userSince[u][month] < UserLimit + Cardinality(Handlers) * Dearest(UserCallCosts)

GlobalOvershoot ==
    GlobalLimit # NoLimit /\ GlobalLimit > 0 =>
       billedSince[month] + publicSince[month]
          < GlobalLimit + Cardinality(Handlers)
                            * Dearest(UserCallCosts \cup {PublicEstimate(ServerModel)})

\* (A ceiling of 0 admits no call at all.)
OvershootBounded == UserOvershoot /\ GlobalOvershoot

\* The admission lock is always given back, though a provider may never
\* answer: no visitor waits on another visitor's call (reserve_call).
LockReleased == lock # None ~> lock = None

\* "With a ceiling configured, a call whose cost cannot be determined must not
\* be recorded as free" (priced_usage): recording an answered call raises the
\* spend of its user.
NoCallIsFree ==
    [][\A h \in Handlers :
          (Record(h) /\ task[h].answered /\ task[h].user \in live /\ AnyLimitConfigured)
              => userSince' # userSince]_vars

=============================================================================
