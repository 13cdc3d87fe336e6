--------------------------- MODULE HouseholdRules ---------------------------
(***************************************************************************)
(* What a household's documents say, as functions of the documents         *)
(* (functions/shared).  The browser and the functions evaluate the same    *)
(* definitions, so the screens, the nightly pass and the alerts are meant  *)
(* to agree.                                                               *)
(*                                                                         *)
(* A collection is a function from ids to documents, of the documents that *)
(* are not deleted.  Days are numbered from the first day of a leap year;  *)
(* texts are members of a set, and what a text includes or is normalized   *)
(* to is a parameter.                                                      *)
(***************************************************************************)
EXTENDS Integers, Sequences, FiniteSets, FiniteSetsExt, SequencesExt

CONSTANTS
    None,       \* an optional field that is absent
    Rank,       \* id -> its place in localeCompare
    Includes,   \* <<text, phrase>>: the text includes the phrase
    Normal,     \* text -> normalizeDescription(text), "" when nothing is left
    MaxMonth,   \* months of the calendar
    MaxSafe     \* Number.MAX_SAFE_INTEGER

Abs(n) == IF n < 0 THEN -n ELSE n
SumOver(S, Value(_)) == MapThenSumSet(Value, S)
HalfUp(n, d) == (2 * n + d) \div (2 * d)      \* Math.round(n / d)

-----------------------------------------------------------------------------
(* exclusions.ts: what counts as money moving *)

Counted(t) == ~t.hidden /\ ~t.adjustment /\ t.transfer = None

-----------------------------------------------------------------------------
(* rules.ts *)

\* A rule that says nothing would match the whole household.
States(match) == \E f \in DOMAIN match : match[f] # None

RuleMatches(r, t) ==
    /\ r.enabled /\ States(r.match)
    /\ r.match.contains # None => <<t.text, r.match.contains>> \in Includes
    /\ r.match.equals # None => Normal[t.text] = r.match.equals
    /\ \A f \in {"merchant", "category", "account"} : r.match[f] # None => t[f] = r.match[f]
    /\ r.match.direction = "expense" => t.amount < 0
    /\ r.match.direction = "income" => t.amount > 0
    /\ r.match.min # None => t.amount >= r.match.min
    /\ r.match.max # None => t.amount <= r.match.max

Precedes(rules, i, j) == \/ rules[i].priority < rules[j].priority
                         \/ rules[i].priority = rules[j].priority /\ Rank[i] <= Rank[j]

\* The first rule that matches, lowest priority number first; None if none.
RuleFor(rules, t) ==
    LET M == {i \in DOMAIN rules : RuleMatches(rules[i], t)}
    IN  IF M = {} THEN None ELSE CHOOSE i \in M : \A j \in M : Precedes(rules, i, j)

-----------------------------------------------------------------------------
(* the calendar and recurrences.ts *)

Interval == [weekly    |-> [days |-> 7,   slack |-> 2,  months |-> 0],
             biweekly  |-> [days |-> 14,  slack |-> 3,  months |-> 0],
             monthly   |-> [days |-> 30,  slack |-> 5,  months |-> 1],
             quarterly |-> [days |-> 91,  slack |-> 10, months |-> 3],
             yearly    |-> [days |-> 365, slack |-> 20, months |-> 12]]
ByLength == <<"weekly", "biweekly", "monthly", "quarterly", "yearly">>

MonthLength(m) == IF m % 48 = 1 THEN 29
                  ELSE <<31, 28, 31, 30, 31, 30, 31, 31, 30, 31, 30, 31>>[(m % 12) + 1]
MonthStart(m) ==
    LET year == m \div 12
    IN  365 * year + (year + 3) \div 4 + (IF m % 48 \in 2..11 THEN 1 ELSE 0)
          + <<0, 31, 59, 90, 120, 151, 181, 212, 243, 273, 304, 334>>[(m % 12) + 1]
MonthOf(day) == CHOOSE m \in 0..(MaxMonth - 1) : MonthStart(m) <= day /\ day < MonthStart(m + 1)
DayOf(day) == day - MonthStart(MonthOf(day))

\* Months keep the day of the month, or take a shorter month's last day.
ShiftOccurrence(from, interval, count) ==
    IF Interval[interval].months = 0 THEN from + Interval[interval].days * count
    ELSE LET m == MonthOf(from) + Interval[interval].months * count
         IN  MonthStart(m) + Min({DayOf(from), MonthLength(m) - 1})

NextOccurrence(from, interval) == ShiftOccurrence(from, interval, 1)

\* The interval every gap is close to; None when they disagree.
IntervalOf(gaps) ==
    LET fits(i) == \A k \in DOMAIN gaps : Abs(gaps[k] - Interval[i].days) <= Interval[i].slack
        F == {k \in DOMAIN ByLength : fits(ByLength[k])}
    IN  IF F = {} THEN None ELSE ByLength[Min(F)]

Median(s) == LET half == Len(s) \div 2
             IN  IF Len(s) % 2 = 1 THEN s[half + 1] ELSE HalfUp(s[half] + s[half + 1], 2)

GroupKey(t) == <<t.account, Normal[t.text], t.currency>>

\* Three counted charges of one text on one account, regularly apart, that no
\* recurrence is known for.
DetectedIn(txs, known, key) ==
    LET G == {i \in DOMAIN txs : /\ txs[i].amount < 0 /\ Counted(txs[i])
                                 /\ Normal[txs[i].text] # "" /\ GroupKey(txs[i]) = key}
        order == SetToSortSeq(G, LAMBDA i, j : \/ txs[i].date < txs[j].date
                                               \/ txs[i].date = txs[j].date /\ Rank[i] < Rank[j])
        gaps == [k \in 1..(Len(order) - 1) |-> txs[order[k + 1]].date - txs[order[k]].date]
        amounts == SortSeq([k \in DOMAIN order |-> txs[order[k]].amount], <)
        last == txs[order[Len(order)]].date
    IN  IF \/ Cardinality(G) < 3 \/ IntervalOf(gaps) = None
           \/ \E k \in DOMAIN known : known[k].account = key[1] /\ known[k].text = key[2]
        THEN {}
        ELSE {[account |-> key[1], text |-> key[2], currency |-> key[3],
               interval |-> IntervalOf(gaps), expected |-> Median(amounts), last |-> last,
               next |-> NextOccurrence(last, IntervalOf(gaps)), matched |-> Len(order),
               status |-> "detected", paid |-> None]}
Detected(txs, known) == UNION {DetectedIn(txs, known, GroupKey(txs[i])) : i \in DOMAIN txs}

Sign(n) == IF n > 0 THEN 1 ELSE IF n < 0 THEN -1 ELSE 0

\* The transaction that paid a bill: the closest one within the slack.
Distance(r, t) == Abs(t.date - r.next)
MayPay(r, t) == /\ t.account = r.account /\ Counted(t) /\ Normal[t.text] = r.text
                /\ Sign(r.expected) \in {0, Sign(t.amount)}
Pays(r, t) == MayPay(r, t) /\ Distance(r, t) <= Interval[r.interval].slack
PaymentFor(r, txs) ==
    LET P == {i \in DOMAIN txs : Pays(r, txs[i])}
    IN  IF P = {} THEN None
        ELSE CHOOSE i \in P : \A j \in P :
                \/ Distance(r, txs[i]) < Distance(r, txs[j])
                \/ Distance(r, txs[i]) = Distance(r, txs[j]) /\ Rank[i] <= Rank[j]

\* One interval on from the payment's own date, not from the expected one.
AfterPayment(r, txs, i) ==
    [r EXCEPT !.next = NextOccurrence(txs[i].date, r.interval), !.last = txs[i].date,
              !.paid = i, !.matched = @ + 1]

-----------------------------------------------------------------------------
(* balances.ts *)

Liabilities == {"credit", "loan", "other_liability"}
Newer(r, s) == r.date > s.date \/ (r.date = s.date /\ r.observed >= s.observed)

\* The adjustments that once made the ledger meet the bank's balance.
IsBankReconciliation(t) == t.adjustment /\ t.reconciles

\* A report of the source is authoritative; without one the ledger is summed.
Balance(accounts, txs, reports, a) ==
    LET R == {k \in DOMAIN reports : /\ reports[k].account = a
                                     /\ reports[k].household = accounts[a].household
                                     /\ reports[k].currency = accounts[a].currency
                                     /\ Abs(reports[k].balance) <= MaxSafe}
        booked == {i \in DOMAIN txs : /\ txs[i].account = a /\ ~txs[i].pending
                                      /\ ~IsBankReconciliation(txs[i])}
    IN  IF R # {} THEN reports[CHOOSE k \in R : \A l \in R : Newer(reports[k], reports[l])].balance
        ELSE accounts[a].opening + accounts[a].holdings + SumOver(booked, LAMBDA i : txs[i].amount)

Balances(accounts, txs, reports) ==
    [a \in DOMAIN accounts |-> Balance(accounts, txs, reports, a)]

NetWorth(currency, accounts, balances) ==
    LET shown == {a \in DOMAIN accounts : /\ ~accounts[a].closed /\ ~accounts[a].hide
                                          /\ accounts[a].currency = currency}
        owed == {a \in shown : accounts[a].type \in Liabilities}
    IN  [assets |-> SumOver(shown \ owed, LAMBDA a : balances[a]),
         liabilities |-> SumOver(owed, LAMBDA a : -balances[a])]

SnapshotBalances(accounts, balances) ==
    [a \in {b \in DOMAIN accounts : ~accounts[b].closed} |-> balances[a]]

-----------------------------------------------------------------------------
(* budgets.ts *)

\* Mutant: a split transaction counts as itself too.
PartsAndWhole(t) == Append(t.splits, [category |-> t.category, amount |-> t.amount])

\* A transaction with splits is its splits.
Parts(t) == IF t.splits = <<>> THEN <<[category |-> t.category, amount |-> t.amount]>> ELSE t.splits
InMonth(txs, month, currency) ==
    {i \in DOMAIN txs : Counted(txs[i]) /\ txs[i].currency = currency /\ MonthOf(txs[i].date) = month}
SumParts(txs, month, currency, Counts(_)) ==
    LET part(i) == SumOver({k \in DOMAIN Parts(txs[i]) : Counts(Parts(txs[i])[k])},
                           LAMBDA k : Parts(txs[i])[k].amount)
    IN  SumOver(InMonth(txs, month, currency), part)

SpentInMonth(txs, category, month, currency) ==
    -SumParts(txs, month, currency, LAMBDA p : p.category = category)

\* What the unbroken run of rolling months before this one left over.
CarriedInto(budgets, txs, b) ==
    LET before(m) == {j \in DOMAIN budgets : /\ budgets[j].category = b.category
                                             /\ budgets[j].currency = b.currency
                                             /\ budgets[j].month = m /\ budgets[j].rollover}
        left[m \in 0..MaxMonth] ==      \* by the end of month m
            IF before(m) = {} THEN 0
            ELSE LET p == budgets[CHOOSE j \in before(m) : TRUE]
                 IN  p.amount + (IF m = 0 THEN 0 ELSE left[m - 1])
                        - SpentInMonth(txs, p.category, m, p.currency)
    IN  IF b.rollover /\ b.month > 0 THEN left[b.month - 1] ELSE 0

BudgetStatus(budgets, txs, b) ==
    [allowance |-> b.amount + CarriedInto(budgets, txs, b),
     spent |-> SpentInMonth(txs, b.category, b.month, b.currency)]

\* Neither a transfer nor the principal of a trade (a name of Buy or Sell).
IsCashFlowCategory(c) == c.kind # "transfer" /\ ~c.trade

\* The budget page of a month (monthBudgetModel), over categories with a
\* group each or None; groups may be budgeted as a whole.  A category without a
\* kind is one the household brought along: the page takes it for spending.
Spending == {None, "expense"}
ExpenseGroups(groups) == {g \in DOMAIN groups : groups[g].kind \in Spending}
ExpenseCategories(categories, groups) ==
    {c \in DOMAIN categories : /\ IsCashFlowCategory(categories[c])
                               /\ categories[c].kind \in Spending /\ ~categories[c].archived
                               /\ categories[c].group \in DOMAIN groups =>
                                     categories[c].group \in ExpenseGroups(groups)}
IncomeCategories(categories) ==
    {c \in DOMAIN categories : IsCashFlowCategory(categories[c]) /\ categories[c].kind = "income"}
StatusOf(budgets, txs, kind, subject, month, currency) ==
    LET B == {j \in DOMAIN budgets : /\ budgets[j].month = month /\ budgets[j].currency = currency
                                     /\ budgets[j].category = subject /\ budgets[j].kind = kind}
    IN  IF B = {} THEN None ELSE BudgetStatus(budgets, txs, budgets[CHOOSE j \in B : TRUE])
Uncategorized(txs, month, currency) ==
    -SumParts(txs, month, currency, LAMBDA p : p.category = None /\ p.amount < 0)

MonthModel(budgets, txs, categories, groups, month, currency, planned) ==
    LET allowed(s) == IF s = None THEN 0 ELSE s.allowance
        status(kind, subject) == StatusOf(budgets, txs, kind, subject, month, currency)
        shown == ExpenseCategories(categories, groups)
        whole(c) == /\ categories[c].group \in ExpenseGroups(groups)
                    /\ status("group", categories[c].group) # None
        own(c) == IF whole(c) THEN None ELSE status("category", c)
        spent(c) == SpentInMonth(txs, c, month, currency)
        budgeted == SumOver(shown, LAMBDA c : allowed(own(c)))
                      + SumOver(ExpenseGroups(groups), LAMBDA g : allowed(status("group", g)))
        total == SumOver(shown, spent) + Uncategorized(txs, month, currency)
    IN  [income |-> SumParts(txs, month, currency,
                        LAMBDA p : p.amount > 0 /\ p.category \in IncomeCategories(categories) \cup {None}),
         own |-> [c \in shown |-> own(c)],
         unbudgeted |-> {c \in shown : own(c) = None /\ ~whole(c) /\ spent(c) > 0},
         budgeted |-> budgeted, spent |-> total,
         left |-> allowed(status("income", "income")) - budgeted - planned]

-----------------------------------------------------------------------------
(* cashflow.ts: the month in the reports and on the dashboard *)

\* By the kind of the category; without a kind, or a category, by the sign.
CashFlow(txs, categories, month, currency) ==
    LET of(p) == IF p.category \in DOMAIN categories THEN categories[p.category].kind ELSE None
        counts(p) == p.category \in DOMAIN categories => IsCashFlowCategory(categories[p.category])
        earned(p) == of(p) = "income" \/ (of(p) # "expense" /\ p.amount >= 0)
    IN  [income |-> SumParts(txs, month, currency, LAMBDA p : counts(p) /\ earned(p)),
         spent |-> -SumParts(txs, month, currency, LAMBDA p : counts(p) /\ ~earned(p))]

-----------------------------------------------------------------------------
(* goals.ts *)

Linked(goal, balances) ==
    SumOver(goal.accounts, LAMBDA a : IF a \in DOMAIN balances THEN balances[a] ELSE 0)

\* A save goal puts money aside, a pay-down goal makes a debt shrink.
Saved(goal, balances) ==
    IF goal.kind = "pay_down"
    THEN Max({0, (IF goal.start = None THEN Abs(Linked(goal, balances)) ELSE Abs(goal.start))
                    - Abs(Linked(goal, balances))})
    ELSE IF goal.source = "balance"
    THEN Linked(goal, balances) - (IF goal.start = None THEN 0 ELSE goal.start)
    ELSE goal.contributed
Remaining(goal, balances) == IF goal.kind = "pay_down" THEN Abs(Linked(goal, balances))
                             ELSE Max({0, goal.target - Saved(goal, balances)})

-----------------------------------------------------------------------------
(* alerts.ts: a condition names its alert, <<kind, subject, occurrence>> *)

LargeTransactions(limit, txs) ==
    {<<"large", i, None>> : i \in {j \in DOMAIN txs : /\ txs[j].amount < 0 /\ Counted(txs[j])
                                                     /\ Abs(txs[j].amount) >= Abs(limit)}}
ExceededBudgets(tolerance, budgets, txs) ==
    LET over(j) == LET s == BudgetStatus(budgets, txs, budgets[j]) IN s.spent - s.allowance
    IN  {<<"budget", j, None>> : j \in {k \in DOMAIN budgets : over(k) > 0 /\ over(k) >= Abs(tolerance)}}
LowBalances(threshold, accounts, balances, day) ==
    {<<"low", a, day>> : a \in {b \in DOMAIN accounts : /\ ~accounts[b].closed
                                                       /\ accounts[b].type \notin Liabilities
                                                       /\ balances[b] < threshold}}
DueBills(days, recurrences, day) ==
    {<<"bill", k, recurrences[k].next>> :
        k \in {l \in DOMAIN recurrences : /\ recurrences[l].status = "confirmed"
                                          /\ recurrences[l].next - day \in 0..Abs(days)}}
ReachedGoals(goals, balances) ==
    {<<"goal", g, None>> : g \in {h \in DOMAIN goals : /\ goals[h].status = "active"
                                                      /\ Remaining(goals[h], balances) <= 0}}

\* What the settings ask to be told; a money alert needs a threshold.
AlertsFor(settings, books, recurrences, balances, day) ==
    LET on(kind) == kind \in DOMAIN settings /\ settings[kind].enabled
        limit(kind) == settings[kind].threshold
        asked(kind) == on(kind) /\ limit(kind) # None
    IN  (IF asked("large_transaction") THEN LargeTransactions(limit("large_transaction"), books.tx) ELSE {})
   \cup (IF asked("budget_exceeded")
         THEN ExceededBudgets(limit("budget_exceeded"), books.budget, books.tx) ELSE {})
   \cup (IF asked("low_balance")
         THEN LowBalances(limit("low_balance"), books.account, balances, day) ELSE {})
   \cup (IF asked("bill_due") THEN DueBills(limit("bill_due"), recurrences, day) ELSE {})
   \cup (IF on("goal_reached") THEN ReachedGoals(books.goal, balances) ELSE {})

=============================================================================
