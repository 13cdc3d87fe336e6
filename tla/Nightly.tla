------------------------------ MODULE Nightly ------------------------------
(***************************************************************************)
(* The nightly pass over one household (functions/nightly, functions/      *)
(* shared/nightly.ts).  It reads the collections one after another, then   *)
(* files transactions by rule, marks duplicates, proposes recurrences,     *)
(* advances paid bills, raises alerts and writes the day's snapshot, all   *)
(* decided from what it has read.  Members and the bank write at any time; *)
(* a write of the pass names the revision it has read, and one that meets  *)
(* a newer revision ends the household's pass for this night.              *)
(***************************************************************************)
EXTENDS HouseholdRules, TLC

CONSTANTS
    Opening,    \* the documents to begin with
    Incoming,   \* id -> a transaction that may arrive, from the bank or by hand
    Category,   \* what a member may file under
    Days,       \* the days of the passes, a sequence
    Money,      \* the household's currency
    MaxEdits, MaxStops

VARIABLES
    books,      \* collection -> id -> document
    told,       \* alerts that were raised
    snapshots,  \* day -> the snapshot
    today,      \* index of Days
    run,        \* the pass at work
    touched,    \* <<transaction, rule, revision>>: a rule touched it as of that revision
    quiet,      \* passes completed with no other change since before they began
    owed,       \* how many it takes until nothing is left, as of the first of them
    edits, stops

bounds == <<edits, stops>>
vars == <<books, told, snapshots, today, run, touched, quiet, owed, bounds>>

-----------------------------------------------------------------------------

\* Transactions are read first, recurrences last; the collections in between
\* do not change here.
Collections == <<"tx", "recurrence">>
Idle == [step |-> "idle"]
At(step) == run.step = step
Day == Days[today]
Unfiled == [k \in {} |-> 0]

Init ==
    /\ books = Opening /\ told = {} /\ snapshots = {} /\ today = 1 /\ run = Idle
    /\ touched = {} /\ quiet = -1 /\ owed = 0 /\ edits = 0 /\ stops = 0

-----------------------------------------------------------------------------
(* shared/nightly.ts: what a pass decides, from the documents it has read *)

Filed(t, rules, i) ==
    [t EXCEPT !.category = IF rules[i].category # None /\ @ = None /\ t.splits = <<>>
                           THEN rules[i].category ELSE @,
              !.merchant = IF rules[i].merchant # None THEN rules[i].merchant ELSE @,
              !.tags = @ \cup rules[i].tags,
              !.hidden = @ \/ rules[i].hide, !.reviewed = @ \/ rules[i].review]


\* The first matching rule, unless it has touched the transaction already; a
\* category that is there stays.
Filings(txs, rules) ==
    LET by(i) == RuleFor(rules, txs[i])
        due == {i \in DOMAIN txs : /\ ~txs[i].adjustment /\ txs[i].transfer = None
                                   /\ by(i) \notin {None, txs[i].rule}
                                   /\ Filed(txs[i], rules, by(i)) # txs[i]}
    IN  [i \in due |-> [Filed(txs[i], rules, by(i)) EXCEPT !.rule = by(i)]]

Fingerprint(t) == <<t.account, t.date, t.amount, Normal[t.text]>>
\* Mutant: a duplicate that is marked is marked again.
DuplicatesAgain(txs) ==
    LET due == {i \in DOMAIN txs : /\ txs[i].external
                                   /\ \E j \in DOMAIN txs : /\ ~txs[j].external
                                                            /\ Fingerprint(txs[i]) = Fingerprint(txs[j])}
    IN  [i \in due |-> [txs[i] EXCEPT !.duplicate = TRUE]]

Duplicates(txs) ==
    LET due == {i \in DOMAIN txs : /\ txs[i].external /\ ~txs[i].duplicate
                                   /\ \E j \in DOMAIN txs : /\ ~txs[j].external
                                                            /\ Fingerprint(txs[i]) = Fingerprint(txs[j])}
    IN  [i \in due |-> [txs[i] EXCEPT !.duplicate = TRUE]]

PaidBills(recurrences, txs) ==
    LET due == {k \in DOMAIN recurrences : /\ recurrences[k].status = "confirmed"
                                           /\ PaymentFor(recurrences[k], txs) # None}
    IN  [k \in due |-> AfterPayment(recurrences[k], txs, PaymentFor(recurrences[k], txs))]

DetectionId(d) == <<d.account, d.text>>
Proposals(txs, recurrences) ==
    LET D == Detected(txs, recurrences)
    IN  [k \in {DetectionId(d) : d \in D} |-> CHOOSE d \in D : DetectionId(d) = k]

NewAlerts(read, recurrences, day) ==
    AlertsFor(read.setting, read, recurrences, Balances(read.account, read.tx, read.report), day) \ read.told

Snapshot(read, day) ==
    LET b == Balances(read.account, read.tx, read.report)
    IN  [day |-> day, worth |-> NetWorth(Money, read.account, b),
         balances |-> SnapshotBalances(read.account, b)]

\* How many passes it takes.  A rule can make another one match, which then
\* files on the next pass; None if they never come to rest, or take too long.
FilingRounds(txs, rules) ==
    LET most == 2 * Cardinality(DOMAIN rules) + 3
        after[n \in 0..most] ==
            IF n = 0 THEN txs ELSE LET seen == after[n - 1] IN Filings(seen, rules) @@ seen
        rest == {n \in 0..most : Filings(after[n], rules) = Unfiled}
    IN  IF rest = {} THEN None ELSE Min(rest)

\* A bill is advanced once per pass, each time past the payment it was for.
Payments(r, txs) ==
    IF r.status # "confirmed" THEN {}
    ELSE {txs[i].date : i \in {j \in DOMAIN txs : /\ MayPay(r, txs[j])
                                                  /\ txs[j].date >= r.next - Interval[r.interval].slack}}

\* Proposals and alerts are decided from what was read before the filings.
Owed ==
    LET rounds == FilingRounds(books.tx, books.rule)
        bills == {Cardinality(Payments(books.recurrence[k], books.tx)) : k \in DOMAIN books.recurrence}
    IN  IF rounds = None THEN None ELSE Max({rounds + 1} \cup bills)

-----------------------------------------------------------------------------
(* The pass *)

Begin ==
    /\ run = Idle
    /\ run' = [step |-> "read", left |-> Collections, todo |-> Unfiled, absent |-> None,
               read |-> [c \in {"tx", "rule", "account", "report", "recurrence"} |-> books[c]]]
    /\ quiet' = Max({quiet, 0}) /\ owed' = IF quiet = -1 THEN Owed ELSE owed
    /\ UNCHANGED <<books, told, snapshots, today, touched, bounds>>

Entering(step, todo) == run' = [run EXCEPT !.step = step, !.todo = todo]

ReadCollection ==
    LET c == Head(run.left)
        read == [run.read EXCEPT ![c] = books[c]]
    IN  /\ At("read")
        /\ run' = IF Tail(run.left) # <<>> THEN [run EXCEPT !.left = Tail(@), !.read = read]
                  ELSE [run EXCEPT !.left = <<>>, !.read = read, !.step = "file",
                                   !.todo = Filings(read.tx, read.rule)]
        /\ UNCHANGED <<books, told, snapshots, today, touched, quiet, owed, bounds>>

\* Mutant: the write does not name the revision it has read.
WriteOver(c, id, doc) ==
    /\ id \in DOMAIN books[c]
    /\ books' = [books EXCEPT ![c][id] = [doc EXCEPT !.rev = books[c][id].rev + 1]]
    /\ run' = [run EXCEPT !.todo = [k \in DOMAIN @ \ {id} |-> @[k]]]

\* A write names the revision it has read; a newer one ends the pass.
Write(c, id, doc) ==
    IF id \in DOMAIN books[c] /\ books[c][id].rev = doc.rev
    THEN /\ books' = [books EXCEPT ![c][id] = [doc EXCEPT !.rev = @ + 1]]
         /\ run' = [run EXCEPT !.todo = [k \in DOMAIN @ \ {id} |-> @[k]]]
    ELSE UNCHANGED books /\ run' = Idle

WriteOne(step, c) == At(step) /\ \E id \in DOMAIN run.todo : Write(c, id, run.todo[id])

File ==
    /\ At("file")
    /\ \E i \in DOMAIN run.todo :
          /\ Write("tx", i, run.todo[i])
          /\ touched' = IF run' = Idle THEN touched
                        ELSE touched \cup {<<i, run.todo[i].rule, run.todo[i].rev>>}
    /\ UNCHANGED <<told, snapshots, today, quiet, owed, bounds>>

Mark == /\ WriteOne("duplicates", "tx")
        /\ UNCHANGED <<told, snapshots, today, touched, quiet, owed, bounds>>

\* A proposal has an id of its own: one that is there is left alone.
Look ==
    /\ At("propose") /\ run.absent = None
    /\ \E k \in DOMAIN run.todo :
          run' = IF k \in DOMAIN books.recurrence
                 THEN [run EXCEPT !.todo = [j \in DOMAIN @ \ {k} |-> @[j]]]
                 ELSE [run EXCEPT !.absent = k]
    /\ UNCHANGED <<books, told, snapshots, today, touched, quiet, owed, bounds>>

\* A create that meets one created since ends the pass.
Propose ==
    LET k == run.absent
    IN  /\ At("propose") /\ k # None
        /\ IF k \in DOMAIN books.recurrence THEN UNCHANGED books /\ run' = Idle
           ELSE /\ books' = [books EXCEPT !.recurrence = (k :> (run.todo[k] @@ [rev |-> 1])) @@ @]
                /\ run' = [run EXCEPT !.absent = None, !.todo = [j \in DOMAIN @ \ {k} |-> @[j]]]
    /\ UNCHANGED <<told, snapshots, today, touched, quiet, owed, bounds>>

Advance == /\ WriteOne("bills", "recurrence")
           /\ UNCHANGED <<told, snapshots, today, touched, quiet, owed, bounds>>

\* The next phase is decided from what was read at the top of the pass.
NextPhase ==
    LET read == run.read
        paid == PaidBills(read.recurrence, read.tx)
    IN  /\ run # Idle /\ run.todo = Unfiled
        /\ \/ At("file") /\ Entering("duplicates", Duplicates(read.tx))
           \/ At("duplicates") /\ Entering("propose", Proposals(read.tx, read.recurrence))
           \/ At("propose") /\ Entering("bills", paid)
           \/ /\ At("bills")       \* the alerts see the bills as they stand afterwards
              /\ run' = [run EXCEPT
                    !.read = [read EXCEPT !.recurrence = paid @@ @]
                             @@ [setting |-> books.setting, told |-> told, budget |-> books.budget,
                                 goal |-> books.goal],
                    !.step = IF DOMAIN books.setting = {} THEN "snapshot" ELSE "alerts"]
        /\ UNCHANGED <<books, told, snapshots, today, touched, quiet, owed, bounds>>

\* One alert after another; one that is there is the same alert.
Raise ==
    LET due == NewAlerts(run.read, run.read.recurrence, Day) \ told
    IN  /\ At("alerts")
        /\ IF due = {} THEN run' = [run EXCEPT !.step = "snapshot"] /\ UNCHANGED told
           ELSE UNCHANGED run /\ \E a \in due : told' = told \cup {a}
        /\ UNCHANGED <<books, snapshots, today, touched, quiet, owed, bounds>>

\* One snapshot per day: a second pass of the day replaces it.
WriteSnapshot ==
    /\ At("snapshot")
    /\ snapshots' = {s \in snapshots : s.day # Day} \cup {Snapshot(run.read, Day)}
    /\ quiet' = (IF quiet = -1 \/ owed \in {None, quiet} THEN quiet ELSE quiet + 1)
    /\ run' = Idle
    /\ UNCHANGED <<books, told, today, touched, owed, bounds>>

Stop == /\ run # Idle /\ stops < MaxStops /\ stops' = stops + 1 /\ run' = Idle
        /\ UNCHANGED <<books, told, snapshots, today, touched, quiet, owed, edits>>

\* The pass of the next day; the one of a day may run again.
NextDay == /\ run = Idle /\ today < Len(Days) /\ today' = today + 1 /\ quiet' = -1 /\ owed' = 0
           /\ UNCHANGED <<books, told, snapshots, run, touched, bounds>>

-----------------------------------------------------------------------------
(* Members and the bank, and another invocation of the night *)

Edited == /\ edits < MaxEdits /\ edits' = edits + 1 /\ quiet' = -1 /\ owed' = 0
          /\ UNCHANGED <<told, snapshots, today, run, touched, stops>>
Revise(c, id, doc) == books' = [books EXCEPT ![c][id] = [doc EXCEPT !.rev = @ + 1]]
Drop(f, id) == [k \in DOMAIN f \ {id} |-> f[k]]

Arrive(i) == /\ i \notin DOMAIN books.tx /\ Edited
             /\ books' = [books EXCEPT !.tx = (i :> Incoming[i]) @@ @]

UpdateTransaction(i) ==
    LET t == books.tx[i]
    IN  /\ i \in DOMAIN books.tx /\ Edited
        /\ \/ \E c \in Category \cup {None} : t.category # c /\ Revise("tx", i, [t EXCEPT !.category = c])
           \/ Revise("tx", i, [t EXCEPT !.hidden = ~@])

DeleteTransaction(i) == /\ i \in DOMAIN books.tx /\ Edited
                        /\ books' = [books EXCEPT !.tx = Drop(@, i)]

\* The browser advances paid bills too; a pause keeps a bill from being one.
UpdateRecurrence(k) ==
    LET r == books.recurrence[k]
    IN  /\ k \in DOMAIN books.recurrence /\ Edited
        /\ \/ r.status \in {"detected", "paused"} /\ Revise("recurrence", k, [r EXCEPT !.status = "confirmed"])
           \/ r.status = "detected" /\ Revise("recurrence", k, [r EXCEPT !.status = "dismissed"])
           \/ r.status = "confirmed" /\ Revise("recurrence", k, [r EXCEPT !.status = "paused"])
           \/ /\ r.status = "confirmed" /\ PaymentFor(r, books.tx) # None
              /\ Revise("recurrence", k, AfterPayment(r, books.tx, PaymentFor(r, books.tx)))

\* A retry of the night, while the first invocation is still at work, may be
\* the one that writes a proposal down.
ProposedElsewhere ==
    LET due == Proposals(books.tx, books.recurrence)
    IN  /\ Edited
        /\ \E k \in DOMAIN due :
              books' = [books EXCEPT !.recurrence = (k :> (due[k] @@ [rev |-> 1])) @@ @]

Member == \/ \E i \in DOMAIN Incoming : Arrive(i)
          \/ \E i \in DOMAIN books.tx : UpdateTransaction(i) \/ DeleteTransaction(i)
          \/ \E k \in DOMAIN books.recurrence : UpdateRecurrence(k)
          \/ ProposedElsewhere

Next == \/ Begin \/ ReadCollection \/ File \/ Mark \/ Look \/ Propose \/ Advance \/ NextPhase \/ Raise
        \/ WriteSnapshot \/ Stop \/ NextDay \/ Member

Spec == Init /\ [][Next]_vars

-----------------------------------------------------------------------------
(* Properties *)

\* What a pass writes leaves a member's choices alone, those made after it
\* has read included: a category stays, a bill that was paused or dismissed
\* stays so, what was deleted stays deleted and nothing hidden is shown.
ChoicesStand ==
    edits' = edits =>
        /\ DOMAIN books'.tx = DOMAIN books.tx
        /\ \A i \in DOMAIN books.tx :
              /\ books.tx[i].category # None => books'.tx[i].category = books.tx[i].category
              /\ books.tx[i].hidden => books'.tx[i].hidden
        /\ \A k \in DOMAIN books.recurrence :
              books'.recurrence[k].status = books.recurrence[k].status
MembersChoicesStand == [][ChoicesStand]_vars


Decided == \/ Filings(books.tx, books.rule) # Unfiled \/ Duplicates(books.tx) # Unfiled
           \/ Proposals(books.tx, books.recurrence) # Unfiled
           \/ PaidBills(books.recurrence, books.tx) # Unfiled
           \/ NewAlerts(books @@ [told |-> told], books.recurrence, Day) # {}

\* The passes settle, also when others stopped halfway: with nothing new in
\* between, as many complete ones as are owed leave nothing to decide that day.
\* Owed are one for each rule that makes the next one match and one after them,
\* and one for each payment of a bill that is behind.  Rules that never come to
\* rest owe no number of passes.  (The header of nightly/index.ts, :22-24, wants
\* a second pass to find nothing, which is more: a pass decides its alerts from
\* what it read before it filed anything.)
NightsSettle == quiet = owed => ~Decided

\* What the budget page shows neither as income nor as spending: transfers and
\* trades, what is filed under an archived category, under one in a group of
\* another kind or one that is gone, and money leaving under an income category.
LeftOut(p) ==
    LET c == books.category[p.category]
    IN  /\ p.category # None
        /\ \/ p.category \notin DOMAIN books.category
           \/ ~IsCashFlowCategory(c)
           \/ c.kind = "income" /\ p.amount < 0
           \/ c.kind \in Spending /\ c.archived
           \/ c.kind \in Spending /\ c.group \in DOMAIN books.group \ ExpenseGroups(books.group)

\* What page and report file differently, although cashflow.ts:21-29 means them
\* to "show one number": that, unless the report leaves it out too, and money
\* arriving under a category without a kind (budgets.ts:447, cashflow.ts:276-283).
FiledApart(p) ==
    LET c == books.category[p.category]
    IN  /\ p.category # None
        /\ \/ LeftOut(p) /\ (p.category \in DOMAIN books.category => IsCashFlowCategory(c))
           \/ p.category \in DOMAIN books.category /\ c.kind = None /\ p.amount > 0

Page(month) == MonthModel(books.budget, books.tx, books.category, books.group, month, Money, 0)
Report(month) == CashFlow(books.tx, books.category, month, Money)
BudgetMonths == {books.budget[j].month : j \in DOMAIN books.budget}

\* Whatever is filed, hidden or marked, every counted movement of the month is
\* income or spending on the budget page, once, or left out for a reason that
\* LeftOut names: splits against their own categories, a refund as less
\* spending.  Page and reports show the same two numbers while nothing is
\* filed where they differ (FiledApart).
MoneyCountedOnce ==
    \A month \in BudgetMonths :
        LET page == Page(month)
            report == Report(month)
            counted == InMonth(books.tx, month, Money)
            apart == {i \in counted : \E k \in DOMAIN Parts(books.tx[i]) : FiledApart(Parts(books.tx[i])[k])}
        IN  /\ page.income - page.spent + SumParts(books.tx, month, Money, LeftOut)
                  = SumOver(counted, LAMBDA i : books.tx[i].amount)
            /\ apart = {} => page.income = report.income /\ page.spent = report.spent

=============================================================================
