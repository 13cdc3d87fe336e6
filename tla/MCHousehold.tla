----------------------------- MODULE MCHousehold -----------------------------
(***************************************************************************)
(* Four parts of the household application, the nightly one twice, of      *)
(* which the initial state picks one.                                      *)
(*                                                                         *)
(* "nightly": a checking account over two months and one the bank reports: *)
(* a charge one rule gives a merchant and another files and hides for it,  *)
(* its synced duplicate, a rent that is due, a weekly bill three payments  *)
(* behind under an archived category, a weekly text whose third charge is  *)
(* still to come, a split purchase, an old reconciliation and a salary.    *)
(*                                                                         *)
(* "month": the same passes over a month of which page and reports tell.   *)
(*                                                                         *)
(* "access": two calls at a time about two people and three households,    *)
(* one of them still to be created, two invitations open.                  *)
(*                                                                         *)
(* "replica": one document on two devices and the server.                  *)
(*                                                                         *)
(* "writes": two calls that may overlap in one browser, over a purchase    *)
(* that is split, one that is filed, a rule, a recurrence and a budget.    *)
(***************************************************************************)
EXTENDS Integers, Sequences, TLC

CONSTANTS
    phone, laptop, s1, s2,
    None, Gone, Topics,
    MaxEdits, MaxStops,                                             \* Nightly
    Person, Household, Role, Founder, Invited, Attempts, MaxBreaks, \* Membership
    Device, MaxWrites, MaxLosses, MaxResyncs, MaxCrashes,           \* Replica
    Slot, MaxCalls,                         \* Membership, and the slots of HouseholdWrites
    Documents, Drafts, Patches, Budgets, Months, MaxEntered         \* HouseholdWrites

VARIABLES
    part,
    books, told, snapshots, today, run, touched, quiet, owed, edits, stops,
    claims, founder, member, invitation, call, calls, callStops, raced, cutShort,
    server, local, base, checkpoint, push, half, mode, recovery, now, losses, resyncs, crashes,
    written, cutOff,
    doc, budget, writing, entered, contested, outdated

nightVars == <<books, told, snapshots, today, run, touched, quiet, owed, edits, stops>>
accessVars == <<claims, founder, member, invitation, call, calls, callStops, raced, cutShort>>
replicaVars == <<server, local, base, checkpoint, push, half, mode, recovery, now, losses,
                 resyncs, crashes, written, cutOff>>
writesVars == <<doc, budget, writing, entered, contested, outdated>>

-----------------------------------------------------------------------------
MCRank == [r1 |-> 1, r2 |-> 2, r3 |-> 3, cafe1 |-> 1, cafe2 |-> 2, rent1 |-> 3, gym1 |-> 4, gym2 |-> 5,
           gym3 |-> 6, shop1 |-> 7, pay1 |-> 8, milk1 |-> 9, milk2 |-> 10, milk3 |-> 11, fix1 |-> 12]
MCIncludes == {<<"cafe 12", "cafe">>}
MCNormal == [t \in {"cafe 12", "rent", "gym", "shop", "pay", "milk", "fix"} |-> IF t = "cafe 12" THEN "cafe" ELSE t]

Tx(text, date, amount, external) ==
    [account |-> "a1", text |-> text, date |-> date, amount |-> amount, currency |-> "USD",
     category |-> None, merchant |-> None, tags |-> {}, splits |-> <<>>, hidden |-> FALSE,
     reviewed |-> FALSE, adjustment |-> FALSE, reconciles |-> FALSE, transfer |-> None, pending |-> FALSE,
     external |-> external, duplicate |-> FALSE, rule |-> None, rev |-> 1]
NoMatch == [f \in {"contains", "equals", "merchant", "category", "account", "direction", "min", "max"} |-> None]
Rule(match, category, hide, review) ==
    [match |-> match, category |-> category, merchant |-> None, tags |-> {}, hide |-> hide,
     review |-> review, priority |-> 10, enabled |-> TRUE]
Filing == Rule([NoMatch EXCEPT !.contains = "cafe"], "food", FALSE, FALSE)
Kind(kind) == [kind |-> kind, trade |-> FALSE, archived |-> FALSE, group |-> None]
Checking == [household |-> "h1", type |-> "checking", currency |-> "USD", opening |-> 56, holdings |-> 0,
             closed |-> FALSE, hide |-> FALSE]
Reported(household, date, balance) ==
    [account |-> "a2", household |-> household, currency |-> "USD", date |-> date, observed |-> 1,
     balance |-> balance]
Bill(text, interval, expected, next) ==
    [account |-> "a1", text |-> text, currency |-> "USD", interval |-> interval, expected |-> expected,
     last |-> 0, next |-> next, matched |-> 1, status |-> "confirmed", paid |-> None, rev |-> 1]

\* "perk" is in a group that was given another kind while it was being created.
MCOpening ==
    [tx |-> [cafe1 |-> Tx("cafe 12", 32, -5, FALSE), cafe2 |-> Tx("cafe 12", 32, -5, TRUE),
             gym1 |-> Tx("gym", 18, -3, TRUE), gym2 |-> Tx("gym", 25, -3, TRUE),
             milk1 |-> [Tx("milk", 11, -2, TRUE) EXCEPT !.category = "old"],
             milk2 |-> [Tx("milk", 18, -2, TRUE) EXCEPT !.category = "old"],
             milk3 |-> [Tx("milk", 25, -2, TRUE) EXCEPT !.category = "old"],
             fix1 |-> [Tx("fix", 20, 90, TRUE) EXCEPT !.adjustment = TRUE, !.reconciles = TRUE],
             shop1 |-> [Tx("shop", 32, -9, TRUE) EXCEPT
                           !.splits = <<[category |-> "food", amount |-> -4],
                                        [category |-> None, amount |-> -2],
                                        [category |-> "perk", amount |-> -2],
                                        [category |-> "buy", amount |-> -1]>>]],
     rule |-> [r1 |-> [Filing EXCEPT !.category = None, !.merchant = "cafe"],
               r2 |-> Rule([NoMatch EXCEPT !.direction = "income"], None, FALSE, TRUE),
               r3 |-> [Rule([NoMatch EXCEPT !.merchant = "cafe"], "food", TRUE, FALSE) EXCEPT !.priority = 5]],
     account |-> [a1 |-> Checking, a2 |-> Checking],
     report |-> [k1 |-> Reported("h1", 20, 30), k2 |-> Reported("h2", 22, 10), k3 |-> Reported("h1", 24, 2000)],
     recurrence |-> (<<"a1", "rent">> :> Bill("rent", "monthly", -20, 31)
                     @@ <<"a1", "milk">> :> Bill("milk", "weekly", -2, 11)),
     budget |-> [b0 |-> [category |-> "food", month |-> 0, amount |-> 2, currency |-> "USD",
                         rollover |-> TRUE, kind |-> "category"],
                 b1 |-> [category |-> "food", month |-> 1, amount |-> 1, currency |-> "USD",
                         rollover |-> TRUE, kind |-> "category"]],
     goal |-> [g1 |-> [kind |-> "save", source |-> "balance", accounts |-> {"a1"}, start |-> 0,
                       target |-> 60, contributed |-> 0, status |-> "active"]],
     category |-> [food |-> [Kind("expense") EXCEPT !.group = "home"], wage |-> Kind("income"),
                   moves |-> Kind("transfer"), gift |-> Kind(None),
                   old |-> [Kind("expense") EXCEPT !.archived = TRUE],
                   perk |-> [Kind("expense") EXCEPT !.group = "earn"],
                   buy |-> [Kind("expense") EXCEPT !.trade = TRUE]],
     group |-> [home |-> [kind |-> "expense"], earn |-> [kind |-> "income"]],
     setting |-> [k \in {"large_transaction", "budget_exceeded", "low_balance", "bill_due", "goal_reached"} |->
                     [enabled |-> TRUE, threshold |-> CASE k = "large_transaction" -> 20
                                                        [] k = "low_balance" -> 20
                                                        [] k = "bill_due" -> 3 [] OTHER -> 0]]]
\* A month with a bit of everything the page and the reports tell apart.
MCMonthOpening ==
    [MCOpening EXCEPT
        !.tx = [i \in {"cafe1", "fix1", "milk3", "shop1"} |-> [@[i] EXCEPT !.date = 32]],
        !.rule = [r1 |-> Filing], !.recurrence = [k \in {} |-> 0], !.budget = [b1 |-> @.b1]]
MCIncoming == [rent1 |-> Tx("rent", 33, -20, TRUE), gym3 |-> Tx("gym", 32, -3, TRUE),
               pay1 |-> Tx("pay", 32, 40, TRUE)]

-----------------------------------------------------------------------------
Night == INSTANCE Nightly WITH
    Opening <- MCOpening,
    Rank <- MCRank, Includes <- MCIncludes, Normal <- MCNormal, MaxMonth <- 6, MaxSafe <- 1000,
    Incoming <- MCIncoming, Category <- {"food", "wage", "moves", "gift"}, Days <- <<31, 34>>, Money <- "USD"
Month == INSTANCE Nightly WITH
    Opening <- MCMonthOpening, MaxEdits <- 2, MaxStops <- 0,
    Rank <- MCRank, Includes <- MCIncludes, Normal <- MCNormal, MaxMonth <- 6, MaxSafe <- 1000,
    Incoming <- MCIncoming, Category <- {"food", "wage", "moves", "gift"}, Days <- <<34>>, Money <- "USD"

MCFounder == [h1 |-> "ann", h2 |-> "ann", h3 |-> None]
MCInvited == {<<"h1", "bob">>, <<"h2", "bob">>}
Access == INSTANCE Membership WITH stops <- callStops, cut <- cutShort, MaxStops <- MaxBreaks
ASSUME AccessAssumption ==
    {"owner", "editor"} \subseteq Role /\ None \notin {"active"} \cup Access!Operation

Devices == INSTANCE Replica WITH
    edits <- written, cut <- cutOff, Absent <- None, MaxEdits <- MaxWrites
\* A device without the document is told from one that has it.
ASSUME DevicesAssumption == None \notin Devices!Doc

Purchase(amount, splits, category) ==
    [kind |-> "transaction", amount |-> amount, splits |-> splits, category |-> category,
     merchant |-> "shop", batch |-> None, recurrence |-> None]
Share(category, amount) == [category |-> category, amount |-> amount]
Entry(parent) == [kind |-> "category", parent |-> parent, categoryKind |-> "expense"]

MCDocuments ==
    [food |-> Entry("home"), fun |-> Entry(None), new |-> None,
     home |-> [kind |-> "group", categoryKind |-> "expense"],
     shop |-> [kind |-> "merchant"], store |-> [kind |-> "merchant"],
     t1 |-> Purchase(-9, <<Share("food", -4), Share(None, -5)>>, None),
     t2 |-> Purchase(-5, <<>>, "food"), t3 |-> None, batch |-> None,
     rule |-> [kind |-> "rule", setCategory |-> "food", setMerchant |-> "shop",
               matchMerchant |-> "shop", matchCategory |-> "fun"],
     bill |-> [kind |-> "recurrence", merchant |-> "shop", usualCategory |-> "food"], repeat |-> None]
MCDrafts ==
    [new |-> {Entry("home")}, t3 |-> {Purchase(-5, <<>>, "food")}, batch |-> {[kind |-> "batch"]},
     repeat |-> {[kind |-> "recurrence", merchant |-> "shop", usualCategory |-> None]}]
MCPatches ==
    {[category |-> "food"], [category |-> None], [merchant |-> "shop"],
     [amount |-> -7, splits |-> <<>>],
     [amount |-> -6, splits |-> <<Share("food", -2), Share("fun", -4)>>],
     [splits |-> <<Share("fun", -8), Share(None, -1)>>]}
MCBudgets == {<<"food", 1>>, <<"home", 1>>}
Browser == INSTANCE HouseholdWrites WITH MaxCalls <- MaxEntered
ASSUME WritesAssumption == Browser!InUse

\* Devices are alike, and so are slots.
Alike == Permutations({phone, laptop}) \cup Permutations({s1, s2})

\* Books and documents are open in their own part only.
NoNight == /\ books = None /\ told = None /\ snapshots = None /\ today = None /\ run = None
           /\ touched = None /\ quiet = None /\ owed = None /\ edits = None /\ stops = None
NoWrites == /\ doc = None /\ budget = None /\ writing = None
            /\ entered = None /\ contested = None /\ outdated = None

HouseholdInit ==
    /\ part \in Topics
    /\ CASE part = "nightly" -> Night!Init [] part = "month" -> Month!Init [] OTHER -> NoNight
    /\ IF part = "writes" THEN Browser!Init ELSE NoWrites
    /\ Access!Init /\ Devices!Init

\* The calls are all answered, or the devices at rest.
Done == /\ \/ part = "access" /\ calls = MaxCalls /\ \A s \in Slot : ~Access!Busy(s)
           \/ part = "replica" /\ \A d \in Device : Devices!Settled(d)
           \/ part = "writes" /\ entered = MaxEntered /\ \A s \in Slot : ~Browser!Busy(s)
        /\ UNCHANGED <<part, nightVars, accessVars, replicaVars, writesVars>>

HouseholdNext ==
    \/ part = "nightly" /\ Night!Next /\ UNCHANGED <<part, accessVars, replicaVars, writesVars>>
    \/ part = "month" /\ Month!Next /\ UNCHANGED <<part, accessVars, replicaVars, writesVars>>
    \/ part = "access" /\ Access!Next /\ UNCHANGED <<part, nightVars, replicaVars, writesVars>>
    \/ part = "replica" /\ Devices!Next /\ UNCHANGED <<part, nightVars, accessVars, writesVars>>
    \/ part = "writes" /\ Browser!Next /\ UNCHANGED <<part, nightVars, accessVars, replicaVars>>
    \/ Done

HouseholdSpec ==
    HouseholdInit /\ [][HouseholdNext]_<<part, nightVars, accessVars, replicaVars, writesVars>>

-----------------------------------------------------------------------------
(* The properties of the four modules, each in its own part *)


\* The complete passes that are owed leave nothing to decide that day (Nightly).
NightsSettle == part = "nightly" => Night!NightsSettle

\* Every counted movement of the month is income or spending, once, or left out
\* for a reason that is named; page and reports agree on the rest (Nightly).
MoneyCountedOnce == part = "month" => Month!MoneyCountedOnce

\* What a pass writes leaves a member's choices alone (Nightly).
MembersChoicesStand == [][part = "nightly" => Night!ChoicesStand]_nightVars

\* Nobody has access to a household who is not on its list (Membership).
AccessIsListed == Access!AccessIsListed

\* Replication takes back nothing a member has done last (Replica).
NewestEditStands == Devices!NewestEditStands

\* A device that has read everything shows what the server holds, unless it was
\* closed between two writes of a full resync that nothing records (Replica).
ReplicasCatchUp == Devices!ReplicasCatchUp

\* "A database that is gone has no checkpoint to resume from", scope.ts says;
\* one that was erased for a refresh still may have it (Replica).
NothingIsLeftUnseen == Devices!NothingIsLeftUnseen

\* What the calls rewrite names nothing that is gone, even half done (HouseholdWrites).
ReferencesResolve == part = "writes" => Browser!ReferencesResolve

\* "Nothing is left pointing at a category that no longer exists", says
\* deleteCategory; a rule's condition and a recurrence are (HouseholdWrites).
NothingPointsAtTheDeleted == part = "writes" => Browser!NothingPointsAtTheDeleted

\* Overlapping edits leave a purchase and its splits in agreement (HouseholdWrites).
SplitsAddUp == part = "writes" => Browser!SplitsAddUp
=============================================================================
