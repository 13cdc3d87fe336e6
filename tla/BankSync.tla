------------------------------ MODULE BankSync ------------------------------
(***************************************************************************)
(* A bank link brings the transactions of one account into a ledger that   *)
(* may hold an imported history (functions/institution-sync/               *)
(* plaid-mapped.ts, bank-overlap.ts).  Every provider entry has an         *)
(* identity document, every transaction at most one claim, and a page's    *)
(* cursor is saved after its writes.                                       *)
(*                                                                         *)
(* Invocations of the function follow one another (concurrency 1); members *)
(* edit the ledger at any time, and an invocation may stop between any two *)
(* writes.  A store write names the revision it read: one that meets an    *)
(* edit fails, and ends the invocation like any other failure.             *)
(*                                                                         *)
(* Covered: sync with reconcilePending, ingest, match, claim, apply and    *)
(* remove, the reset of the cursor, resolve.  Left out: setting up a link, *)
(* balances, a second link of the same account, the history Plaid has not  *)
(* prepared yet.                                                           *)
(***************************************************************************)
EXTENDS Integers, Sequences, FiniteSets, FiniteSetsExt, SequencesExt

CONSTANTS
    Entry,          \* transaction ids of the provider
    Imported,       \* transactions with import provenance
    History,        \* Imported -> their money when the link starts
    BankMoney,      \* what the provider may report: [amount, date]
    MemberMoney,    \* what members may enter
    Score,          \* Entry -> Imported -> 0..2, the evidence of the texts
    Reviewed,       \* entries an earlier version left in review
    FirstMoney,     \* the money the provider reported for those
    FirstCursor,    \* how far the current cycle, begun at 0, has read
    Absent,
    PageSize,       \* 20 in the code
    PendingLimit,   \* identities redone by one sync, 20 in the code
    MaxFeed, MaxStops, MaxEdits, MaxMutations   \* bounds

VARIABLES
    feed,       \* the provider's log for this account
    item,       \* the mapping: cursor, start of the cycle, synced today
    active,     \* the connection is not disconnected
    identity,   \* bank_<digest> documents
    claim,      \* claim_<transaction> documents
    ledger,     \* transactions of the account
    run,        \* the invocation at work
    stops, edits, mutations

ASSUME MoneyAssumption ==
    /\ BankMoney \cup MemberMoney \subseteq [amount : Int, date : Int]
    /\ History \in [Imported -> [amount : Int, date : Int]]
    /\ FirstMoney \in BankMoney
\* What a member enters is no edit unless it differs from what the bank reports.
ASSUME EditAssumption == BankMoney \cap MemberMoney = {}
ASSUME EntryAssumption ==
    /\ IsFiniteSet(Entry) /\ Imported \cap Entry = {} /\ Reviewed \subseteq Entry
    /\ FirstCursor \in 0..Cardinality(Reviewed)
ASSUME BoundAssumption ==
    /\ PageSize \in Nat \ {0} /\ PendingLimit \in Nat
    /\ {MaxFeed, MaxStops, MaxEdits, MaxMutations} \subseteq Nat

stored == <<identity, claim>>
bounds == <<stops, edits, mutations>>
vars == <<feed, item, active, stored, ledger, run, bounds>>

-----------------------------------------------------------------------------

\* Without a match, an entry is booked under an id derived from it alone.
Fallback(e) == e
Tx == Imported \cup {Fallback(e) : e \in Entry}
Money == BankMoney \cup MemberMoney \cup {History[t] : t \in Imported}

\* An identity document, and a transaction of the account.
Identity == [state : {"review", "intent", "applied", "removed"}, tx : Tx \cup {Absent},
             money : BankMoney, previous : Money \cup {Absent}, removal : BOOLEAN]
Transaction == [money : Money, alive : BOOLEAN, split : BOOLEAN, ext : Entry \cup {Absent}]
ASSUME SentinelAssumption ==
    Absent \notin Entry \cup Imported \cup Identity \cup Transaction \cup Nat

Post(e, m) == [entry |-> e, kind |-> "posted", money |-> m]
LastKind(e) == LET S == {i \in 1..Len(feed) : feed[i].entry = e}
           IN  IF S = {} THEN "none" ELSE feed[Max(S)].kind

Idle == [op |-> "idle"]
Invocation(op, work, step, e, doc) ==
    [op |-> op, work |-> work, step |-> step, entry |-> e, doc |-> doc,
     cached |-> Absent, page |-> Absent, more |-> FALSE, left |-> FALSE]
Do(what, e, m) == [do |-> what, entry |-> e, money |-> m]
At(step) == run # Idle /\ run.step = step
Task == Head(run.work)
Finished == [run EXCEPT !.work = Tail(@), !.step = "task"]

Review(m) == [state |-> "review", tx |-> Absent, money |-> m, previous |-> Absent,
              removal |-> FALSE]
Init ==
    /\ feed = [i \in 1..Cardinality(Reviewed) |-> Post(SetToSeq(Reviewed)[i], FirstMoney)]
    /\ item = [cursor |-> FirstCursor, start |-> 0, fresh |-> FALSE]
    /\ active = TRUE
    /\ identity = [e \in Entry |-> IF e \in Reviewed THEN Review(FirstMoney) ELSE Absent]
    /\ claim = [t \in Tx |-> Absent]
    /\ ledger = [t \in Tx |-> IF t \in Imported
                    THEN [money |-> History[t], alive |-> TRUE, split |-> FALSE, ext |-> Absent]
                    ELSE Absent]
    /\ run = Idle /\ stops = 0 /\ edits = 0 /\ mutations = 0

-----------------------------------------------------------------------------
(* match: imported candidates, one to one, best evidence first *)

Alive(t) == ledger[t] # Absent /\ ledger[t].alive
Days(m, n) == IF m.date > n.date THEN m.date - n.date ELSE n.date - m.date
\* The candidates are listed once per invocation.
Listed == IF run.cached = Absent THEN ledger ELSE run.cached
Near(e, t, m) == /\ Listed[t].alive /\ Listed[t].money.amount = m.amount
                 /\ Days(Listed[t].money, m) <= 3 /\ Score[e][t] > 0
\* Skipped: claimed by another entry, or changed since the list was read.
Claimable(e, t) == /\ claim[t] \in {Absent, e} /\ Alive(t)
                   /\ ledger[t].money = Listed[t].money
Better(e, t, u, m) == \/ Score[e][t] > Score[e][u]
                      \/ /\ Score[e][t] = Score[e][u]
                         /\ Days(Listed[t].money, m) <= Days(Listed[u].money, m)
\* The code breaks the last tie by id; here either may win.
Candidates(e, m) == LET open == {t \in Imported : Near(e, t, m) /\ Claimable(e, t)}
                    IN  {t \in open : \A u \in open : Better(e, t, u, m)}
Matches(e, doc) ==
    LET C == Candidates(e, doc.money)
    IN  IF C = {} THEN {[doc EXCEPT !.state = "intent", !.tx = Fallback(e), !.previous = Absent]}
        ELSE {[doc EXCEPT !.state = "intent", !.tx = t,
                          !.previous = [doc.money EXCEPT !.date = ledger[t].money.date]] : t \in C}
Loaded == [run EXCEPT !.cached = Listed]
\* An identity to store; without a transaction it is matched first.
Store(e, doc, then) ==
    IF doc.tx # Absent
    THEN run' = [run EXCEPT !.step = "write", !.entry = e, !.doc = [doc EXCEPT !.state = "intent"],
                            !.work = then]
    ELSE \E new \in Matches(e, doc) :
            run' = [Loaded EXCEPT !.step = "write", !.entry = e, !.doc = new, !.work = then]

-----------------------------------------------------------------------------
(* sync *)

Pending == {e \in Entry : identity[e] # Absent /\ identity[e].state \in {"review", "intent"}}

BeginSync ==
    /\ run = Idle /\ active /\ ~item.fresh
    /\ \E S \in kSubset(Min({PendingLimit, Cardinality(Pending)}), Pending) :
          LET order == SetToSeq(S)
          IN  run' = [Invocation("sync", [i \in 1..Len(order) |-> Do("redo", order[i], Absent)],
                                 "task", Absent, Absent)
                      EXCEPT !.left = Cardinality(Pending) > PendingLimit]
    /\ UNCHANGED <<feed, item, active, stored, ledger, bounds>>

Asked == Task.do
\* A pending charge is no transaction yet: it is removed like a withdrawn one.
AsTask(event) == IF event.kind = "posted" THEN Do("ingest", event.entry, event.money)
                 ELSE Do("remove", event.entry, Absent)

\* Mutant: the cursor of a page is saved before the page is worked.
FetchPageSaving ==
    /\ At("task") /\ run.op = "sync" /\ run.work = <<>> /\ run.page = Absent
    /\ LET next == Min({item.cursor + PageSize, Len(feed)})
       IN  /\ item' = [item EXCEPT !.cursor = next]
           /\ run' = [run EXCEPT !.page = next, !.more = next < Len(feed),
                                 !.work = [i \in 1..(next - item.cursor) |->
                                              AsTask(feed[item.cursor + i])]]
    /\ UNCHANGED <<feed, active, stored, ledger, bounds>>

FetchPage ==
    /\ At("task") /\ run.op = "sync" /\ run.work = <<>> /\ run.page = Absent
    /\ LET next == Min({item.cursor + PageSize, Len(feed)})
       IN  run' = [run EXCEPT !.page = next, !.more = next < Len(feed),
                              !.work = [i \in 1..(next - item.cursor) |->
                                           AsTask(feed[item.cursor + i])]]
    /\ UNCHANGED <<feed, item, active, stored, ledger, bounds>>

\* Mutant: outside a cycle there is no start to go back to.
FetchRefusedUnset ==
    /\ At("task") /\ run.op = "sync" /\ run.work = <<>> /\ run.page = Absent
    /\ mutations < MaxMutations /\ mutations' = mutations + 1
    /\ item' = [item EXCEPT !.cursor = item.start, !.start = Absent]
    /\ run' = Idle
    /\ UNCHANGED <<feed, active, stored, ledger, stops, edits>>

\* TRANSACTIONS_SYNC_MUTATION_DURING_PAGINATION: back to where the cycle began.
FetchRefused ==
    /\ At("task") /\ run.op = "sync" /\ run.work = <<>> /\ run.page = Absent
    /\ mutations < MaxMutations /\ mutations' = mutations + 1
    /\ item' = [item EXCEPT !.cursor = IF item.start = Absent THEN @ ELSE item.start,
                            !.start = Absent]
    /\ run' = Idle
    /\ UNCHANGED <<feed, active, stored, ledger, stops, edits>>

\* Mutant: while there are more pages, the start of the cycle is saved.
SaveCycleStart ==
    /\ At("task") /\ run.op = "sync" /\ run.work = <<>> /\ run.page # Absent
    /\ item' = [item EXCEPT !.cursor = IF run.more /\ item.start # Absent THEN item.start ELSE run.page,
                            !.start = IF ~run.more THEN Absent ELSE IF @ = Absent THEN item.cursor ELSE @]
    /\ run' = [run EXCEPT !.step = "finish"]
    /\ UNCHANGED <<feed, active, stored, ledger, bounds>>

SaveCursor ==
    /\ At("task") /\ run.op = "sync" /\ run.work = <<>> /\ run.page # Absent
    /\ item' = [item EXCEPT
          !.cursor = run.page,
          !.start = IF ~run.more THEN Absent ELSE IF @ = Absent THEN item.cursor ELSE @]
    /\ run' = [run EXCEPT !.step = "finish"]
    /\ UNCHANGED <<feed, active, stored, ledger, bounds>>

\* lastSyncedAt: no further page, and every identity in review was worked.
Finish ==
    /\ At("finish")
    /\ item' = [item EXCEPT !.fresh = (item.start = Absent) /\ ~run.left]
    /\ run' = Idle
    /\ UNCHANGED <<feed, active, stored, ledger, bounds>>

-----------------------------------------------------------------------------
(* The tasks of a sync: redo, ingest, remove *)

TaskOf(what) == At("task") /\ run.work # <<>> /\ Asked = what
Put(e, doc) == identity' = [identity EXCEPT ![e] = doc]

\* reconcilePending: reviews are matched, intents continued.
Redo == /\ TaskOf("redo") /\ Store(Task.entry, identity[Task.entry], Tail(run.work))
        /\ UNCHANGED <<feed, item, active, stored, ledger, bounds>>

Ingest ==
    LET e == Task.entry  m == Task.money  doc == identity[e]
    IN  /\ TaskOf("ingest")
        /\ \/ /\ doc = Absent
              /\ Store(e, [Review(m) EXCEPT !.state = "intent"], Tail(run.work))
           \/ /\ doc # Absent /\ doc.state = "intent"     \* finish that one first
              /\ run' = [run EXCEPT !.step = "claim", !.entry = e, !.doc = doc]
           \/ /\ doc # Absent /\ doc.state = "applied" /\ doc.money = m
              /\ run' = Finished
           \/ /\ doc # Absent /\ doc.state # "intent" /\ ~(doc.state = "applied" /\ doc.money = m)
              /\ Store(e, [doc EXCEPT !.previous = doc.money, !.money = m, !.removal = FALSE],
                       Tail(run.work))
        /\ UNCHANGED <<feed, item, active, stored, ledger, bounds>>

Withdraw ==
    LET e == Task.entry  doc == identity[e]
    IN  /\ TaskOf("remove")
        /\ \/ /\ doc = Absent /\ run' = Finished /\ UNCHANGED identity
              /\ ledger' = IF Alive(Fallback(e)) THEN [ledger EXCEPT ![Fallback(e)].alive = FALSE]
                           ELSE ledger
           \/ /\ doc # Absent /\ doc.state = "removed" /\ run' = Finished
              /\ UNCHANGED <<identity, ledger>>
           \/ /\ doc # Absent /\ doc.state = "review"
              /\ Put(e, [doc EXCEPT !.state = "removed", !.removal = TRUE]) /\ run' = Finished
              /\ UNCHANGED ledger
           \/ /\ doc # Absent /\ doc.state \in {"intent", "applied"}
              /\ Store(e, [doc EXCEPT !.removal = TRUE], Tail(run.work))
              /\ UNCHANGED <<identity, ledger>>
        /\ UNCHANGED <<feed, item, active, claim, bounds>>

-----------------------------------------------------------------------------
(* write, claim, apply: the same path for every identity *)

WriteIdentity ==
    /\ At("write") /\ Put(run.entry, run.doc)
    /\ run' = [run EXCEPT !.step = "claim"]
    /\ UNCHANGED <<feed, item, active, claim, ledger, bounds>>

\* Mutant: a claim that exists is taken for one's own.
ClaimAny ==
    /\ At("claim")
    /\ claim' = IF claim[run.doc.tx] = Absent THEN [claim EXCEPT ![run.doc.tx] = run.entry] ELSE claim
    /\ run' = [run EXCEPT !.step = "book"]
    /\ UNCHANGED <<feed, item, active, identity, ledger, bounds>>

\* A transaction that went to another entry is left to it: match again.
ClaimTransaction ==
    LET t == run.doc.tx
    IN  /\ At("claim")
        /\ \/ /\ claim[t] \in {Absent, run.entry}
              /\ claim' = [claim EXCEPT ![t] = run.entry]
              /\ run' = [run EXCEPT !.step = "book"]
           \/ /\ claim[t] \notin {Absent, run.entry} /\ UNCHANGED claim
              /\ \E new \in Matches(run.entry, run.doc) :
                    run' = [Loaded EXCEPT !.step = "write", !.doc = new]
        /\ UNCHANGED <<feed, item, active, identity, ledger, bounds>>

\* Mutant: deletions are preserved, corrections are not.
PreservedDeletion(doc) ==
    LET tx == ledger[doc.tx]
    IN  tx # Absent /\ doc.previous # Absent /\ (~tx.alive \/ tx.split)

\* What a member has made of it since the bank last reported is preserved.
Preserved(doc) ==
    LET tx == ledger[doc.tx]
    IN  /\ tx # Absent /\ doc.previous # Absent
        /\ \/ ~tx.alive
           \/ tx.money \notin {doc.previous, doc.money}
           \/ tx.split /\ tx.money.amount # doc.money.amount

Booked(doc, e) ==
    LET tx == ledger[doc.tx]
    IN  IF Preserved(doc) THEN ledger
        ELSE IF doc.removal THEN IF Alive(doc.tx) THEN [ledger EXCEPT ![doc.tx].alive = FALSE]
                                 ELSE ledger
        ELSE IF tx = Absent
        THEN [ledger EXCEPT ![doc.tx] = [money |-> doc.money, alive |-> TRUE, split |-> FALSE,
                                         ext |-> e]]
        ELSE IF tx.money = doc.money /\ tx.ext = e THEN ledger
        ELSE [ledger EXCEPT ![doc.tx].money = doc.money, ![doc.tx].ext = e, ![doc.tx].alive = TRUE]

Marked(doc) ==
    [doc EXCEPT !.state = IF doc.removal THEN "removed" ELSE "applied",
                !.previous = IF doc.removal /\ ~Preserved(doc) THEN @ ELSE doc.money]

BookTransaction ==
    /\ At("book") /\ ledger' = Booked(run.doc, run.entry)
    /\ run' = [run EXCEPT !.step = "mark", !.doc = Marked(run.doc)]
    /\ UNCHANGED <<feed, item, active, stored, bounds>>

MarkIdentity ==
    /\ At("mark") /\ Put(run.entry, run.doc)
    /\ run' = IF run.op = "sync" THEN [run EXCEPT !.step = "task"] ELSE Idle
    /\ UNCHANGED <<feed, item, active, claim, ledger, bounds>>

-----------------------------------------------------------------------------
(* resolve: a member decides an old review; the claim comes first *)

Resolve(e, t) ==
    LET doc == identity[e]
        chosen == IF t = Absent THEN Fallback(e) ELSE t
    IN  /\ run = Idle /\ doc # Absent /\ doc.state = "review"
        /\ t # Absent => Alive(t)
        /\ claim[chosen] \in {Absent, e}
        /\ claim' = [claim EXCEPT ![chosen] = e]
        /\ run' = Invocation("resolve", <<>>, "write", e,
                     [doc EXCEPT !.tx = chosen, !.state = "intent",
                                 !.previous = IF t = Absent THEN Absent ELSE ledger[t].money])
        /\ UNCHANGED <<feed, item, active, identity, ledger, bounds>>

-----------------------------------------------------------------------------
(* The bank, the members, the clock, failures *)

\* A pending charge has an id of its own, and an id is not used again.
Report(e) ==
    /\ Len(feed) < MaxFeed
    /\ \/ \E m \in BankMoney : LastKind(e) \in {"none", "posted"} /\ feed' = Append(feed, Post(e, m))
       \/ LastKind(e) = "none" /\ feed' = Append(feed, [entry |-> e, kind |-> "pending"])
       \/ LastKind(e) = "posted" /\ feed' = Append(feed, [entry |-> e, kind |-> "withdrawn"])
    /\ UNCHANGED <<item, active, stored, ledger, run, bounds>>

Edit(t) ==
    /\ Alive(t) /\ edits < MaxEdits /\ edits' = edits + 1
    /\ \/ \E m \in MemberMoney : ledger' = [ledger EXCEPT ![t].money = m]
       \/ ledger' = [ledger EXCEPT ![t].alive = FALSE]
       \/ ~ledger[t].split /\ ledger' = [ledger EXCEPT ![t].split = TRUE]
    /\ UNCHANGED <<feed, item, active, stored, run, stops, mutations>>

Disconnect == active /\ active' = FALSE /\ UNCHANGED <<feed, item, stored, ledger, run, bounds>>

\* A day has passed since the last complete sync.
NextDay == /\ item.fresh /\ item.cursor < Len(feed)
           /\ item' = [item EXCEPT !.fresh = FALSE]
           /\ UNCHANGED <<feed, active, stored, ledger, run, bounds>>

Stop == /\ run # Idle /\ stops < MaxStops /\ stops' = stops + 1 /\ run' = Idle
        /\ UNCHANGED <<feed, item, active, stored, ledger, edits, mutations>>

Step == \/ FetchPage \/ FetchRefused \/ SaveCursor \/ Finish \/ Redo \/ Ingest \/ Withdraw
        \/ WriteIdentity \/ ClaimTransaction \/ BookTransaction \/ MarkIdentity

Next ==
    \/ BeginSync \/ Step \/ Disconnect \/ NextDay \/ Stop
    \/ \E e \in Entry : Report(e) \/ \E t \in Imported \cup {Absent} : Resolve(e, t)
    \/ \E t \in Tx : Edit(t)

Spec == Init /\ [][Next]_vars

\* A dispatcher runs the pass every quarter of an hour and an invocation that
\* is not stopped ends; no other fairness is needed.
LiveSpec == Spec /\ WF_vars(Step) /\ WF_vars(BeginSync) /\ WF_vars(NextDay)

-----------------------------------------------------------------------------
(* Properties *)

\* Every document and the mapping stay in the range they have in the code.
TypeOK ==
    /\ item.cursor \in 0..Len(feed) /\ item.start \in {Absent} \cup 0..Len(feed)
    /\ item.fresh \in BOOLEAN /\ active \in BOOLEAN
    /\ \A e \in Entry : identity[e] # Absent =>
          /\ identity[e].state \in {"review", "intent", "applied", "removed"}
          /\ identity[e].tx \in Tx \cup {Absent}
          /\ {identity[e].money, identity[e].previous} \subseteq Money \cup {Absent}
    /\ \A t \in Tx : /\ claim[t] \in Entry \cup {Absent}
                      /\ ledger[t] # Absent => ledger[t].money \in Money
    /\ stops \in 0..MaxStops /\ edits \in 0..MaxEdits /\ mutations \in 0..MaxMutations

\* Matching is one to one: whatever stops between a match and its claim, and
\* whatever reviews are decided in between, no two provider entries end on
\* one transaction, and the one that does holds the claim (design.md:79).
OneEntryPerTransaction ==
    \A e \in Entry : identity[e] # Absent /\ identity[e].tx # Absent
                         /\ identity[e].state \in {"applied", "removed"} =>
        /\ claim[identity[e].tx] = e
        /\ \A f \in Entry \ {e} : identity[f] # Absent /\ identity[f].state = "applied"
              => identity[f].tx # identity[e].tx

\* The two writes that may replace what a member has made: the first booking
\* of a new transaction, whose identity has no previous fields yet, and a
\* match the member decided knowing it.
Unmarked(t) == \E e \in Entry : /\ identity[e] # Absent /\ identity[e].tx = t
                                /\ identity[e].state = "intent"
                                /\ identity[e].previous \in {Absent, ledger[t].money}
MemberTouched(t) == ledger[t] # Absent /\ (~ledger[t].alive \/ ledger[t].money \in MemberMoney)
Untouched(t) == ledger'[t].money = ledger[t].money /\ ledger'[t].alive = ledger[t].alive

\* A later report, correction, withdrawal or repeated task of the bank never
\* changes a transaction a member has corrected, and never brings back one
\* that was deleted, apart from those two writes.
MemberEditsKept ==
    [][\A t \in Tx : MemberTouched(t) /\ edits' = edits /\ ~Unmarked(t) => Untouched(t)]_vars

\* The design document allows no such exception for a new transaction:
\* "conflicts require review rather than overwrite" (design.md:84).
EditsAreNeverOverwritten ==
    [][\A t \in Tx \ Imported : MemberTouched(t) /\ edits' = edits => Untouched(t)]_vars

\* When a sync has caught up and members have left the books alone, they show
\* exactly what the bank reports: each posted entry once, with its last
\* money, nothing that was withdrawn or is pending, and an imported
\* transaction is changed only by the entry that claimed it.
CaughtUp == /\ run = Idle /\ item.cursor = Len(feed) /\ edits = 0
            /\ \A e \in Entry : identity[e] # Absent => identity[e].state \in {"applied", "removed"}
LedgerFollowsBank ==
    CaughtUp =>
        /\ \A e \in Entry :
              LET mine == {t \in Tx : Alive(t) /\ ledger[t].ext = e}
              IN  IF LastKind(e) = "posted"
                  THEN /\ Cardinality(mine) = 1
                       /\ \E i \in 1..Len(feed) :
                             /\ feed[i].entry = e
                             /\ \A j \in (i + 1)..Len(feed) : feed[j].entry # e
                             /\ \A t \in mine : ledger[t].money = feed[i].money
                  ELSE mine = {}
        /\ \A t \in Imported : claim[t] = Absent => ledger[t].money = History[t] /\ Alive(t)

\* Whatever the bank reports reaches the books, through stopped invocations
\* and repeated pages, as long as the member does not disconnect.
SyncCatchesUp ==
    active /\ item.cursor < Len(feed)
        ~> ~active \/ (item.cursor = Len(feed) /\ Pending = {})

=============================================================================
