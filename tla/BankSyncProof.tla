---------------------------- MODULE BankSyncProof ----------------------------
(***************************************************************************)
(* Proofs about BankSync for every set of entries and transactions, every  *)
(* history, page size and number of stops, edits and resets.               *)
(*                                                                         *)
(* The inductive invariant says what each step of an invocation has        *)
(* already secured: the identity is stored before the claim, the claim     *)
(* before the booking, and a claim, once made, is never given up.          *)
(*                                                                         *)
(* A second one, on top of it, says what the documents owe the log of the  *)
(* bank: every identity repeats one of its entry's events, none older than *)
(* the last one up to the cursor, and what the identity being written says *)
(* is no older than the last one up to where the work stands; and the      *)
(* books show what the identities say.                                     *)
(***************************************************************************)
EXTENDS BankSync, FiniteSetTheorems, TLAPS

-----------------------------------------------------------------------------
(* The inductive invariant *)

Events == [entry : Entry, kind : {"posted"}, money : BankMoney]
          \cup [entry : Entry, kind : {"pending", "withdrawn"}]
Tasks == [do : {"ingest"}, entry : Entry, money : BankMoney]
         \cup [do : {"redo", "remove"}, entry : Entry, money : {Absent}]
Ledgers == [Tx -> Transaction \cup {Absent}]
Steps == {"task", "finish", "write", "claim", "book", "mark"}
Runs == [op : {"sync", "resolve"}, work : Seq(Tasks), step : Steps, entry : Entry \cup {Absent},
         doc : Identity \cup {Absent}, cached : Ledgers \cup {Absent}, page : Nat \cup {Absent},
         more : BOOLEAN, left : BOOLEAN]

ItemOK ==
    /\ item \in [cursor : Nat, start : Nat \cup {Absent}, fresh : BOOLEAN]
    /\ item.cursor <= Len(feed) /\ (item.start # Absent => item.start <= Len(feed))
    /\ active \in BOOLEAN
StoredTypes ==
    /\ identity \in [Entry -> Identity \cup {Absent}]
    /\ claim \in [Tx -> Entry \cup {Absent}]
    /\ ledger \in Ledgers
BoundsOK == stops \in 0..MaxStops /\ edits \in 0..MaxEdits /\ mutations \in 0..MaxMutations

\* The transactions entry e may be booked under.
Own(e) == Imported \cup {Fallback(e)}

\* A state of the identity of e, and the transaction and claim it comes with.
IdentityOK(e) == identity[e] # Absent =>
    /\ identity[e].tx \in Own(e) \cup {Absent}
    /\ identity[e].state = "review" => identity[e].tx = Absent
    /\ identity[e].state = "intent" => identity[e].tx # Absent
    /\ identity[e].state = "applied" => identity[e].tx # Absent
    /\ identity[e].state \in {"applied", "removed"} /\ identity[e].tx # Absent =>
          claim[identity[e].tx] = e

\* No transaction is booked before the identity it belongs to is stored.
LedgerOK == /\ \A e \in Entry : ledger[Fallback(e)] # Absent => identity[e] # Absent
            /\ \A t \in Imported : ledger[t] # Absent

\* What the invocation has read, and what it has stored since.
WorkOK == \A i \in 1..Len(run.work) :
             run.work[i].do = "redo" => identity[run.work[i].entry] # Absent
RunOK == run # Idle =>
    /\ run \in Runs
    /\ run.page # Absent => run.page <= Len(feed)
    /\ WorkOK
    /\ run.step \in {"write", "claim", "book", "mark"} =>
          run.entry \in Entry /\ run.doc \in Identity /\ run.doc.tx \in Own(run.entry)
    /\ run.step \in {"write", "claim", "book"} => run.doc.state = "intent"
    /\ run.step = "mark" => run.doc.state \in {"applied", "removed"} /\ identity[run.entry] # Absent
    /\ run.step \in {"claim", "book"} => identity[run.entry] = run.doc
    /\ run.step \in {"book", "mark"} => claim[run.doc.tx] = run.entry

Identities == \A e \in Entry : IdentityOK(e)
Inv == feed \in Seq(Events) /\ ItemOK /\ StoredTypes /\ BoundsOK /\ Identities /\ LedgerOK /\ RunOK

-----------------------------------------------------------------------------
(* A second inductive invariant: what the identities and the books owe the log *)

\* The books at the start of the link.
First(t) == IF t \in Imported
            THEN [money |-> History[t], alive |-> TRUE, split |-> FALSE, ext |-> Absent]
            ELSE Absent

\* Once an entry is pending or withdrawn, the log does not name it again.
LogOrder == \A i, k \in 1..Len(feed) :
               feed[i].entry = feed[k].entry /\ feed[i].kind # "posted" => k <= i
Gone(e) == \E k \in 1..Len(feed) : feed[k].entry = e /\ feed[k].kind # "posted"

\* The identity says of its entry what one event of the log says.
Tells(doc, event) == IF event.kind = "posted" THEN doc.money = event.money /\ ~doc.removal
                     ELSE doc.removal
\* ... and that event is no older than the last one up to position p.  A page
\* read again may have left it younger.
Reached(e, doc, p) ==
    IF doc = Absent THEN \A k \in 1..p : feed[k].entry = e => feed[k].kind # "posted"
    ELSE \E i \in 1..Len(feed) : /\ feed[i].entry = e /\ Tells(doc, feed[i])
                                 /\ \A k \in (i + 1)..p : feed[k].entry # e

\* How much of the log the invocation has worked.
Position == IF run = Idle \/ run.page = Absent THEN item.cursor ELSE run.page - Len(run.work)
WorkFollows ==
    /\ item.start # Absent => item.start <= item.cursor
    /\ item.cursor <= Position
    /\ run # Idle => \A i \in 1..Len(run.work) :
          run.work[i] = IF run.page = Absent THEN Do("redo", run.work[i].entry, Absent)
                        ELSE AsTask(feed[Position + i])

Working == run # Idle /\ run.step \in {"write", "claim", "book", "mark"}
Writing(e) == run # Idle /\ run.step = "write" /\ run.entry = e
Latest(e) == IF Writing(e) THEN run.doc ELSE identity[e]
Progress == \A e \in Entry : /\ Reached(e, identity[e], item.cursor)
                             /\ Reached(e, Latest(e), Position)

\* A document's state and its removal mark agree.
Consistent(doc) == /\ doc.state \in {"review", "applied"} => ~doc.removal
                   /\ doc.state = "removed" => doc.removal
\* The transaction of e is claimed for it, and no other write changes that.
Settled(e) == identity[e] # Absent /\ identity[e].tx # Absent /\ claim[identity[e].tx] = e
Documents ==
    /\ \A e \in Entry : identity[e] # Absent => Consistent(identity[e])
    /\ Working => Consistent(run.doc)
    /\ Working /\ run.step = "write" /\ Settled(run.entry) => run.doc.tx = identity[run.entry].tx
    /\ Working /\ run.step = "mark" => /\ run.doc.tx = identity[run.entry].tx
                                       /\ run.doc.money = identity[run.entry].money
                                       /\ run.doc.removal = identity[run.entry].removal

\* A transaction that is not as it was belongs to the entry that claimed it,
\* and is deleted only when that entry is withdrawn.
RowOK(t) ==
    /\ ledger[t] # First(t) => /\ claim[t] \in Entry /\ identity[claim[t]] # Absent
                               /\ identity[claim[t]].tx = t
    /\ ledger[t] # Absent => /\ ~ledger[t].split /\ ledger[t].ext \in {Absent, claim[t]}
                             /\ ~ledger[t].alive => Gone(claim[t])
\* What the books show for an identity in this state.
Shown(e, doc) ==
    /\ doc.state = "intent" /\ claim[doc.tx] \in {Absent, e} /\ Alive(doc.tx)
             /\ doc.previous # Absent =>
          ledger[doc.tx].money \in {doc.previous, doc.money}
    /\ doc.state = "applied" => /\ ledger[doc.tx] # Absent
                                /\ Alive(doc.tx) => /\ ledger[doc.tx].money = doc.money
                                                    /\ ledger[doc.tx].ext = e
    /\ doc.state = "removed" /\ doc.tx # Absent => ~Alive(doc.tx)
Books == edits = 0 =>
    /\ \A t \in Tx : RowOK(t)
    /\ \A e \in Entry : identity[e] # Absent => Shown(e, identity[e])
    /\ Working => Shown(run.entry, run.doc)

Follow == LogOrder /\ WorkFollows /\ Progress /\ Documents /\ Books

-----------------------------------------------------------------------------
(* Operators *)

\* The smaller of two numbers is one of them and exceeds neither.
LEMMA MinOfTwo ==
    ASSUME NEW a \in Nat, NEW b \in Nat
    PROVE  Min({a, b}) \in {a, b} /\ Min({a, b}) <= a /\ Min({a, b}) <= b
<1>1. \E x \in {a, b} : \A y \in {a, b} : x =< y
  <2>1. CASE a <= b  BY <2>1
  <2>2. CASE b <= a  BY <2>2
  <2> QED  BY <2>1, <2>2
<1> QED  BY <1>1 DEF Min

\* A finite set can be listed, and the list names every member once and
\* nothing else.
LEMMA Listing ==
    ASSUME NEW S, IsFiniteSet(S)
    PROVE  /\ SetToSeq(S) \in [1..Cardinality(S) -> S]
           /\ \A i, k \in 1..Cardinality(S) : SetToSeq(S)[i] = SetToSeq(S)[k] => i = k
           /\ \A e \in S : \E i \in 1..Cardinality(S) : SetToSeq(S)[i] = e
<1> PICK n : n = Cardinality(S)  OBVIOUS
<1>1. n \in Nat /\ ExistsBijection(1..n, S)  BY FS_CardinalityType
<1>2. PICK f \in Bijection(1..n, S) : TRUE  BY <1>1 DEF ExistsBijection
<1>3. f \in [1..n -> S] /\ IsInjective(f)
  BY <1>2 DEF Bijection, Injection
<1> PICK s : s = SetToSeq(S)  OBVIOUS
<1>4. s \in [1..n -> S] /\ IsInjective(s)  BY <1>3 DEF SetToSeq
<1>5. s \in Surjection(1..n, S)
  <2>1. s \in Injection(1..n, S)  BY <1>4 DEF Injection
  <2>2. Cardinality(1..n) = n  BY <1>1, FS_Interval
  <2> QED  BY <2>1, <2>2, FS_Injection
<1> QED  BY <1>4, <1>5 DEF Surjection, IsInjective

\* The sentinel is no document, no entry and no position.
LEMMA Sentinel ==
    /\ Absent \notin Tx /\ Absent \notin Entry /\ Absent \notin Nat
    /\ Absent \notin Identity /\ Absent \notin Transaction
  BY SentinelAssumption DEF Tx, Fallback

\* Money is a record of two integers, and what the provider reports is money.
LEMMA MoneyType ==
    Money \subseteq [amount : Int, date : Int] /\ BankMoney \subseteq Money /\ MemberMoney \subseteq Money
  BY MoneyAssumption DEF Money

\* The booked money with the date of a transaction of the same amount is that
\* transaction's money.
LEMMA Dated ==
    ASSUME NEW m \in [amount : Int, date : Int], NEW n \in [amount : Int, date : Int],
           m.amount = n.amount
    PROVE  [m EXCEPT !.date = n.date] = n
  OBVIOUS

\* What a match decides: an intent for a transaction the entry may be booked
\* under, whose previous money is what the books show for it now.
LEMMA MatchesAre ==
    ASSUME StoredTypes, NEW e \in Entry, NEW doc \in Identity, NEW new \in Matches(e, doc)
    PROVE  /\ new \in Identity /\ new.state = "intent" /\ new.tx \in Own(e)
           /\ new.money = doc.money /\ new.removal = doc.removal
           /\ new.previous # Absent => new.previous = ledger[new.tx].money
<1>1. Fallback(e) \in Tx /\ Imported \subseteq Tx  BY DEF Tx
<1>2. CASE new = [doc EXCEPT !.state = "intent", !.tx = Fallback(e), !.previous = Absent]
  BY <1>1, <1>2 DEF Identity, Own
<1>3. CASE \E t \in Candidates(e, doc.money) :
              new = [doc EXCEPT !.state = "intent", !.tx = t,
                                !.previous = [doc.money EXCEPT !.date = ledger[t].money.date]]
  <2>1. PICK t \in Candidates(e, doc.money) :
              new = [doc EXCEPT !.state = "intent", !.tx = t,
                                !.previous = [doc.money EXCEPT !.date = ledger[t].money.date]]
    BY <1>3
  <2>2. t \in Imported /\ ledger[t] # Absent /\ ledger[t].money.amount = doc.money.amount
    BY DEF Candidates, Near, Claimable, Alive
  <2>3. ledger[t].money \in Money  BY <1>1, <2>2 DEF StoredTypes, Ledgers, Transaction
  <2>4. doc.money \in BankMoney  BY DEF Identity
  <2>5. [doc.money EXCEPT !.date = ledger[t].money.date] = ledger[t].money
    BY <2>2, <2>3, <2>4, MoneyType, Dated
  <2>6. new = [doc EXCEPT !.state = "intent", !.tx = t, !.previous = ledger[t].money]
    BY <2>1, <2>5
  <2> QED  BY <1>1, <2>2, <2>3, <2>6 DEF Identity, Own
<1> QED
  <2> DEFINE C == Candidates(e, doc.money)
  <2>1. CASE C = {}  BY <2>1, <1>2 DEF Matches
  <2>2. CASE C # {}  BY <2>2, <1>3 DEF Matches
  <2> QED  BY <2>1, <2>2

\* The list of candidates an invocation keeps is one of transactions.
LEMMA LoadedAre ==
    ASSUME StoredTypes, run \in Runs
    PROVE  /\ Loaded \in Runs /\ Loaded = [run EXCEPT !.cached = Listed]
           /\ Listed \in Ledgers
<1>1. Listed \in Ledgers  BY DEF Listed, StoredTypes, Runs
<1> QED  BY <1>1 DEF Loaded, Runs

\* Storing an identity: the invocation goes on to write an intent.
LEMMA StoreAre ==
    ASSUME StoredTypes, run \in Runs, NEW e \in Entry, NEW doc \in Identity,
           doc.tx \in Own(e) \cup {Absent}, NEW then \in Seq(Tasks), Store(e, doc, then)
    PROVE  /\ run' \in Runs /\ run'.step = "write" /\ run'.entry = e /\ run'.work = then
           /\ run'.page = run.page /\ run'.doc \in Identity /\ run'.doc.tx \in Own(e)
           /\ run'.doc.state = "intent"
           /\ run'.doc.money = doc.money /\ run'.doc.removal = doc.removal
           /\ IF doc.tx # Absent THEN run'.doc.tx = doc.tx /\ run'.doc.previous = doc.previous
              ELSE run'.doc.previous # Absent => run'.doc.previous = ledger[run'.doc.tx].money
<1>1. CASE doc.tx # Absent
  <2> DEFINE to == [doc EXCEPT !.state = "intent"]
  <2>1. /\ to \in Identity /\ to.state = "intent" /\ to.tx \in Own(e) /\ to.tx = doc.tx
        /\ to.money = doc.money /\ to.removal = doc.removal /\ to.previous = doc.previous
    BY <1>1 DEF Identity
  <2>2. run' = [run EXCEPT !.step = "write", !.entry = e, !.doc = to, !.work = then]
    BY <1>1 DEF Store
  <2> HIDE DEF to
  <2> QED  BY <1>1, <2>1, <2>2 DEF Runs, Steps
<1>2. CASE doc.tx = Absent
  <2>1. PICK new \in Matches(e, doc) :
           run' = [Loaded EXCEPT !.step = "write", !.entry = e, !.doc = new, !.work = then]
    BY <1>2 DEF Store
  <2>2. /\ new \in Identity /\ new.state = "intent" /\ new.tx \in Own(e)
        /\ new.money = doc.money /\ new.removal = doc.removal
        /\ new.previous # Absent => new.previous = ledger[new.tx].money
    BY MatchesAre
  <2>3. Loaded \in Runs /\ Loaded.page = run.page  BY LoadedAre DEF Runs
  <2>4. /\ run'.step = "write" /\ run'.entry = e /\ run'.work = then /\ run'.page = run.page
        /\ run'.doc = new
    BY <2>1, <2>3 DEF Runs
  <2>5. run' \in Runs  BY <2>1, <2>2, <2>3 DEF Runs, Steps
  <2> QED  BY <1>2, <2>2, <2>4, <2>5
<1> QED  BY <1>1, <1>2

\* An invocation at work is told from none by its operation.
LEMMA IdleIsNone == Idle \notin Runs
  BY DEF Idle, Runs

\* What is left of the work is work already listed.
LEMMA RestOfWork ==
    ASSUME Inv, run # Idle, run.work # <<>>
    PROVE  /\ Task \in Tasks /\ Task = run.work[1] /\ Tail(run.work) \in Seq(Tasks)
           /\ \A i \in 1..Len(Tail(run.work)) :
                 Tail(run.work)[i].do = "redo" => identity[Tail(run.work)[i].entry] # Absent
           /\ Task.do = "redo" => identity[Task.entry] # Absent
<1>1. run.work \in Seq(Tasks) /\ WorkOK  BY DEF Inv, RunOK, Runs
<1>2. /\ Task \in Tasks /\ Task = run.work[1] /\ Tail(run.work) \in Seq(Tasks)
      /\ Len(run.work) >= 1 /\ Len(Tail(run.work)) = Len(run.work) - 1
      /\ \A i \in 1..Len(Tail(run.work)) : Tail(run.work)[i] = run.work[i + 1]
  BY <1>1 DEF Task
<1>3. \A i \in 1..Len(Tail(run.work)) :
         Tail(run.work)[i].do = "redo" => identity[Tail(run.work)[i].entry] # Absent
  <2> SUFFICES ASSUME NEW i \in 1..Len(Tail(run.work)), Tail(run.work)[i].do = "redo"
               PROVE  identity[Tail(run.work)[i].entry] # Absent
    OBVIOUS
  <2>1. i + 1 \in 1..Len(run.work) /\ Tail(run.work)[i] = run.work[i + 1]  BY <1>1, <1>2
  <2> QED  BY <1>1, <2>1 DEF WorkOK
<1>4. Task.do = "redo" => identity[Task.entry] # Absent
  <2>1. 1 \in 1..Len(run.work)  BY <1>1, <1>2
  <2> QED  BY <1>1, <1>2, <2>1 DEF WorkOK
<1> QED  BY <1>2, <1>3, <1>4

\* A task names an entry of the provider, and one to ingest its money.
LEMMA TasksName ==
    ASSUME NEW task \in Tasks
    PROVE  task.entry \in Entry /\ (task.do = "ingest" => task.money \in BankMoney)
  BY DEF Tasks

\* The invariant depends on the documents only through these.
LEMMA DocumentsKept ==
    ASSUME Inv, UNCHANGED <<stored, ledger>>
    PROVE  StoredTypes' /\ Identities' /\ LedgerOK'
  BY DEF Inv, stored, StoredTypes, Identities, IdentityOK, LedgerOK, Own

\* Going on to write an intent, whatever the task that led there.
LEMMA StoreSafe ==
    ASSUME Inv, run # Idle, run.work # <<>>, NEW e \in Entry, NEW doc \in Identity,
           doc.tx \in Own(e) \cup {Absent}, Store(e, doc, Tail(run.work)),
           UNCHANGED <<feed, item, active, stored, ledger, bounds>>
    PROVE  Inv'
<1>1. run \in Runs /\ StoredTypes  BY DEF Inv, RunOK
<1>2. Tail(run.work) \in Seq(Tasks)  BY RestOfWork
<1>3. /\ run' \in Runs /\ run'.step = "write" /\ run'.entry = e /\ run'.work = Tail(run.work)
      /\ run'.page = run.page /\ run'.doc \in Identity /\ run'.doc.tx \in Own(e)
      /\ run'.doc.state = "intent"
  BY <1>1, <1>2, StoreAre
<1>4. identity' = identity /\ feed' = feed  BY DEF stored
<1>5. WorkOK'  BY <1>3, <1>4, RestOfWork DEF WorkOK
<1>6. Len(feed) = Len(feed') /\ (run'.page # Absent => run'.page <= Len(feed'))
  BY <1>3, <1>4 DEF Inv, RunOK
<1>7. RunOK'  BY <1>3, <1>5, <1>6 DEF RunOK, Own
<1> QED  BY <1>4, <1>7, DocumentsKept DEF Inv, ItemOK, BoundsOK, bounds
-----------------------------------------------------------------------------
(* Every step keeps the invariant *)

\* BeginSync lists identities that exist.
LEMMA BeginSyncSafe == Inv /\ BeginSync => Inv'
<1> SUFFICES ASSUME Inv, BeginSync PROVE Inv'
  OBVIOUS
<1>1. PICK S \in SUBSET Pending :
         run' = [Invocation("sync", [i \in 1..Len(SetToSeq(S)) |-> Do("redo", SetToSeq(S)[i], Absent)],
                            "task", Absent, Absent) EXCEPT !.left = Cardinality(Pending) > PendingLimit]
  BY DEF BeginSync, kSubset
<1> DEFINE order == SetToSeq(S)
           work == [i \in 1..Len(order) |-> Do("redo", order[i], Absent)]
           left == Cardinality(Pending) > PendingLimit
<1>2. Pending \subseteq Entry /\ \A e \in Pending : identity[e] # Absent  BY DEF Pending
<1>3. IsFiniteSet(S)
  BY <1>2, EntryAssumption, FS_Subset
<1>4. order \in Seq(S)
  <2>1. Cardinality(S) \in Nat /\ order \in [1..Cardinality(S) -> S]
    BY <1>3, Listing, FS_CardinalityType
  <2> QED  BY <2>1
<1>5. work \in Seq(Tasks) /\ Len(work) = Len(order)
      /\ \A i \in 1..Len(work) : identity[work[i].entry] # Absent
  BY <1>2, <1>4 DEF Tasks, Do
<1>6. left \in BOOLEAN  OBVIOUS
<1>7. run' = [op |-> "sync", work |-> work, step |-> "task", entry |-> Absent, doc |-> Absent,
              cached |-> Absent, page |-> Absent, more |-> FALSE, left |-> left]
  BY <1>1 DEF Invocation
<1> HIDE DEF work, left
<1>8. run' \in Runs  BY <1>5, <1>6, <1>7 DEF Runs, Steps
<1>9. UNCHANGED <<feed, item, active, stored, ledger, bounds>>  BY DEF BeginSync
<1>10. WorkOK'  BY <1>5, <1>7, <1>9 DEF WorkOK, stored
<1>11. RunOK'  BY <1>7, <1>8, <1>10 DEF RunOK
<1> QED  BY <1>9, <1>11, DocumentsKept DEF Inv, ItemOK, BoundsOK, bounds

\* FetchPage turns a stretch of the log into tasks.
LEMMA FetchPageSafe == Inv /\ FetchPage => Inv'
<1> SUFFICES ASSUME Inv, FetchPage PROVE Inv'
  OBVIOUS
<1> DEFINE next == Min({item.cursor + PageSize, Len(feed)})
           work == [i \in 1..(next - item.cursor) |-> AsTask(feed[item.cursor + i])]
           more == next < Len(feed)
<1>1. /\ run # Idle /\ UNCHANGED <<feed, item, active, stored, ledger, bounds>>
      /\ run' = [run EXCEPT !.page = next, !.more = more, !.work = work]
      /\ run.step = "task"
  BY DEF FetchPage, At
<1>2. item.cursor \in Nat /\ Len(feed) \in Nat /\ PageSize \in Nat \ {0} /\ item.cursor <= Len(feed)
  BY BoundAssumption DEF Inv, ItemOK
<1>3. next \in Nat /\ item.cursor <= next /\ next <= Len(feed)
  BY <1>2, MinOfTwo
<1> HIDE DEF next
<1>4. ASSUME NEW i \in 1..(next - item.cursor)
      PROVE  AsTask(feed[item.cursor + i]) \in Tasks /\ AsTask(feed[item.cursor + i]).do # "redo"
  <2>1. feed[item.cursor + i] \in Events
    <3>1. item.cursor + i \in 1..Len(feed)  BY <1>2, <1>3
    <3> QED  BY <3>1 DEF Inv
  <2> QED  BY <2>1 DEF AsTask, Events, Tasks, Do
<1>5. work \in Seq(Tasks) /\ \A i \in 1..Len(work) : work[i].do # "redo"
  <2>1. next - item.cursor \in Nat  BY <1>2, <1>3
  <2>2. work \in [1..(next - item.cursor) -> Tasks]  BY <1>4
  <2> QED  BY <2>1, <2>2, <1>4
<1>6. more \in BOOLEAN  OBVIOUS
<1> HIDE DEF work, more
<1>7. run' \in Runs /\ run'.work = work /\ run'.page = next /\ run'.step = "task"
  BY <1>1, <1>3, <1>5, <1>6 DEF Inv, RunOK, Runs
<1>8. WorkOK'  BY <1>5, <1>7 DEF WorkOK
<1>9. RunOK'  BY <1>1, <1>3, <1>7, <1>8 DEF RunOK
<1> QED  BY <1>1, <1>9, DocumentsKept DEF Inv, ItemOK, BoundsOK, bounds

\* FetchRefused goes back to a position the log has had.
LEMMA FetchRefusedSafe == Inv /\ FetchRefused => Inv'
<1> SUFFICES ASSUME Inv, FetchRefused PROVE Inv'
  OBVIOUS
<1>1. /\ UNCHANGED <<feed, active, stored, ledger, stops, edits>> /\ run' = Idle
      /\ mutations' = mutations + 1 /\ mutations < MaxMutations
      /\ item' = [item EXCEPT !.cursor = IF item.start = Absent THEN @ ELSE item.start,
                              !.start = Absent]
  BY DEF FetchRefused
<1>2. ItemOK'  BY <1>1, Sentinel DEF Inv, ItemOK
<1>3. BoundsOK'  BY <1>1, BoundAssumption DEF Inv, BoundsOK
<1>4. RunOK'  BY <1>1 DEF RunOK
<1> QED  BY <1>1, <1>2, <1>3, <1>4, DocumentsKept DEF Inv

\* SaveCursor moves the cursor to the end of the page that was worked.
LEMMA SaveCursorSafe == Inv /\ SaveCursor => Inv'
<1> SUFFICES ASSUME Inv, SaveCursor PROVE Inv'
  OBVIOUS
<1>1. /\ UNCHANGED <<feed, active, stored, ledger, bounds>> /\ run # Idle /\ run.page # Absent
      /\ run' = [run EXCEPT !.step = "finish"]
      /\ item' = [item EXCEPT !.cursor = run.page,
                    !.start = IF ~run.more THEN Absent ELSE IF @ = Absent THEN item.cursor ELSE @]
  BY DEF SaveCursor, At
<1>2. run \in Runs /\ run.page \in Nat /\ run.page <= Len(feed)  BY <1>1 DEF Inv, RunOK, Runs
<1>3. ItemOK'  BY <1>1, <1>2, Sentinel DEF Inv, ItemOK
<1>4. run' \in Runs /\ run'.step = "finish" /\ run'.work = run.work /\ run'.page = run.page
  BY <1>1, <1>2 DEF Runs, Steps
<1>5. WorkOK'  BY <1>1, <1>4 DEF Inv, RunOK, WorkOK, stored
<1>6. RunOK'  BY <1>1, <1>2, <1>4, <1>5 DEF RunOK
<1> QED  BY <1>1, <1>3, <1>6, DocumentsKept DEF Inv, BoundsOK, bounds

\* Finish notes whether the day's sync is complete.
LEMMA FinishSafe == Inv /\ Finish => Inv'
<1> SUFFICES ASSUME Inv, Finish PROVE Inv'
  OBVIOUS
<1>1. /\ UNCHANGED <<feed, active, stored, ledger, bounds>> /\ run' = Idle
      /\ item' = [item EXCEPT !.fresh = (item.start = Absent) /\ ~run.left]
  BY DEF Finish
<1>2. ItemOK'  BY <1>1 DEF Inv, ItemOK
<1>3. RunOK'  BY <1>1 DEF RunOK
<1> QED  BY <1>1, <1>2, <1>3, DocumentsKept DEF Inv, BoundsOK, bounds
\* Redo goes on with an identity that exists.
LEMMA RedoSafe == Inv /\ Redo => Inv'
<1> SUFFICES ASSUME Inv, Redo PROVE Inv'
  OBVIOUS
<1> DEFINE e == Task.entry  doc == identity[e]
<1>1. /\ UNCHANGED <<feed, item, active, stored, ledger, bounds>> /\ run # Idle
      /\ run.work # <<>> /\ Task.do = "redo" /\ Store(e, doc, Tail(run.work))
  BY DEF Redo, TaskOf, At, Asked
<1>2. e \in Entry /\ doc # Absent  BY <1>1, RestOfWork, TasksName
<1>3. doc \in Identity /\ doc.tx \in Own(e) \cup {Absent}
  BY <1>2 DEF Inv, StoredTypes, Identities, IdentityOK
<1> HIDE DEF e, doc
<1> QED  BY <1>1, <1>2, <1>3, StoreSafe

\* A task that asks for no further write is done.
LEMMA TaskDone ==
    ASSUME Inv, run # Idle, run.step = "task", run.work # <<>>, run' = Finished,
           \A e \in Entry : identity[e] # Absent => identity'[e] # Absent, UNCHANGED feed
    PROVE  RunOK'
<1>1. run \in Runs /\ Tail(run.work) \in Seq(Tasks)  BY RestOfWork DEF Inv, RunOK
<1>2. run' \in Runs /\ run'.work = Tail(run.work) /\ run'.step = "task" /\ run'.page = run.page
  BY <1>1 DEF Finished, Runs, Steps
<1>3. WorkOK'
  <2> SUFFICES ASSUME NEW i \in 1..Len(Tail(run.work)), Tail(run.work)[i].do = "redo"
               PROVE  identity'[Tail(run.work)[i].entry] # Absent
    BY <1>2 DEF WorkOK
  <2>1. identity[Tail(run.work)[i].entry] # Absent  BY RestOfWork
  <2>2. Tail(run.work)[i] \in Tasks  BY <1>1
  <2> QED  BY <2>1, <2>2, TasksName
<1> QED  BY <1>2, <1>3 DEF Inv, RunOK

\* Ingest continues an intent as it is stored, and matches anything else anew.
LEMMA IngestSafe == Inv /\ Ingest => Inv'
<1> SUFFICES ASSUME Inv, Ingest PROVE Inv'
  OBVIOUS
<1> DEFINE e == Task.entry  m == Task.money  doc == identity[e]
<1>1. /\ UNCHANGED <<feed, item, active, stored, ledger, bounds>> /\ run # Idle
      /\ run.step = "task" /\ run.work # <<>> /\ Task.do = "ingest"
  BY DEF Ingest, TaskOf, At, Asked
<1>2. e \in Entry /\ m \in BankMoney  BY <1>1, RestOfWork, TasksName
<1>3. doc # Absent => /\ doc \in Identity /\ doc.tx \in Own(e) \cup {Absent}
                      /\ doc.state = "intent" => doc.tx \in Own(e)
  BY <1>2 DEF Inv, StoredTypes, Identities, IdentityOK
<1>4. run \in Runs  BY <1>1 DEF Inv, RunOK
<1>5. \/ doc = Absent /\ Store(e, [Review(m) EXCEPT !.state = "intent"], Tail(run.work))
      \/ /\ doc # Absent /\ doc.state = "intent"
         /\ run' = [run EXCEPT !.step = "claim", !.entry = e, !.doc = doc]
      \/ run' = Finished
      \/ /\ doc # Absent
         /\ Store(e, [doc EXCEPT !.previous = doc.money, !.money = m, !.removal = FALSE],
                  Tail(run.work))
  BY DEF Ingest
<1> HIDE DEF e, m, doc
<1>6. CASE doc = Absent /\ Store(e, [Review(m) EXCEPT !.state = "intent"], Tail(run.work))
  <2> DEFINE fresh == [Review(m) EXCEPT !.state = "intent"]
  <2>1. fresh \in Identity /\ fresh.tx = Absent  BY <1>2 DEF Review, Identity
  <2> HIDE DEF fresh
  <2> QED  BY <1>1, <1>2, <1>6, <2>1, StoreSafe DEF fresh
<1>7. CASE /\ doc # Absent /\ doc.state = "intent"
           /\ run' = [run EXCEPT !.step = "claim", !.entry = e, !.doc = doc]
  <2>1. /\ run' \in Runs /\ run'.step = "claim" /\ run'.entry = e /\ run'.doc = doc
        /\ run'.work = run.work /\ run'.page = run.page
    BY <1>2, <1>3, <1>4, <1>7 DEF Runs, Steps
  <2>2. identity' = identity /\ feed' = feed  BY <1>1 DEF stored
  <2>3. WorkOK'  BY <1>1, <2>1, <2>2 DEF Inv, RunOK, WorkOK
  <2>4. identity'[run'.entry] = run'.doc  BY <2>1, <2>2 DEF doc
  <2>5. RunOK'  BY <1>1, <1>2, <1>3, <1>7, <2>1, <2>2, <2>3, <2>4 DEF Inv, RunOK, Own
  <2> QED  BY <1>1, <2>5, DocumentsKept DEF Inv, ItemOK, BoundsOK, bounds
<1>8. CASE run' = Finished
  <2>1. RunOK'  BY <1>1, <1>8, TaskDone DEF stored
  <2> QED  BY <1>1, <2>1, DocumentsKept DEF Inv, ItemOK, BoundsOK, bounds
<1>9. CASE /\ doc # Absent
           /\ Store(e, [doc EXCEPT !.previous = doc.money, !.money = m, !.removal = FALSE],
                    Tail(run.work))
  <2> DEFINE next == [doc EXCEPT !.previous = doc.money, !.money = m, !.removal = FALSE]
  <2>1. next \in Identity /\ next.tx = doc.tx
    BY <1>2, <1>3, <1>9, MoneyType DEF Identity
  <2> HIDE DEF next
  <2> QED  BY <1>1, <1>2, <1>3, <1>9, <2>1, StoreSafe DEF next
<1> QED  BY <1>5, <1>6, <1>7, <1>8, <1>9

\* Withdraw touches the books of no entry that has an identity, and an entry
\* without one has none.
LEMMA WithdrawSafe == Inv /\ Withdraw => Inv' /\ ledger' = ledger
<1> SUFFICES ASSUME Inv, Withdraw PROVE Inv' /\ ledger' = ledger
  OBVIOUS
<1> DEFINE e == Task.entry  doc == identity[e]
           gone == [doc EXCEPT !.state = "removed", !.removal = TRUE]
           doomed == [doc EXCEPT !.removal = TRUE]
<1>1. /\ UNCHANGED <<feed, item, active, claim, bounds>> /\ run # Idle
      /\ run.step = "task" /\ run.work # <<>>
  BY DEF Withdraw, TaskOf, At
<1>2. e \in Entry  BY <1>1, RestOfWork, TasksName
<1>3. doc # Absent => doc \in Identity /\ doc.tx \in Own(e) \cup {Absent}
  BY <1>2 DEF Inv, StoredTypes, Identities, IdentityOK
<1>4. \/ /\ doc = Absent /\ run' = Finished /\ UNCHANGED identity
         /\ ledger' = IF Alive(Fallback(e)) THEN [ledger EXCEPT ![Fallback(e)].alive = FALSE]
                      ELSE ledger
      \/ doc # Absent /\ run' = Finished /\ UNCHANGED <<identity, ledger>>
      \/ /\ doc # Absent /\ doc.state = "review" /\ Put(e, gone) /\ run' = Finished
         /\ UNCHANGED ledger
      \/ doc # Absent /\ Store(e, doomed, Tail(run.work)) /\ UNCHANGED <<identity, ledger>>
  BY DEF Withdraw
<1>5. doc = Absent => ~Alive(Fallback(e))  BY <1>2 DEF Inv, LedgerOK, Alive
<1>6. ledger' = ledger  BY <1>4, <1>5
<1>7. CASE run' = Finished /\ UNCHANGED identity
  <2>1. RunOK'  BY <1>1, <1>7, TaskDone
  <2> QED  BY <1>1, <1>6, <1>7, <2>1, DocumentsKept DEF Inv, ItemOK, BoundsOK, bounds, stored
<1>8. CASE /\ doc # Absent /\ doc.state = "review" /\ Put(e, gone) /\ run' = Finished
  <2>1. gone \in Identity /\ gone.tx = doc.tx /\ gone.state = "removed"
    BY <1>3, <1>8 DEF Identity
  <2>2. doc.tx = Absent  BY <1>2, <1>8 DEF Inv, Identities, IdentityOK
  <2>3. identity' = [identity EXCEPT ![e] = gone]  BY <1>8 DEF Put
  <2> HIDE DEF gone
  <2>4. gone # Absent  BY <2>1, Sentinel
  <2>5. StoredTypes'  BY <1>1, <1>6, <2>1, <2>3 DEF Inv, StoredTypes
  <2>6. Identities'
    <3> SUFFICES ASSUME NEW f \in Entry PROVE IdentityOK(f)'
      BY DEF Identities
    <3>1. CASE f = e
      <4>1. identity'[e] = gone  BY <1>2, <2>3 DEF Inv, StoredTypes
      <4> QED  BY <1>3, <1>8, <2>1, <2>2, <3>1, <4>1 DEF IdentityOK, Own
    <3>2. CASE f # e
      <4>1. identity'[f] = identity[f]  BY <2>3, <3>2 DEF Inv, StoredTypes
      <4> QED  BY <1>1, <4>1 DEF Inv, Identities, IdentityOK, Own
    <3> QED  BY <3>1, <3>2
  <2>7. \A f \in Entry : identity[f] # Absent => identity'[f] # Absent
    BY <2>3, <2>4 DEF Inv, StoredTypes
  <2>8. LedgerOK'  BY <1>6, <2>7 DEF Inv, LedgerOK
  <2>9. RunOK'  BY <1>1, <1>8, <2>7, TaskDone
  <2> QED  BY <1>1, <1>6, <2>5, <2>6, <2>8, <2>9 DEF Inv, ItemOK, BoundsOK, bounds
<1>9. CASE doc # Absent /\ Store(e, doomed, Tail(run.work)) /\ UNCHANGED identity
  <2>1. doomed \in Identity /\ doomed.tx = doc.tx  BY <1>3, <1>9 DEF Identity
  <2> HIDE DEF doomed
  <2>2. UNCHANGED <<feed, item, active, stored, ledger, bounds>>  BY <1>1, <1>6, <1>9 DEF stored
  <2> QED  BY <1>1, <1>2, <1>3, <1>6, <1>9, <2>1, <2>2, StoreSafe
<1> QED  BY <1>4, <1>6, <1>7, <1>8, <1>9
\* The identity is stored before anything is claimed for it.
LEMMA WriteIdentitySafe == Inv /\ WriteIdentity => Inv'
<1> SUFFICES ASSUME Inv, WriteIdentity PROVE Inv'
  OBVIOUS
<1> DEFINE e == run.entry  doc == run.doc
<1>1. /\ UNCHANGED <<feed, item, active, claim, ledger, bounds>> /\ run # Idle
      /\ run.step = "write" /\ identity' = [identity EXCEPT ![e] = doc]
      /\ run' = [run EXCEPT !.step = "claim"]
  BY DEF WriteIdentity, At, Put
<1>2. /\ run \in Runs /\ e \in Entry /\ doc \in Identity /\ doc.tx \in Own(e)
      /\ doc.state = "intent" /\ doc # Absent
  BY <1>1, Sentinel DEF Inv, RunOK
<1>3. StoredTypes'  BY <1>1, <1>2 DEF Inv, StoredTypes
<1>4. identity'[e] = doc /\ \A f \in Entry : f # e => identity'[f] = identity[f]
  BY <1>1, <1>2 DEF Inv, StoredTypes
<1>5. Identities'
  <2> SUFFICES ASSUME NEW f \in Entry PROVE IdentityOK(f)'
    BY DEF Identities
  <2>1. CASE f = e
    <3>1. doc.tx # Absent
      <4>1. Own(e) \subseteq Tx  BY <1>2 DEF Own, Tx
      <4> QED  BY <1>2, <4>1, Sentinel
    <3> QED  BY <1>2, <1>4, <2>1, <3>1 DEF IdentityOK, Own
  <2>2. CASE f # e
    BY <1>1, <1>4, <2>2 DEF Inv, Identities, IdentityOK, Own
  <2> QED  BY <2>1, <2>2
<1>6. \A f \in Entry : identity[f] # Absent => identity'[f] # Absent  BY <1>2, <1>4
<1>7. LedgerOK'  BY <1>1, <1>6 DEF Inv, LedgerOK
<1>8. /\ run' \in Runs /\ run'.step = "claim" /\ run'.entry = e /\ run'.doc = doc
      /\ run'.work = run.work /\ run'.page = run.page
  BY <1>1, <1>2 DEF Runs, Steps
<1>9. WorkOK'
  <2>1. \A i \in 1..Len(run.work) : run.work[i].entry \in Entry
    BY <1>2, TasksName DEF Runs
  <2> QED  BY <1>1, <1>6, <1>8, <2>1 DEF Inv, RunOK, WorkOK
<1>10. RunOK'
  <2>1. identity'[run'.entry] = run'.doc  BY <1>4, <1>8
  <2>2. run'.entry \in Entry /\ run'.doc \in Identity /\ run'.doc.tx \in Own(run'.entry)
        /\ run'.doc.state = "intent"
    BY <1>2, <1>8
  <2>3. run'.page # Absent => run'.page <= Len(feed')  BY <1>1, <1>8 DEF Inv, RunOK
  <2> HIDE DEF e, doc
  <2> QED  BY <1>8, <1>9, <2>1, <2>2, <2>3 DEF RunOK, Own
<1> QED  BY <1>1, <1>3, <1>5, <1>7, <1>10 DEF Inv, ItemOK, BoundsOK, bounds

\* A new claim takes none from another entry.
LEMMA ClaimsGrow ==
    ASSUME Inv, NEW t \in Tx, NEW e \in Entry, claim[t] \in {Absent, e},
           claim' = [claim EXCEPT ![t] = e], UNCHANGED <<identity, ledger>>
    PROVE  /\ StoredTypes' /\ Identities' /\ LedgerOK' /\ claim'[t] = e
           /\ \A u \in Tx : claim[u] # Absent => claim'[u] = claim[u]
<1>1. StoredTypes'  BY DEF Inv, StoredTypes
<1>2. claim'[t] = e /\ \A u \in Tx : claim[u] # Absent => claim'[u] = claim[u]
  BY DEF Inv, StoredTypes
<1>3. Identities'
  <2> SUFFICES ASSUME NEW f \in Entry, identity[f] # Absent PROVE IdentityOK(f)'
    BY DEF Identities, IdentityOK
  <2>1. f # Absent /\ IdentityOK(f) /\ (identity[f].tx # Absent => identity[f].tx \in Tx)
    BY Sentinel DEF Inv, Identities, IdentityOK, Own, Tx
  <2> QED  BY <1>2, <2>1 DEF IdentityOK, Own
<1>4. LedgerOK'  BY DEF Inv, LedgerOK
<1> QED  BY <1>1, <1>2, <1>3, <1>4

\* ClaimTransaction claims what is free, and matches again what is not.
LEMMA ClaimTransactionSafe == Inv /\ ClaimTransaction => Inv'
<1> SUFFICES ASSUME Inv, ClaimTransaction PROVE Inv'
  OBVIOUS
<1> DEFINE e == run.entry  doc == run.doc  t == run.doc.tx
<1>1. /\ UNCHANGED <<feed, item, active, identity, ledger, bounds>> /\ run # Idle
      /\ run.step = "claim"
  BY DEF ClaimTransaction, At
<1>2. /\ run \in Runs /\ e \in Entry /\ doc \in Identity /\ t \in Own(e) /\ t \in Tx
      /\ doc.state = "intent" /\ identity[e] = doc
  BY <1>1 DEF Inv, RunOK, Own, Tx
<1>3. \/ /\ claim[t] \in {Absent, e} /\ claim' = [claim EXCEPT ![t] = e]
         /\ run' = [run EXCEPT !.step = "book"]
      \/ /\ UNCHANGED claim
         /\ \E new \in Matches(e, doc) : run' = [Loaded EXCEPT !.step = "write", !.doc = new]
  BY DEF ClaimTransaction
<1>4. CASE /\ claim[t] \in {Absent, e} /\ claim' = [claim EXCEPT ![t] = e]
           /\ run' = [run EXCEPT !.step = "book"]
  <2>1. StoredTypes' /\ Identities' /\ LedgerOK' /\ claim'[t] = e
    BY <1>1, <1>2, <1>4, ClaimsGrow
  <2>2. /\ run' \in Runs /\ run'.step = "book" /\ run'.entry = e /\ run'.doc = doc
        /\ run'.work = run.work /\ run'.page = run.page
    BY <1>2, <1>4 DEF Runs, Steps
  <2>3. WorkOK'  BY <1>1, <2>2 DEF Inv, RunOK, WorkOK
  <2>4. run'.page # Absent => run'.page <= Len(feed')  BY <1>1, <2>2 DEF Inv, RunOK
  <2>5. claim'[run'.doc.tx] = run'.entry /\ identity'[run'.entry] = run'.doc
        /\ run'.doc.tx \in Own(run'.entry)
    BY <1>1, <1>2, <2>1, <2>2
  <2> QED
    <3>1. RunOK'
      <4> HIDE DEF e, doc, t
      <4> QED  BY <1>2, <2>2, <2>3, <2>4, <2>5 DEF RunOK, Own
    <3> QED  BY <1>1, <2>1, <3>1 DEF Inv, ItemOK, BoundsOK, bounds
<1>5. CASE /\ UNCHANGED claim
           /\ \E new \in Matches(e, doc) : run' = [Loaded EXCEPT !.step = "write", !.doc = new]
  <2>1. PICK new \in Matches(e, doc) : run' = [Loaded EXCEPT !.step = "write", !.doc = new]
    BY <1>5
  <2>2. new \in Identity /\ new.state = "intent" /\ new.tx \in Own(e)
    BY <1>2, MatchesAre DEF Inv
  <2>3. Loaded \in Runs /\ Loaded = [run EXCEPT !.cached = Listed] /\ Listed \in Ledgers
    BY <1>2, LoadedAre DEF Inv
  <2>4. /\ run' \in Runs /\ run'.step = "write" /\ run'.entry = e /\ run'.doc = new
        /\ run'.work = run.work /\ run'.page = run.page
    BY <1>2, <2>1, <2>2, <2>3 DEF Runs, Steps
  <2>5. WorkOK'  BY <1>1, <2>4 DEF Inv, RunOK, WorkOK
  <2>6. run'.page # Absent => run'.page <= Len(feed')  BY <1>1, <2>4 DEF Inv, RunOK
  <2>7. RunOK'
    <3> HIDE DEF e, doc, t
    <3> QED  BY <1>2, <2>2, <2>4, <2>5, <2>6 DEF RunOK, Own
  <2> QED  BY <1>1, <1>5, <2>7, DocumentsKept DEF Inv, ItemOK, BoundsOK, bounds, stored
<1> QED  BY <1>3, <1>4, <1>5

\* What a step leaves of a transaction a member has touched, other than a
\* member's own step and the two writes MemberEditsKept names.
EditsKept ==
    \A t \in Tx : MemberTouched(t) /\ edits' = edits /\ ~Unmarked(t) => Untouched(t)

\* Booking concerns one transaction and leaves one there.
LEMMA BookedIs ==
    ASSUME StoredTypes, NEW e \in Entry, NEW doc \in Identity, doc.tx \in Tx
    PROVE  /\ Booked(doc, e) \in Ledgers
           /\ \A u \in Tx : u # doc.tx => Booked(doc, e)[u] = ledger[u]
           /\ ledger[doc.tx] # Absent => Booked(doc, e)[doc.tx] # Absent
           /\ Preserved(doc) => Booked(doc, e) = ledger
<1> DEFINE t == doc.tx  tx == ledger[t]
           first == [money |-> doc.money, alive |-> TRUE, split |-> FALSE, ext |-> e]
           gone == [tx EXCEPT !.alive = FALSE]
           later == [tx EXCEPT !.money = doc.money, !.ext = e, !.alive = TRUE]
<1>1. ledger \in Ledgers /\ tx \in Transaction \cup {Absent} /\ doc.money \in Money
  BY MoneyType DEF StoredTypes, Ledgers, Identity
<1>2. /\ first \in Transaction
      /\ tx # Absent => gone \in Transaction /\ later \in Transaction
  BY <1>1 DEF Transaction
<1>3. \/ Booked(doc, e) = ledger
      \/ tx # Absent /\ ~Preserved(doc) /\ Booked(doc, e) = [ledger EXCEPT ![t] = gone]
      \/ tx = Absent /\ ~Preserved(doc) /\ Booked(doc, e) = [ledger EXCEPT ![t] = first]
      \/ tx # Absent /\ ~Preserved(doc) /\ Booked(doc, e) = [ledger EXCEPT ![t] = later]
  <2>1. CASE Preserved(doc)  BY <2>1 DEF Booked
  <2>2. CASE ~Preserved(doc) /\ doc.removal  BY <2>2 DEF Booked, Alive
  <2>3. CASE ~Preserved(doc) /\ ~doc.removal /\ tx = Absent  BY <2>3 DEF Booked
  <2>4. CASE ~Preserved(doc) /\ ~doc.removal /\ tx # Absent
    <3>1. [ledger EXCEPT ![t].money = doc.money, ![t].ext = e, ![t].alive = TRUE]
             = [ledger EXCEPT ![t] = later]
      BY <1>1, <2>4 DEF Ledgers, Transaction
    <3> QED  BY <2>4, <3>1 DEF Booked
  <2> QED  BY <2>1, <2>2, <2>3, <2>4
<1> HIDE DEF first, gone, later
<1> QED  BY <1>1, <1>2, <1>3, Sentinel DEF Ledgers, Booked

\* The identity a booking leaves to be marked.
LEMMA MarkedIs ==
    ASSUME NEW doc \in Identity
    PROVE  /\ Marked(doc) \in Identity /\ Marked(doc).tx = doc.tx
           /\ Marked(doc).state \in {"applied", "removed"}
  BY MoneyType DEF Marked, Identity

\* BookTransaction, the only write of the books: nothing is booked that a
\* member has made something else of, unless the identity has no previous
\* money, or the books still show the money it was matched with.
LEMMA BookTransactionSafe == Inv /\ BookTransaction => Inv' /\ EditsKept
<1> SUFFICES ASSUME Inv, BookTransaction PROVE Inv' /\ EditsKept
  OBVIOUS
<1> DEFINE e == run.entry  doc == run.doc  t == run.doc.tx
<1>1. /\ UNCHANGED <<feed, item, active, stored, bounds>> /\ run # Idle
      /\ run.step = "book" /\ ledger' = Booked(doc, e)
      /\ run' = [run EXCEPT !.step = "mark", !.doc = Marked(doc)]
  BY DEF BookTransaction, At
<1>2. /\ run \in Runs /\ e \in Entry /\ doc \in Identity /\ t \in Own(e) /\ t \in Tx
      /\ doc.state = "intent" /\ identity[e] = doc /\ claim[t] = e
  BY <1>1 DEF Inv, RunOK, Own, Tx
<1>3. /\ ledger' \in Ledgers /\ \A u \in Tx : u # t => ledger'[u] = ledger[u]
      /\ ledger[t] # Absent => ledger'[t] # Absent
      /\ Preserved(doc) => ledger' = ledger
  BY <1>1, <1>2, BookedIs DEF Inv
<1>4. StoredTypes' /\ Identities'
  BY <1>1, <1>3 DEF Inv, StoredTypes, stored, Identities, IdentityOK, Own
<1>5. LedgerOK'
  <2>1. ASSUME NEW f \in Entry, ledger'[Fallback(f)] # Absent PROVE identity'[f] # Absent
    <3>1. CASE Fallback(f) # t
      <4>1. Fallback(f) \in Tx  BY DEF Tx
      <4> QED  BY <1>1, <1>3, <2>1, <3>1, <4>1 DEF Inv, LedgerOK, stored
    <3>2. CASE Fallback(f) = t
      <4>1. f = e  BY <1>2, <3>2, EntryAssumption DEF Own, Fallback
      <4> QED  BY <1>1, <1>2, <4>1, Sentinel DEF stored
    <3> QED  BY <3>1, <3>2
  <2>2. ASSUME NEW u \in Imported PROVE ledger'[u] # Absent
    <3>1. u \in Tx /\ ledger[u] # Absent  BY DEF Tx, Inv, LedgerOK
    <3> QED  BY <1>3, <3>1
  <2> QED  BY <2>1, <2>2 DEF LedgerOK
<1>6. RunOK'
  <2>1. /\ Marked(doc) \in Identity /\ Marked(doc).tx = t
        /\ Marked(doc).state \in {"applied", "removed"}
    BY <1>2, MarkedIs
  <2>2. /\ run' \in Runs /\ run'.step = "mark" /\ run'.entry = e /\ run'.doc = Marked(doc)
        /\ run'.work = run.work /\ run'.page = run.page
    BY <1>1, <1>2, <2>1 DEF Runs, Steps
  <2>3. WorkOK'  BY <1>1, <2>2 DEF Inv, RunOK, WorkOK, stored
  <2>4. run'.page # Absent => run'.page <= Len(feed')  BY <1>1, <2>2 DEF Inv, RunOK
  <2>5. identity'[run'.entry] # Absent /\ claim'[run'.doc.tx] = run'.entry
        /\ run'.doc.tx \in Own(run'.entry) /\ run'.doc.state \in {"applied", "removed"}
    BY <1>1, <1>2, <2>1, <2>2, Sentinel DEF stored
  <2> HIDE DEF e, doc, t
  <2> QED  BY <1>2, <2>1, <2>2, <2>3, <2>4, <2>5 DEF RunOK, Own
<1>7. EditsKept
  <2> SUFFICES ASSUME NEW u \in Tx, MemberTouched(u), ~Unmarked(u) PROVE Untouched(u)
    BY DEF EditsKept
  <2>1. CASE u # t  BY <1>3, <2>1 DEF Untouched
  <2>2. CASE u = t
    <3>1. doc.previous \notin {Absent, ledger[t].money}
      BY <1>2, <2>2, Sentinel DEF Unmarked
    <3>2. ledger[t].money \in MemberMoney => ledger[t].money # doc.money
      BY <1>2, EditAssumption DEF Identity
    <3>3. Preserved(doc)
      BY <2>2, <3>1, <3>2 DEF MemberTouched, Preserved
    <3> QED  BY <1>3, <3>3 DEF Untouched
  <2> QED  BY <2>1, <2>2
<1> QED  BY <1>1, <1>4, <1>5, <1>6, <1>7 DEF Inv, ItemOK, BoundsOK, bounds
\* MarkIdentity ends an intent; its transaction is claimed by now.
LEMMA MarkIdentitySafe == Inv /\ MarkIdentity => Inv'
<1> SUFFICES ASSUME Inv, MarkIdentity PROVE Inv'
  OBVIOUS
<1> DEFINE e == run.entry  doc == run.doc
<1>1. /\ UNCHANGED <<feed, item, active, claim, ledger, bounds>> /\ run # Idle
      /\ run.step = "mark" /\ identity' = [identity EXCEPT ![e] = doc]
      /\ run' = IF run.op = "sync" THEN [run EXCEPT !.step = "task"] ELSE Idle
  BY DEF MarkIdentity, At, Put
<1>2. /\ run \in Runs /\ e \in Entry /\ doc \in Identity /\ doc.tx \in Own(e)
      /\ doc.state \in {"applied", "removed"} /\ doc # Absent /\ claim[doc.tx] = e
  BY <1>1, Sentinel DEF Inv, RunOK
<1>3. StoredTypes'  BY <1>1, <1>2 DEF Inv, StoredTypes
<1>4. identity'[e] = doc /\ \A f \in Entry : f # e => identity'[f] = identity[f]
  BY <1>1, <1>2 DEF Inv, StoredTypes
<1>5. Identities'
  <2> SUFFICES ASSUME NEW f \in Entry PROVE IdentityOK(f)'
    BY DEF Identities
  <2>1. CASE f = e
    <3>1. doc.tx # Absent
      <4>1. Own(e) \subseteq Tx  BY <1>2 DEF Own, Tx
      <4> QED  BY <1>2, <4>1, Sentinel
    <3> QED  BY <1>1, <1>2, <1>4, <2>1, <3>1 DEF IdentityOK, Own
  <2>2. CASE f # e
    BY <1>1, <1>4, <2>2 DEF Inv, Identities, IdentityOK, Own
  <2> QED  BY <2>1, <2>2
<1>6. \A f \in Entry : identity[f] # Absent => identity'[f] # Absent  BY <1>2, <1>4
<1>7. LedgerOK'  BY <1>1, <1>6 DEF Inv, LedgerOK
<1>8. RunOK'
  <2>1. CASE run' = Idle  BY <2>1 DEF RunOK
  <2>2. CASE run' = [run EXCEPT !.step = "task"]
    <3>1. /\ run' \in Runs /\ run'.step = "task" /\ run'.work = run.work /\ run'.page = run.page
      BY <1>2, <2>2 DEF Runs, Steps
    <3>2. WorkOK'
      <4>1. \A i \in 1..Len(run.work) : run.work[i].entry \in Entry
        BY <1>2, TasksName DEF Runs
      <4> QED  BY <1>1, <1>6, <3>1, <4>1 DEF Inv, RunOK, WorkOK
    <3>3. run'.page # Absent => run'.page <= Len(feed')  BY <1>1, <3>1 DEF Inv, RunOK
    <3> QED  BY <3>1, <3>2, <3>3 DEF RunOK
  <2> QED  BY <1>1, <2>1, <2>2
<1> QED  BY <1>1, <1>3, <1>5, <1>7, <1>8 DEF Inv, ItemOK, BoundsOK, bounds

\* Resolve claims what a member has chosen before it writes the intent.
LEMMA ResolveSafe ==
    ASSUME Inv, NEW e \in Entry, NEW t \in Imported \cup {Absent}, Resolve(e, t)
    PROVE  Inv'
<1> DEFINE doc == identity[e]  chosen == IF t = Absent THEN Fallback(e) ELSE t
           previous == IF t = Absent THEN Absent ELSE ledger[t].money
           new == [doc EXCEPT !.tx = chosen, !.state = "intent", !.previous = previous]
<1>1. /\ UNCHANGED <<feed, item, active, identity, ledger, bounds>>
      /\ doc # Absent /\ (t # Absent => Alive(t))
      /\ claim[chosen] \in {Absent, e} /\ claim' = [claim EXCEPT ![chosen] = e]
      /\ run' = Invocation("resolve", <<>>, "write", e, new)
  BY DEF Resolve
<1>2. doc \in Identity  BY <1>1 DEF Inv, StoredTypes
<1>3. chosen \in Own(e) /\ chosen \in Tx  BY DEF Own, Tx
<1>4. previous \in Money \cup {Absent}
  BY <1>1 DEF Inv, StoredTypes, Ledgers, Transaction, Alive, Tx
<1>5. new \in Identity /\ new.tx = chosen /\ new.state = "intent"
  BY <1>2, <1>3, <1>4 DEF Identity
<1> HIDE DEF new, chosen, doc
<1>6. StoredTypes' /\ Identities' /\ LedgerOK'
  BY <1>1, <1>3, ClaimsGrow
<1>7. run' = [op |-> "resolve", work |-> <<>>, step |-> "write", entry |-> e, doc |-> new,
              cached |-> Absent, page |-> Absent, more |-> FALSE, left |-> FALSE]
  BY <1>1 DEF Invocation
<1>8. run' \in Runs  BY <1>5, <1>7 DEF Runs, Steps
<1>9. WorkOK'  BY <1>7 DEF WorkOK
<1>10. RunOK'  BY <1>3, <1>5, <1>7, <1>8, <1>9 DEF RunOK, Own
<1> QED  BY <1>1, <1>6, <1>10 DEF Inv, ItemOK, BoundsOK, bounds

\* The log only grows.
LEMMA ReportSafe == ASSUME Inv, NEW e \in Entry, Report(e) PROVE Inv'
<1>1. UNCHANGED <<item, active, stored, ledger, run, bounds>>  BY DEF Report
<1>2. \E event \in Events : feed' = Append(feed, event)
  BY DEF Report, Events, Post
<1>3. feed' \in Seq(Events) /\ Len(feed) <= Len(feed') /\ Len(feed) \in Nat /\ Len(feed') \in Nat
  BY <1>2 DEF Inv
<1>4. ItemOK'  BY <1>1, <1>3 DEF Inv, ItemOK
<1>5. WorkOK' <=> WorkOK  BY <1>1 DEF WorkOK, stored
<1>6. RunOK'
  <2>1. run # Idle /\ run.page # Absent => run.page \in Nat /\ run.page <= Len(feed')
    BY <1>3 DEF Inv, RunOK, Runs
  <2> QED  BY <1>1, <1>5, <2>1 DEF Inv, RunOK, stored, Own
<1> QED  BY <1>1, <1>3, <1>4, <1>6, DocumentsKept DEF Inv, BoundsOK, bounds

\* Members edit what is there, and a deletion leaves a tombstone.
LEMMA EditSafe == ASSUME Inv, NEW t \in Tx, Edit(t) PROVE Inv' /\ edits' # edits
<1>1. /\ UNCHANGED <<feed, item, active, stored, run, stops, mutations>>
      /\ edits < MaxEdits /\ edits' = edits + 1 /\ ledger[t] # Absent
  BY DEF Edit, Alive
<1>2. ledger[t] \in Transaction /\ ledger \in [Tx -> Transaction \cup {Absent}]
  BY <1>1 DEF Inv, StoredTypes, Ledgers
<1>3. PICK new \in Transaction : ledger' = [ledger EXCEPT ![t] = new]
  <2>1. CASE \E m \in MemberMoney : ledger' = [ledger EXCEPT ![t].money = m]
    BY <1>2, <2>1, MoneyType DEF Transaction
  <2>2. CASE ledger' = [ledger EXCEPT ![t].alive = FALSE]
    BY <1>2, <2>2 DEF Transaction
  <2>3. CASE ledger' = [ledger EXCEPT ![t].split = TRUE]
    BY <1>2, <2>3 DEF Transaction
  <2> QED  BY <2>1, <2>2, <2>3 DEF Edit
<1>4. StoredTypes'  BY <1>1, <1>2, <1>3 DEF Inv, StoredTypes, Ledgers, stored
<1>5. \A u \in Tx : ledger'[u] # Absent <=> ledger[u] # Absent
  BY <1>1, <1>2, <1>3, Sentinel
<1>6. Identities'  BY <1>1 DEF Inv, Identities, IdentityOK, Own, stored
<1>7. LedgerOK'
  BY <1>1, <1>5 DEF Inv, LedgerOK, Tx, stored
<1>8. BoundsOK' /\ edits' # edits  BY <1>1, BoundAssumption DEF Inv, BoundsOK
<1>9. RunOK'
  <2>1. WorkOK' <=> WorkOK  BY <1>1 DEF WorkOK, stored
  <2> QED  BY <1>1, <2>1 DEF Inv, RunOK, Own, stored
<1> QED  BY <1>1, <1>4, <1>6, <1>7, <1>8, <1>9 DEF Inv, ItemOK

\* A member's disconnection leaves the documents.
LEMMA DisconnectSafe == Inv /\ Disconnect => Inv'
<1> SUFFICES ASSUME Inv, Disconnect PROVE Inv'
  OBVIOUS
<1>1. active' = FALSE /\ UNCHANGED <<feed, item, stored, ledger, run, bounds>>
  BY DEF Disconnect
<1>2. WorkOK' <=> WorkOK  BY <1>1 DEF WorkOK, stored
<1>3. RunOK'  BY <1>1, <1>2 DEF Inv, RunOK, Own, stored
<1> QED  BY <1>1, <1>3, DocumentsKept DEF Inv, ItemOK, BoundsOK, bounds

\* The next day's sync starts from the documents of the last.
LEMMA NextDaySafe == Inv /\ NextDay => Inv'
<1> SUFFICES ASSUME Inv, NextDay PROVE Inv'
  OBVIOUS
<1>1. /\ item' = [item EXCEPT !.fresh = FALSE]
      /\ UNCHANGED <<feed, active, stored, ledger, run, bounds>>
  BY DEF NextDay
<1>2. WorkOK' <=> WorkOK  BY <1>1 DEF WorkOK, stored
<1>3. RunOK'  BY <1>1, <1>2 DEF Inv, RunOK, Own, stored
<1>4. ItemOK'  BY <1>1 DEF Inv, ItemOK
<1> QED  BY <1>1, <1>3, <1>4, DocumentsKept DEF Inv, BoundsOK, bounds

\* An invocation that stops leaves the documents as they are; what it knew is lost.
LEMMA StopSafe == Inv /\ Stop => Inv'
<1> SUFFICES ASSUME Inv, Stop PROVE Inv'
  OBVIOUS
<1>1. /\ stops < MaxStops /\ stops' = stops + 1 /\ run' = Idle
      /\ UNCHANGED <<feed, item, active, stored, ledger, edits, mutations>>
  BY DEF Stop
<1>2. BoundsOK'  BY <1>1, BoundAssumption DEF Inv, BoundsOK
<1> QED  BY <1>1, <1>2, DocumentsKept DEF Inv, ItemOK, RunOK
-----------------------------------------------------------------------------
(* One entry per transaction, and the work of members *)

\* The link starts with at most a review per entry, and with nothing claimed.
LEMMA InitEstablishes == Init => Inv
<1> SUFFICES ASSUME Init PROVE Inv
  OBVIOUS
<1> DEFINE n == Cardinality(Reviewed)
<1>1. IsFiniteSet(Reviewed) /\ n \in Nat
  BY EntryAssumption, FS_Subset, FS_CardinalityType
<1>2. SetToSeq(Reviewed) \in [1..n -> Reviewed]  BY <1>1, Listing
<1>3. feed \in Seq(Events) /\ Len(feed) = n
  <2>1. feed = [i \in 1..n |-> Post(SetToSeq(Reviewed)[i], FirstMoney)]  BY DEF Init
  <2>2. \A i \in 1..n : Post(SetToSeq(Reviewed)[i], FirstMoney) \in Events
    BY <1>2, EntryAssumption, MoneyAssumption DEF Post, Events
  <2> HIDE DEF n
  <2> QED  BY <1>1, <2>1, <2>2
<1>4. ItemOK  BY <1>1, <1>3, EntryAssumption DEF Init, ItemOK
<1>5. Review(FirstMoney) \in Identity
  BY MoneyAssumption DEF Review, Identity
<1>6. identity \in [Entry -> Identity \cup {Absent}] /\ claim \in [Tx -> Entry \cup {Absent}]
  BY <1>5 DEF Init
<1>7. ledger \in Ledgers
  <2>1. \A t \in Imported : [money |-> History[t], alive |-> TRUE, split |-> FALSE, ext |-> Absent]
                               \in Transaction
    BY DEF Transaction, Money
  <2> QED  BY <2>1 DEF Init, Ledgers
<1>8. BoundsOK  BY BoundAssumption DEF Init, BoundsOK
<1>9. Identities
  BY Sentinel DEF Init, Identities, IdentityOK, Review
<1>10. LedgerOK
  <2>1. \A e \in Entry : Fallback(e) \in Tx /\ Fallback(e) \notin Imported
    BY EntryAssumption DEF Tx, Fallback
  <2>2. \A e \in Entry : ledger[Fallback(e)] = Absent  BY <2>1 DEF Init
  <2>3. \A t \in Imported : ledger[t] \in Transaction
    BY DEF Init, Tx, Transaction, Money
  <2> QED  BY <2>2, <2>3, Sentinel DEF LedgerOK
<1>11. RunOK  BY DEF Init, RunOK
<1> QED  BY <1>3, <1>4, <1>6, <1>7, <1>8, <1>9, <1>10, <1>11 DEF Inv, StoredTypes

\* Every step of the bank, the members and the function keeps the invariant,
\* and no step other than a member's replaces a member's work.
LEMMA NextSafe == Inv /\ [Next]_vars => Inv' /\ EditsKept
<1> SUFFICES ASSUME Inv, [Next]_vars PROVE Inv' /\ EditsKept
  OBVIOUS
<1>0. ledger' = ledger \/ edits' # edits => EditsKept
  BY DEF EditsKept, Untouched
<1>1. CASE BeginSync  BY <1>0, <1>1, BeginSyncSafe DEF BeginSync
<1>2. CASE FetchPage  BY <1>0, <1>2, FetchPageSafe DEF FetchPage
<1>3. CASE FetchRefused  BY <1>0, <1>3, FetchRefusedSafe DEF FetchRefused
<1>4. CASE SaveCursor  BY <1>0, <1>4, SaveCursorSafe DEF SaveCursor
<1>5. CASE Finish  BY <1>0, <1>5, FinishSafe DEF Finish
<1>6. CASE Redo  BY <1>0, <1>6, RedoSafe DEF Redo
<1>7. CASE Ingest  BY <1>0, <1>7, IngestSafe DEF Ingest
<1>8. CASE Withdraw  BY <1>0, <1>8, WithdrawSafe
<1>9. CASE WriteIdentity  BY <1>0, <1>9, WriteIdentitySafe DEF WriteIdentity
<1>10. CASE ClaimTransaction  BY <1>0, <1>10, ClaimTransactionSafe DEF ClaimTransaction
<1>11. CASE BookTransaction  BY <1>11, BookTransactionSafe
<1>12. CASE MarkIdentity  BY <1>0, <1>12, MarkIdentitySafe DEF MarkIdentity
<1>13. CASE Disconnect  BY <1>0, <1>13, DisconnectSafe DEF Disconnect
<1>14. CASE NextDay  BY <1>0, <1>14, NextDaySafe DEF NextDay
<1>15. CASE Stop  BY <1>0, <1>15, StopSafe DEF Stop
<1>16. ASSUME NEW e \in Entry, Report(e) PROVE Inv' /\ EditsKept
  BY <1>0, <1>16, ReportSafe DEF Report
<1>17. ASSUME NEW e \in Entry, NEW t \in Imported \cup {Absent}, Resolve(e, t)
       PROVE  Inv' /\ EditsKept
  <2>1. Inv'  BY <1>17, ResolveSafe
  <2>2. ledger' = ledger  BY <1>17 DEF Resolve
  <2> QED  BY <1>0, <2>1, <2>2
<1>18. ASSUME NEW t \in Tx, Edit(t) PROVE Inv' /\ EditsKept
  BY <1>0, <1>18, EditSafe
<1>19. CASE UNCHANGED vars
  <2>1. UNCHANGED <<feed, item, active, stored, ledger, run, bounds>>  BY <1>19 DEF vars
  <2>2. WorkOK' <=> WorkOK  BY <2>1 DEF WorkOK, stored
  <2>3. RunOK'  BY <2>1, <2>2 DEF Inv, RunOK, Own, stored
  <2> QED  BY <1>0, <2>1, <2>3, DocumentsKept DEF Inv, ItemOK, BoundsOK, bounds
<1> QED
  BY <1>1, <1>2, <1>3, <1>4, <1>5, <1>6, <1>7, <1>8, <1>9, <1>10, <1>11, <1>12, <1>13, <1>14,
     <1>15, <1>16, <1>17, <1>18, <1>19 DEF Next, Step

\* The documents of a link stay consistent in every reachable state.
THEOREM Invariance == Spec => []Inv
<1> QED  BY InitEstablishes, NextSafe, PTL DEF Spec

\* Every document and the mapping stay in the range they have in the code.
THEOREM TypeCorrect == Spec => []TypeOK
<1>1. Inv => TypeOK
  <2> SUFFICES ASSUME Inv PROVE TypeOK
    OBVIOUS
  <2>1. /\ item.cursor \in 0..Len(feed) /\ item.start \in {Absent} \cup 0..Len(feed)
        /\ item.fresh \in BOOLEAN /\ active \in BOOLEAN
    <3>1. Len(feed) \in Nat  BY DEF Inv
    <3> QED  BY <3>1 DEF Inv, ItemOK
  <2>2. \A e \in Entry : identity[e] # Absent =>
          /\ identity[e].state \in {"review", "intent", "applied", "removed"}
          /\ identity[e].tx \in Tx \cup {Absent}
          /\ {identity[e].money, identity[e].previous} \subseteq Money \cup {Absent}
    BY MoneyType DEF Inv, StoredTypes, Identity
  <2>3. \A t \in Tx : claim[t] \in Entry \cup {Absent} /\ (ledger[t] # Absent => ledger[t].money \in Money)
    BY DEF Inv, StoredTypes, Ledgers, Transaction
  <2> QED  BY <2>1, <2>2, <2>3 DEF Inv, BoundsOK, TypeOK
<1> QED  BY <1>1, Invariance, PTL

\* Matching is one to one: an entry that was booked holds the claim of its
\* transaction, so no two end on one, whatever stopped in between.
THEOREM MatchingIsOneToOne == Spec => []OneEntryPerTransaction
<1>1. Inv => OneEntryPerTransaction
  <2> SUFFICES ASSUME Inv, NEW e \in Entry, identity[e] # Absent, identity[e].tx # Absent,
                      identity[e].state \in {"applied", "removed"}
               PROVE  /\ claim[identity[e].tx] = e
                      /\ \A f \in Entry \ {e} : identity[f] # Absent /\ identity[f].state = "applied"
                            => identity[f].tx # identity[e].tx
    BY DEF OneEntryPerTransaction
  <2>1. IdentityOK(e) /\ \A f \in Entry : IdentityOK(f)  BY DEF Inv, Identities
  <2> QED  BY <2>1 DEF IdentityOK
<1> QED  BY <1>1, Invariance, PTL

\* What the bank reports, corrects or withdraws, and any repetition of it,
\* leaves what a member has made of a transaction, apart from the first
\* booking of a new transaction and a match the member decided.
THEOREM MembersEditsAreKept == Spec => MemberEditsKept
<1>1. Inv /\ [Next]_vars =>
        [\A t \in Tx : MemberTouched(t) /\ edits' = edits /\ ~Unmarked(t) => Untouched(t)]_vars
  BY NextSafe DEF EditsKept
<1> QED  BY <1>1, Invariance, PTL DEF Spec, MemberEditsKept

-----------------------------------------------------------------------------
(* Reading the log *)

\* What reflects a longer part of the log reflects a shorter one.
LEMMA ReachedEarlier ==
    ASSUME NEW e, NEW doc, NEW p \in Int, NEW q \in Int, q <= p, Reached(e, doc, p)
    PROVE  Reached(e, doc, q)
<1>1. CASE doc = Absent  BY <1>1 DEF Reached
<1>2. CASE doc # Absent
  <2>1. PICK i \in 1..Len(feed) : /\ feed[i].entry = e /\ Tells(doc, feed[i])
                                 /\ \A k \in (i + 1)..p : feed[k].entry # e
    BY <1>2 DEF Reached
  <2>2. \A k \in (i + 1)..q : feed[k].entry # e  BY <2>1
  <2> QED  BY <1>2, <2>1, <2>2 DEF Reached
<1> QED  BY <1>1, <1>2

\* An event of another entry says nothing of this one.
LEMMA ReachedNext ==
    ASSUME NEW e, NEW doc, NEW p \in Nat, NEW q \in Nat, q = p + 1, feed[q].entry # e,
           Reached(e, doc, p)
    PROVE  Reached(e, doc, q)
<1>1. CASE doc = Absent
  <2> SUFFICES ASSUME NEW k \in 1..q, feed[k].entry = e PROVE feed[k].kind # "posted"
    BY <1>1 DEF Reached
  <2>1. k \in 1..p  OBVIOUS
  <2> QED  BY <1>1, <2>1 DEF Reached
<1>2. CASE doc # Absent
  <2>1. PICK i \in 1..Len(feed) : /\ feed[i].entry = e /\ Tells(doc, feed[i])
                                 /\ \A k \in (i + 1)..p : feed[k].entry # e
    BY <1>2 DEF Reached
  <2>2. \A k \in (i + 1)..q : feed[k].entry # e
    <3> TAKE k \in (i + 1)..q
    <3>1. k = q \/ k \in (i + 1)..p  OBVIOUS
    <3> QED  BY <2>1, <3>1
  <2> QED  BY <1>2, <2>1, <2>2 DEF Reached
<1> QED  BY <1>1, <1>2

\* An identity that says what the event at p says reflects the log up to p.
LEMMA ReachedHere ==
    ASSUME NEW e, NEW doc, doc # Absent, NEW p \in 1..Len(feed), feed[p].entry = e,
           Tells(doc, feed[p])
    PROVE  Reached(e, doc, p)
<1>1. \A k \in (p + 1)..p : feed[k].entry # e  OBVIOUS
<1> QED  BY <1>1 DEF Reached

\* Of a document, only the money and the removal mark matter here.
LEMMA ReachedSame ==
    ASSUME NEW e, NEW doc, doc # Absent, NEW new, new # Absent,
           new.money = doc.money, new.removal = doc.removal, NEW p, Reached(e, doc, p)
    PROVE  Reached(e, new, p)
<1>1. \A event : Tells(doc, event) => Tells(new, event)  BY DEF Tells
<1> QED  BY <1>1 DEF Reached

\* A removed document reflects an entry that is gone.
LEMMA RemovalIsGone ==
    ASSUME NEW e, NEW doc, doc # Absent, doc.removal, NEW p, Reached(e, doc, p)
    PROVE  Gone(e)
  BY DEF Reached, Tells, Gone

\* The last event of an entry is the one LastKind finds.
LEMMA LastIs ==
    ASSUME Inv, NEW e, NEW i \in 1..Len(feed), feed[i].entry = e,
           \A k \in (i + 1)..Len(feed) : feed[k].entry # e
    PROVE  LastKind(e) = feed[i].kind
<1> DEFINE S == {k \in 1..Len(feed) : feed[k].entry = e}
<1>1. i \in S /\ \A k \in S : i >= k /\ k \in Int  BY DEF Inv
<1>2. Max(S) = i
  <2>1. \E x \in S : \A y \in S : x >= y  BY <1>1
  <2>2. Max(S) \in S /\ \A y \in S : Max(S) >= y  BY <2>1 DEF Max
  <2>3. PICK m \in S : m = Max(S)  BY <2>2
  <2> HIDE DEF S
  <2>4. m >= i /\ i >= m /\ m \in Int /\ i \in Int  BY <1>1, <2>2, <2>3
  <2> QED  BY <2>3, <2>4
<1>3. S # {}  BY <1>1
<1> HIDE DEF S
<1> QED  BY <1>2, <1>3 DEF LastKind, S

\* The log names nothing after it was pending or withdrawn.
LEMMA GoneIsLast ==
    ASSUME Inv, LogOrder, NEW i \in 1..Len(feed), feed[i].kind # "posted"
    PROVE  LastKind(feed[i].entry) = feed[i].kind
<1>1. \A k \in (i + 1)..Len(feed) : feed[k].entry # feed[i].entry
  BY DEF Inv, LogOrder
<1> QED  BY <1>1, LastIs

-----------------------------------------------------------------------------
(* What the work of an invocation stands for *)

\* The invocation stands between the cursor and the end of the log.
LEMMA PositionIs ==
    ASSUME Inv, WorkFollows
    PROVE  /\ item.cursor \in Nat /\ Len(feed) \in Nat /\ item.cursor <= Len(feed)
           /\ Position \in Nat /\ item.cursor <= Position /\ Position <= Len(feed)
<1>1. item.cursor \in Nat /\ Len(feed) \in Nat /\ item.cursor <= Len(feed)
  BY DEF Inv, ItemOK
<1>2. CASE run = Idle \/ run.page = Absent  BY <1>1, <1>2 DEF Position
<1>3. CASE run # Idle /\ run.page # Absent
  <2>1. run.page \in Nat /\ run.page <= Len(feed) /\ Len(run.work) \in Nat
    BY <1>3 DEF Inv, RunOK, Runs
  <2>2. Position = run.page - Len(run.work) /\ item.cursor <= Position
    BY <1>3 DEF Position, WorkFollows
  <2> QED  BY <1>1, <2>1, <2>2
<1> QED  BY <1>2, <1>3

\* Taking the next task is reading one more event, or none when identities
\* in review are redone.
LEMMA Popped ==
    ASSUME Inv, WorkFollows, run # Idle, run.work # <<>>, run' # Idle, run'.page = run.page,
           run'.work = Tail(run.work), UNCHANGED <<feed, item>>
    PROVE  /\ WorkFollows'
           /\ IF run.page = Absent THEN Task.do = "redo" /\ Position' = Position
              ELSE /\ Position' = Position + 1 /\ Position' \in 1..Len(feed)
                   /\ Task = AsTask(feed[Position']) /\ feed[Position'] \in Events
<1> DEFINE work == run.work  n == Len(work)
<1>1. work \in Seq(Tasks) /\ n \in Nat /\ n >= 1  BY DEF Inv, RunOK, Runs
<1>2. /\ Len(Tail(work)) = n - 1 /\ Task = work[1]
      /\ \A i \in 1..(n - 1) : Tail(work)[i] = work[i + 1] /\ i + 1 \in 1..n
  BY <1>1 DEF Task
<1>3. \A i \in 1..n : work[i] = IF run.page = Absent THEN Do("redo", work[i].entry, Absent)
                                ELSE AsTask(feed[Position + i])
  BY DEF WorkFollows
<1>4. 1 \in 1..n  BY <1>1
<1>5. Position \in Nat /\ Position <= Len(feed) /\ item.cursor \in Nat /\ item.cursor <= Position
  BY PositionIs
<1>6. CASE run.page = Absent
  <2>1. Position' = Position  BY <1>6 DEF Position
  <2>2. Task.do = "redo"
    <3>1. work[1] = Do("redo", work[1].entry, Absent)  BY <1>3, <1>4, <1>6
    <3> HIDE DEF work
    <3> QED  BY <1>2, <3>1 DEF Do
  <2>3. \A i \in 1..Len(run'.work) : run'.work[i] = Do("redo", run'.work[i].entry, Absent)
    BY <1>2, <1>3, <1>6
  <2>4. WorkFollows'  BY <1>6, <2>1, <2>3 DEF WorkFollows
  <2> QED  BY <1>6, <2>1, <2>2, <2>4
<1>7. CASE run.page # Absent
  <2>1. Position = run.page - n /\ Position' = run.page - (n - 1)  BY <1>2, <1>7 DEF Position
  <2>2. run.page \in Nat /\ run.page <= Len(feed)  BY <1>7 DEF Inv, RunOK, Runs
  <2>3. Position' = Position + 1 /\ Position' \in 1..Len(feed)
    BY <1>1, <1>5, <2>1, <2>2
  <2>4. Task = AsTask(feed[Position'])  BY <1>2, <1>3, <1>4, <1>7, <2>3
  <2>5. \A i \in 1..Len(run'.work) : run'.work[i] = AsTask(feed'[Position' + i])
    <3> SUFFICES ASSUME NEW i \in 1..(n - 1) PROVE Tail(work)[i] = AsTask(feed[Position' + i])
      BY <1>2
    <3>1. Tail(work)[i] = work[i + 1] /\ i + 1 \in 1..n  BY <1>2
    <3>2. work[i + 1] = AsTask(feed[Position + (i + 1)])  BY <1>3, <1>7, <3>1
    <3>3. Position + (i + 1) = Position' + i  BY <1>5, <2>3
    <3> QED  BY <3>1, <3>2, <3>3
  <2>6. WorkFollows'
    <3>1. item'.cursor <= Position'  BY <1>5, <2>3
    <3> QED  BY <1>7, <2>5, <3>1 DEF WorkFollows
  <2>7. feed[Position'] \in Events  BY <2>3 DEF Inv
  <2> QED  BY <1>7, <2>3, <2>4, <2>6, <2>7
<1> QED  BY <1>6, <1>7

\* A task is about the entry of its event.
LEMMA TaskEntry ==
    ASSUME NEW event \in Events
    PROVE  /\ AsTask(event).entry = event.entry /\ AsTask(event).do # "redo"
           /\ AsTask(event).do = "ingest" => event.kind = "posted" /\ AsTask(event).money = event.money
           /\ AsTask(event).do = "remove" => event.kind # "posted"
  BY DEF AsTask, Do, Events

\* Taking a task changes nothing for the entries it does not name.
LEMMA OthersReach ==
    ASSUME Inv, WorkFollows, run # Idle, run.work # <<>>, run' # Idle, run'.page = run.page,
           run'.work = Tail(run.work), UNCHANGED <<feed, item>>,
           NEW f, f # Task.entry, NEW doc, Reached(f, doc, Position)
    PROVE  Reached(f, doc, Position')
<1>1. CASE run.page = Absent  BY <1>1, Popped
<1>2. CASE run.page # Absent
  <2> DEFINE p == Position  q == Position'
  <2>1. /\ q = p + 1 /\ q \in 1..Len(feed) /\ Task = AsTask(feed[q]) /\ feed[q] \in Events
    BY <1>2, Popped
  <2>2. feed[q].entry # f  BY <2>1, TaskEntry
  <2>3. p \in Nat /\ q \in Nat  BY <2>1, PositionIs
  <2>4. Reached(f, doc, p)  OBVIOUS
  <2> HIDE DEF p, q
  <2>5. Reached(f, doc, q)  BY <2>1, <2>2, <2>3, <2>4, ReachedNext
  <2> QED  BY <2>5 DEF q
<1> QED  BY <1>1, <1>2

\* What the log says stays when the log does.
LEMMA ProgressKept ==
    ASSUME UNCHANGED feed,
           \A e \in Entry : Reached(e, identity'[e], item'.cursor) /\ Reached(e, Latest(e)', Position')
    PROVE  Progress'
<1> SUFFICES ASSUME NEW e \in Entry
             PROVE  Reached(e, identity[e], item.cursor)' /\ Reached(e, Latest(e), Position)'
  BY DEF Progress
<1>1. Reached(e, identity'[e], item'.cursor) /\ Reached(e, Latest(e)', Position')
  OBVIOUS
<1>2. Reached(e, identity[e], item.cursor)'  BY <1>1 DEF Reached, Tells
<1>3. Reached(e, Latest(e), Position)'  BY <1>1 DEF Reached, Tells
<1> QED  BY <1>2, <1>3

-----------------------------------------------------------------------------
(* Steps that read, save the cursor, or end *)

\* When no write is under way, what the log says of the stored identities is
\* all there is to show.
LEMMA NothingWritten ==
    ASSUME Inv, Follow, UNCHANGED <<feed, identity, claim, ledger, edits>>, ~Working',
           WorkFollows',
           \A e \in Entry : /\ Reached(e, identity[e], item'.cursor)
                            /\ Reached(e, identity[e], Position')
    PROVE  Follow'
<1>1. LogOrder'  BY DEF Follow, LogOrder
<1>2. \A e \in Entry : Latest(e)' = identity[e]  BY DEF Latest, Writing, Working
<1>3. Progress'  BY <1>2, ProgressKept
<1>4. Documents'  BY DEF Follow, Documents
<1>5. Books'
  <2> SUFFICES ASSUME edits' = 0
               PROVE  /\ \A t \in Tx : RowOK(t)'
                      /\ \A e \in Entry : identity'[e] # Absent => Shown(e, identity[e])'
    BY DEF Books
  <2>1. /\ \A t \in Tx : RowOK(t)
        /\ \A e \in Entry : identity[e] # Absent => Shown(e, identity[e])
    BY DEF Follow, Books
  <2>2. \A t \in Tx : RowOK(t)'  BY <2>1 DEF RowOK, Gone, First
  <2>3. \A e \in Entry : identity'[e] # Absent => Shown(e, identity[e])'
    BY <2>1 DEF Shown, Alive
  <2> QED  BY <2>2, <2>3
<1> QED  BY <1>1, <1>3, <1>4, <1>5 DEF Follow

\* Between tasks, every identity reflects the log up to where the work stands.
LEMMA BetweenTasks ==
    ASSUME Inv, Follow, ~Working, NEW p \in Nat, p <= Position, NEW e \in Entry
    PROVE  Reached(e, identity[e], p)
<1>1. Latest(e) = identity[e]  BY DEF Latest, Writing, Working
<1>2. Reached(e, identity[e], Position)  BY <1>1 DEF Follow, Progress
<1>3. Position \in Nat  BY PositionIs DEF Follow
<1> QED  BY <1>2, <1>3, ReachedEarlier

\* Up to the cursor they reflect it at any time.
LEMMA BehindCursor ==
    ASSUME Inv, Follow, NEW p \in Nat, p <= item.cursor, NEW e \in Entry
    PROVE  Reached(e, identity[e], p)
<1>1. Reached(e, identity[e], item.cursor)  BY DEF Follow, Progress
<1>2. item.cursor \in Nat  BY PositionIs DEF Follow
<1> QED  BY <1>1, <1>2, ReachedEarlier

\* Where no invocation is at work, the position is the cursor.
LEMMA IdlePosition ==
    ASSUME run' = Idle
    PROVE  Position' = item'.cursor /\ ~Working'
  BY DEF Position, Working

\* An invocation that ends, stops or is refused leaves the cursor where it
\* was or further back.
LEMMA Ended ==
    ASSUME Inv, Follow, UNCHANGED <<feed, identity, claim, ledger, edits>>, run' = Idle,
           item'.cursor \in Nat, item'.cursor <= item.cursor,
           item'.start # Absent => item'.start <= item'.cursor
    PROVE  Follow'
<1>1. Position' = item'.cursor /\ ~Working'  BY IdlePosition
<1>2. WorkFollows'  BY <1>1 DEF WorkFollows
<1>3. \A e \in Entry : Reached(e, identity[e], item'.cursor)  BY BehindCursor
<1> QED  BY <1>1, <1>2, <1>3, NothingWritten

\* BeginSync has read nothing of the log yet.
LEMMA BeginSyncFollows == Inv /\ Follow /\ BeginSync => Follow'
<1> SUFFICES ASSUME Inv, Follow, BeginSync PROVE Follow'
  OBVIOUS
<1>1. PICK S \in SUBSET Pending :
         run' = [Invocation("sync", [i \in 1..Len(SetToSeq(S)) |-> Do("redo", SetToSeq(S)[i], Absent)],
                            "task", Absent, Absent) EXCEPT !.left = Cardinality(Pending) > PendingLimit]
  BY DEF BeginSync, kSubset
<1> DEFINE order == SetToSeq(S)
           work == [i \in 1..Len(order) |-> Do("redo", order[i], Absent)]
<1>2. UNCHANGED <<feed, item, identity, claim, ledger, edits>>
  BY DEF BeginSync, stored, bounds
<1>3. order \in Seq(S)
  <2>1. IsFiniteSet(S)  BY EntryAssumption, FS_Subset DEF Pending
  <2>2. Cardinality(S) \in Nat /\ order \in [1..Cardinality(S) -> S]
    BY <2>1, Listing, FS_CardinalityType
  <2> QED  BY <2>2
<1>4. Len(work) = Len(order) /\ \A i \in 1..Len(work) : work[i] = Do("redo", work[i].entry, Absent)
  BY <1>3 DEF Do
<1>5. run'.work = work /\ run'.page = Absent /\ run'.step = "task"
  BY <1>1 DEF Invocation
<1> HIDE DEF work
<1>6. Position' = item.cursor /\ ~Working'  BY <1>2, <1>5 DEF Position, Working
<1>7. item.cursor \in Nat /\ item.cursor <= item.cursor  BY PositionIs DEF Follow
<1>8. WorkFollows'  BY <1>2, <1>4, <1>5, <1>6, <1>7 DEF Follow, WorkFollows
<1>9. \A e \in Entry : Reached(e, identity[e], item.cursor)  BY <1>7, BehindCursor
<1> QED  BY <1>2, <1>6, <1>8, <1>9, NothingWritten

\* FetchPage reads a page and has worked none of it.
LEMMA FetchPageFollows == Inv /\ Follow /\ FetchPage => Follow'
<1> SUFFICES ASSUME Inv, Follow, FetchPage PROVE Follow'
  OBVIOUS
<1> DEFINE next == Min({item.cursor + PageSize, Len(feed)})
           work == [i \in 1..(next - item.cursor) |-> AsTask(feed[item.cursor + i])]
           more == next < Len(feed)
<1>1. /\ run # Idle /\ UNCHANGED <<feed, item, identity, claim, ledger, edits>>
      /\ run' = [run EXCEPT !.page = next, !.more = more, !.work = work]
      /\ run.step = "task" /\ run \in Runs
  BY DEF FetchPage, At, stored, bounds, Inv, RunOK
<1>2. item.cursor \in Nat /\ Len(feed) \in Nat /\ PageSize \in Nat \ {0} /\ item.cursor <= Len(feed)
  BY BoundAssumption, PositionIs DEF Follow
<1>3. next \in Nat /\ item.cursor <= next /\ next <= Len(feed)
  <2> DEFINE a == item.cursor + PageSize  b == Len(feed)
  <2>1. a \in Nat /\ b \in Nat /\ item.cursor <= a /\ item.cursor <= b  BY <1>2
  <2> HIDE DEF a, b
  <2>2. Min({a, b}) \in {a, b} /\ Min({a, b}) <= b  BY <2>1, MinOfTwo
  <2>3. PICK m \in {a, b} : m = Min({a, b})  BY <2>2
  <2>4. m \in Nat /\ item.cursor <= m /\ m <= b  BY <2>1, <2>2, <2>3
  <2> QED  BY <2>3, <2>4 DEF a, b
<1> HIDE DEF next
<1>4. next - item.cursor \in Nat /\ next # Absent  BY <1>2, <1>3, Sentinel
<1>5. Len(work) = next - item.cursor /\ \A i \in 1..Len(work) : work[i] = AsTask(feed[item.cursor + i])
  BY <1>4
<1> HIDE DEF work, more
<1>6. run'.work = work /\ run'.page = next /\ run'.step = "task" /\ run' # Idle
  BY <1>1 DEF Runs, Idle
<1>7. Position' = item.cursor /\ ~Working'
  <2>1. next - (next - item.cursor) = item.cursor  BY <1>2, <1>3
  <2> QED  BY <1>4, <1>5, <1>6, <2>1 DEF Position, Working
<1>8. WorkFollows'  BY <1>1, <1>2, <1>4, <1>5, <1>6, <1>7 DEF Follow, WorkFollows
<1>9. \A e \in Entry : Reached(e, identity[e], item.cursor)  BY <1>2, BehindCursor
<1> QED  BY <1>1, <1>7, <1>8, <1>9, NothingWritten

\* FetchRefused goes back to where the cycle began.
LEMMA FetchRefusedFollows == Inv /\ Follow /\ FetchRefused => Follow'
<1> SUFFICES ASSUME Inv, Follow, FetchRefused PROVE Follow'
  OBVIOUS
<1>1. /\ UNCHANGED <<feed, identity, claim, ledger, edits>> /\ run' = Idle
      /\ item' = [item EXCEPT !.cursor = IF item.start = Absent THEN @ ELSE item.start,
                              !.start = Absent]
  BY DEF FetchRefused, stored
<1>2. /\ item \in [cursor : Nat, start : Nat \cup {Absent}, fresh : BOOLEAN]
      /\ item.start # Absent => item.start <= item.cursor
  BY DEF Inv, ItemOK, Follow, WorkFollows
<1>3. item'.cursor \in Nat /\ item'.cursor <= item.cursor /\ item'.start = Absent
  BY <1>1, <1>2
<1> QED  BY <1>1, <1>3, Ended

\* SaveCursor saves the end of a page that was worked to the end.
LEMMA SaveCursorFollows == Inv /\ Follow /\ SaveCursor => Follow'
<1> SUFFICES ASSUME Inv, Follow, SaveCursor PROVE Follow'
  OBVIOUS
<1>1. /\ UNCHANGED <<feed, identity, claim, ledger, edits>> /\ run # Idle /\ run.page # Absent
      /\ run.step = "task" /\ run.work = <<>> /\ run \in Runs
      /\ run' = [run EXCEPT !.step = "finish"]
      /\ item' = [item EXCEPT !.cursor = run.page,
                    !.start = IF ~run.more THEN Absent ELSE IF @ = Absent THEN item.cursor ELSE @]
  BY DEF SaveCursor, At, stored, bounds, Inv, RunOK
<1>2. item \in [cursor : Nat, start : Nat \cup {Absent}, fresh : BOOLEAN] /\ run.page \in Nat
  BY <1>1 DEF Inv, ItemOK, Runs
<1>3. run'.work = <<>> /\ run'.page = run.page /\ run'.step = "finish" /\ run' # Idle
  BY <1>1 DEF Runs, Idle
<1>4. item'.cursor = run.page /\ item'.start \in {Absent, item.cursor, item.start}
  BY <1>1, <1>2
<1>5. Position = run.page /\ Position' = run.page /\ ~Working /\ ~Working'
  BY <1>1, <1>2, <1>3 DEF Position, Working
<1>6. item.cursor <= run.page /\ (item.start # Absent => item.start <= item.cursor)
  BY <1>5, PositionIs DEF Follow, WorkFollows
<1>7. WorkFollows'
  <2>1. item'.start # Absent => item'.start <= item'.cursor  BY <1>2, <1>4, <1>6
  <2> QED  BY <1>2, <1>3, <1>4, <1>5, <2>1 DEF WorkFollows
<1>8. \A e \in Entry : Reached(e, identity[e], run.page)  BY <1>2, <1>5, BetweenTasks
<1> QED  BY <1>1, <1>4, <1>5, <1>7, <1>8, NothingWritten

\* Finish ends the invocation.
LEMMA FinishFollows == Inv /\ Follow /\ Finish => Follow'
<1> SUFFICES ASSUME Inv, Follow, Finish PROVE Follow'
  OBVIOUS
<1>1. /\ UNCHANGED <<feed, identity, claim, ledger, edits>> /\ run' = Idle
      /\ item' = [item EXCEPT !.fresh = (item.start = Absent) /\ ~run.left]
  BY DEF Finish, stored, bounds
<1>2. item'.cursor = item.cursor /\ item'.start = item.start  BY <1>1 DEF Inv, ItemOK
<1>3. item.cursor \in Nat /\ item.cursor <= item.cursor  BY PositionIs DEF Follow
<1> QED  BY <1>1, <1>2, <1>3, Ended DEF Follow, WorkFollows

\* Stop loses what the invocation knew.
LEMMA StopFollows == Inv /\ Follow /\ Stop => Follow'
<1> SUFFICES ASSUME Inv, Follow, Stop PROVE Follow'
  OBVIOUS
<1>1. UNCHANGED <<feed, item, identity, claim, ledger, edits>> /\ run' = Idle
  BY DEF Stop, stored
<1>2. item.cursor \in Nat /\ item.cursor <= item.cursor  BY PositionIs DEF Follow
<1> QED  BY <1>1, <1>2, Ended DEF Follow, WorkFollows

\* Nothing of this concerns the day or whether the link is connected.
LEMMA SameFollow ==
    ASSUME Inv, Follow, UNCHANGED <<feed, identity, claim, ledger, run, edits>>,
           item'.cursor = item.cursor, item'.start = item.start
    PROVE  Follow'
<1>1. Position' = Position  BY DEF Position
<1>2. LogOrder' /\ WorkFollows'  BY <1>1 DEF Follow, LogOrder, WorkFollows
<1>3. \A e \in Entry : Latest(e)' = Latest(e)  BY DEF Latest, Writing
<1>4. Progress'  BY <1>1, <1>3, ProgressKept DEF Follow, Progress
<1>5. Documents'  BY DEF Follow, Documents, Working, Settled
<1>6. Books'
  <2> SUFFICES ASSUME edits' = 0
               PROVE  /\ \A t \in Tx : RowOK(t)'
                      /\ \A e \in Entry : identity'[e] # Absent => Shown(e, identity[e])'
                      /\ Working' => Shown(run.entry, run.doc)'
    BY DEF Books
  <2>1. /\ \A t \in Tx : RowOK(t)
        /\ \A e \in Entry : identity[e] # Absent => Shown(e, identity[e])
        /\ Working => Shown(run.entry, run.doc)
    BY DEF Follow, Books
  <2>2. \A t \in Tx : RowOK(t)'  BY <2>1 DEF RowOK, Gone, First
  <2>3. \A e \in Entry : identity'[e] # Absent => Shown(e, identity[e])'
    BY <2>1 DEF Shown, Alive
  <2>4. Working' => Shown(run.entry, run.doc)'  BY <2>1 DEF Working, Shown, Alive
  <2> QED  BY <2>2, <2>3, <2>4
<1> QED  BY <1>2, <1>4, <1>5, <1>6 DEF Follow

\* With a member's edit, nothing is owed to the bank any more.
LEMMA EditFollows == ASSUME Inv, Follow, NEW t \in Tx, Edit(t) PROVE Follow'
<1>1. /\ UNCHANGED <<feed, item, identity, claim, run>> /\ edits' = edits + 1 /\ edits \in Nat
  BY DEF Edit, stored, Inv, BoundsOK
<1>2. Position' = Position  BY <1>1 DEF Position
<1>3. LogOrder' /\ WorkFollows'  BY <1>1, <1>2 DEF Follow, LogOrder, WorkFollows
<1>4. \A e \in Entry : Latest(e)' = Latest(e)  BY <1>1 DEF Latest, Writing
<1>5. Progress'  BY <1>1, <1>2, <1>4, ProgressKept DEF Follow, Progress
<1>6. Documents'  BY <1>1 DEF Follow, Documents, Working, Settled
<1>7. Books'  BY <1>1 DEF Books
<1> QED  BY <1>3, <1>5, <1>6, <1>7 DEF Follow

-----------------------------------------------------------------------------
(* The bank's reports *)

\* A new event comes after everything that was worked, and the bank reports
\* nothing more of an entry that is pending or withdrawn.
LEMMA ReportFollows == ASSUME Inv, Follow, NEW e \in Entry, Report(e) PROVE Follow'
<1> DEFINE n == Len(feed)
<1>1. UNCHANGED <<item, identity, claim, ledger, run, edits>>  BY DEF Report, stored, bounds
<1>2. PICK event \in Events : /\ feed' = Append(feed, event) /\ event.entry = e
                             /\ LastKind(e) \in {"none", "posted"}
  BY DEF Report, Events, Post
<1>3. /\ n \in Nat /\ Len(feed') = n + 1 /\ feed'[n + 1] = event
      /\ \A i \in 1..n : feed'[i] = feed[i] /\ feed[i] \in Events /\ i \in 1..Len(feed')
  BY <1>2 DEF Inv
<1> HIDE DEF n
<1>4. LogOrder'
  <2> SUFFICES ASSUME NEW i \in 1..(n + 1), NEW k \in 1..(n + 1), feed'[i].entry = feed'[k].entry,
                      feed'[i].kind # "posted"
               PROVE  k <= i
    BY <1>3 DEF LogOrder
  <2>1. CASE i = n + 1  BY <1>3, <2>1
  <2>2. CASE i \in 1..n /\ k \in 1..n
    <3>1. feed[i].entry = feed[k].entry /\ feed[i].kind # "posted"  BY <1>3, <2>2
    <3> QED  BY <2>2, <3>1 DEF Follow, LogOrder, n
  <2>3. CASE i \in 1..n /\ k = n + 1
    <3>1. feed[i].entry = e /\ feed[i].kind # "posted" /\ feed[i] \in Events
      BY <1>2, <1>3, <2>3
    <3>2. LastKind(e) = feed[i].kind  BY <2>3, <3>1, GoneIsLast DEF Follow, n
    <3>3. feed[i].kind \in {"pending", "withdrawn"}  BY <3>1 DEF Events
    <3> QED  BY <1>2, <3>2, <3>3
  <2> QED  BY <1>3, <2>1, <2>2, <2>3
<1>5. /\ item.cursor \in Nat /\ item.cursor <= n /\ Position \in Nat /\ Position <= n
      /\ Position' = Position
  BY <1>1, PositionIs DEF Follow, n, Position
<1>6. WorkFollows'
  <2>1. \A i \in 1..Len(run.work) :
           run # Idle /\ run.page # Absent => feed'[Position + i] = feed[Position + i]
    <3> SUFFICES ASSUME NEW i \in 1..Len(run.work), run # Idle, run.page # Absent
                 PROVE  feed'[Position + i] = feed[Position + i]
      OBVIOUS
    <3>1. Position = run.page - Len(run.work)  BY DEF Position
    <3>2. run.page \in Nat /\ run.page <= n /\ Len(run.work) \in Nat
      BY DEF Inv, RunOK, Runs, n
    <3>3. Position + i \in 1..n  BY <1>3, <1>5, <3>1, <3>2
    <3> QED  BY <1>3, <3>3
  <2> QED  BY <1>1, <1>5, <2>1 DEF Follow, WorkFollows
<1>7. \A f \in Entry : Latest(f)' = Latest(f)  BY <1>1 DEF Latest, Writing
<1>8. Progress'
  <2> SUFFICES ASSUME NEW f \in Entry
               PROVE  Reached(f, identity[f], item.cursor)' /\ Reached(f, Latest(f), Position)'
    BY DEF Progress
  <2>1. Reached(f, identity[f], item.cursor) /\ Reached(f, Latest(f), Position)
    BY DEF Follow, Progress
  <2>2. ASSUME NEW doc \in Identity \cup {Absent}, NEW p \in Nat, p <= n, Reached(f, doc, p)
        PROVE  Reached(f, doc, p)'
    <3>1. CASE doc = Absent
      <4>1. \A k \in 1..p : feed'[k] = feed[k]  BY <1>3, <2>2
      <4> QED  BY <2>2, <3>1, <4>1 DEF Reached
    <3>2. CASE doc # Absent
      <4>1. PICK i \in 1..n : /\ feed[i].entry = f /\ Tells(doc, feed[i])
                              /\ \A k \in (i + 1)..p : feed[k].entry # f
        BY <2>2, <3>2 DEF Reached, n
      <4>2. feed'[i] = feed[i] /\ i \in 1..Len(feed')  BY <1>3
      <4>3. \A k \in (i + 1)..p : feed'[k] = feed[k]  BY <1>3, <2>2
      <4> QED  BY <3>2, <4>1, <4>2, <4>3 DEF Reached, Tells
    <3> QED  BY <3>1, <3>2
  <2>3. identity[f] \in Identity \cup {Absent} /\ Latest(f) \in Identity \cup {Absent}
    BY DEF Inv, StoredTypes, Latest, Writing, RunOK, Runs
  <2>4. Reached(f, identity[f], item.cursor)'  BY <1>1, <1>5, <2>1, <2>2, <2>3
  <2>5. Reached(f, Latest(f), Position)'  BY <1>5, <1>7, <2>1, <2>2, <2>3
  <2> QED  BY <2>4, <2>5
<1>9. Documents'  BY <1>1 DEF Follow, Documents, Working, Settled
<1>10. Books'
  <2> SUFFICES ASSUME edits' = 0
               PROVE  /\ \A t \in Tx : RowOK(t)'
                      /\ \A f \in Entry : identity'[f] # Absent => Shown(f, identity[f])'
                      /\ Working' => Shown(run.entry, run.doc)'
    BY DEF Books
  <2>1. /\ \A t \in Tx : RowOK(t)
        /\ \A f \in Entry : identity[f] # Absent => Shown(f, identity[f])
        /\ Working => Shown(run.entry, run.doc)
    BY <1>1 DEF Follow, Books
  <2>2. \A f : Gone(f) => Gone(f)'  BY <1>3 DEF Gone, n
  <2>3. \A t \in Tx : RowOK(t)'
    <3> SUFFICES ASSUME NEW t \in Tx PROVE RowOK(t)'
      OBVIOUS
    <3>1. Gone(claim[t]) => Gone(claim[t])'
      BY <1>1, <1>3 DEF Gone, n
    <3> QED  BY <1>1, <2>1, <3>1 DEF RowOK, First
  <2>4. \A f \in Entry : identity'[f] # Absent => Shown(f, identity[f])'
    BY <1>1, <2>1 DEF Shown, Alive
  <2>5. Working' => Shown(run.entry, run.doc)'  BY <1>1, <2>1 DEF Working, Shown, Alive
  <2> QED  BY <2>3, <2>4, <2>5
<1> QED  BY <1>4, <1>6, <1>8, <1>9, <1>10 DEF Follow

-----------------------------------------------------------------------------
(* Tasks *)

\* The books owe the same as long as nothing is written and what an
\* invocation is about to write agrees with them.
LEMMA BooksKept ==
    ASSUME Books, UNCHANGED <<feed, identity, claim, ledger, edits>>,
           edits = 0 /\ Working' => Shown(run'.entry, run'.doc)
    PROVE  Books'
<1> SUFFICES ASSUME edits' = 0
             PROVE  /\ \A t \in Tx : RowOK(t)'
                    /\ \A e \in Entry : identity'[e] # Absent => Shown(e, identity[e])'
                    /\ Working' => Shown(run.entry, run.doc)'
  BY DEF Books
<1>1. /\ \A t \in Tx : RowOK(t)
      /\ \A e \in Entry : identity[e] # Absent => Shown(e, identity[e])
  BY DEF Books
<1>2. \A t \in Tx : RowOK(t)'  BY <1>1 DEF RowOK, Gone, First
<1>3. \A e \in Entry : identity'[e] # Absent => Shown(e, identity[e])'
  BY <1>1 DEF Shown, Alive
<1>4. Working' => Shown(run.entry, run.doc)'  BY DEF Shown, Alive
<1> QED  BY <1>2, <1>3, <1>4

\* The money the books may show for an identity about to be booked again.
ShowsEither(e, doc) ==
    doc.tx # Absent /\ claim[doc.tx] \in {Absent, e} /\ Alive(doc.tx) /\ doc.previous # Absent =>
        ledger[doc.tx].money \in {doc.previous, doc.money}

\* Whatever state an identity is in, the books show its money or, if its
\* last change was not booked yet, the previous one.
LEMMA StoredShows ==
    ASSUME Inv, Follow, edits = 0, NEW e \in Entry, identity[e] # Absent
    PROVE  ShowsEither(e, identity[e])
<1> PICK doc \in Identity : doc = identity[e]  BY DEF Inv, StoredTypes
<1>1. Shown(e, doc)  BY DEF Follow, Books
<1>2. doc.state = "review" => doc.tx = Absent  BY DEF Inv, Identities, IdentityOK
<1>3. doc.state \in {"review", "intent", "applied", "removed"}  BY DEF Identity
<1>4. ShowsEither(e, doc)  BY <1>1, <1>2, <1>3 DEF Shown, ShowsEither
<1> QED  BY <1>4

\* Going on to write an intent that says what the task says.
LEMMA StoreFollows ==
    ASSUME Inv, Follow, run # Idle, run.step = "task", run.work # <<>>, NEW e \in Entry,
           e = Task.entry, NEW doc \in Identity, doc.tx \in Own(e) \cup {Absent},
           Store(e, doc, Tail(run.work)),
           UNCHANGED <<feed, item, active, stored, ledger, bounds>>,
           identity[e] # Absent => identity[e].tx = doc.tx,
           run' # Idle /\ run'.page = run.page /\ run'.work = Tail(run.work)
              => Reached(e, doc, Position'),
           edits = 0 => ShowsEither(e, doc)
    PROVE  Follow'
<1>1. run \in Runs /\ StoredTypes /\ Tail(run.work) \in Seq(Tasks)
  BY RestOfWork DEF Inv, RunOK
<1>2. /\ run' \in Runs /\ run'.step = "write" /\ run'.entry = e /\ run'.work = Tail(run.work)
      /\ run'.page = run.page /\ run'.doc \in Identity /\ run'.doc.state = "intent"
      /\ run'.doc.money = doc.money /\ run'.doc.removal = doc.removal
      /\ IF doc.tx # Absent THEN run'.doc.tx = doc.tx /\ run'.doc.previous = doc.previous
         ELSE run'.doc.previous # Absent => run'.doc.previous = ledger[run'.doc.tx].money
  BY <1>1, StoreAre
<1>3. run' # Idle /\ doc # Absent /\ run'.doc # Absent  BY <1>2, IdleIsNone, Sentinel
<1>4. UNCHANGED <<feed, item, identity, claim, ledger, edits>>  BY DEF stored, bounds
<1>5. WorkFollows'  BY <1>2, <1>3, <1>4, Popped DEF Follow
<1>6. LogOrder'  BY <1>4 DEF Follow, LogOrder
<1>7. Progress'
  <2> SUFFICES ASSUME NEW f \in Entry
               PROVE  Reached(f, identity'[f], item'.cursor) /\ Reached(f, Latest(f)', Position')
    BY <1>4, ProgressKept
  <2>1. Reached(f, identity'[f], item'.cursor)  BY <1>4 DEF Follow, Progress
  <2>2. CASE f = e
    <3>1. Latest(f)' = run'.doc  BY <1>2, <1>3, <2>2 DEF Latest, Writing
    <3>2. Reached(e, doc, Position')  BY <1>2, <1>3
    <3>3. Reached(e, run'.doc, Position')  BY <1>2, <1>3, <3>2, ReachedSame
    <3> QED  BY <2>1, <2>2, <3>1, <3>3
  <2>3. CASE f # e
    <3>1. Latest(f)' = identity[f] /\ Latest(f) = identity[f]
      BY <1>2, <1>4, <2>3 DEF Latest, Writing
    <3>2. Reached(f, identity[f], Position)  BY <3>1 DEF Follow, Progress
    <3>3. Reached(f, identity[f], Position')
      BY <1>2, <1>3, <1>4, <2>3, <3>2, OthersReach DEF Follow
    <3> QED  BY <2>1, <3>1, <3>3
  <2> QED  BY <2>2, <2>3
<1>8. Documents'
  <2>1. Consistent(run'.doc)  BY <1>2 DEF Consistent
  <2>2. Settled(e) => run'.doc.tx = identity[e].tx  BY <1>2 DEF Settled
  <2>3. Settled(e)' <=> Settled(e)  BY <1>4 DEF Settled
  <2>4. \A f \in Entry : identity'[f] # Absent => Consistent(identity'[f])
    BY <1>4 DEF Follow, Documents
  <2> QED  BY <1>2, <1>4, <2>1, <2>2, <2>3, <2>4 DEF Documents, Consistent
<1>9. edits = 0 => Shown(run'.entry, run'.doc)  BY <1>2 DEF Shown, ShowsEither
<1>10. Books'  BY <1>4, <1>9, BooksKept DEF Follow
<1> QED  BY <1>5, <1>6, <1>7, <1>8, <1>10 DEF Follow

\* A task that changes nothing is done when the stored identity already says
\* what the task says.
LEMMA DoneFollows ==
    ASSUME Inv, Follow, run # Idle, run.step = "task", run.work # <<>>, run' = Finished,
           UNCHANGED <<feed, item, identity, claim, ledger, edits>>,
           run' # Idle /\ run'.page = run.page /\ run'.work = Tail(run.work)
              => Reached(Task.entry, identity[Task.entry], Position')
    PROVE  Follow'
<1>1. run \in Runs /\ Tail(run.work) \in Seq(Tasks)  BY RestOfWork DEF Inv, RunOK
<1>2. /\ run' \in Runs /\ run'.work = Tail(run.work) /\ run'.step = "task"
      /\ run'.page = run.page
  BY <1>1 DEF Finished, Runs, Steps
<1>3. run' # Idle /\ ~Working' /\ ~Working  BY <1>2, IdleIsNone DEF Working
<1>4. WorkFollows'  BY <1>2, <1>3, Popped DEF Follow
<1>5. Position \in Nat /\ item.cursor \in Nat  BY PositionIs DEF Follow
<1>6. \A f \in Entry : Reached(f, identity[f], item'.cursor)
  BY DEF Follow, Progress
<1>7. ASSUME NEW f \in Entry PROVE Reached(f, identity[f], Position')
  <2>1. CASE f = Task.entry  BY <1>2, <1>3, <2>1
  <2>2. CASE f # Task.entry
    <3>1. Reached(f, identity[f], Position)
      BY <1>3, <1>5, BetweenTasks
    <3> QED  BY <1>2, <1>3, <2>2, <3>1, OthersReach DEF Follow
  <2> QED  BY <2>1, <2>2
<1> QED  BY <1>3, <1>4, <1>6, <1>7, NothingWritten

\* Redo continues an identity as it is stored.
LEMMA RedoFollows == Inv /\ Follow /\ Redo => Follow'
<1> SUFFICES ASSUME Inv, Follow, Redo PROVE Follow'
  OBVIOUS
<1>1. /\ UNCHANGED <<feed, item, active, stored, ledger, bounds>> /\ run # Idle
      /\ run.step = "task" /\ run.work # <<>> /\ Task.do = "redo"
      /\ Store(Task.entry, identity[Task.entry], Tail(run.work))
  BY DEF Redo, TaskOf, At, Asked
<1>2. Task.entry \in Entry /\ identity[Task.entry] # Absent  BY <1>1, RestOfWork, TasksName
<1> PICK e \in Entry : e = Task.entry  BY <1>2
<1>3. identity[e] \in Identity /\ identity[e].tx \in Own(e) \cup {Absent}
  BY <1>2 DEF Inv, StoredTypes, Identities, IdentityOK
<1>4. run' # Idle /\ run'.page = run.page /\ run'.work = Tail(run.work)
         => Reached(e, identity[e], Position')
  <2> SUFFICES ASSUME run' # Idle, run'.page = run.page, run'.work = Tail(run.work)
               PROVE  Reached(e, identity[e], Position')
    OBVIOUS
  <2>1. run.page = Absent
    <3>1. ASSUME run.page # Absent PROVE FALSE
      <4>1. Task = AsTask(feed[Position']) /\ feed[Position'] \in Events
        BY <1>1, <3>1, Popped DEF Follow
      <4> QED  BY <1>1, <4>1, TaskEntry
    <3> QED  BY <3>1
  <2>2. Position' = Position  BY <1>1, <2>1, Popped DEF Follow
  <2>3. Position \in Nat /\ Position <= Position /\ ~Working
    BY <1>1, PositionIs DEF Follow, Working
  <2>4. Reached(e, identity[e], Position)  BY <2>3, BetweenTasks
  <2> QED  BY <2>2, <2>4
<1>5. edits = 0 => ShowsEither(e, identity[e])  BY <1>2, StoredShows
<1>6. Store(e, identity[e], Tail(run.work))  BY <1>1
<1> QED  BY <1>1, <1>3, <1>4, <1>5, <1>6, StoreFollows

\* A task of a page stands for the next event of the log.
LEMMA TaskOfEvent ==
    ASSUME Inv, Follow, run # Idle, run.work # <<>>, Task.do # "redo", run' # Idle,
           run'.page = run.page, run'.work = Tail(run.work), UNCHANGED <<feed, item>>
    PROVE  /\ Position' \in 1..Len(feed) /\ Position' = Position + 1
           /\ feed[Position'].entry = Task.entry
           /\ Task.do = "ingest" => /\ feed[Position'].kind = "posted"
                                    /\ feed[Position'].money = Task.money
           /\ Task.do = "remove" => feed[Position'].kind # "posted"
<1>1. run.page # Absent  BY Popped DEF Follow
<1>2. /\ Position' = Position + 1 /\ Position' \in 1..Len(feed)
      /\ Task = AsTask(feed[Position']) /\ feed[Position'] \in Events
  BY <1>1, Popped DEF Follow
<1> QED  BY <1>2, TaskEntry

\* Ingest brings an identity to the money of its event, or finishes first
\* what is under way.
LEMMA IngestFollows == Inv /\ Follow /\ Ingest => Follow'
<1> SUFFICES ASSUME Inv, Follow, Ingest PROVE Follow'
  OBVIOUS
<1>1. /\ UNCHANGED <<feed, item, active, stored, ledger, bounds>> /\ run # Idle
      /\ run.step = "task" /\ run.work # <<>> /\ Task.do = "ingest"
      /\ UNCHANGED <<feed, item, identity, claim, ledger, edits>>
  BY DEF Ingest, TaskOf, At, Asked, stored, bounds
<1>2. Task.entry \in Entry /\ Task.money \in BankMoney  BY <1>1, RestOfWork, TasksName
<1> PICK e \in Entry : e = Task.entry  BY <1>2
<1> PICK m \in BankMoney : m = Task.money  BY <1>2
<1> PICK doc \in Identity \cup {Absent} : doc = identity[e]  BY DEF Inv, StoredTypes
<1>3. doc # Absent => /\ doc \in Identity /\ doc.tx \in Own(e) \cup {Absent}
                      /\ doc.state = "review" => doc.tx = Absent
                      /\ doc.state \in {"review", "intent", "applied", "removed"}
                      /\ Consistent(doc)
  BY DEF Inv, Identities, IdentityOK, Identity, Follow, Documents
<1>4. \/ doc = Absent /\ Store(e, [Review(m) EXCEPT !.state = "intent"], Tail(run.work))
      \/ /\ doc # Absent /\ doc.state = "intent"
         /\ run' = [run EXCEPT !.step = "claim", !.entry = e, !.doc = doc]
      \/ doc # Absent /\ doc.state = "applied" /\ doc.money = m /\ run' = Finished
      \/ /\ doc # Absent /\ doc.state # "intent"
         /\ Store(e, [doc EXCEPT !.previous = doc.money, !.money = m, !.removal = FALSE],
                  Tail(run.work))
  BY DEF Ingest
<1>5. ASSUME NEW new, new # Absent, new.money = m, ~new.removal,
             run' # Idle /\ run'.page = run.page /\ run'.work = Tail(run.work)
      PROVE  Reached(e, new, Position')
  <2>1. /\ Position' \in 1..Len(feed) /\ feed[Position'].entry = e
        /\ feed[Position'].kind = "posted" /\ feed[Position'].money = m
    BY <1>1, <1>5, TaskOfEvent
  <2>2. Tells(new, feed[Position'])  BY <1>5, <2>1 DEF Tells
  <2> QED  BY <1>5, <2>1, <2>2, ReachedHere
<1>6. CASE doc = Absent /\ Store(e, [Review(m) EXCEPT !.state = "intent"], Tail(run.work))
  <2> DEFINE fresh == [Review(m) EXCEPT !.state = "intent"]
  <2>1. fresh \in Identity /\ fresh.tx = Absent /\ fresh.money = m /\ ~fresh.removal
    BY DEF Review, Identity
  <2> HIDE DEF fresh
  <2>2. fresh # Absent  BY <2>1, Sentinel
  <2>3. run' # Idle /\ run'.page = run.page /\ run'.work = Tail(run.work)
           => Reached(e, fresh, Position')
    BY <1>5, <2>1, <2>2
  <2>4. Store(e, fresh, Tail(run.work))  BY <1>6 DEF fresh
  <2>5. identity[e] = Absent /\ ShowsEither(e, fresh)  BY <1>6, <2>1 DEF ShowsEither
  <2> QED  BY <1>1, <2>1, <2>3, <2>4, <2>5, StoreFollows
<1>7. CASE /\ doc # Absent /\ doc.state = "intent"
           /\ run' = [run EXCEPT !.step = "claim", !.entry = e, !.doc = doc]
  <2>1. /\ run' # Idle /\ run'.step = "claim" /\ run'.entry = e /\ run'.doc = doc
        /\ run'.work = run.work /\ run'.page = run.page
    BY <1>1, <1>7 DEF Inv, RunOK, Runs, Idle
  <2>2. Position' = Position  BY <1>1, <2>1 DEF Position
  <2>3. WorkFollows' /\ LogOrder'
    BY <1>1, <2>1, <2>2 DEF Follow, WorkFollows, LogOrder
  <2>4. \A f \in Entry : Latest(f)' = identity[f] /\ Latest(f) = identity[f]
    BY <1>1, <2>1 DEF Latest, Writing
  <2>5. Progress'  BY <1>1, <2>2, <2>4, ProgressKept DEF Follow, Progress
  <2>6. Documents'  BY <1>1, <1>3, <1>7, <2>1 DEF Follow, Documents, Working
  <2>7. edits = 0 => Shown(e, doc)  BY <1>7 DEF Follow, Books
  <2>8. Books'  BY <1>1, <2>1, <2>7, BooksKept DEF Follow
  <2> QED  BY <2>3, <2>5, <2>6, <2>8 DEF Follow
<1>8. CASE doc # Absent /\ doc.state = "applied" /\ doc.money = m /\ run' = Finished
  <2>1. ~doc.removal  BY <1>3, <1>8 DEF Consistent
  <2>2. run' # Idle /\ run'.page = run.page /\ run'.work = Tail(run.work)
           => Reached(Task.entry, identity[Task.entry], Position')
    BY <1>5, <1>8, <2>1
  <2> QED  BY <1>1, <1>8, <2>2, DoneFollows
<1>9. CASE /\ doc # Absent /\ doc.state # "intent"
           /\ Store(e, [doc EXCEPT !.previous = doc.money, !.money = m, !.removal = FALSE],
                    Tail(run.work))
  <2> DEFINE next == [doc EXCEPT !.previous = doc.money, !.money = m, !.removal = FALSE]
  <2>1. /\ next \in Identity /\ next.tx = doc.tx /\ next.money = m /\ ~next.removal
        /\ next.previous = doc.money
    BY <1>3, <1>9, MoneyType DEF Identity
  <2>2. Store(e, next, Tail(run.work))  BY <1>9
  <2> HIDE DEF next
  <2>3. next # Absent  BY <2>1, Sentinel
  <2>4. run' # Idle /\ run'.page = run.page /\ run'.work = Tail(run.work)
           => Reached(e, next, Position')
    BY <1>5, <2>1, <2>3
  <2>5. edits = 0 => ShowsEither(e, next)
    <3> SUFFICES ASSUME edits = 0, doc.tx # Absent, Alive(doc.tx)
                 PROVE  ledger[doc.tx].money = doc.money
      BY <2>1 DEF ShowsEither
    <3>1. Shown(e, doc)  BY <1>9 DEF Follow, Books
    <3>2. doc.state = "applied"  BY <1>3, <1>9, <3>1 DEF Shown
    <3> QED  BY <3>1, <3>2 DEF Shown
  <2>6. identity[e].tx = next.tx /\ next.tx \in Own(e) \cup {Absent}  BY <1>3, <1>9, <2>1
  <2> QED  BY <1>1, <2>1, <2>2, <2>4, <2>5, <2>6, StoreFollows
<1> QED  BY <1>4, <1>6, <1>7, <1>8, <1>9

\* Withdraw marks the removal of what it finds, and finds nothing booked for
\* an entry without identity.
LEMMA WithdrawFollows == Inv /\ Follow /\ Withdraw => Follow'
<1> SUFFICES ASSUME Inv, Follow, Withdraw PROVE Follow'
  OBVIOUS
<1>1. /\ UNCHANGED <<feed, item, active, claim, bounds>> /\ run # Idle
      /\ run.step = "task" /\ run.work # <<>> /\ Task.do = "remove" /\ ledger' = ledger
      /\ edits' = edits
  BY WithdrawSafe DEF Withdraw, TaskOf, At, Asked, bounds
<1>2. Task.entry \in Entry  BY <1>1, RestOfWork, TasksName
<1> PICK e \in Entry : e = Task.entry  BY <1>2
<1> PICK doc \in Identity \cup {Absent} : doc = identity[e]  BY DEF Inv, StoredTypes
<1>3. doc # Absent => /\ doc \in Identity /\ doc.tx \in Own(e) \cup {Absent}
                      /\ doc.state = "review" => doc.tx = Absent
                      /\ Consistent(doc)
  BY DEF Inv, Identities, IdentityOK, Follow, Documents
<1> DEFINE gone == [doc EXCEPT !.state = "removed", !.removal = TRUE]
           doomed == [doc EXCEPT !.removal = TRUE]
<1>4. \/ doc = Absent /\ run' = Finished /\ UNCHANGED identity
      \/ doc # Absent /\ doc.state = "removed" /\ run' = Finished /\ UNCHANGED identity
      \/ doc # Absent /\ doc.state = "review" /\ Put(e, gone) /\ run' = Finished
      \/ /\ doc # Absent /\ doc.state \in {"intent", "applied"}
         /\ Store(e, doomed, Tail(run.work)) /\ UNCHANGED identity
  BY DEF Withdraw
<1>5. ASSUME run' # Idle, run'.page = run.page, run'.work = Tail(run.work)
      PROVE  /\ Position' \in 1..Len(feed) /\ feed[Position'].entry = e
             /\ feed[Position'].kind # "posted" /\ Position' = Position + 1
  BY <1>1, <1>5, TaskOfEvent
<1>6. ASSUME NEW new, new # Absent, new.removal,
             run' # Idle /\ run'.page = run.page /\ run'.work = Tail(run.work)
      PROVE  Reached(e, new, Position')
  <2>1. Tells(new, feed[Position'])  BY <1>5, <1>6 DEF Tells
  <2> QED  BY <1>5, <1>6, <2>1, ReachedHere
<1>7. CASE doc = Absent /\ run' = Finished /\ UNCHANGED identity
  <2>1. ASSUME run' # Idle, run'.page = run.page, run'.work = Tail(run.work)
        PROVE  Reached(e, Absent, Position')
    <3> DEFINE p == Position  q == Position'
    <3>1. p \in Nat /\ p <= p /\ ~Working  BY <1>1, PositionIs DEF Follow, Working
    <3>2. Reached(e, Absent, p)  BY <1>7, <3>1, BetweenTasks
    <3>3. q = p + 1 /\ feed[q].kind # "posted"  BY <1>5, <2>1
    <3> HIDE DEF p, q
    <3>4. \A k \in 1..q : feed[k].entry = e => feed[k].kind # "posted"
      <4> TAKE k \in 1..q
      <4>1. k = q \/ k \in 1..p  BY <3>1, <3>3
      <4> QED  BY <3>2, <3>3, <4>1 DEF Reached
    <3>5. Reached(e, Absent, q)  BY <3>4 DEF Reached
    <3> QED  BY <3>5 DEF q
  <2> QED  BY <1>1, <1>7, <2>1, DoneFollows
<1>8. CASE doc # Absent /\ doc.state = "removed" /\ run' = Finished /\ UNCHANGED identity
  <2>1. doc.removal  BY <1>3, <1>8 DEF Consistent
  <2>2. run' # Idle /\ run'.page = run.page /\ run'.work = Tail(run.work)
           => Reached(Task.entry, identity[Task.entry], Position')
    BY <1>6, <1>8, <2>1
  <2> QED  BY <1>1, <1>8, <2>2, DoneFollows
<1>9. CASE /\ doc # Absent /\ doc.state \in {"intent", "applied"}
           /\ Store(e, doomed, Tail(run.work)) /\ UNCHANGED identity
  <2>1. /\ doomed \in Identity /\ doomed.tx = doc.tx /\ doomed.removal
        /\ doomed.previous = doc.previous /\ doomed.money = doc.money
    BY <1>3, <1>9 DEF Identity
  <2>2. Store(e, doomed, Tail(run.work))  BY <1>9
  <2> HIDE DEF doomed
  <2>3. doomed # Absent  BY <2>1, Sentinel
  <2>4. run' # Idle /\ run'.page = run.page /\ run'.work = Tail(run.work)
           => Reached(e, doomed, Position')
    BY <1>6, <2>1, <2>3
  <2>5. edits = 0 => ShowsEither(e, doomed)
    <3>1. edits = 0 => ShowsEither(e, doc)  BY <1>9, StoredShows
    <3> QED  BY <2>1, <3>1 DEF ShowsEither
  <2>6. identity[e].tx = doomed.tx /\ doomed.tx \in Own(e) \cup {Absent}  BY <1>3, <1>9, <2>1
  <2>7. UNCHANGED <<feed, item, active, stored, ledger, bounds>>  BY <1>1, <1>9 DEF stored
  <2> QED  BY <1>1, <2>1, <2>2, <2>4, <2>5, <2>6, <2>7, StoreFollows
<1>10. CASE doc # Absent /\ doc.state = "review" /\ Put(e, gone) /\ run' = Finished
  <2>1. gone \in Identity /\ gone.tx = Absent /\ gone.removal /\ gone.state = "removed"
    BY <1>3, <1>10 DEF Identity
  <2>2. identity' = [identity EXCEPT ![e] = gone]  BY <1>10 DEF Put
  <2>3. identity'[e] = gone /\ \A f \in Entry : f # e => identity'[f] = identity[f]
    BY <2>2 DEF Inv, StoredTypes
  <2> HIDE DEF gone
  <2>4. gone # Absent  BY <2>1, Sentinel
  <2>5. run \in Runs /\ Tail(run.work) \in Seq(Tasks)  BY <1>1, RestOfWork DEF Inv, RunOK
  <2>6. /\ run' \in Runs /\ run'.work = Tail(run.work) /\ run'.step = "task"
        /\ run'.page = run.page
    BY <1>10, <2>5 DEF Finished, Runs, Steps
  <2>7. run' # Idle /\ ~Working' /\ ~Working  BY <1>1, <2>6, IdleIsNone DEF Working
  <2>8. WorkFollows' /\ LogOrder'
    BY <1>1, <2>6, <2>7, Popped DEF Follow, LogOrder
  <2>9. /\ Position' \in Nat /\ Position' = Position + 1 /\ item'.cursor = item.cursor
        /\ item.cursor \in Nat /\ item.cursor <= Position'
    BY <1>1, <1>5, <2>6, <2>7, PositionIs DEF Follow
  <2>10. Progress'
    <3> SUFFICES ASSUME NEW f \in Entry
                 PROVE  Reached(f, identity'[f], item'.cursor) /\ Reached(f, Latest(f)', Position')
      BY <1>1, ProgressKept
    <3>1. Latest(f)' = identity'[f]  BY <2>7 DEF Latest, Writing, Working
    <3>2. CASE f = e
      <4>1. Reached(e, gone, Position')  BY <1>6, <2>1, <2>4, <2>6, <2>7
      <4> DEFINE q == Position'
      <4>2. Reached(e, gone, q) /\ q \in Nat /\ item.cursor \in Nat /\ item.cursor <= q
        BY <2>9, <4>1
      <4> HIDE DEF q
      <4>3. Reached(e, gone, item.cursor)  BY <4>2, ReachedEarlier
      <4> QED  BY <2>3, <2>9, <3>1, <3>2, <4>1, <4>3
    <3>3. CASE f # e
      <4>1. Position \in Nat /\ Position <= Position  BY PositionIs DEF Follow
      <4>2. Reached(f, identity[f], Position)  BY <2>7, <4>1, BetweenTasks
      <4>3. Reached(f, identity[f], Position')
        BY <1>1, <2>6, <2>7, <3>3, <4>2, OthersReach DEF Follow
      <4>4. Reached(f, identity[f], item.cursor)  BY DEF Follow, Progress
      <4> QED  BY <1>1, <2>3, <3>1, <3>3, <4>3, <4>4
    <3> QED  BY <3>2, <3>3
  <2>11. Documents'
    <3>1. Consistent(gone)  BY <2>1 DEF Consistent
    <3> QED  BY <2>3, <2>7, <3>1 DEF Follow, Documents
  <2>12. Books'
    <3> SUFFICES ASSUME edits' = 0
                 PROVE  /\ \A t \in Tx : RowOK(t)'
                        /\ \A f \in Entry : identity'[f] # Absent => Shown(f, identity[f])'
      BY <2>7 DEF Books
    <3>1. /\ \A t \in Tx : RowOK(t)
          /\ \A f \in Entry : identity[f] # Absent => Shown(f, identity[f])
      BY <1>1 DEF Follow, Books
    <3>2. ASSUME NEW t \in Tx PROVE RowOK(t)'
      <4>1. RowOK(t) /\ t # Absent  BY <3>1, Sentinel
      <4>2. identity[e].tx = Absent  BY <1>3, <1>10
      <4> QED  BY <1>1, <2>3, <4>1, <4>2 DEF RowOK, Gone, First
    <3>3. ASSUME NEW f \in Entry, identity'[f] # Absent PROVE Shown(f, identity[f])'
      <4>1. CASE f = e  BY <2>1, <2>3, <4>1 DEF Shown
      <4>2. CASE f # e  BY <1>1, <2>3, <3>1, <3>3, <4>2 DEF Shown, Alive
      <4> QED  BY <4>1, <4>2
    <3> QED  BY <3>2, <3>3
  <2> QED  BY <2>8, <2>10, <2>11, <2>12 DEF Follow
<1> QED  BY <1>4, <1>7, <1>8, <1>9, <1>10

-----------------------------------------------------------------------------
(* Writes *)

\* What the step of a writing invocation says of it.
LEMMA WritingIs ==
    ASSUME Inv, Follow, Working
    PROVE  /\ run \in Runs /\ run.entry \in Entry /\ run.doc \in Identity /\ run.doc # Absent
           /\ run.doc.tx \in Own(run.entry) /\ run.doc.tx \in Tx /\ run.doc.tx # Absent
           /\ Consistent(run.doc)
           /\ edits = 0 => Shown(run.entry, run.doc)
<1>1. run \in Runs /\ run.entry \in Entry /\ run.doc \in Identity /\ run.doc.tx \in Own(run.entry)
  BY DEF Inv, RunOK, Working
<1>2. run.doc.tx \in Tx /\ run.doc.tx # Absent /\ run.doc # Absent
  BY <1>1, Sentinel DEF Own, Tx
<1> QED  BY <1>1, <1>2 DEF Follow, Documents, Books

\* WriteIdentity stores what the task says, and moves no transaction that is
\* claimed for the entry to another.
LEMMA WriteIdentityFollows == Inv /\ Follow /\ WriteIdentity => Follow'
<1> SUFFICES ASSUME Inv, Follow, WriteIdentity PROVE Follow'
  OBVIOUS
<1>1. /\ UNCHANGED <<feed, item, claim, ledger, edits>> /\ run # Idle
      /\ run.step = "write" /\ identity' = [identity EXCEPT ![run.entry] = run.doc]
      /\ run' = [run EXCEPT !.step = "claim"] /\ Working
  BY DEF WriteIdentity, At, Put, Working, bounds
<1> PICK e \in Entry : e = run.entry  BY <1>1, WritingIs
<1> PICK doc \in Identity : doc = run.doc  BY <1>1, WritingIs
<1>2. identity'[e] = doc /\ \A f \in Entry : f # e => identity'[f] = identity[f]
  BY <1>1 DEF Inv, StoredTypes
<1>3. /\ run' # Idle /\ run'.step = "claim" /\ run'.entry = e /\ run'.doc = doc
      /\ run'.work = run.work /\ run'.page = run.page
  BY <1>1, WritingIs DEF Runs, Idle
<1>4. Position' = Position  BY <1>1, <1>3 DEF Position
<1>5. LogOrder' /\ WorkFollows'
  BY <1>1, <1>3, <1>4 DEF Follow, LogOrder, WorkFollows
<1>6. Progress'
  <2> SUFFICES ASSUME NEW f \in Entry
               PROVE  Reached(f, identity'[f], item'.cursor) /\ Reached(f, Latest(f)', Position')
    BY <1>1, ProgressKept
  <2>1. Latest(f)' = identity'[f] /\ Latest(f) = identity'[f]
    BY <1>1, <1>2, <1>3 DEF Latest, Writing
  <2>2. Reached(f, identity'[f], Position)  BY <2>1 DEF Follow, Progress
  <2>3. Position \in Nat /\ item.cursor \in Nat /\ item.cursor <= Position
    BY PositionIs DEF Follow
  <2>4. Reached(f, identity'[f], item.cursor)  BY <2>2, <2>3, ReachedEarlier
  <2> QED  BY <1>1, <1>4, <2>1, <2>2, <2>4
<1>7. Documents'
  BY <1>1, <1>2, <1>3, WritingIs DEF Follow, Documents, Working
<1>8. Books'
  <2> SUFFICES ASSUME edits' = 0
               PROVE  /\ \A t \in Tx : RowOK(t)'
                      /\ \A f \in Entry : identity'[f] # Absent => Shown(f, identity[f])'
                      /\ Shown(run.entry, run.doc)'
    BY DEF Books
  <2>1. /\ \A t \in Tx : RowOK(t)
        /\ \A f \in Entry : identity[f] # Absent => Shown(f, identity[f])
        /\ Shown(e, doc)
    BY <1>1 DEF Follow, Books
  <2>2. ASSUME NEW t \in Tx PROVE RowOK(t)'
    <3>1. RowOK(t) /\ t # Absent  BY <2>1, Sentinel
    <3>2. CASE claim[t] = e /\ ledger[t] # First(t)
      <4>1. identity[e] # Absent /\ identity[e].tx = t /\ Settled(e)
        BY <3>1, <3>2 DEF RowOK, Settled
      <4>2. doc.tx = t /\ doc # Absent  BY <1>1, <4>1, Sentinel DEF Follow, Documents
      <4> QED  BY <1>1, <1>2, <3>1, <3>2, <4>2 DEF RowOK, Gone, First
    <3>3. CASE claim[t] # e \/ ledger[t] = First(t)
      BY <1>1, <1>2, <3>1, <3>3 DEF RowOK, Gone, First
    <3> QED  BY <3>2, <3>3
  <2>3. ASSUME NEW f \in Entry, identity'[f] # Absent PROVE Shown(f, identity[f])'
    <3>1. CASE f = e  BY <1>1, <1>2, <2>1, <3>1 DEF Shown, Alive
    <3>2. CASE f # e  BY <1>1, <1>2, <2>1, <2>3, <3>2 DEF Shown, Alive
    <3> QED  BY <3>1, <3>2
  <2>4. Shown(run.entry, run.doc)'  BY <1>1, <1>3, <2>1 DEF Shown, Alive
  <2> QED  BY <2>2, <2>3, <2>4
<1> QED  BY <1>5, <1>6, <1>7, <1>8 DEF Follow

\* A claim is laid on a transaction nobody has booked, or on one's own.
LEMMA ClaimShows ==
    ASSUME Inv, Follow, edits = 0, NEW t \in Tx, NEW e \in Entry, claim[t] \in {Absent, e},
           claim' = [claim EXCEPT ![t] = e], UNCHANGED <<feed, identity, ledger>>
    PROVE  /\ \A u \in Tx : RowOK(u)'
           /\ \A f \in Entry : identity'[f] # Absent => Shown(f, identity[f])'
<1>1. claim'[t] = e /\ \A u \in Tx : u # t => claim'[u] = claim[u]
  BY DEF Inv, StoredTypes
<1>2. /\ \A u \in Tx : RowOK(u)
      /\ \A f \in Entry : identity[f] # Absent => Shown(f, identity[f])
  BY DEF Follow, Books
<1>3. ASSUME NEW u \in Tx PROVE RowOK(u)'
  <2>1. CASE u # t  BY <1>1, <1>2, <2>1 DEF RowOK, Gone, First
  <2>2. CASE u = t /\ claim[t] = e
    BY <1>1, <1>2, <2>2 DEF RowOK, Gone, First
  <2>3. CASE u = t /\ claim[t] = Absent
    <3>1. RowOK(t) /\ Absent \notin Entry  BY <1>2, Sentinel
    <3>2. ledger[t] = First(t) /\ First(t)' = First(t)  BY <2>3, <3>1 DEF RowOK, First
    <3>3. ledger[t] # Absent => ledger[t].alive /\ ~ledger[t].split /\ ledger[t].ext = Absent
      BY <3>2 DEF First
    <3> QED  BY <1>1, <2>3, <3>2, <3>3 DEF RowOK
  <2> QED  BY <2>1, <2>2, <2>3
<1>4. ASSUME NEW f \in Entry, identity'[f] # Absent PROVE Shown(f, identity[f])'
  <2> PICK doc \in Identity : doc = identity[f]  BY <1>4 DEF Inv, StoredTypes
  <2>1. Shown(f, doc) /\ (doc.state = "intent" => doc.tx \in Tx)
    BY <1>2, <1>4, Sentinel DEF Inv, Identities, IdentityOK, Own, Tx
  <2>2. doc.state = "intent" /\ claim'[doc.tx] \in {Absent, f} => claim[doc.tx] \in {Absent, f}
    BY <1>1, <2>1, Sentinel
  <2>3. \A u : Alive(u)' <=> Alive(u)  BY DEF Alive
  <2> QED  BY <2>1, <2>2, <2>3 DEF Shown
<1> QED  BY <1>3, <1>4

\* ClaimTransaction: a match that was lost is made again, and then shows
\* what the books show.
LEMMA ClaimTransactionFollows == Inv /\ Follow /\ ClaimTransaction => Follow'
<1> SUFFICES ASSUME Inv, Follow, ClaimTransaction PROVE Follow'
  OBVIOUS
<1>1. /\ UNCHANGED <<feed, item, identity, ledger, edits>> /\ run # Idle
      /\ run.step = "claim" /\ Working
  BY DEF ClaimTransaction, At, Working, bounds
<1> PICK e \in Entry : e = run.entry  BY <1>1, WritingIs
<1> PICK doc \in Identity : doc = run.doc  BY <1>1, WritingIs
<1> PICK t \in Tx : t = run.doc.tx  BY <1>1, WritingIs
<1>2. identity[e] = doc /\ doc # Absent /\ t # Absent /\ doc.tx = t
  BY <1>1, Sentinel DEF Inv, RunOK
<1>3. \/ /\ claim[t] \in {Absent, e} /\ claim' = [claim EXCEPT ![t] = e]
         /\ run' = [run EXCEPT !.step = "book"]
      \/ /\ claim[t] \notin {Absent, e} /\ UNCHANGED claim
         /\ \E new \in Matches(e, doc) : run' = [Loaded EXCEPT !.step = "write", !.doc = new]
  BY DEF ClaimTransaction
<1>4. \A f \in Entry : Latest(f) = identity[f]  BY <1>1 DEF Latest, Writing
<1>5. CASE /\ claim[t] \in {Absent, e} /\ claim' = [claim EXCEPT ![t] = e]
           /\ run' = [run EXCEPT !.step = "book"]
  <2>1. /\ run' # Idle /\ run'.step = "book" /\ run'.entry = e /\ run'.doc = doc
        /\ run'.work = run.work /\ run'.page = run.page
    BY <1>1, <1>5, WritingIs DEF Runs, Idle
  <2>2. Position' = Position  BY <1>1, <2>1 DEF Position
  <2>3. LogOrder' /\ WorkFollows'
    BY <1>1, <2>1, <2>2 DEF Follow, LogOrder, WorkFollows
  <2>4. \A f \in Entry : Latest(f)' = identity[f]  BY <1>1, <2>1 DEF Latest, Writing
  <2>5. Progress'  BY <1>1, <1>4, <2>2, <2>4, ProgressKept DEF Follow, Progress
  <2>6. Documents'  BY <1>1, <2>1, WritingIs DEF Follow, Documents, Working
  <2>7. Books'
    <3> SUFFICES ASSUME edits' = 0
                 PROVE  /\ \A u \in Tx : RowOK(u)'
                        /\ \A f \in Entry : identity'[f] # Absent => Shown(f, identity[f])'
                        /\ Shown(run.entry, run.doc)'
      BY DEF Books
    <3>1. /\ \A u \in Tx : RowOK(u)'
          /\ \A f \in Entry : identity'[f] # Absent => Shown(f, identity[f])'
      BY <1>1, <1>5, ClaimShows
    <3>2. Shown(run.entry, run.doc)'
      <4>1. Shown(e, identity[e])'  BY <1>1, <1>2, <3>1
      <4> QED  BY <1>1, <1>2, <2>1, <4>1 DEF Shown, Alive
    <3> QED  BY <3>1, <3>2
  <2> QED  BY <2>3, <2>5, <2>6, <2>7 DEF Follow
<1>6. CASE /\ claim[t] \notin {Absent, e} /\ UNCHANGED claim
           /\ \E new \in Matches(e, doc) : run' = [Loaded EXCEPT !.step = "write", !.doc = new]
  <2>1. PICK new \in Matches(e, doc) : run' = [Loaded EXCEPT !.step = "write", !.doc = new]
    BY <1>6
  <2>2. /\ new \in Identity /\ new.state = "intent" /\ new.money = doc.money
        /\ new.removal = doc.removal
        /\ new.previous # Absent => new.previous = ledger[new.tx].money
    BY MatchesAre DEF Inv
  <2>3. Loaded = [run EXCEPT !.cached = Listed]  BY DEF Loaded
  <2>4. /\ run' # Idle /\ run'.step = "write" /\ run'.entry = e /\ run'.doc = new
        /\ run'.work = run.work /\ run'.page = run.page
    BY <1>1, <2>1, <2>3, WritingIs DEF Runs, Idle
  <2>5. Position' = Position  BY <1>1, <2>4 DEF Position
  <2>6. LogOrder' /\ WorkFollows'
    BY <1>1, <2>4, <2>5 DEF Follow, LogOrder, WorkFollows
  <2>7. Progress'
    <3> SUFFICES ASSUME NEW f \in Entry
                 PROVE  Reached(f, identity'[f], item'.cursor) /\ Reached(f, Latest(f)', Position')
      BY <1>1, ProgressKept
    <3>1. Reached(f, identity[f], item.cursor) /\ Reached(f, identity[f], Position)
      BY <1>4 DEF Follow, Progress
    <3>2. CASE f = e
      <4>1. Latest(f)' = new  BY <2>4, <3>2 DEF Latest, Writing
      <4>2. new # Absent  BY <2>2, Sentinel
      <4>3. Reached(e, new, Position)  BY <1>2, <2>2, <3>1, <3>2, <4>2, ReachedSame
      <4> QED  BY <1>1, <2>5, <3>1, <3>2, <4>1, <4>3
    <3>3. CASE f # e
      <4>1. Latest(f)' = identity[f]  BY <1>1, <2>4, <3>3 DEF Latest, Writing
      <4> QED  BY <1>1, <2>5, <3>1, <4>1
    <3> QED  BY <3>2, <3>3
  <2>8. Documents'
    <3>1. Consistent(new) /\ ~Settled(e)'
      BY <1>1, <1>2, <1>6, <2>2 DEF Consistent, Settled
    <3> QED  BY <1>1, <2>4, <3>1 DEF Follow, Documents, Working
  <2>9. Shown(e, new)  BY <2>2 DEF Shown
  <2>10. Books'  BY <1>1, <1>6, <2>4, <2>9, BooksKept DEF Follow
  <2> QED  BY <2>6, <2>7, <2>8, <2>10 DEF Follow
<1> QED  BY <1>3, <1>5, <1>6

\* What a booking makes of its transaction.
LEMMA BookedRow ==
    ASSUME StoredTypes, NEW e \in Entry, NEW doc \in Identity, doc.tx \in Tx
    PROVE  \/ Preserved(doc) /\ Booked(doc, e)[doc.tx] = ledger[doc.tx]
           \/ /\ ~Preserved(doc) /\ doc.removal /\ ~Alive(doc.tx)
              /\ Booked(doc, e)[doc.tx] = ledger[doc.tx]
           \/ /\ ~Preserved(doc) /\ doc.removal /\ Alive(doc.tx)
              /\ Booked(doc, e)[doc.tx] = [ledger[doc.tx] EXCEPT !.alive = FALSE]
           \/ /\ ~Preserved(doc) /\ ~doc.removal /\ ledger[doc.tx] = Absent
              /\ Booked(doc, e)[doc.tx] = [money |-> doc.money, alive |-> TRUE, split |-> FALSE,
                                           ext |-> e]
           \/ /\ ~Preserved(doc) /\ ~doc.removal /\ ledger[doc.tx] # Absent
              /\ ledger[doc.tx].money = doc.money /\ ledger[doc.tx].ext = e
              /\ Booked(doc, e)[doc.tx] = ledger[doc.tx]
           \/ /\ ~Preserved(doc) /\ ~doc.removal /\ ledger[doc.tx] # Absent
              /\ Booked(doc, e)[doc.tx] = [ledger[doc.tx] EXCEPT !.money = doc.money, !.ext = e,
                                                                 !.alive = TRUE]
<1> DEFINE t == doc.tx
<1>1. ledger \in [Tx -> Transaction \cup {Absent}] /\ t \in Tx
  BY DEF StoredTypes, Ledgers
<1>2. CASE Preserved(doc)  BY <1>2 DEF Booked
<1>3. CASE ~Preserved(doc) /\ doc.removal /\ ~Alive(t)  BY <1>3 DEF Booked
<1>4. CASE ~Preserved(doc) /\ doc.removal /\ Alive(t)
  <2>1. Booked(doc, e) = [ledger EXCEPT ![t].alive = FALSE]  BY <1>4 DEF Booked
  <2> QED  BY <1>1, <1>4, <2>1
<1>5. CASE ~Preserved(doc) /\ ~doc.removal /\ ledger[t] = Absent
  BY <1>1, <1>5 DEF Booked
<1>6. CASE ~Preserved(doc) /\ ~doc.removal /\ ledger[t] # Absent
  <2>1. CASE ledger[t].money = doc.money /\ ledger[t].ext = e
    BY <1>6, <2>1 DEF Booked
  <2>2. CASE ~(ledger[t].money = doc.money /\ ledger[t].ext = e)
    <3> DEFINE row == [ledger[t] EXCEPT !.money = doc.money, !.ext = e, !.alive = TRUE]
    <3>1. Booked(doc, e) = [ledger EXCEPT ![t].money = doc.money, ![t].ext = e, ![t].alive = TRUE]
      BY <1>6, <2>2 DEF Booked
    <3>2. [ledger EXCEPT ![t].money = doc.money, ![t].ext = e, ![t].alive = TRUE][t] = row
      BY <1>1, <1>6 DEF Transaction
    <3> QED  BY <1>6, <3>1, <3>2
  <2> QED  BY <2>1, <2>2
<1> QED  BY <1>2, <1>3, <1>4, <1>5, <1>6

\* What is marked says what was booked.
LEMMA MarkedSays ==
    ASSUME NEW doc \in Identity
    PROVE  /\ Marked(doc).money = doc.money /\ Marked(doc).removal = doc.removal
           /\ Marked(doc).tx = doc.tx /\ Consistent(Marked(doc)) /\ Marked(doc).state # "intent"
           /\ Marked(doc).state = "applied" => ~doc.removal
           /\ Marked(doc).state = "removed" => doc.removal
  BY DEF Marked, Identity, Consistent

\* BookTransaction brings the transaction to what the identity says, unless
\* the entry is gone for good.
LEMMA BookTransactionFollows == Inv /\ Follow /\ BookTransaction => Follow'
<1> SUFFICES ASSUME Inv, Follow, BookTransaction PROVE Follow'
  OBVIOUS
<1>1. /\ UNCHANGED <<feed, item, identity, claim, edits>> /\ run # Idle
      /\ run.step = "book" /\ ledger' = Booked(run.doc, run.entry) /\ Working
      /\ run' = [run EXCEPT !.step = "mark", !.doc = Marked(run.doc)]
  BY DEF BookTransaction, At, Working, bounds, stored
<1> PICK e \in Entry : e = run.entry  BY <1>1, WritingIs
<1> PICK doc \in Identity : doc = run.doc  BY <1>1, WritingIs
<1> PICK t \in Tx : t = run.doc.tx  BY <1>1, WritingIs
<1> PICK new : new = Marked(doc)  OBVIOUS
<1>2. /\ identity[e] = doc /\ claim[t] = e /\ doc # Absent /\ t # Absent /\ doc.tx = t
      /\ doc.state = "intent"
  BY <1>1, Sentinel DEF Inv, RunOK
<1>3. /\ new.money = doc.money /\ new.removal = doc.removal /\ new.tx = t /\ Consistent(new)
      /\ new.state # "intent"
      /\ new.state = "applied" => ~doc.removal
      /\ new.state = "removed" => doc.removal
  BY MarkedSays
<1>4. /\ run' # Idle /\ run'.step = "mark" /\ run'.entry = e /\ run'.doc = new
      /\ run'.work = run.work /\ run'.page = run.page
  BY <1>1, WritingIs DEF Runs, Idle
<1>5. Position' = Position  BY <1>1, <1>4 DEF Position
<1>6. LogOrder' /\ WorkFollows'
  BY <1>1, <1>4, <1>5 DEF Follow, LogOrder, WorkFollows
<1>7. \A f \in Entry : Latest(f) = identity[f] /\ Latest(f)' = identity[f]
  BY <1>1, <1>4 DEF Latest, Writing
<1>8. Progress'  BY <1>1, <1>5, <1>7, ProgressKept DEF Follow, Progress
<1>9. Documents'  BY <1>1, <1>2, <1>3, <1>4 DEF Follow, Documents, Working
<1>10. ASSUME edits = 0
       PROVE  /\ \A u \in Tx : RowOK(u)'
              /\ \A f \in Entry : identity'[f] # Absent => Shown(f, identity[f])'
              /\ Shown(run.entry, run.doc)'
  <2>1. /\ \A u \in Tx : RowOK(u)
        /\ \A f \in Entry : identity[f] # Absent => Shown(f, identity[f])
    BY <1>10 DEF Follow, Books
  <2>2. \A u \in Tx : u # t => ledger'[u] = ledger[u]
    BY <1>1, BookedIs DEF Inv
  <2> PICK tx : tx = ledger[t]  OBVIOUS
  <2> PICK booked : booked = ledger'[t]  OBVIOUS
  <2>3. /\ tx # Absent => tx \in Transaction /\ ~tx.split /\ tx.ext \in {Absent, e}
        /\ tx # Absent /\ ~tx.alive => Gone(e)
    BY <1>2, <2>1 DEF RowOK, Inv, StoredTypes, Ledgers
  <2>4. tx # Absent /\ tx.alive /\ doc.previous # Absent => tx.money \in {doc.previous, doc.money}
    BY <1>2, <2>1 DEF Shown, Alive
  <2>5. tx # Absent /\ tx.alive => ~Preserved(doc)
    BY <1>2, <2>3, <2>4 DEF Preserved
  <2>6. doc.removal => Gone(e)
    <3>1. Reached(e, doc, item.cursor)  BY <1>2 DEF Follow, Progress
    <3> QED  BY <1>2, <3>1, RemovalIsGone
  <2>7. \/ Preserved(doc) /\ booked = tx
        \/ doc.removal /\ ~Alive(t) /\ booked = tx
        \/ doc.removal /\ Alive(t) /\ booked = [tx EXCEPT !.alive = FALSE]
        \/ ~doc.removal /\ booked = [money |-> doc.money, alive |-> TRUE, split |-> FALSE, ext |-> e]
        \/ /\ ~doc.removal /\ tx # Absent /\ tx.money = doc.money /\ tx.ext = e /\ booked = tx
        \/ /\ ~doc.removal /\ tx # Absent
           /\ booked = [tx EXCEPT !.money = doc.money, !.ext = e, !.alive = TRUE]
    <3>1. booked = Booked(doc, e)[doc.tx] /\ tx = ledger[doc.tx] /\ doc.tx \in Tx /\ StoredTypes
      BY <1>1, <1>2 DEF Inv
    <3> DEFINE row == Booked(doc, e)[doc.tx]
    <3>2. \/ Preserved(doc) /\ row = ledger[doc.tx]
          \/ doc.removal /\ ~Alive(doc.tx) /\ row = ledger[doc.tx]
          \/ doc.removal /\ Alive(doc.tx) /\ row = [ledger[doc.tx] EXCEPT !.alive = FALSE]
          \/ ~doc.removal /\ row = [money |-> doc.money, alive |-> TRUE, split |-> FALSE, ext |-> e]
          \/ /\ ~doc.removal /\ ledger[doc.tx] # Absent /\ ledger[doc.tx].money = doc.money
             /\ ledger[doc.tx].ext = e /\ row = ledger[doc.tx]
          \/ /\ ~doc.removal /\ ledger[doc.tx] # Absent
             /\ row = [ledger[doc.tx] EXCEPT !.money = doc.money, !.ext = e, !.alive = TRUE]
      BY <3>1, BookedRow
    <3> HIDE DEF row
    <3> QED  BY <1>2, <3>1, <3>2 DEF row
  <2>8. Preserved(doc) => tx # Absent /\ ~tx.alive
    BY <1>2, <2>5 DEF Preserved
  <2>9. /\ booked # Absent /\ booked.alive /\ doc.previous # Absent
              => booked.money \in {doc.previous, doc.money}
        /\ ~doc.removal => /\ booked # Absent
                           /\ booked.alive => booked.money = doc.money /\ booked.ext = e
        /\ doc.removal => booked = Absent \/ ~booked.alive
        /\ booked # Absent => /\ ~booked.split /\ booked.ext \in {Absent, e}
                              /\ ~booked.alive => Gone(e)
    <3>1. Alive(t) <=> tx # Absent /\ tx.alive  BY DEF Alive
    <3>2. CASE Preserved(doc) /\ booked = tx  BY <2>3, <2>8, <3>2
    <3>3. CASE doc.removal /\ ~Alive(t) /\ booked = tx  BY <2>3, <3>1, <3>3
    <3>4. CASE doc.removal /\ Alive(t) /\ booked = [tx EXCEPT !.alive = FALSE]
      <4>1. ~booked.alive /\ booked.split = tx.split /\ booked.ext = tx.ext /\ tx # Absent
        BY <2>3, <3>1, <3>4 DEF Transaction
      <4> QED  BY <2>3, <2>6, <3>4, <4>1
    <3>5. CASE ~doc.removal /\ booked = [money |-> doc.money, alive |-> TRUE, split |-> FALSE, ext |-> e]
      <4>1. booked \in Transaction  BY <3>5, MoneyType DEF Transaction, Identity
      <4>2. booked # Absent  BY <4>1, Sentinel
      <4>3. booked = [money |-> doc.money, alive |-> TRUE, split |-> FALSE, ext |-> e]
        BY <3>5
      <4>4. booked.money = doc.money /\ booked.ext = e /\ booked.split = FALSE /\ booked.alive = TRUE
        BY <4>3
      <4> QED  BY <3>5, <4>2, <4>4
    <3>6. CASE ~doc.removal /\ tx # Absent /\ tx.money = doc.money /\ tx.ext = e /\ booked = tx
      BY <2>3, <3>6
    <3>7. CASE /\ ~doc.removal /\ tx # Absent
               /\ booked = [tx EXCEPT !.money = doc.money, !.ext = e, !.alive = TRUE]
      <4>1. booked \in Transaction  BY <2>3, <3>7, MoneyType DEF Transaction, Identity
      <4>2. /\ booked.money = doc.money /\ booked.ext = e /\ booked.split = tx.split /\ booked.alive
            /\ booked # Absent
        BY <2>3, <3>7, <4>1, Sentinel DEF Transaction
      <4> QED  BY <2>3, <3>7, <4>2
    <3> QED  BY <2>7, <3>2, <3>3, <3>4, <3>5, <3>6, <3>7
  <2>11. ASSUME NEW u \in Tx PROVE RowOK(u)'
    <3>1. CASE u # t  BY <1>1, <2>1, <2>2, <3>1 DEF RowOK, Gone, First
    <3>2. CASE u = t  BY <1>1, <1>2, <2>9, <3>2 DEF RowOK, Gone
    <3> QED  BY <3>1, <3>2
  <2>12. ASSUME NEW f \in Entry, identity'[f] # Absent PROVE Shown(f, identity[f])'
    <3> PICK d \in Identity : d = identity[f]  BY <1>1, <2>12 DEF Inv, StoredTypes
    <3>1. Shown(f, d) /\ IdentityOK(f) /\ d # Absent
      BY <1>1, <2>1, <2>12, Sentinel DEF Inv, Identities
    <3>2. CASE f = e
      <4>1. Shown(e, doc)'  BY <1>1, <1>2, <2>9 DEF Shown, Alive
      <4> QED  BY <1>1, <1>2, <3>2, <4>1 DEF Shown, Alive
    <3>3. CASE f # e
      <4>1. \/ d.tx # t
            \/ /\ d.state \notin {"applied", "removed"} /\ claim[d.tx] \notin {Absent, f}
        BY <1>2, <3>1, <3>3, Sentinel DEF IdentityOK
      <4>2. d.tx # Absent => d.tx \in Tx
        BY <3>1 DEF IdentityOK, Own, Tx
      <4>3. d.state \in {"intent", "applied"} => d.tx # Absent  BY <3>1 DEF IdentityOK
      <4>4. CASE d.tx # t
        <5>1. d.tx # Absent => ledger'[d.tx] = ledger[d.tx]  BY <2>2, <4>2, <4>4
        <5>2. Shown(f, d)'  BY <1>1, <3>1, <4>3, <5>1 DEF Shown, Alive
        <5> QED  BY <1>1, <5>2 DEF Shown, Alive
      <4>5. CASE d.state \notin {"applied", "removed"} /\ claim[d.tx] \notin {Absent, f}
        BY <1>1, <4>5 DEF Shown, Alive
      <4> QED  BY <4>1, <4>4, <4>5
    <3> QED  BY <3>2, <3>3
  <2>13. Shown(run.entry, run.doc)'
    <3>1. Shown(e, new)'  BY <1>1, <1>3, <2>9 DEF Shown, Alive
    <3> QED  BY <1>4, <3>1 DEF Shown, Alive
  <2> QED  BY <2>11, <2>12, <2>13
<1>11. Books'  BY <1>1, <1>10 DEF Books
<1> QED  BY <1>6, <1>8, <1>9, <1>11 DEF Follow

\* MarkIdentity records that what the identity says is booked.
LEMMA MarkIdentityFollows == Inv /\ Follow /\ MarkIdentity => Follow'
<1> SUFFICES ASSUME Inv, Follow, MarkIdentity PROVE Follow'
  OBVIOUS
<1>1. /\ UNCHANGED <<feed, item, claim, ledger, edits>> /\ run # Idle /\ run.step = "mark"
      /\ identity' = [identity EXCEPT ![run.entry] = run.doc] /\ Working
      /\ run' = IF run.op = "sync" THEN [run EXCEPT !.step = "task"] ELSE Idle
  BY DEF MarkIdentity, At, Put, Working, bounds
<1> PICK e \in Entry : e = run.entry  BY <1>1, WritingIs
<1> PICK doc \in Identity : doc = run.doc  BY <1>1, WritingIs
<1>2. identity'[e] = doc /\ \A f \in Entry : f # e => identity'[f] = identity[f]
  BY <1>1 DEF Inv, StoredTypes
<1>3. /\ identity[e] # Absent /\ doc # Absent /\ doc.tx = identity[e].tx
      /\ doc.money = identity[e].money /\ doc.removal = identity[e].removal
      /\ Consistent(doc)
  BY <1>1, WritingIs DEF Inv, RunOK, Follow, Documents
<1>4. \/ run' = Idle
      \/ /\ run' # Idle /\ run'.step = "task" /\ run'.work = run.work /\ run'.page = run.page
  BY <1>1, WritingIs DEF Runs, Idle
<1>5. ~Working'  BY <1>4 DEF Working
<1>6. /\ Position \in Nat /\ item.cursor \in Nat /\ item.cursor <= Position
      /\ Position' \in {Position, item.cursor}
  BY <1>1, <1>4, PositionIs DEF Follow, Position
<1>7. LogOrder' /\ WorkFollows'
  <2>1. CASE run' = Idle
    <3>1. Position' = item'.cursor  BY <2>1, IdlePosition
    <3> QED  BY <1>1, <1>6, <2>1, <3>1 DEF Follow, LogOrder, WorkFollows
  <2>2. CASE /\ run' # Idle /\ run'.step = "task" /\ run'.work = run.work /\ run'.page = run.page
    <3>1. Position' = Position  BY <1>1, <2>2 DEF Position
    <3> QED  BY <1>1, <2>2, <3>1 DEF Follow, LogOrder, WorkFollows
  <2> QED  BY <1>4, <2>1, <2>2
<1>8. Progress'
  <2> SUFFICES ASSUME NEW f \in Entry
               PROVE  Reached(f, identity'[f], item'.cursor) /\ Reached(f, Latest(f)', Position')
    BY <1>1, ProgressKept
  <2>1. Latest(f)' = identity'[f] /\ Latest(f) = identity[f]
    BY <1>1, <1>5 DEF Latest, Writing, Working
  <2>2. Reached(f, identity[f], item.cursor) /\ Reached(f, identity[f], Position)
    BY <2>1 DEF Follow, Progress
  <2>3. Reached(f, identity'[f], item.cursor) /\ Reached(f, identity'[f], Position)
    <3>1. CASE f = e
      <4>1. Reached(e, doc, item.cursor)  BY <1>3, <2>2, <3>1, ReachedSame
      <4>2. Reached(e, doc, Position)  BY <1>3, <2>2, <3>1, ReachedSame
      <4> QED  BY <1>2, <3>1, <4>1, <4>2
    <3>2. CASE f # e  BY <1>2, <2>2, <3>2
    <3> QED  BY <3>1, <3>2
  <2> QED  BY <1>1, <1>6, <2>1, <2>3
<1>9. Documents'  BY <1>2, <1>3, <1>5 DEF Follow, Documents
<1>10. Books'
  <2> SUFFICES ASSUME edits' = 0
               PROVE  /\ \A t \in Tx : RowOK(t)'
                      /\ \A f \in Entry : identity'[f] # Absent => Shown(f, identity[f])'
    BY <1>5 DEF Books
  <2>1. /\ \A t \in Tx : RowOK(t)
        /\ \A f \in Entry : identity[f] # Absent => Shown(f, identity[f])
        /\ Shown(e, doc)
    BY <1>1 DEF Follow, Books
  <2>2. \A f \in Entry : identity[f] # Absent => identity'[f] # Absent /\ identity'[f].tx = identity[f].tx
    BY <1>2, <1>3
  <2>3. ASSUME NEW t \in Tx PROVE RowOK(t)'
    <3>1. RowOK(t)  BY <2>1
    <3> QED  BY <1>1, <2>2, <3>1 DEF RowOK, Gone, First
  <2>4. ASSUME NEW f \in Entry, identity'[f] # Absent PROVE Shown(f, identity[f])'
    <3>1. CASE f = e  BY <1>1, <1>2, <2>1, <3>1 DEF Shown, Alive
    <3>2. CASE f # e  BY <1>1, <1>2, <2>1, <2>4, <3>2 DEF Shown, Alive
    <3> QED  BY <3>1, <3>2
  <2> QED  BY <2>3, <2>4
<1> QED  BY <1>7, <1>8, <1>9, <1>10 DEF Follow

\* Resolve: what a member decides says the same of the entry.
LEMMA ResolveFollows ==
    ASSUME Inv, Follow, NEW e \in Entry, NEW t \in Imported \cup {Absent}, Resolve(e, t)
    PROVE  Follow'
<1> DEFINE chosen == IF t = Absent THEN Fallback(e) ELSE t
           previous == IF t = Absent THEN Absent ELSE ledger[t].money
<1>1. /\ UNCHANGED <<feed, item, identity, ledger, edits>> /\ run = Idle
      /\ identity[e] # Absent /\ identity[e].state = "review"
      /\ claim[chosen] \in {Absent, e} /\ claim' = [claim EXCEPT ![chosen] = e]
      /\ run' = Invocation("resolve", <<>>, "write", e,
                     [identity[e] EXCEPT !.tx = chosen, !.state = "intent", !.previous = previous])
  BY DEF Resolve, bounds
<1> PICK doc \in Identity : doc = identity[e]  BY <1>1 DEF Inv, StoredTypes
<1>2. chosen \in Tx  BY DEF Tx
<1> PICK new : new = [doc EXCEPT !.tx = chosen, !.state = "intent", !.previous = previous]
  OBVIOUS
<1>3. /\ new.money = doc.money /\ new.removal = doc.removal /\ new.tx = chosen
      /\ new.state = "intent" /\ new.previous = previous /\ doc.tx = Absent
  BY <1>1 DEF Identity, Inv, Identities, IdentityOK
<1>4. new \in Identity
  <2>1. previous \in Money \cup {Absent}
    BY DEF Resolve, Alive, Inv, StoredTypes, Ledgers, Transaction, Tx
  <2> HIDE DEF previous, chosen
  <2> QED  BY <1>2, <2>1 DEF Identity
<1>5. /\ run' # Idle /\ run'.step = "write" /\ run'.entry = e /\ run'.doc = new
      /\ run'.work = <<>> /\ run'.page = Absent
  BY <1>1 DEF Invocation, Idle
<1>6. Position' = item.cursor /\ Position = item.cursor  BY <1>1, <1>5 DEF Position
<1>7. LogOrder' /\ WorkFollows'
  BY <1>1, <1>5, <1>6 DEF Follow, LogOrder, WorkFollows
<1>8. Progress'
  <2> SUFFICES ASSUME NEW f \in Entry
               PROVE  Reached(f, identity'[f], item'.cursor) /\ Reached(f, Latest(f)', Position')
    BY <1>1, ProgressKept
  <2>1. Reached(f, identity[f], item.cursor)  BY DEF Follow, Progress
  <2>2. CASE f = e
    <3>1. Latest(f)' = new /\ new # Absent /\ doc # Absent
      BY <1>4, <1>5, <2>2, Sentinel DEF Latest, Writing
    <3>2. Reached(e, new, item.cursor)  BY <1>3, <2>1, <2>2, <3>1, ReachedSame
    <3> QED  BY <1>1, <1>6, <2>1, <2>2, <3>1, <3>2
  <2>3. CASE f # e
    <3>1. Latest(f)' = identity[f]  BY <1>1, <1>5, <2>3 DEF Latest, Writing
    <3> QED  BY <1>1, <1>6, <2>1, <3>1
  <2> QED  BY <2>2, <2>3
<1>9. Documents'
  <2>1. Consistent(new) /\ ~Settled(e)'  BY <1>1, <1>3 DEF Consistent, Settled
  <2> QED  BY <1>1, <1>5, <2>1 DEF Follow, Documents, Working
<1> HIDE DEF chosen
<1>10. ASSUME edits = 0
       PROVE  /\ \A u \in Tx : RowOK(u)'
              /\ \A f \in Entry : identity'[f] # Absent => Shown(f, identity[f])'
  BY <1>1, <1>2, <1>10, ClaimShows
<1>11. Shown(run.entry, run.doc)'
  <2>1. new.previous # Absent => new.previous = ledger[new.tx].money
    BY <1>3 DEF chosen
  <2> QED  BY <1>1, <1>3, <1>5, <2>1 DEF Shown
<1>12. Books'  BY <1>1, <1>10, <1>11 DEF Books
<1> QED  BY <1>7, <1>8, <1>9, <1>12 DEF Follow

\* A step that leaves all documents and where the sync stands changes nothing.
LEMMA ElsewhereFollows == Inv /\ Follow /\ (Disconnect \/ NextDay \/ UNCHANGED vars) => Follow'
<1> SUFFICES ASSUME Inv, Follow, Disconnect \/ NextDay \/ UNCHANGED vars PROVE Follow'
  OBVIOUS
<1>1. UNCHANGED <<feed, identity, claim, ledger, run, edits>>
  BY DEF Disconnect, NextDay, vars, stored, bounds
<1>2. item'.cursor = item.cursor /\ item'.start = item.start
  BY DEF Disconnect, NextDay, vars, Inv, ItemOK
<1> QED  BY <1>1, <1>2, SameFollow

-----------------------------------------------------------------------------
(* The books follow the bank *)

\* At the start of the link, the log posts each entry in review once.
LEMMA InitFollows == Init => Follow
<1> SUFFICES ASSUME Init PROVE Follow
  OBVIOUS
<1> PICK n : n = Cardinality(Reviewed)  OBVIOUS
<1> PICK s : s = SetToSeq(Reviewed)  OBVIOUS
<1>1. IsFiniteSet(Reviewed) /\ n \in Nat
  BY EntryAssumption, FS_Subset, FS_CardinalityType
<1>2. /\ s \in [1..n -> Reviewed] /\ \A i, k \in 1..n : s[i] = s[k] => i = k
      /\ \A e \in Reviewed : \E i \in 1..n : s[i] = e
  BY <1>1, Listing
<1>3. feed = [i \in 1..n |-> Post(s[i], FirstMoney)]  BY DEF Init
<1>4. Len(feed) = n /\ \A i \in 1..n : feed[i] = Post(s[i], FirstMoney)
  <2>1. feed \in Seq({Post(s[i], FirstMoney) : i \in 1..n})  BY <1>1, <1>3
  <2> QED  BY <1>1, <1>3, <2>1
<1>5. \A i \in 1..n : feed[i].entry = s[i] /\ feed[i].kind = "posted" /\ feed[i].money = FirstMoney
  BY <1>4 DEF Post
<1>6. /\ item.cursor = FirstCursor /\ item.start = 0 /\ run = Idle
      /\ FirstCursor \in Nat /\ FirstCursor <= n
  BY <1>1, EntryAssumption DEF Init
<1>7. Position = FirstCursor  BY <1>6 DEF Position
<1>8. LogOrder  BY <1>4, <1>5 DEF LogOrder
<1>9. WorkFollows  BY <1>6, <1>7 DEF WorkFollows
<1>10. ~Working /\ \A e \in Entry : Latest(e) = identity[e]  BY <1>6 DEF Working, Latest, Writing
<1>11. ASSUME NEW e \in Entry PROVE Reached(e, identity[e], FirstCursor)
  <2>1. CASE e \in Reviewed
    <3> PICK doc : doc = Review(FirstMoney)  OBVIOUS
    <3>1. identity[e] = doc /\ doc # Absent /\ doc.money = FirstMoney /\ doc.removal = FALSE
      <4>1. Review(FirstMoney) \in Identity  BY MoneyAssumption DEF Review, Identity
      <4> QED  BY <2>1, <4>1, Sentinel DEF Init, Review
    <3>2. PICK i \in 1..n : s[i] = e  BY <1>2, <2>1
    <3>3. \A k \in (i + 1)..FirstCursor : feed[k].entry # e
      <4> TAKE k \in (i + 1)..FirstCursor
      <4>1. k \in 1..n /\ k # i  BY <1>1, <1>6, <3>2
      <4> QED  BY <1>2, <1>5, <3>2, <4>1
    <3>4. Tells(doc, feed[i])  BY <1>5, <3>1 DEF Tells
    <3> QED  BY <1>4, <1>5, <3>1, <3>2, <3>3, <3>4 DEF Reached
  <2>2. CASE e \notin Reviewed
    <3>1. identity[e] = Absent  BY <2>2 DEF Init
    <3>2. \A k \in 1..FirstCursor : feed[k].entry # e
      <4> TAKE k \in 1..FirstCursor
      <4>1. k \in 1..n  BY <1>1, <1>6
      <4> QED  BY <1>2, <1>5, <2>2, <4>1
    <3> QED  BY <3>1, <3>2 DEF Reached
  <2> QED  BY <2>1, <2>2
<1>12. Progress  BY <1>6, <1>7, <1>10, <1>11 DEF Progress
<1>13. \A e \in Entry : identity[e] # Absent => identity[e] = Review(FirstMoney)
  BY DEF Init
<1>14. Documents  BY <1>10, <1>13 DEF Documents, Consistent, Review
<1>15. \A t \in Tx : RowOK(t)
  <2> SUFFICES ASSUME NEW t \in Tx PROVE RowOK(t)
    OBVIOUS
  <2>1. ledger[t] = First(t)  BY DEF Init, First
  <2>2. ledger[t] # Absent => ledger[t].split = FALSE /\ ledger[t].ext = Absent /\ ledger[t].alive = TRUE
    BY <2>1 DEF First
  <2> QED  BY <2>1, <2>2 DEF RowOK
<1>16. \A e \in Entry : identity[e] # Absent => Shown(e, identity[e])
  BY <1>13 DEF Shown, Review
<1>17. Books  BY <1>10, <1>15, <1>16 DEF Books
<1> QED  BY <1>8, <1>9, <1>12, <1>14, <1>17 DEF Follow

\* Every step of the bank, the members and the function keeps what the
\* identities and the books owe the log.
LEMMA NextFollows == Inv /\ Follow /\ [Next]_vars => Follow'
<1> SUFFICES ASSUME Inv, Follow, [Next]_vars PROVE Follow'
  OBVIOUS
<1>1. CASE BeginSync  BY <1>1, BeginSyncFollows
<1>2. CASE FetchPage  BY <1>2, FetchPageFollows
<1>3. CASE FetchRefused  BY <1>3, FetchRefusedFollows
<1>4. CASE SaveCursor  BY <1>4, SaveCursorFollows
<1>5. CASE Finish  BY <1>5, FinishFollows
<1>6. CASE Redo  BY <1>6, RedoFollows
<1>7. CASE Ingest  BY <1>7, IngestFollows
<1>8. CASE Withdraw  BY <1>8, WithdrawFollows
<1>9. CASE WriteIdentity  BY <1>9, WriteIdentityFollows
<1>10. CASE ClaimTransaction  BY <1>10, ClaimTransactionFollows
<1>11. CASE BookTransaction  BY <1>11, BookTransactionFollows
<1>12. CASE MarkIdentity  BY <1>12, MarkIdentityFollows
<1>13. CASE Disconnect \/ NextDay \/ UNCHANGED vars  BY <1>13, ElsewhereFollows
<1>14. CASE Stop  BY <1>14, StopFollows
<1>15. ASSUME NEW e \in Entry, Report(e) PROVE Follow'
  BY <1>15, ReportFollows
<1>16. ASSUME NEW e \in Entry, NEW t \in Imported \cup {Absent}, Resolve(e, t) PROVE Follow'
  BY <1>16, ResolveFollows
<1>17. ASSUME NEW t \in Tx, Edit(t) PROVE Follow'
  BY <1>17, EditFollows
<1> QED
  BY <1>1, <1>2, <1>3, <1>4, <1>5, <1>6, <1>7, <1>8, <1>9, <1>10, <1>11, <1>12, <1>13, <1>14,
     <1>15, <1>16, <1>17 DEF Next, Step

\* Whatever stops, is read again or is refused, every identity reflects its
\* entry's events up to the cursor, and the books what the identities say.
THEOREM LogIsFollowed == Spec => []Follow
<1> QED  BY InitFollows, NextFollows, Invariance, PTL DEF Spec

\* When a sync has caught up, an entry without an identity was never posted,
\* and an identity says what the last event of its entry says.
LEMMA CaughtUpTells ==
    ASSUME Inv, Follow, CaughtUp, NEW e \in Entry
    PROVE  IF identity[e] = Absent THEN LastKind(e) # "posted"
           ELSE \E i \in 1..Len(feed) :
                   /\ feed[i].entry = e /\ \A k \in (i + 1)..Len(feed) : feed[k].entry # e
                   /\ Tells(identity[e], feed[i]) /\ LastKind(e) = feed[i].kind
<1> PICK n \in Nat : n = Len(feed)  BY DEF Inv
<1>1. Reached(e, identity[e], n)  BY DEF CaughtUp, Follow, Progress
<1>2. CASE identity[e] = Absent
  <2>1. \A k \in 1..Len(feed) : feed[k].entry = e => feed[k].kind # "posted"
    BY <1>1, <1>2 DEF Reached
  <2>2. CASE \A k \in 1..Len(feed) : feed[k].entry # e
    <3>1. {i \in 1..Len(feed) : feed[i].entry = e} = {}  BY <2>2
    <3> QED  BY <1>2, <3>1 DEF LastKind
  <2>3. CASE \E k \in 1..Len(feed) : feed[k].entry = e
    <3>1. PICK k \in 1..Len(feed) : feed[k].entry = e  BY <2>3
    <3> QED  BY <1>2, <2>1, <3>1, GoneIsLast DEF Follow
  <2> QED  BY <2>2, <2>3
<1>3. CASE identity[e] # Absent
  <2>1. PICK i \in 1..Len(feed) : /\ feed[i].entry = e /\ Tells(identity[e], feed[i])
                                 /\ \A k \in (i + 1)..n : feed[k].entry # e
    BY <1>1, <1>3 DEF Reached
  <2>2. LastKind(e) = feed[i].kind  BY <2>1, LastIs
  <2> QED  BY <1>3, <2>1, <2>2
<1> QED  BY <1>2, <1>3

\* A transaction in the books under entry e is the one its identity names.
LEMMA MineIsNamed ==
    ASSUME Inv, Follow, edits = 0, NEW e \in Entry, NEW t \in Tx, Alive(t), ledger[t].ext = e
    PROVE  claim[t] = e /\ identity[e] # Absent /\ identity[e].tx = t
<1>1. RowOK(t)  BY DEF Follow, Books
<1>2. ledger[t] # Absent /\ e # Absent  BY Sentinel DEF Alive
<1>3. claim[t] = e  BY <1>1, <1>2 DEF RowOK
<1>4. ledger[t] # First(t)  BY <1>2 DEF First
<1> QED  BY <1>1, <1>3, <1>4 DEF RowOK

\* A gone entry's last event is no posting.
LEMMA GoneIsNotPosted ==
    ASSUME Inv, Follow, NEW e, Gone(e)
    PROVE  LastKind(e) # "posted"
<1>1. PICK k \in 1..Len(feed) : feed[k].entry = e /\ feed[k].kind # "posted"  BY DEF Gone
<1> QED  BY <1>1, GoneIsLast DEF Follow

\* When a sync has caught up and members have left the books alone, they show
\* exactly what the bank reports, and an imported transaction that no entry
\* claimed is as it was.
THEOREM BooksFollowTheBank == Spec => []LedgerFollowsBank
<1>1. Inv /\ Follow => LedgerFollowsBank
  <2> SUFFICES ASSUME Inv, Follow, CaughtUp PROVE LedgerFollowsBank
    BY DEF LedgerFollowsBank
  <2>1. /\ edits = 0 /\ \A t \in Tx : RowOK(t)
        /\ \A f \in Entry : identity[f] # Absent =>
              /\ identity[f].state \in {"applied", "removed"}
              /\ Shown(f, identity[f]) /\ Consistent(identity[f]) /\ IdentityOK(f)
    BY DEF CaughtUp, Follow, Books, Documents, Inv, Identities
  <2>2. ASSUME NEW e \in Entry, LastKind(e) = "posted"
        PROVE  \E t \in Tx : /\ {u \in Tx : Alive(u) /\ ledger[u].ext = e} = {t}
                             /\ \E i \in 1..Len(feed) :
                                   /\ feed[i].entry = e
                                   /\ \A k \in (i + 1)..Len(feed) : feed[k].entry # e
                                   /\ ledger[t].money = feed[i].money
    <3>1. identity[e] # Absent  BY <2>2, CaughtUpTells
    <3>2. PICK i \in 1..Len(feed) :
             /\ feed[i].entry = e /\ \A k \in (i + 1)..Len(feed) : feed[k].entry # e
             /\ Tells(identity[e], feed[i]) /\ feed[i].kind = "posted"
      BY <2>2, <3>1, CaughtUpTells
    <3> PICK doc \in Identity : doc = identity[e]  BY <3>1 DEF Inv, StoredTypes
    <3>3. doc.money = feed[i].money /\ ~doc.removal  BY <3>2 DEF Tells
    <3>4. doc.state = "applied"  BY <2>1, <3>1, <3>3 DEF Consistent
    <3>5. doc.tx \in Tx /\ claim[doc.tx] = e
      BY <2>1, <3>1, <3>4 DEF IdentityOK, Own, Tx
    <3>6. ledger[doc.tx] # Absent  BY <2>1, <3>1, <3>4 DEF Shown
    <3>7. Alive(doc.tx)
      <4>1. ~Gone(e)  BY <2>2, GoneIsNotPosted
      <4> QED  BY <2>1, <3>5, <3>6, <4>1 DEF RowOK, Alive
    <3>8. ledger[doc.tx].money = doc.money /\ ledger[doc.tx].ext = e
      BY <2>1, <3>1, <3>4, <3>7 DEF Shown
    <3>9. {u \in Tx : Alive(u) /\ ledger[u].ext = e} = {doc.tx}
      BY <2>1, <3>5, <3>7, <3>8, MineIsNamed
    <3> QED  BY <3>2, <3>3, <3>5, <3>8, <3>9
  <2>3. ASSUME NEW e \in Entry, LastKind(e) # "posted", NEW t \in Tx, Alive(t), ledger[t].ext = e
        PROVE  FALSE
    <3>1. identity[e] # Absent /\ identity[e].tx = t  BY <2>1, <2>3, MineIsNamed
    <3> PICK doc \in Identity : doc = identity[e]  BY <3>1 DEF Inv, StoredTypes
    <3>2. doc.removal  BY <2>3, <3>1, CaughtUpTells DEF Tells
    <3>3. doc.state = "removed"  BY <2>1, <3>1, <3>2 DEF Consistent
    <3> QED  BY <2>1, <2>3, <3>1, <3>3, Sentinel DEF Shown
  <2>4. ASSUME NEW e \in Entry, LastKind(e) = "posted"
        PROVE  LET mine == {t \in Tx : Alive(t) /\ ledger[t].ext = e}
               IN  /\ Cardinality(mine) = 1
                   /\ \E i \in 1..Len(feed) :
                         /\ feed[i].entry = e
                         /\ \A j \in (i + 1)..Len(feed) : feed[j].entry # e
                         /\ \A t \in mine : ledger[t].money = feed[i].money
    <3> DEFINE mine == {u \in Tx : Alive(u) /\ ledger[u].ext = e}
    <3>1. PICK t \in Tx : /\ mine = {t}
                          /\ \E i \in 1..Len(feed) :
                                /\ feed[i].entry = e
                                /\ \A k \in (i + 1)..Len(feed) : feed[k].entry # e
                                /\ ledger[t].money = feed[i].money
      BY <2>2, <2>4
    <3>2. Cardinality(mine) = 1  BY <3>1, FS_Singleton
    <3> HIDE DEF mine
    <3>3. \E i \in 1..Len(feed) : /\ feed[i].entry = e
                                  /\ \A j \in (i + 1)..Len(feed) : feed[j].entry # e
                                  /\ \A u \in mine : ledger[u].money = feed[i].money
      BY <3>1
    <3> QED  BY <3>2, <3>3 DEF mine
  <2>5. ASSUME NEW t \in Imported, claim[t] = Absent PROVE ledger[t].money = History[t] /\ Alive(t)
    <3>1. t \in Tx /\ ledger[t] = First(t)  BY <2>1, <2>5, Sentinel DEF RowOK, Tx
    <3>2. ledger[t] # Absent  BY DEF Inv, LedgerOK
    <3> QED  BY <3>1, <3>2 DEF First, Alive
  <2> QED  BY <2>3, <2>4, <2>5 DEF LedgerFollowsBank
<1> QED  BY <1>1, Invariance, LogIsFollowed, PTL
=============================================================================
