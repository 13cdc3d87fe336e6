---------------------------- MODULE MonarchImport ----------------------------
(***************************************************************************)
(* MonarchImport (functions/institution-sync/monarch-import.ts): a sealed  *)
(* manifest of source rows becomes accounts and transactions, one bounded  *)
(* phase per invocation.  Every row leaves a durable intent before the     *)
(* ledger is written, so an invocation may stop between any two writes.    *)
(*                                                                         *)
(* The function is deployed with concurrency 1 (scripts/deploy-plaid.mjs): *)
(* invocations follow one another, and `run' is the one at work.  Members  *)
(* edit accounts and transactions from their browsers at any time.         *)
(*                                                                         *)
(* Covered: start to resume, the three phases of advance with their        *)
(* batches, account markers, provenance, occurrence numbers, source        *)
(* reviews.  Left out: the tags and categories of a row (documents with    *)
(* derived ids, created once), CSV parsing, and the performance counters.  *)
(***************************************************************************)
EXTENDS Integers, Sequences, FiniteSets, FiniteSetsExt, Functions

CONSTANTS
    Job,            \* import ids: one per manifest
    Accounts,       \* Job -> sequence of destination accounts
    Chunks,         \* Job -> sequence of chunks, each a sequence of rows
    Evidence,       \* Job -> account -> the balance shown by the export
    NoEvidence,     \* the export shows none
    Chosen,         \* accounts that existed and were picked in the preview
    ReplaceOpening, \* those whose opening balance the preview replaces
    NoSourceId,     \* rows of old exports carry no transaction id
    Absent,
    BatchRows,      \* IMPORT_BATCH_ROWS, 8 in the code
    MaxStops,       \* bound: invocations that stop between two writes
    MaxEdits        \* bound: changes members make

VARIABLES
    job,            \* job documents
    uploaded,       \* chunks stored so far
    seen,           \* validation records: source id -> content and position
    ordinal,        \* occurrence number given to a row without source id
    counter,        \* occurrences counted so far, per legacy key
    source,         \* provenance of a transaction: src_<transaction>
    tx,             \* the ledger
    account,        \* account documents
    marker,         \* account_<id>: which import owns the account
    review,         \* source reviews: <<job, transaction, content>> -> state
    run,            \* the invocation at work
    stops, edits

imports == <<job, uploaded, seen, ordinal, counter, source, marker, review>>
ledger == <<tx, account>>
bounds == <<stops, edits>>
vars == <<imports, ledger, run, bounds>>

-----------------------------------------------------------------------------
(* Rows and identities *)

Account == UNION {Range(Accounts[j]) : j \in Job}
Positions == [j \in Job |-> UNION {{c} \X (1..Len(Chunks[j][c])) : c \in 1..Len(Chunks[j])}]
Pos(j) == Positions[j]
Row(j, p) == Chunks[j][p[1]][p[2]]
Before(p, q) == p[1] < q[1] \/ (p[1] = q[1] /\ p[2] < q[2])
Sourced(j, p) == Row(j, p).id # NoSourceId

\* rowKey: rows with one key are worked in source order.
Keys == [j \in Job |-> [p \in Pos(j) |->
            LET r == Row(j, p) IN <<r.account, IF Sourced(j, p) THEN r.id ELSE r.key>>]]
RowKey(j, p) == Keys[j][p]
KeysOf(j) == Range(Keys[j])

\* txn_m_<digest>: the source id, or the legacy key and its occurrence number.
Identity(j, p) == Append(RowKey(j, p), IF Sourced(j, p) THEN 0 ELSE ordinal[j][p])
Transaction == UNION {{IF Sourced(j, p) THEN Append(RowKey(j, p), 0) ELSE Append(RowKey(j, p), n) :
                           p \in Pos(j), n \in 1..Cardinality(Pos(j))} : j \in Job}

\* What a row may say, and the documents that quote it: the validation record
\* of a source id and the provenance of a transaction.
ExportRow == UNION {{Row(j, p) : p \in Pos(j)} : j \in Job}
Content == {r.content : r \in ExportRow}
Position == UNION {Pos(j) : j \in Job}
Sighting == [content : Content, pos : Position]
Provenance == [content : Content, job : Job, pos : Position, state : {"intent", "complete"}]

ASSUME ChunkAssumption == BatchRows \in Nat /\ \A j \in Job : Chunks[j] \in Seq(Seq(ExportRow))
ASSUME SentinelAssumption == Absent \notin Sighting \cup Provenance

Sum(f(_), S) == MapThenSumSet(f, S)
Early(j, P) == LET Amount(p) == IF Row(j, p).early THEN Row(j, p).amount ELSE 0
               IN  Sum(Amount, P)

-----------------------------------------------------------------------------
(* Documents *)

Working == {"validating", "importing", "reconciling"}
Phase == Working \cup {"absent", "uploading", "needs-review", "complete", "cancelled"}
NewJob(j) ==
    [state |-> "absent", resume |-> "absent", chunk |-> 1, row |-> 0, created |-> 0,
     duplicates |-> 0, conflicts |-> 0, totals |-> [a \in Range(Accounts[j]) |-> 0]]

Idle == [op |-> "idle"]
\* An invocation: its copy of the job, the open batch and what it still has to
\* do for each row of it, the rows to count, the accounts it has ensured.
Advancing(j) == [op |-> job[j].state, job |-> j, doc |-> job[j], todo |-> <<>>,
                 batch |-> {}, counted |-> {}, ensured |-> {}, account |-> "open"]
Busy(op) == run.op = op
Chunk == Chunks[run.job][run.doc.chunk]
Todo == IF run.op \in Working THEN DOMAIN run.todo ELSE {}

\* A row starts when no earlier row of its batch with the same key is left.
Ready(p, stage) == /\ p \in Todo /\ run.todo[p] = stage
                   /\ \A q \in Todo : Before(q, p) => RowKey(run.job, q) # RowKey(run.job, p)
Move(p, stage) == [run EXCEPT !.todo[p] = stage]
Done(p) == [run EXCEPT !.todo = Restrict(@, Todo \ {p})]

\* An account: is it open, and of the type and currency the preview saw?
NewAccount(opening) == [opening |-> opening, rev |-> 1, open |-> TRUE, fits |-> TRUE]

Init ==
    /\ job = [j \in Job |-> NewJob(j)]
    /\ uploaded = [j \in Job |-> {}]
    /\ seen = [j \in Job |-> [k \in KeysOf(j) |-> Absent]]
    /\ ordinal = [j \in Job |-> [p \in Pos(j) |-> 0]]
    /\ counter = [j \in Job |-> [k \in KeysOf(j) |-> 0]]
    /\ source = [t \in Transaction |-> Absent]
    /\ tx = [t \in Transaction |-> "absent"]
    /\ account = [a \in Account |-> IF a \in Chosen THEN NewAccount(0) ELSE Absent]
    /\ marker = [a \in Account |-> Absent]
    /\ review = <<>>
    /\ run = Idle /\ stops = 0 /\ edits = 0

-----------------------------------------------------------------------------
(* Routes of one write: start, upload, seal, cancel, resume *)

Route(j, doc) == /\ run = Idle /\ job' = [job EXCEPT ![j] = doc]
                 /\ UNCHANGED <<uploaded, seen, ordinal, counter, source, marker, review,
                                ledger, run, bounds>>

Start(j) ==
    /\ job[j].state = "absent"
    /\ \A a \in Range(Accounts[j]) \cap Chosen :
          account[a].open /\ account[a].fits /\ (a \in ReplaceOpening => account[a].rev = 1)
    /\ Route(j, [job[j] EXCEPT !.state = "uploading"])

Upload(j, c) ==
    /\ run = Idle /\ job[j].state \in {"uploading", "validating"} /\ c \notin uploaded[j]
    /\ uploaded' = [uploaded EXCEPT ![j] = @ \cup {c}]
    /\ UNCHANGED <<job, seen, ordinal, counter, source, marker, review, ledger, run, bounds>>

Seal(j) == /\ job[j].state = "uploading"
           /\ Route(j, [job[j] EXCEPT !.state = "validating"])

\* Mutant: an import that is cancelled already can be cancelled again.
CancelTwice(j) == /\ job[j].state \notin {"absent", "complete"}
                  /\ Route(j, [job[j] EXCEPT !.state = "cancelled", !.resume = job[j].state])

Cancel(j) == /\ job[j].state \notin {"absent", "complete", "cancelled"}
             /\ Route(j, [job[j] EXCEPT !.state = "cancelled", !.resume = job[j].state])

Resume(j) == /\ job[j].state = "cancelled"
             /\ Route(j, [job[j] EXCEPT !.state = job[j].resume, !.resume = "absent"])

-----------------------------------------------------------------------------
(* keepSource: the review is resolved first, the job is saved after it *)

Pending(j) == {r \in DOMAIN review : r[1] = j /\ review[r] = "pending"}

KeepReview(r) ==
    /\ run = Idle /\ review[r] = "pending"
    /\ review' = [review EXCEPT ![r] = "resolved"]
    /\ run' = [op |-> "keep", job |-> r[1]]
    /\ UNCHANGED <<job, uploaded, seen, ordinal, counter, source, marker, ledger, bounds>>

KeepJob ==
    /\ Busy("keep")
    /\ LET j == run.job
           doc == [job[j] EXCEPT !.conflicts = Cardinality(Pending(j))]
       IN  job' = [job EXCEPT ![j] =
                      IF Pending(j) = {} /\ doc.state = "needs-review"
                      THEN [doc EXCEPT !.state = "reconciling", !.chunk = 1] ELSE doc]
    /\ run' = Idle
    /\ UNCHANGED <<uploaded, seen, ordinal, counter, source, marker, review, ledger, bounds>>

-----------------------------------------------------------------------------
(* advance: phases read their chunk, work batch by batch, save at the end *)

BeginPhase(j) ==
    /\ run = Idle /\ job[j].state \in Working
    /\ job[j].state # "reconciling" => job[j].chunk \in uploaded[j]
    /\ run' = Advancing(j)
    /\ UNCHANGED <<imports, ledger, bounds>>

OpenBatch ==
    /\ run.op \in {"validating", "importing"} /\ run.batch = {} /\ run.doc.row < Len(Chunk)
    /\ \E n \in 1..Min({BatchRows, Len(Chunk) - run.doc.row}) :
          LET rows == {<<run.doc.chunk, run.doc.row + i>> : i \in 1..n}
          IN  run' = [run EXCEPT !.batch = rows, !.todo = [p \in rows |-> "start"]]
    /\ UNCHANGED <<imports, ledger, bounds>>

\* All rows of the batch are done: totals and position move in the copy only.
CloseBatch ==
    /\ run.op \in {"validating", "importing"} /\ run.batch # {} /\ run.todo = <<>>
    /\ run' = [run EXCEPT
          !.doc.row = @ + Cardinality(run.batch), !.batch = {}, !.counted = {},
          !.doc.totals = [a \in DOMAIN @ |->
              @[a] + Early(run.job, {p \in run.counted : Row(run.job, p).account = a})]]
    /\ UNCHANGED <<imports, ledger, bounds>>

NextPhase(op) == IF op = "validating" THEN "importing" ELSE "reconciling"
\* Mutant: the row is not reset when the next chunk begins.
CheckpointedAtRow(doc, last) ==
    IF doc.row < Len(Chunk) THEN doc
    ELSE IF doc.chunk < last THEN [doc EXCEPT !.chunk = @ + 1]
    ELSE [doc EXCEPT !.chunk = 1, !.row = 0, !.state = NextPhase(doc.state)]

\* The job at the end of a phase: next chunk, and next phase after the last.
Checkpointed(doc, last) ==
    IF doc.row < Len(Chunk) THEN doc
    ELSE IF doc.chunk < last THEN [doc EXCEPT !.chunk = @ + 1, !.row = 0]
    ELSE [doc EXCEPT !.chunk = 1, !.row = 0, !.state = NextPhase(doc.state)]

SavePhase ==
    /\ run.op \in {"validating", "importing"} /\ run.batch = {}
    /\ run.doc.row > job[run.job].row
    /\ job' = [job EXCEPT ![run.job] = Checkpointed(run.doc, Len(Chunks[run.job]))]
    /\ run' = Idle
    /\ UNCHANGED <<uploaded, seen, ordinal, counter, source, marker, review, ledger, bounds>>

-----------------------------------------------------------------------------
(* validateRow *)

Counted(p) == [Done(p) EXCEPT !.counted = @ \cup {p}]

\* Mutant: a row that repeats a stored source id is counted wherever it is.
ValidateRepeated(p) ==
    LET j == run.job  k == RowKey(j, p)  first == seen[j][k]
    IN  /\ Busy("validating") /\ Ready(p, "start") /\ Sourced(j, p)
        /\ first # Absent => first.content = Row(j, p).content
        /\ seen' = IF first # Absent THEN seen
                   ELSE [seen EXCEPT ![j][k] = [content |-> Row(j, p).content, pos |-> p]]
        /\ run' = Counted(p)
        /\ UNCHANGED <<job, uploaded, ordinal, counter, source, marker, review, ledger, bounds>>

\* A source id is counted at the position that stored it first.
ValidateSourced(p) ==
    LET j == run.job  k == RowKey(j, p)  r == Row(j, p)  first == seen[j][k]
    IN  /\ Busy("validating") /\ Ready(p, "start") /\ Sourced(j, p)
        /\ \/ /\ first = Absent
              /\ seen' = [seen EXCEPT ![j][k] = [content |-> r.content, pos |-> p]]
              /\ run' = Counted(p)
           \/ /\ first # Absent /\ first.content = r.content
              /\ run' = IF first.pos = p THEN Counted(p) ELSE Done(p)
              /\ UNCHANGED seen
        /\ UNCHANGED <<job, uploaded, ordinal, counter, source, marker, review, ledger, bounds>>

\* The number is stored before the count it came from.
NumberOccurrence(p) ==
    LET j == run.job
    IN  /\ Busy("validating") /\ Ready(p, "start") /\ ~Sourced(j, p)
        /\ ordinal' = IF ordinal[j][p] # 0 THEN ordinal
                      ELSE [ordinal EXCEPT ![j][p] = counter[j][RowKey(j, p)] + 1]
        /\ run' = Move(p, "numbered")
        /\ UNCHANGED <<job, uploaded, seen, counter, source, marker, review, ledger, bounds>>

CountOccurrence(p) ==
    LET j == run.job  k == RowKey(j, p)
    IN  /\ Busy("validating") /\ Ready(p, "numbered")
        /\ counter' = IF counter[j][k] < ordinal[j][p]
                      THEN [counter EXCEPT ![j][k] = ordinal[j][p]] ELSE counter
        /\ run' = Counted(p)
        /\ UNCHANGED <<job, uploaded, seen, ordinal, source, marker, review, ledger, bounds>>

-----------------------------------------------------------------------------
(* ensureAccount: the marker with the intended account, then the account *)

Needed == IF Busy("importing") THEN {Row(run.job, p).account : p \in Todo} \ run.ensured
          ELSE IF Busy("reconciling") /\ run.account = "open" /\ run.doc.chunk <= Len(Accounts[run.job])
          THEN {Accounts[run.job][run.doc.chunk]} \ run.ensured ELSE {}
Owned(a) == marker[a] # Absent /\ marker[a].job = run.job
\* The account may be taken over: it fits, closed or not.
MayOwn(a) == /\ marker[a] # Absent => marker[a].state = "complete"
             /\ account[a] # Absent => account[a].fits
             /\ ~(a \notin Chosen /\ account[a] # Absent /\ marker[a] = Absent)
             /\ a \in ReplaceOpening => account[a].rev = 1
Opening(a) == IF Evidence[run.job][a] = NoEvidence THEN 0
              ELSE Evidence[run.job][a] - run.doc.totals[a]

EnsureMarker(a) ==
    /\ a \in Needed /\ ~Owned(a) /\ MayOwn(a)
    /\ marker' = [marker EXCEPT ![a] =
          [job |-> run.job, state |-> "importing",
           verified |-> Evidence[run.job][a] # NoEvidence,
           opening |-> IF account[a] = Absent \/ a \in ReplaceOpening THEN Opening(a)
                       ELSE account[a].opening,
           rev |-> IF account[a] = Absent THEN 0 ELSE account[a].rev]]
    /\ UNCHANGED <<job, uploaded, seen, ordinal, counter, source, review, ledger, run, bounds>>

Replacing(a) == a \in ReplaceOpening /\ account[a].opening # marker[a].opening

EnsureAccount(a) ==
    /\ a \in Needed /\ Owned(a)
    /\ run' = [run EXCEPT !.ensured = @ \cup {a}]
    /\ \/ /\ marker[a].state = "complete" /\ UNCHANGED account
       \/ /\ marker[a].state # "complete" /\ account[a] = Absent
          /\ account' = [account EXCEPT ![a] = NewAccount(marker[a].opening)]
       \/ /\ marker[a].state # "complete" /\ account[a] # Absent
          /\ ~Replacing(a) /\ UNCHANGED account
       \/ /\ marker[a].state # "complete" /\ account[a] # Absent
          /\ Replacing(a) /\ account[a].rev = marker[a].rev
          /\ account' = [account EXCEPT ![a].opening = marker[a].opening, ![a].rev = @ + 1]
    /\ UNCHANGED <<imports, tx, bounds>>

-----------------------------------------------------------------------------
(* importRow *)

Result(p, field) == LET ended == Done(p)
                    IN  CASE field = "created" -> [ended EXCEPT !.doc.created = @ + 1]
                          [] field = "duplicates" -> [ended EXCEPT !.doc.duplicates = @ + 1]
                          [] field = "conflicts" -> [ended EXCEPT !.doc.conflicts = @ + 1]
Importable(p, stage) == /\ Busy("importing") /\ Ready(p, stage)
                        /\ Row(run.job, p).account \in run.ensured
                        /\ Sourced(run.job, p) \/ ordinal[run.job][p] # 0

\* The transaction exists with another content: the member decides.
RowConflict(p) ==
    LET j == run.job  t == Identity(j, p)  key == <<j, t, Row(j, p).content>>
    IN  /\ Importable(p, "start")
        /\ source[t] # Absent /\ source[t].content # Row(j, p).content
        /\ review' = IF key \in DOMAIN review THEN review
                     ELSE [r \in DOMAIN review \cup {key} |->
                              IF r = key THEN "pending" ELSE review[r]]
        /\ run' = Result(p, "conflicts")
        /\ UNCHANGED <<job, uploaded, seen, ordinal, counter, source, marker, ledger, bounds>>

\* Mutant: a row this import wrote before it stopped counts as a duplicate.
RowSeen(p) ==
    LET s == source[Identity(run.job, p)]
    IN  /\ Importable(p, "start")
        /\ s # Absent /\ s.content = Row(run.job, p).content /\ s.state = "complete"
        /\ run' = Result(p, "duplicates")
        /\ UNCHANGED <<imports, ledger, bounds>>

\* Mutant: an intent is taken for a row that was written.
RowAssumed(p) ==
    LET j == run.job  s == source[Identity(j, p)]
    IN  /\ Importable(p, "start")
        /\ s # Absent /\ s.content = Row(j, p).content
        /\ run' = Result(p, IF s.job = j /\ s.pos = p THEN "created" ELSE "duplicates")
        /\ UNCHANGED <<imports, ledger, bounds>>

RowKnown(p) ==
    LET j == run.job  s == source[Identity(j, p)]
    IN  /\ Importable(p, "start")
        /\ s # Absent /\ s.content = Row(j, p).content /\ s.state = "complete"
        /\ run' = Result(p, IF s.job = j /\ s.pos = p THEN "created" ELSE "duplicates")
        /\ UNCHANGED <<imports, ledger, bounds>>

\* Tags and category are ensured, then the whole transaction is the intent.
RowIntent(p) ==
    LET j == run.job  t == Identity(j, p)  s == source[t]
    IN  /\ Importable(p, "start")
        /\ \/ /\ s = Absent
              /\ source' = [source EXCEPT ![t] = [content |-> Row(j, p).content, job |-> j,
                                                  pos |-> p, state |-> "intent"]]
           \/ /\ s # Absent /\ s.content = Row(j, p).content /\ s.state = "intent"
              /\ UNCHANGED source
        /\ run' = Move(p, "intent")
        /\ UNCHANGED <<job, uploaded, seen, ordinal, counter, marker, review, ledger, bounds>>

\* The ledger is written when it has nothing there; an edit is never undone.
RowWrite(p) ==
    LET t == Identity(run.job, p)
    IN  /\ Importable(p, "intent") /\ tx[t] \in {"absent", "intact"}
        /\ tx' = [tx EXCEPT ![t] = "intact"]
        /\ run' = Move(p, "written")
        /\ UNCHANGED <<imports, account, bounds>>

RowComplete(p) ==
    LET t == Identity(run.job, p)
    IN  /\ Importable(p, "written")
        /\ source' = [source EXCEPT ![t].state = "complete"]
        /\ run' = Result(p, "created")
        /\ UNCHANGED <<job, uploaded, seen, ordinal, counter, marker, review, ledger, bounds>>

-----------------------------------------------------------------------------
(* reconciling: one account per invocation *)

AmountOf(t) == Row(source[t].job, source[t].pos)
Booked(a) == {t \in Transaction : t[1] = a /\ tx[t] \in {"intact", "noted"}}
Actual(a) == LET Amount(t) == IF AmountOf(t).early THEN AmountOf(t).amount ELSE 0
             IN  account[a].opening + Sum(Amount, Booked(a))
Settled(j, doc) == [doc EXCEPT !.state = IF doc.conflicts > 0 THEN "needs-review" ELSE "complete"]

Verifiable(j, a) == Evidence[j][a] # NoEvidence /\ a \notin Chosen
Reconciling(a) == /\ Busy("reconciling") /\ run.doc.chunk <= Len(Accounts[run.job])
                  /\ a = Accounts[run.job][run.doc.chunk] /\ a \in run.ensured

\* Mutant: a balance of the export is taken as verified without the ledger.
SumAssumed(a) == /\ Reconciling(a) /\ run.account = "open"
                 /\ run' = [run EXCEPT !.account = "summed"]
                 /\ UNCHANGED <<imports, ledger, bounds>>

\* The ledger is read; members may still change it before the marker is put.
SumAccount(a) ==
    /\ Reconciling(a) /\ run.account = "open"
    /\ (Verifiable(run.job, a) /\ run.doc.conflicts = 0) => Actual(a) = Evidence[run.job][a]
    /\ run' = [run EXCEPT !.account = "summed"]
    /\ UNCHANGED <<imports, ledger, bounds>>

ReconcileAccount(a) ==
    /\ Reconciling(a) /\ run.account = "summed"
    /\ marker' = [marker EXCEPT
          ![a].state = IF run.doc.conflicts > 0 THEN "needs-review" ELSE "complete",
          ![a].verified = Verifiable(run.job, a)]
    /\ run' = [run EXCEPT !.account = "marked", !.doc.chunk = @ + 1]
    /\ UNCHANGED <<job, uploaded, seen, ordinal, counter, source, review, ledger, bounds>>

SaveReconcile ==
    /\ Busy("reconciling")
    /\ run.account = "marked" \/ run.doc.chunk > Len(Accounts[run.job])
    /\ job' = [job EXCEPT ![run.job] = IF run.doc.chunk > Len(Accounts[run.job])
                                       THEN Settled(run.job, run.doc) ELSE run.doc]
    /\ run' = Idle
    /\ UNCHANGED <<uploaded, seen, ordinal, counter, source, marker, review, ledger, bounds>>

-----------------------------------------------------------------------------
(* The code's own refusals end an invocation; advance() saves only a message *)

Blocked ==
    \/ /\ Busy("validating")
       /\ \E p \in Todo : /\ Ready(p, "start") /\ Sourced(run.job, p)
                          /\ seen[run.job][RowKey(run.job, p)] # Absent
                          /\ seen[run.job][RowKey(run.job, p)].content # Row(run.job, p).content
    \/ \E a \in Needed : \/ ~Owned(a) /\ ~MayOwn(a)
                         \/ /\ Owned(a) /\ marker[a].state # "complete" /\ account[a] # Absent
                            /\ Replacing(a) /\ account[a].rev # marker[a].rev
    \/ \E p \in Todo : Importable(p, "intent") /\ tx[Identity(run.job, p)] \in {"noted", "deleted"}
    \/ run.op = "reconciling" /\ run.account = "open" /\ run.doc.conflicts = 0
       /\ \E a \in run.ensured : Verifiable(run.job, a) /\ Actual(a) # Evidence[run.job][a]

Refuse == /\ Blocked /\ run' = Idle /\ UNCHANGED <<imports, ledger, bounds>>

\* A store call fails or the isolate is stopped: what was written stays.
Stop == /\ run # Idle /\ stops < MaxStops
        /\ stops' = stops + 1 /\ run' = Idle
        /\ UNCHANGED <<imports, ledger, edits>>

\* Members, through their browsers: a note, a deletion, an edited account.
Edit ==
    /\ edits < MaxEdits /\ edits' = edits + 1
    /\ \/ \E t \in Transaction :
             \/ tx[t] = "intact" /\ tx' = [tx EXCEPT ![t] = "noted"] /\ UNCHANGED account
             \/ tx[t] \in {"intact", "noted"} /\ tx' = [tx EXCEPT ![t] = "deleted"]
                /\ UNCHANGED account
       \/ \E a \in Account : /\ account[a] # Absent
                             /\ \E open, fits \in BOOLEAN :
                                   account' = [account EXCEPT ![a] =
                                       [opening |-> 0, rev |-> @.rev + 1,
                                        open |-> open, fits |-> fits]]
                             /\ UNCHANGED tx
    /\ UNCHANGED <<imports, run, stops>>

Advance ==
    \/ OpenBatch \/ CloseBatch \/ SavePhase \/ SaveReconcile \/ KeepJob \/ Refuse
    \/ \E p \in Todo : \/ ValidateSourced(p) \/ NumberOccurrence(p) \/ CountOccurrence(p)
                       \/ RowConflict(p) \/ RowKnown(p) \/ RowIntent(p) \/ RowWrite(p)
                       \/ RowComplete(p)
    \/ \E a \in Account : EnsureMarker(a) \/ EnsureAccount(a) \/ SumAccount(a) \/ ReconcileAccount(a)

\* Nothing is left to do: every job is over or waits for a member.
Rested == /\ run = Idle /\ \A j \in Job : job[j].state \notin Working
          /\ UNCHANGED vars

Next ==
    \/ \E j \in Job : \/ Start(j) \/ Seal(j) \/ Cancel(j) \/ Resume(j) \/ BeginPhase(j)
                      \/ \E c \in 1..Len(Chunks[j]) : Upload(j, c)
    \/ \E r \in DOMAIN review : KeepReview(r)
    \/ Advance \/ Stop \/ Edit \/ Rested

Spec == Init /\ [][Next]_vars

\* A sealed import is continued every quarter of an hour, after five seconds
\* while it progresses (index.ts), and each phase has time for a batch.
LiveSpec == /\ Spec /\ WF_vars(Advance)
            /\ \A j \in Job : SF_vars(BeginPhase(j))

-----------------------------------------------------------------------------
(* Properties *)

\* Every variable stays in the range its documents have in the code.
TypeOK ==
    /\ \A j \in Job :
          /\ job[j].state \in Phase /\ job[j].resume \in Phase \ {"cancelled"}
          /\ job[j].chunk \in 1..(1 + Len(Chunks[j]) + Len(Accounts[j]))
          /\ {job[j].row, job[j].created, job[j].duplicates, job[j].conflicts} \subseteq Nat
          /\ uploaded[j] \subseteq 1..Len(Chunks[j])
          /\ \A k \in KeysOf(j) : counter[j][k] \in 0..Cardinality(Pos(j))
          /\ \A p \in Pos(j) : ordinal[j][p] \in 0..Cardinality(Pos(j))
    /\ \A t \in Transaction :
          /\ tx[t] \in {"absent", "intact", "noted", "deleted"}
          /\ source[t] # Absent => source[t].state \in {"intent", "complete"}
    /\ \A r \in DOMAIN review : review[r] \in {"pending", "resolved"}
    /\ stops \in 0..MaxStops /\ edits \in 0..MaxEdits

Validated(j) == job[j].state \in {"importing", "reconciling", "needs-review", "complete"}
Passed(j) == {p \in Pos(j) : job[j].state \in {"importing"} =>
                                 Before(p, <<job[j].chunk, job[j].row + 1>>)}

\* However often validation is interrupted and repeated, each occurrence of a
\* row enters its account's total once: a repeated source id once, identical
\* legacy rows as often as the file has them.  The opening balance is derived
\* from these totals (monarch-import.ts:345-356, 466-478).
EachOccurrenceCountedOnce ==
    \A j \in Job : Validated(j) =>
        \A a \in Range(Accounts[j]) :
            LET mine == {p \in Pos(j) : Row(j, p).account = a}
                First(p) == Sourced(j, p) => \A q \in mine :
                                Before(q, p) => RowKey(j, q) # RowKey(j, p)
            IN  /\ job[j].totals[a] = Early(j, {p \in mine : First(p)})
                /\ \A p, q \in mine : p # q /\ RowKey(j, p) = RowKey(j, q) =>
                       Sourced(j, p) \/ Identity(j, p) # Identity(j, q)

\* The counters a member reads agree with the durable evidence: created rows
\* are exactly those whose provenance names this import and this position, in
\* spite of batches that were written and not checkpointed.
CountersMatchEvidence ==
    \A j \in Job : job[j].state \in {"importing", "reconciling", "needs-review", "complete"} =>
        job[j].created = Cardinality({p \in Passed(j) :
            LET s == source[Identity(j, p)]
            IN  s # Absent /\ s.job = j /\ s.pos = p /\ s.state = "complete"})

\* An import that has left its rows behind has lost none: each is the
\* completed provenance of a transaction that was booked (a member may have
\* edited or deleted it since), or a review holds its other content.
NoRowLost ==
    \A j \in Job : job[j].state \in {"reconciling", "needs-review", "complete"} =>
        \A p \in Pos(j) :
            LET t == Identity(j, p)
            IN  /\ source[t] # Absent /\ source[t].state = "complete" /\ tx[t] # "absent"
                /\ source[t].content # Row(j, p).content
                       => <<j, t, Row(j, p).content>> \in DOMAIN review

\* A verified marker stays true: whatever invocations stop and whatever is
\* imported later, what is booked up to the date of the evidence adds up to
\* the balance of the export until a member edits the books (:413-444).
VerifiedBalances ==
    \A a \in Account :
        marker[a] # Absent /\ marker[a].state = "complete" /\ marker[a].verified /\ edits = 0
        => Actual(a) = Evidence[marker[a].job][a]

\* When a job or an account asks for attention there is a review to decide:
\* the messages tell the member to review source changes and then continue.
AttentionHasAReview ==
    \A j \in Job : run = Idle /\ job[j].state = "needs-review" => Pending(j) # {}

\* Every sealed and uploaded import comes to rest: complete, cancelled or in
\* review.  It may instead be refused at what a member edited, at a balance
\* that another import has booked into (monarch-import.ts:430), or at an account
\* whose owner waits for a member (:525) or is refused itself.
Outbooked(j) ==
    \E a \in Range(Accounts[j]) \ Chosen :
        /\ account[a] # Absent /\ Evidence[j][a] # NoEvidence /\ Actual(a) # Evidence[j][a]
        /\ \E t \in Booked(a) : source[t] # Absent /\ source[t].job # j
Interfered(j) ==
    \/ edits > 0 \/ Outbooked(j)
    \/ \E a \in Range(Accounts[j]) :
          /\ marker[a] # Absent /\ marker[a].state # "complete" /\ marker[a].job # j
          /\ job[marker[a].job].state \notin Working \/ Outbooked(marker[a].job)
ImportsComeToRest ==
    \A j \in Job : job[j].state \in Working /\ uploaded[j] = 1..Len(Chunks[j])
                   ~> job[j].state \notin Working \/ Interfered(j)

==============================================================================
