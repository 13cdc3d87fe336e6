------------------------------- MODULE CacheJobs -------------------------------
(***************************************************************************)
(* The jobs of the cache lane: clearing the price cache, fetching prices   *)
(* into it, reporting on it (jobs/cache-maintenance.js, cache-reports.js,  *)
(* shared/coordination.js), as the dispatcher runs them over the rows of   *)
(* JobStore (jobs/index.ts, worker.js).  A job scans the cache page by     *)
(* page over several invocations, seals a plan of exact mutations, marks   *)
(* the cache as updating, applies the plan and publishes the generation.   *)
(* Neither lease nor claim protects those writes: an invocation that lost  *)
(* its claim may go on with them.  The lane is a document that names the   *)
(* job that owns it.                                                       *)
(***************************************************************************)
EXTENDS Naturals, Sequences, FiniteSetsExt, SequencesExt

CONSTANTS
    Job, Worker,
    Kind,           \* of each job: "clear", "fill" or "report"
    Supersedes,     \* <<newer, older>>: automatic jobs of one group
    Dates,          \* dates a price is kept for, 1..Dates; one symbol, one page each
    Bars,           \* what the provider may answer: sets of dates
    None,
    Lease, RetryWait, Absent, Idle,
    Loads,          \* bound: sets of jobs that may meet
    MaxFaults       \* bound: stopped isolates, failed calls, stalled workers

VARIABLES
    row, claim,     \* JobStore
    lane,           \* the job that owns the lane
    status,         \* cache_status/cache
    docs,           \* historical_prices by date, and the row of latest_prices
    receipts,       \* mutations the store has applied
    chosen,         \* what the dispatcher has found runnable
    seen,           \* per worker: what its current phase has done so far
    faults

cache == <<status, docs, receipts>>
vars == <<row, claim, lane, cache, chosen, seen, faults>>

Latest == Dates + 1                     \* the latest_prices row among the documents
Missing == [rev |-> 0, val |-> None]    \* rev counts on when a document is deleted
Live(d) == d.val # None

\* latestFromHistory(): the price of the last date there is.
LatestOf(prices) == LET D == {k \in 1..Dates : prices[k] # None}
                    IN  IF D = {} THEN None ELSE prices[Max(D)]

\* A price row, a mutation of one, and a plan: what it changes, the revision of
\* the generation it starts from, the latest prices before and after it.
Price == {"old", None} \cup Job
Document == [rev : Nat, val : Price]
Mutation == [doc : 1..Latest, op : {"create", "update", "delete"}, rev : Nat, val : Price]
Plan == [changes : SUBSET Mutation, begin : Nat, latest : Price, before : Price]

\* A checkpoint; NoPoint stands for null.
Phase == {"scan", "capture", "compute", "plan", "begin", "apply", "finish"}
CachePoint == [phase : Phase, copies : Seq(Document), bars : SUBSET (1..Dates),
               plan : Plan \cup {None}, rev : Nat]
NoPoint == [phase |-> "scan", copies |-> <<>>, bars |-> {}, plan |-> None, rev |-> 0]
NoAnswer == 0
NotDue == Lease + RetryWait + 1

Jobs == INSTANCE JobStore WITH
    Point <- CachePoint, Start <- NoPoint, Result <- {NoAnswer}, NoResult <- NoAnswer, Never <- NotDue

Fresh == [at |-> "begin", got |-> None]
JobOf(w) == claim[w].job
Saved(w) == claim[w].point
In(w, phase) == claim[w] # Idle /\ Saved(w).phase = phase
At(w, at) == claim[w] # Idle /\ seen[w].at = at
Return(w) == seen' = [seen EXCEPT ![w] = Fresh]
Got(w, at, got) == seen' = [seen EXCEPT ![w] = [at |-> at, got |-> got]]

Init ==
    /\ Jobs!Init
    /\ lane = None
    /\ status = [rev |-> 0, state |-> "ready", job |-> None, latest |-> None]
    /\ docs = [k \in 1..Latest |-> IF k \in {1, Latest} THEN [rev |-> 1, val |-> "old"] ELSE Missing]
    /\ receipts = {}
    /\ chosen = None
    /\ seen = [w \in Worker |-> Fresh]
    /\ faults = 0

-----------------------------------------------------------------------------
(* Clients and the dispatcher *)

Rows == UNCHANGED <<lane, cache, chosen, seen, faults>>
Submitted == {j \in Job : Jobs!Exists(j)}
Admit(j) == /\ \E load \in Loads : Submitted \cup {j} \subseteq load
            /\ Jobs!Admit(j) /\ Rows
Cancel(j) == Jobs!Cancel(j) /\ Rows
ClaimCancelled(j) == Jobs!ClaimCancelled(j) /\ Rows

\* coalesceAutomatic(): an unstarted job gives way to a newer one of its
\* group, which was unstarted when the scan read it.
Supersede(j) ==
    /\ Jobs!Exists(j) /\ row[j].state = "queued" /\ ~row[j].cancelRequested
    /\ \E i \in Job : <<i, j>> \in Supersedes /\ Jobs!Exists(i)
    /\ row' = [row EXCEPT ![j].state = "cancelled", ![j].cancelRequested = TRUE, ![j].due = NotDue]
    /\ claim' = [w \in Worker |-> Jobs!Stale(j, w)]
    /\ Rows

\* Mutant: an owner keeps its lane when it was cancelled.
LaneOverKept(owner) == owner # None => row[owner].state \in {"completed", "failed"}

\* needs-attention keeps the lane.
LaneOver(owner) == owner # None => row[owner].state \in {"completed", "cancelled", "failed"}

\* Mutant: an owner whose lease ran out gives up its lane.
LaneFreeLapsed(j) == lane \notin {j, None} => LaneOver(lane) \/ row[lane].lease = 0

LaneFree(j) == lane # j => LaneOver(lane)

\* runnable(): waiting jobs stay behind the unfinished owner of their lane.
\* The rows were read before the job is claimed.
Runnable(j) == Jobs!Due(j) /\ LaneFree(j)
Choose(j) ==
    /\ chosen = None /\ Runnable(j)
    /\ chosen' = j
    /\ UNCHANGED <<row, claim, lane, cache, seen, faults>>

ClaimJob(w, j) ==
    /\ chosen = j /\ chosen' = None
    /\ Jobs!ClaimJob(w, j) \/ (~Jobs!Due(j) /\ UNCHANGED <<row, claim>>)
    /\ UNCHANGED <<lane, cache, seen, faults>>

-----------------------------------------------------------------------------
(* run(): the lane first, then one phase *)

Save(w, point) == Jobs!Checkpoint(w, point, "retry", NoAnswer, 1, FALSE)
SaveCommitting(w, point) == Jobs!Checkpoint(w, point, "committing", NoAnswer, 1, FALSE)
Complete(w) == Jobs!Checkpoint(w, NoPoint, "completed", NoAnswer, 0, FALSE)
Elsewhere == UNCHANGED <<lane, cache, chosen, faults>>

Acquire(w) ==
    /\ At(w, "begin")
    /\ IF LaneFree(JobOf(w))
       THEN lane' = JobOf(w) /\ Got(w, "work", None) /\ UNCHANGED <<row, claim>>
       ELSE Jobs!Checkpoint(w, Saved(w), "retry", NoAnswer, RetryWait, FALSE)
            /\ Return(w) /\ UNCHANGED lane
    /\ UNCHANGED <<cache, chosen, faults>>

\* One page of the scan: the row of a date with its revision.
ReadPage(w) ==
    /\ In(w, "scan") /\ At(w, "work")
    /\ Got(w, "ready", docs[Len(Saved(w).copies) + 1])
    /\ Elsewhere /\ UNCHANGED <<row, claim>>

AfterScan(j) == CASE Kind[j] = "fill" -> "capture" [] Kind[j] = "clear" -> "plan" [] OTHER -> "compute"
SavePage(w) ==
    LET copies == Append(Saved(w).copies, seen[w].got)
        phase == IF Len(copies) < Dates THEN "scan" ELSE AfterScan(JobOf(w))
    IN  /\ In(w, "scan") /\ At(w, "ready")
        /\ Save(w, [Saved(w) EXCEPT !.copies = copies, !.phase = phase])
        /\ Return(w) /\ Elsewhere

\* What the provider has, or nothing where the scanned rows cover the range.
SaveBars(w) ==
    /\ In(w, "capture") /\ At(w, "work")
    /\ \E bars \in Bars : Save(w, [Saved(w) EXCEPT !.bars = bars, !.phase = "plan"])
    /\ Return(w) /\ Elsewhere

Report(w) == In(w, "compute") /\ At(w, "work") /\ Complete(w) /\ Return(w) /\ Elsewhere

\* plan(): from the scanned rows, the status and then the mirror, read now.
Change(doc, old, val) ==
    IF val = None THEN [doc |-> doc, op |-> "delete", rev |-> old.rev, val |-> None]
    ELSE [doc |-> doc, op |-> IF Live(old) THEN "update" ELSE "create", rev |-> old.rev, val |-> val]
PlanFor(j, point, current) ==
    LET after == [k \in 1..Dates |-> IF Kind[j] = "clear" THEN None
                                     ELSE IF k \in point.bars THEN j ELSE point.copies[k].val]
        old == point.copies
        dates == {k \in 1..Dates : IF Kind[j] = "clear" THEN Live(old[k]) ELSE k \in point.bars}
        mirrored == IF docs[Latest].val = LatestOf(after) THEN {} ELSE {Latest}
        change(k) == IF k = Latest THEN Change(k, docs[k], LatestOf(after)) ELSE Change(k, old[k], after[k])
    IN  [changes |-> {change(k) : k \in dates \cup mirrored},
         begin |-> current.rev, latest |-> LatestOf(after),
         before |-> IF current.rev > 0 THEN current.latest ELSE LatestOf([k \in 1..Dates |-> old[k].val])]

Current == [rev |-> status.rev, latest |-> status.latest]
ReadStatus(w) ==
    /\ In(w, "plan") /\ At(w, "work")
    /\ IF status.state = "ready" THEN Got(w, "status", Current) ELSE Got(w, "conflict", None)
    /\ Elsewhere /\ UNCHANGED <<row, claim>>
ReadMirror(w) ==
    /\ In(w, "plan") /\ At(w, "status")
    /\ Got(w, "ready", PlanFor(JobOf(w), Saved(w), seen[w].got))
    /\ Elsewhere /\ UNCHANGED <<row, claim>>

\* Mutant: the job can be cancelled while its plan is carried out.
SavePlanCancellable(w) ==
    /\ In(w, "plan") /\ At(w, "ready")
    /\ Save(w, [NoPoint EXCEPT !.phase = "begin", !.plan = seen[w].got])
    /\ Return(w) /\ Elsewhere

SavePlan(w) ==
    /\ In(w, "plan") /\ At(w, "ready")
    /\ SaveCommitting(w, [NoPoint EXCEPT !.phase = "begin", !.plan = seen[w].got])
    /\ Return(w) /\ Elsewhere

-----------------------------------------------------------------------------
(* mutate(): every mutation has its id, revision and payload from the plan *)

Begin(w) ==
    LET plan == Saved(w).plan
        receipt == <<JobOf(w), "begin", 0>>
        now == [rev |-> plan.begin + 1, state |-> "updating", job |-> JobOf(w), latest |-> plan.before]
    IN  /\ In(w, "begin") /\ At(w, "work")
        /\ IF receipt \in receipts \/ status = now      \* replayed, or created by the same job
           THEN Got(w, "ready", plan.begin + 1) /\ UNCHANGED <<status, receipts>>
           ELSE IF status.rev = plan.begin
           THEN /\ status' = now /\ receipts' = receipts \cup {receipt}
                /\ Got(w, "ready", plan.begin + 1)
           ELSE Got(w, "conflict", None) /\ UNCHANGED <<status, receipts>>
        /\ UNCHANGED <<row, claim, lane, docs, chosen, faults>>

SaveBegun(w) ==
    /\ In(w, "begin") /\ At(w, "ready")
    /\ SaveCommitting(w, [Saved(w) EXCEPT !.phase = "apply", !.rev = seen[w].got])
    /\ Return(w) /\ Elsewhere

\* A create that meets a deleted row restores it, under a receipt of its own.
Receipt(j, c) == IF c.op = "create" /\ docs[c.doc].rev > 0 /\ ~Live(docs[c.doc])
                 THEN <<j, "restore", c.doc>> ELSE <<j, "row", c.doc>>

\* Mutant: the store keeps no receipts.
ReplayedNever(j, c) == FALSE

Replayed(j, c) == <<j, "row", c.doc>> \in receipts \/ Receipt(j, c) \in receipts
Applies(c) == LET d == docs[c.doc]
              IN  IF c.op = "create" THEN ~Live(d) ELSE Live(d) /\ d.rev = c.rev
Same(c) == c.op = "create" /\ docs[c.doc].val = c.val

\* The rows of a batch are written concurrently, in any order.
Applied(w) == IF seen[w].got = None THEN {} ELSE seen[w].got
ApplyChange(w) ==
    /\ In(w, "apply") /\ At(w, "work")
    /\ \E c \in Saved(w).plan.changes \ Applied(w) :
        IF Replayed(JobOf(w), c) \/ (Same(c) /\ ~Applies(c))
        THEN Got(w, "work", Applied(w) \cup {c}) /\ UNCHANGED <<docs, receipts>>
        ELSE IF Applies(c)
        THEN /\ docs' = [docs EXCEPT ![c.doc] = [rev |-> @.rev + 1, val |-> c.val]]
             /\ receipts' = receipts \cup {Receipt(JobOf(w), c)}
             /\ Got(w, "work", Applied(w) \cup {c})
        ELSE Got(w, "conflict", None) /\ UNCHANGED <<docs, receipts>>
    /\ UNCHANGED <<row, claim, lane, status, chosen, faults>>

\* Mutant: a batch counts as applied when one of its rows is missing.
BatchDoneButOne(w) == Cardinality(Saved(w).plan.changes \ Applied(w)) <= 1

BatchDone(w) == Applied(w) = Saved(w).plan.changes

SaveApplied(w) ==
    /\ In(w, "apply") /\ At(w, "work") /\ BatchDone(w)
    /\ SaveCommitting(w, [Saved(w) EXCEPT !.phase = "finish"])
    /\ Return(w) /\ Elsewhere

Finish(w) ==
    LET receipt == <<JobOf(w), "finish", 0>>
    IN  /\ In(w, "finish") /\ At(w, "work")
        /\ IF receipt \in receipts
           THEN Got(w, "ready", None) /\ UNCHANGED <<status, receipts>>
           ELSE IF status.rev = Saved(w).rev
           THEN /\ status' = [rev |-> status.rev + 1, state |-> "ready", job |-> None,
                              latest |-> Saved(w).plan.latest]
                /\ receipts' = receipts \cup {receipt} /\ Got(w, "ready", None)
           ELSE Got(w, "conflict", None) /\ UNCHANGED <<status, receipts>>
        /\ UNCHANGED <<row, claim, lane, docs, chosen, faults>>

SaveFinished(w) == In(w, "finish") /\ At(w, "ready") /\ Complete(w) /\ Return(w) /\ Elsewhere

-----------------------------------------------------------------------------
(* What may go wrong *)

\* A conflict of the cache needs reconciliation.
SaveConflict(w) ==
    /\ At(w, "conflict")
    /\ Jobs!Checkpoint(w, Saved(w), "needs-attention", NoAnswer, 0, FALSE)
    /\ Return(w) /\ Elsewhere

\* A call fails: the phase is tried again later.
PhaseFails(w) ==
    /\ claim[w] # Idle
    /\ faults < MaxFaults /\ faults' = faults + 1
    /\ Jobs!Checkpoint(w, Saved(w), IF claim[w].state = "committing" THEN "committing" ELSE "retry",
                       NoAnswer, RetryWait, FALSE)
    /\ Return(w) /\ UNCHANGED <<lane, cache, chosen>>

Crash(w) == /\ Jobs!Leave(w)
            /\ faults < MaxFaults /\ faults' = faults + 1
            /\ Return(w) /\ UNCHANGED <<lane, cache, chosen>>

\* The checkpoint is refused and the newer row left alone.
Superseded(w) == /\ claim[w] # Idle /\ (~Jobs!CanWrite(w) \/ Jobs!Lapsed(w)) /\ Jobs!Leave(w)
                 /\ Return(w) /\ Elsewhere

\* That a lease runs out under a working invocation is a fault.
Stalls == \E w \in Worker : Jobs!Holds(w) /\ row[JobOf(w)].lease = 1
Tick == /\ Jobs!Tick
        /\ Stalls => faults < MaxFaults
        /\ faults' = IF Stalls THEN faults + 1 ELSE faults
        /\ UNCHANGED <<lane, cache, chosen, seen>>

Phases(w) ==
    \/ Acquire(w) \/ ReadPage(w) \/ SavePage(w) \/ SaveBars(w) \/ Report(w)
    \/ ReadStatus(w) \/ ReadMirror(w) \/ SavePlan(w) \/ Begin(w) \/ SaveBegun(w)
    \/ ApplyChange(w) \/ SaveApplied(w) \/ Finish(w) \/ SaveFinished(w)
    \/ SaveConflict(w) \/ Superseded(w)

Over(j) == Jobs!Exists(j) /\ row[j].state \in Jobs!Terminal
AllSettled == /\ \E load \in Loads : \A j \in load : Over(j)
              /\ \A w \in Worker : claim[w] = Idle
              /\ chosen = None
              /\ UNCHANGED vars

System ==
    \/ \E j \in Job : ClaimCancelled(j) \/ Choose(j)
    \/ \E w \in Worker : Phases(w) \/ \E j \in Job : ClaimJob(w, j)
    \/ Tick
Next ==
    \/ System
    \/ \E j \in Job : Admit(j) \/ Cancel(j) \/ Supersede(j)
    \/ \E w \in Worker : PhaseFails(w) \/ Crash(w)
    \/ AllSettled

Spec == Init /\ [][Next]_vars

\* Some due job that may run is dispatched, hourly if not at once, some
\* invocation that is not stopped goes on, or time passes.
Fairness == WF_vars(System)

LiveSpec == Spec /\ Fairness

-----------------------------------------------------------------------------
(* Properties *)

\* A scan takes several invocations and its rows are used in later ones: as
\* long as its job is neither over nor writing, what it has read is still so.
ScanStaysTrue ==
    \A j \in Job : Jobs!Unfinished(j) /\ row[j].state # "committing" =>
        LET copies == row[j].point.copies
        IN  \A k \in DOMAIN copies : copies[k] = docs[k]

\* A published generation is complete and one of a kind: the latest prices of
\* the status, the mirror and the history agree, whatever stopped, was
\* repeated, or came late from an invocation that had lost its claim.
GenerationsComplete ==
    status.state = "ready" =>
        /\ docs[Latest].val = LatestOf([k \in 1..Dates |-> docs[k].val])
        /\ status.rev > 0 => status.latest = docs[Latest].val

\* Jobs that take turns in the lane never find the cache changed by another.
NothingToReconcile == \A j \in Job : Jobs!Exists(j) => row[j].state # "needs-attention"

\* No job waits for ever behind its lane, whoever was cancelled, superseded,
\* or stopped while it owned it.
CacheJobsEnd == []<>(\A j \in Submitted : Over(j))
=============================================================================
