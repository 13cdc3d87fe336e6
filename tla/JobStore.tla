------------------------------- MODULE JobStore -------------------------------
(***************************************************************************)
(* The durable job rows of shared/jobs.js: admission, claims by short-lived *)
(* workers, checkpoints, cancellation.  Every write is conditional on the  *)
(* revision the writer read.  Revisions are only ever compared for         *)
(* equality with the stored row, so of a worker's copy the model keeps     *)
(* whether it is still the current one: every write of a row makes all     *)
(* other copies stale.  A get followed by its conditional write is one     *)
(* action: when the row changed in between, the write has no effect and    *)
(* the caller reads again.                                                 *)
(*                                                                         *)
(* Time is relative: a row holds how long it still waits (dueAt) and how   *)
(* long its lease still runs (leaseUntil), and Tick lets both run down.    *)
(***************************************************************************)
EXTENDS Naturals

CONSTANTS
    Job,            \* job ids, one for each command id
    Worker,         \* worker invocations running at the same time
    Point, Start,   \* checkpoints, and the empty one (null)
    Result, NoResult,
    Lease,          \* LEASE_MILLISECONDS
    RetryWait,      \* the longest wait a checkpoint asks for
    Never,          \* dueAt of a finished job, Number.MAX_SAFE_INTEGER
    Absent, Idle    \* no row yet; a worker slot that runs nothing

ASSUME PointAssumption == Start \in Point /\ NoResult \in Result
ASSUME TimeAssumption ==
    /\ Lease \in Nat \ {0} /\ RetryWait \in Nat \ {0}
    /\ Never \in Nat /\ Never > Lease /\ Never > RetryWait

Terminal == {"completed", "failed", "cancelled", "needs-attention"}
Claimable == {"queued", "retry", "running", "committing"}

Row == [state : Terminal \cup Claimable, point : Point, result : Result,
        cancelRequested : BOOLEAN, due : 0..Never, lease : 0..Lease]
Claim == [job : Job, state : {"running", "committing"}, point : Point, current : BOOLEAN]
ASSUME SentinelAssumption == Absent \notin Row /\ Idle \notin Claim

VARIABLES
    row,    \* the stored row of each job
    claim   \* what each worker holds: its job, its copy of state and
            \* checkpoint, and whether that copy is still the stored row
jobVars == <<row, claim>>

TypeOK ==
    /\ row \in [Job -> Row \cup {Absent}]
    /\ claim \in [Worker -> Claim \cup {Idle}]

Init ==
    /\ row = [j \in Job |-> Absent]
    /\ claim = [w \in Worker |-> Idle]

Exists(j) == row[j] # Absent

\* Mutant: finished rows are not told apart.
AnyRow(j) == Exists(j)

Unfinished(j) == Exists(j) /\ row[j].state \notin Terminal
Holds(w) == claim[w] # Idle /\ claim[w].current

\* Mutant: only the lease is looked at, the write is unconditional.
CanWriteUnexpired(w) == claim[w] # Idle /\ row[claim[w].job].lease > 0

\* The precondition of every checkpoint is an unexpired claim and a current
\* revision.  The lease is compared before the write and may have run out when
\* the write lands: what holds then is the revision.
Lapsed(w) == row[claim[w].job].lease = 0
CanWrite(w) == Holds(w)

\* Mutant: writing a row leaves its revision as it was.
StillCurrent(j, w) == claim[w]

\* All copies of a row but the writer's are stale once it has been written.
Stale(j, w) ==
    IF claim[w] # Idle /\ claim[w].job = j THEN [claim[w] EXCEPT !.current = FALSE] ELSE claim[w]

\* admit(): repeated admission of the same command and input finds the row.
Admit(j) ==
    /\ ~Exists(j)
    /\ row' = [row EXCEPT ![j] =
         [state |-> "queued", point |-> Start, result |-> NoResult,
          cancelRequested |-> FALSE, due |-> 0, lease |-> 0]]
    /\ UNCHANGED claim

Due(j) == Unfinished(j) /\ row[j].due = 0 /\ row[j].lease = 0

\* claim(), on a row whose cancellation waited for its lease to run out.
ClaimCancelled(j) ==
    /\ Due(j) /\ row[j].cancelRequested /\ row[j].state # "committing"
    /\ row' = [row EXCEPT ![j].state = "cancelled", ![j].due = Never]
    /\ claim' = [w \in Worker |-> Stale(j, w)]

\* Mutant: a claim leaves the state of the row alone.
StateKept(j) == row[j].state

ClaimedState(j) == IF row[j].state = "committing" THEN "committing" ELSE "running"

\* claim(): a publishing job stays one under its next worker.
ClaimJob(w, j) ==
    /\ claim[w] = Idle
    /\ Due(j) /\ (row[j].cancelRequested => row[j].state = "committing")
    /\ row' = [row EXCEPT ![j].state = ClaimedState(j), ![j].due = Lease, ![j].lease = Lease]
    /\ claim' = [v \in Worker |->
         IF v = w
         THEN [job |-> j, state |-> ClaimedState(j), point |-> row[j].point, current |-> TRUE]
         ELSE Stale(j, v)]

\* A checkpoint that ends the claim: the job is over or waits for its retry.
Released(state, wait) ==
    state \in Terminal \/ state = "retry" \/ (state = "committing" /\ wait > 0)

\* Mutant: a finished job keeps its place in the dispatcher's index.
DueAlways(state, wait) == IF wait > 0 THEN wait ELSE Lease

\* Mutant: a job that waits for its retry leaves the index.
DueUnlessWaiting(state, wait) == IF state \in Terminal \/ wait > 0 THEN Never ELSE Lease

DueAfter(state, wait) ==
    IF state \in Terminal THEN Never ELSE IF wait > 0 THEN wait ELSE Lease

\* checkpoint(); wait = 0 stands for retryAt = null.  The invocation either
\* goes on with the new row ("stays") or returns.
Checkpoint(w, point, state, result, wait, stays) ==
    LET j == claim[w].job IN
    /\ CanWrite(w)
    /\ ~(claim[w].state = "committing" /\ state = "cancelled")
    /\ state = "retry" => wait > 0
    /\ row' = [row EXCEPT
         ![j].point = point, ![j].state = state, ![j].result = result,
         ![j].due = DueAfter(state, wait),
         ![j].lease = IF Released(state, wait) THEN 0 ELSE Lease]
    /\ claim' = [v \in Worker |->
         IF v # w THEN Stale(j, v)
         ELSE IF stays
              THEN [job |-> j, state |-> state, point |-> point, current |-> TRUE]
              ELSE Idle]

\* Mutant: a job may be cancelled while it is publishing.
CancellableAlways(j) == Unfinished(j)

Cancellable(j) == Unfinished(j) /\ row[j].state # "committing"

\* cancel(): at once unless a worker's lease is live.  The clock was read
\* before the write landed, so a lease that has just run out may count as live.
Cancel(j) ==
    /\ Cancellable(j)
    /\ \/ /\ row[j].state = "running"
          /\ row' = [row EXCEPT ![j].cancelRequested = TRUE, ![j].due = row[j].lease]
       \/ /\ ~(row[j].state = "running" /\ row[j].lease > 0)
          /\ row' = [row EXCEPT ![j].cancelRequested = TRUE, ![j].state = "cancelled",
                                ![j].due = Never]
    /\ claim' = [w \in Worker |-> Stale(j, w)]

\* An invocation ends without a write: its isolate is stopped, or its
\* checkpoint is refused and it leaves the newer row alone.
Leave(w) ==
    /\ claim[w] # Idle
    /\ claim' = [claim EXCEPT ![w] = Idle]
    /\ UNCHANGED row

Less(n) == IF n = 0 \/ n = Never THEN n ELSE n - 1
Later(r) == IF r = Absent THEN Absent ELSE [r EXCEPT !.due = Less(@), !.lease = Less(@)]

Tick ==
    /\ \E j \in Job : Unfinished(j) /\ row[j].due + row[j].lease > 0
    /\ row' = [j \in Job |-> Later(row[j])]
    /\ UNCHANGED claim

WorkerStep(w) ==
    \/ \E j \in Job : ClaimJob(w, j)
    \/ \E point \in Point, result \in Result, wait \in 0..RetryWait, stays \in BOOLEAN,
          state \in Terminal \cup {"running", "committing", "retry"} :
         (stays => ~Released(state, wait)) /\ Checkpoint(w, point, state, result, wait, stays)
    \/ Leave(w)

\* Every job is over and every invocation has returned.
AllFinished ==
    /\ \A j \in Job : Exists(j) /\ ~Unfinished(j)
    /\ \A w \in Worker : claim[w] = Idle
    /\ UNCHANGED jobVars

Next ==
    \/ \E j \in Job : Admit(j) \/ ClaimCancelled(j) \/ Cancel(j)
    \/ \E w \in Worker : WorkerStep(w)
    \/ Tick
    \/ AllFinished

Spec == Init /\ [][Next]_jobVars

-----------------------------------------------------------------------------
\* Of the invocations that ever claimed a job at most one can still write to
\* it, it sees the row as it is, and nobody has asked to cancel that row: an
\* expired claimant never replaces newer progress (jobs.js:38, 43-49, 57).
OneWriter ==
    \A w \in Worker : Holds(w) =>
        LET r == row[claim[w].job] IN
        /\ r # Absent /\ r.state = claim[w].state /\ r.point = claim[w].point
        /\ ~r.cancelRequested
        /\ \A v \in Worker \ {w} : Holds(v) => claim[v].job # claim[w].job

\* The dispatcher's index on dueAt shows every unfinished job again after a
\* finite wait, and no finished one ever (jobs.js:37, 48, 57, 86-90).
DueIndexIsExact ==
    \A j \in Job : Exists(j) => (row[j].state \in Terminal <=> row[j].due = Never)

\* A finished job is never reopened or rewritten, whatever late workers and
\* repeated cancellations do (jobs.js:35, 43, 54).
TerminalIsFinal ==
    [][\A j \in Job : Exists(j) /\ row[j].state \in Terminal => row'[j] = row[j]]_jobVars

\* From the moment a cancellation is accepted the job makes no more progress:
\* the only change left to it is to become cancelled (jobs.js:37, 51-61).
CancelStopsProgress ==
    [][\A j \in Job : Exists(j) /\ row[j].cancelRequested =>
         /\ row'[j].state \in {row[j].state, "cancelled"}
         /\ row'[j].point = row[j].point /\ row'[j].result = row[j].result
         /\ row'[j].cancelRequested]_jobVars

\* A publishing job is not cancelled: whoever is told "cancelled" was told so
\* before publication began (jobs.js:44, 55).
PublishingIsNotCancelled ==
    [][\A j \in Job : Exists(j) /\ row[j].state = "committing" =>
         row'[j].state # "cancelled" /\ ~row'[j].cancelRequested]_jobVars
=============================================================================
