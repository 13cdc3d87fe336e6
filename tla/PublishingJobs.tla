---------------------------- MODULE PublishingJobs ----------------------------
(***************************************************************************)
(* JobWorker (jobs/worker.js) for the jobs that change the portfolio:      *)
(* portfolio commands, workbook imports and broker imports.  One bounded   *)
(* phase per invocation, over the rows of JobStore and the head of         *)
(* PortfolioRepository, while clients cancel, isolates stop between any    *)
(* two awaits, leases run out under slow workers, and API invocations      *)
(* publish other commands, or the very same one, by execute().             *)
(*                                                                         *)
(* An API invocation is one step here, the commit of CommandLedger that    *)
(* PortfolioRepository is shown to implement.  As there, a chain of        *)
(* entries stands for the head, its revision and its command record.       *)
(***************************************************************************)
EXTENDS Naturals, Sequences, FiniteSets

CONSTANTS
    Job,            \* commands submitted as durable jobs, job id = command
    Import,         \* those of them that are broker imports
    Twin,           \* those whose identity an API invocation carries as well
    Other,          \* commands that only API invocations carry
    InitialHead,    \* the chain published before
    Worker,
    PageSize,       \* command records read by one historyPage, 24 in the code
    Batches,        \* staging batches of a plan, 8 documents each in the code
    Lease, RetryWait, Absent, Idle,
    MaxFaults       \* bound: stopped isolates, failed calls, stalled workers

VARIABLES
    row, claim,     \* JobStore
    head,           \* the published chain
    stored,         \* staged batches: <<chain, number>>
    finalized,      \* imports whose split markers have been written
    seen,           \* per worker: what its current phase has done so far
    faults

ASSUME JobAssumption ==
    /\ Import \subseteq Job /\ Twin \subseteq Job \ Import /\ Other \cap Job = {}
    /\ PageSize \in Nat \ {0} /\ Batches \in Nat \ {0} /\ MaxFaults \in Nat
    /\ Lease \in Nat \ {0} /\ RetryWait \in Nat \ {0}

vars == <<row, claim, head, stored, finalized, seen, faults>>
portfolio == <<head, stored, finalized>>

Unique(chain) == \A i, k \in 1..Len(chain) : chain[i].id = chain[k].id => i = k

\* Command records: who prepared one is part of it (the time it carries).
Entry == [id : Job \cup Other, hash : {"own", "foreign"}, by : {"job", "api"}]
JobEntry(j) == [id |-> j, hash |-> "own", by |-> "job"]
ApiEntry(c, hash) == [id |-> c, hash |-> hash, by |-> "api"]
\* A job whose command is published already shares it with the API invocation
\* that published it.
ASSUME HeadAssumption ==
    /\ InitialHead \in Seq(Entry) /\ Unique(InitialHead)
    /\ \A k \in 1..Len(InitialHead) : InitialHead[k].id \in Job =>
          InitialHead[k].id \in Twin /\ InitialHead[k].by = "api"

\* A checkpoint: the phase and what it carries from phase to phase.
Phase == {"start", "history", "capture", "plan", "stage", "publish", "finalize"}
Point == [phase : Phase, captured : BOOLEAN, pinned : Seq(Entry), left : Nat, found : Nat,
          snapshot : Seq(Entry), plan : Seq(Entry), offset : 0..Batches, result : Nat]
Start == [phase |-> "start", captured |-> FALSE, pinned |-> <<>>, left |-> 0, found |-> 0,
          snapshot |-> <<>>, plan |-> <<>>, offset |-> 0, result |-> 0]
NoResult == 0
Never == Lease + RetryWait + 1

Jobs == INSTANCE JobStore WITH Result <- Nat
ASSUME SentinelAssumption == Absent \notin Jobs!Row /\ Idle \notin Jobs!Claim

\* What the invocation of w has done since its last checkpoint.
Fresh == [at |-> "begin", head |-> <<>>]
JobOf(w) == claim[w].job
Saved(w) == claim[w].point
In(w, phase) == claim[w] # Idle /\ Saved(w).phase = phase

\* advance(): the next phase waits, and publishing jobs remain publishing.
Advance(w, point) ==
    LET state == IF claim[w].state = "committing" THEN "committing" ELSE "retry"
    IN  Jobs!Checkpoint(w, point, state, NoResult, 1, FALSE)
Complete(w, version) == Jobs!Checkpoint(w, Start, "completed", version, 0, FALSE)
Return(w) == seen' = [seen EXCEPT ![w] = Fresh]

\* The history and plan of a point are dropped: check for replay once more.
ToHistory(point) == [Start EXCEPT !.phase = "history", !.captured = point.captured]

Init ==
    /\ Jobs!Init
    /\ head = InitialHead
    /\ stored = {}
    /\ finalized = {}
    /\ seen = [w \in Worker |-> Fresh]
    /\ faults = 0

-----------------------------------------------------------------------------
\* Clients and the dispatcher.
Admit(j) == Jobs!Admit(j) /\ UNCHANGED <<portfolio, seen, faults>>
Cancel(j) == Jobs!Cancel(j) /\ UNCHANGED <<portfolio, seen, faults>>
ClaimCancelled(j) == Jobs!ClaimCancelled(j) /\ UNCHANGED <<portfolio, seen, faults>>
ClaimJob(w, j) == Jobs!ClaimJob(w, j) /\ UNCHANGED <<portfolio, seen, faults>>

\* PortfolioRepository.execute() of an API invocation.  That of a job's own
\* command began before the job was admitted; its client may also have used
\* the identity of the command for another input.
ApiCommit(c) ==
    /\ \A i \in 1..Len(head) : head[i].id # c
    /\ \E hash \in IF c \in Twin THEN {"own", "foreign"} ELSE {"own"} :
          head' = Append(head, ApiEntry(c, hash))
    /\ stored' = stored \cup {<<head', n>> : n \in 1..Batches}
    /\ UNCHANGED <<row, claim, finalized, seen, faults>>

-----------------------------------------------------------------------------
\* The phases.  Each reads or writes elsewhere first, then saves.
Begun(w, at) == claim[w] # Idle /\ seen[w].at = at

\* history without pinned history, and plan, begin by reading the head.
ReadHead(w) ==
    /\ Begun(w, "begin")
    /\ In(w, "plan") \/ (In(w, "history") /\ Saved(w).pinned = <<>>)
    /\ seen' = [seen EXCEPT ![w] = [at |-> "ready", head |-> head]]
    /\ UNCHANGED <<row, claim, portfolio, faults>>

\* No checkpoint yet: a broker import looks for a replay before it captures.
SaveStart(w) ==
    /\ In(w, "start")
    /\ Advance(w, ToHistory(Start))
    /\ Return(w) /\ UNCHANGED <<portfolio, faults>>

SaveCapture(w) ==
    /\ In(w, "capture")
    /\ Advance(w, [ToHistory(Start) EXCEPT !.captured = TRUE])
    /\ Return(w) /\ UNCHANGED <<portfolio, faults>>

\* One page of the pinned history, newest records first.
Pinned(w) ==
    IF Saved(w).pinned # <<>> THEN Saved(w)
    ELSE [Saved(w) EXCEPT !.pinned = seen[w].head, !.left = Len(seen[w].head)]
Page(point) == {k \in 1..point.left : k + PageSize > point.left}
PageRecord(w) == {k \in Page(Pinned(w)) : Pinned(w).pinned[k].id = JobOf(w)}
CanPage(w) == In(w, "history") /\ (Saved(w).pinned # <<>> \/ Begun(w, "ready"))

\* Mutant: the input of an accepted command is not compared.
SameIdentity(w, k) == TRUE

SameRequest(w, k) == Pinned(w).pinned[k].hash = "own"

SaveHistory(w) ==
    /\ CanPage(w)
    /\ \A k \in PageRecord(w) : SameRequest(w, k)
    /\ LET left == IF Pinned(w).left > PageSize THEN Pinned(w).left - PageSize ELSE 0
           found == IF PageRecord(w) = {} THEN Pinned(w).found
                    ELSE CHOOSE k \in PageRecord(w) : TRUE
           next == IF left > 0 THEN "history"
                   ELSE IF JobOf(w) \in Import /\ ~Saved(w).captured THEN "capture" ELSE "plan"
       IN  IF left = 0 /\ found > 0
           THEN Complete(w, found)
           ELSE Advance(w, [Pinned(w) EXCEPT !.left = left, !.found = found, !.phase = next])
    /\ Return(w) /\ UNCHANGED <<portfolio, faults>>

\* plan: only against the head whose whole history has been checked.
SavePlan(w) ==
    /\ In(w, "plan") /\ Begun(w, "ready")
    /\ LET point == Saved(w)
           now == seen[w].head
       IN  \/ /\ now # point.pinned
              /\ Advance(w, ToHistory(point))
           \/ /\ now = point.pinned /\ point.snapshot = <<>>
              /\ \E n \in Len(now)..Len(head) :
                    Advance(w, [point EXCEPT !.snapshot = SubSeq(head, 1, n)])
           \/ /\ now = point.pinned /\ point.snapshot \notin {<<>>, now}
              /\ Advance(w, ToHistory(point))
           \/ /\ now = point.pinned /\ point.snapshot = now
              /\ Advance(w, [point EXCEPT !.phase = "stage", !.offset = 0,
                                          !.plan = Append(now, JobEntry(JobOf(w)))])
    /\ Return(w) /\ UNCHANGED <<portfolio, faults>>

\* plan: a capture older than a day is taken again.
Recapture(w) ==
    /\ In(w, "plan") /\ Begun(w, "begin") /\ Saved(w).captured
    /\ faults < MaxFaults /\ faults' = faults + 1
    /\ Advance(w, [Start EXCEPT !.phase = "capture"])
    /\ Return(w) /\ UNCHANGED portfolio

\* The input, the capture or, in plan, the domain refuses the command for good.
Refuse(w) ==
    /\ \/ In(w, "start") \/ In(w, "capture")
       \/ In(w, "plan") /\ seen[w].head # <<>>
          /\ seen[w].head = Saved(w).pinned /\ seen[w].head = Saved(w).snapshot
    /\ Jobs!Checkpoint(w, Saved(w), "failed", NoResult, 0, FALSE)
    /\ Return(w) /\ UNCHANGED <<portfolio, faults>>

StageBatch(w) ==
    /\ In(w, "stage") /\ Begun(w, "begin")
    /\ stored' = stored \cup {<<Saved(w).plan, Saved(w).offset + 1>>}
    /\ seen' = [seen EXCEPT ![w].at = "ready"]
    /\ UNCHANGED <<row, claim, head, finalized, faults>>

\* Mutants: one batch too many, or one too few.
StagePhaseLate(offset) == IF offset > Batches THEN "publish" ELSE "stage"
StagePhaseEarly(offset) == IF offset + 1 >= Batches THEN "publish" ELSE "stage"

StagePhase(offset) == IF offset = Batches THEN "publish" ELSE "stage"

SaveStage(w) ==
    /\ In(w, "stage") /\ Begun(w, "ready")
    /\ LET offset == Saved(w).offset + 1
       IN  Advance(w, [Saved(w) EXCEPT !.offset = offset,
                                       !.phase = StagePhase(offset)])
    /\ Return(w) /\ UNCHANGED <<portfolio, faults>>

\* Mutant: the job is not marked before its head write.
PublishingMarkMissing == "running"

PublishingMark == "committing"

\* publish: from this checkpoint on the job cannot be cancelled.
BeginPublish(w) ==
    /\ In(w, "publish") /\ Begun(w, "begin")
    /\ Jobs!Checkpoint(w, Saved(w), PublishingMark, NoResult, 0, TRUE)
    /\ seen' = [seen EXCEPT ![w].at = "publishing"]
    /\ UNCHANGED <<portfolio, faults>>

\* The store replays a mutation it has applied, and applies one whose expected
\* revision is the current one.
Published(plan) == Len(plan) <= Len(head) /\ SubSeq(head, 1, Len(plan)) = plan

\* Mutants: the store keeps no receipts, or ignores the expected revision.
HeadOutcomeForgetful(plan) ==
    IF head = SubSeq(plan, 1, Len(plan) - 1) THEN "applied" ELSE "conflict"
HeadOutcomeBlind(plan) == IF Published(plan) THEN "replayed" ELSE "applied"

HeadOutcome(plan) ==
    IF Published(plan) THEN "replayed"
    ELSE IF head = SubSeq(plan, 1, Len(plan) - 1) THEN "applied" ELSE "conflict"

\* publishHead(): neither claim nor lease protects this write.
PublishHead(w) ==
    /\ Begun(w, "publishing")
    /\ head' = IF HeadOutcome(Saved(w).plan) = "applied" THEN Saved(w).plan ELSE head
    /\ seen' = [seen EXCEPT ![w].at =
         IF HeadOutcome(Saved(w).plan) = "conflict" THEN "conflict" ELSE "published"]
    /\ UNCHANGED <<row, claim, stored, finalized, faults>>

SavePublished(w) ==
    /\ Begun(w, "published")
    /\ LET version == Len(Saved(w).plan)
       IN  IF JobOf(w) \in Import
           THEN Jobs!Checkpoint(w, [Saved(w) EXCEPT !.phase = "finalize", !.result = version],
                                "committing", NoResult, 0, FALSE)
           ELSE Complete(w, version)
    /\ Return(w) /\ UNCHANGED <<portfolio, faults>>

SaveConflict(w) ==
    /\ Begun(w, "conflict")
    /\ Advance(w, ToHistory(Saved(w)))
    /\ Return(w) /\ UNCHANGED <<portfolio, faults>>

MarkSplits(w) ==
    /\ In(w, "finalize") /\ Begun(w, "begin")
    /\ finalized' = finalized \cup {JobOf(w)}
    /\ seen' = [seen EXCEPT ![w].at = "ready"]
    /\ UNCHANGED <<row, claim, head, stored, faults>>

SaveFinalized(w) ==
    /\ In(w, "finalize") /\ Begun(w, "ready")
    /\ Complete(w, Saved(w).result)
    /\ Return(w) /\ UNCHANGED <<portfolio, faults>>

-----------------------------------------------------------------------------
\* run(): a phase throws.  The claim of the catch clause is the one the
\* invocation started with, so once it has begun to publish it only returns.
Retry(w) ==
    LET state == IF claim[w].state = "committing" THEN "committing" ELSE "retry"
    IN  Jobs!Checkpoint(w, Saved(w), state, NoResult, RetryWait, FALSE)

PhaseFails(w) ==
    /\ claim[w] # Idle /\ seen[w].at \in {"begin", "ready"}
    /\ faults < MaxFaults /\ faults' = faults + 1
    /\ Retry(w)
    /\ Return(w) /\ UNCHANGED portfolio

\* historyPage throws 409: the identity was accepted with another input.
IdentityReused(w) ==
    /\ CanPage(w)
    /\ \E k \in PageRecord(w) : ~SameRequest(w, k)
    /\ Retry(w)
    /\ Return(w) /\ UNCHANGED <<portfolio, faults>>

\* The isolate is stopped, or a response is lost on a path that only returns.
Crash(w) ==
    /\ Jobs!Leave(w)
    /\ faults < MaxFaults /\ faults' = faults + 1
    /\ Return(w) /\ UNCHANGED portfolio

\* The next checkpoint is refused (409) and the newer row is left alone.
Superseded(w) ==
    /\ claim[w] # Idle /\ (~Jobs!CanWrite(w) \/ Jobs!Lapsed(w))
    /\ seen[w].at # "publishing"
    /\ Jobs!Leave(w)
    /\ Return(w) /\ UNCHANGED <<portfolio, faults>>

\* Time.  That a lease runs out under a working invocation, which has a third
\* of the lease as its budget, is a fault.
Stalls == \E w \in Worker : Jobs!Holds(w) /\ row[JobOf(w)].lease = 1
Tick ==
    /\ Jobs!Tick
    /\ Stalls => faults < MaxFaults
    /\ faults' = IF Stalls THEN faults + 1 ELSE faults
    /\ UNCHANGED <<portfolio, seen>>

Phases(w) ==
    \/ ReadHead(w) \/ SaveStart(w) \/ SaveCapture(w) \/ SaveHistory(w) \/ SavePlan(w)
    \/ StageBatch(w) \/ SaveStage(w)
    \/ BeginPublish(w) \/ PublishHead(w) \/ SavePublished(w) \/ SaveConflict(w)
    \/ MarkSplits(w) \/ SaveFinalized(w)
    \/ IdentityReused(w) \/ Superseded(w)

\* Every job is over, every invocation has returned, all else is published.
AllSettled ==
    /\ \A j \in Job : row[j] # Absent /\ row[j].state \in Jobs!Terminal
    /\ \A w \in Worker : claim[w] = Idle
    /\ \A c \in Twin \cup Other : \E k \in 1..Len(head) : head[k].id = c
    /\ UNCHANGED vars

Next ==
    \/ \E j \in Job : Admit(j) \/ Cancel(j) \/ ClaimCancelled(j)
    \/ \E c \in Twin \cup Other : ApiCommit(c)
    \/ \E w \in Worker :
        \/ \E j \in Job : ClaimJob(w, j)
        \/ Phases(w) \/ Recapture(w) \/ Refuse(w) \/ PhaseFails(w) \/ Crash(w)
    \/ Tick
    \/ AllSettled

Spec == Init /\ [][Next]_vars

\* The dispatcher runs hourly and on continuation and takes due jobs in the
\* order of dueAt (jobs/index.ts:41-43), which a retry moves back, so a due job
\* is claimed eventually; an invocation that is not stopped goes on; time passes.
Fairness ==
    /\ \A j \in Job : WF_vars(ClaimCancelled(j)) /\ WF_vars(\E w \in Worker : ClaimJob(w, j))
    /\ \A w \in Worker : WF_vars(Phases(w))
    /\ WF_vars(Tick)

LiveSpec == Spec /\ Fairness

-----------------------------------------------------------------------------
TypeOK ==
    /\ Jobs!TypeOK
    /\ head \in Seq(Entry)
    /\ stored \subseteq Seq(Entry) \X (1..Batches)
    /\ finalized \subseteq Import
    /\ seen \in [Worker -> [at : {"begin", "ready", "publishing", "published", "conflict"},
                           head : Seq(Entry)]]
    /\ faults \in 0..MaxFaults

InLedger(j) == \E k \in 1..Len(head) : head[k].id = j /\ head[k].hash = "own"
Ended(j, states) == Jobs!Exists(j) /\ row[j].state \in states

\* A job that ended without effect has none and never gets one, not even from
\* a worker that lost its claim long ago (worker.js:111-119, jobs.js:37-61).
UndoneNeverPublished ==
    \A j \in Job \ Twin : Ended(j, {"cancelled", "failed"}) => ~InLedger(j)

\* Whatever the head names was staged completely before, across the batches,
\* repetitions and replans of several invocations (worker.js:101-115).
PublishedContentComplete ==
    \A k \in (Len(InitialHead) + 1)..Len(head), n \in 1..Batches :
        <<SubSeq(head, 1, k), n>> \in stored

\* A broker import is not reported complete before its split markers are
\* written, also when the answer to its publication was lost (worker.js:116).
ImportFinalized == \A j \in Import : Ended(j, {"completed"}) => j \in finalized

\* Completed jobs report the version at which their command was accepted,
\* and no command is accepted twice: by whichever route, job or API.
Answers ==
    {[id |-> j, hash |-> "own", version |-> row[j].result] :
        j \in {i \in Job : Ended(i, {"completed"})}}
Ledger == INSTANCE CommandLedger
            WITH Initial <- InitialHead, ledger <- head, answers <- Answers
ImplementsLedger == Ledger!LedgerSpec

\* The identity of j was used by the API with another input.
Reused(j) == \E k \in 1..Len(head) : head[k].id = j /\ head[k].hash = "foreign"

\* Every admitted job ends, through retries, replans, replays and crashes, unless
\* its identity was used with another input (ReusedIdentityIsRefused).
JobsSettle == \A j \in Job : Jobs!Exists(j) ~> Ended(j, Jobs!Terminal) \/ Reused(j)

\* serverless-jobs/spec.md:54-56: a job is not reported cancelled when its
\* command was committed before (cancel, jobs.js:51-61, looks at the row only).
CancellationIsNotLate ==
    [][\A j \in Job : Ended(j, {"cancelled"})' => Ended(j, {"cancelled"}) \/ ~InLedger(j)]_vars

\* serverless-api/spec.md:30: reusing an accepted identity with a different
\* input fails (worker.js:140-143 retries the 409 of repository.js:133).
ReusedIdentityIsRefused ==
    \A j \in Job : Jobs!Exists(j) /\ Reused(j) ~> Ended(j, Jobs!Terminal)
=============================================================================
