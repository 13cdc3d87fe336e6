------------------------- MODULE PublishingJobsProof -------------------------
(***************************************************************************)
(* Proofs about PublishingJobs for every number of jobs, workers, commands *)
(* of API invocations, pages, batches and faults.                          *)
(*                                                                         *)
(* The rows and claims are JobStore's, whose own invariant carries over:   *)
(* every step here is one of JobStore.  The rest of the invariant says     *)
(* what a checkpoint is worth that was saved any time ago: everything in   *)
(* it refers to beginnings of the published chain and to stored batches,   *)
(* neither of which is ever taken back.                                    *)
(***************************************************************************)
EXTENDS PublishingJobs, ChainLemmas

Stored == INSTANCE JobStoreProof WITH Result <- Nat

-----------------------------------------------------------------------------
(* The inductive invariant *)

\* What a worker puts on top of the chain it has planned against.
PlanOK(j, plan, h) ==
    /\ plan \in Seq(Entry)
    /\ Len(plan) > 0 /\ Len(plan) <= Len(h) + 1
    /\ plan[Len(plan)] = JobEntry(j)
    /\ \A i \in 1..(Len(plan) - 1) : plan[i] = h[i] /\ plan[i].id # j

Staged(plan, n, batches) == \A i \in 1..n : <<plan, i>> \in batches

\* What a checkpoint p of job j says of the published chain h and the store.
PointOK(p, j, h, batches) ==
    /\ p \in Point
    /\ Begins(p.pinned, h) /\ Begins(p.snapshot, h)
    /\ p.left <= Len(p.pinned)
    /\ p.found > 0 => /\ p.found <= Len(p.pinned)
                      /\ p.pinned[p.found].id = j /\ p.pinned[p.found].hash = "own"
    /\ p.found = 0 => \A k \in 1..Len(p.pinned) : k > p.left => p.pinned[k].id # j
    /\ p.phase = "plan" => \A k \in 1..Len(p.pinned) : p.pinned[k].id # j
    /\ p.phase \in {"stage", "publish", "finalize"} => PlanOK(j, p.plan, h)
    /\ p.phase = "stage" => p.offset < Batches /\ Staged(p.plan, p.offset, batches)
    /\ p.phase \in {"publish", "finalize"} => Staged(p.plan, Batches, batches)
    /\ p.phase = "finalize" => j \in Import /\ p.result = Len(p.plan) /\ Begins(p.plan, h)

AnswerOK(j, version, h) == version \in 1..Len(h) /\ h[version].id = j /\ h[version].hash = "own"

\* Checkpoints and answers, in the store and in the copies of the workers.
RowsOK ==
    \A j \in Job : Jobs!Exists(j) =>
        /\ PointOK(row[j].point, j, head, stored)
        /\ row[j].state = "completed" => AnswerOK(j, row[j].result, head)
ClaimsOK == \A w \in Worker : claim[w] # Idle => PointOK(Saved(w), JobOf(w), head, stored)

\* What an invocation has done since its checkpoint.
SeenOK(w) ==
    /\ claim[w] = Idle => seen[w] = Fresh
    /\ Begins(seen[w].head, head)
    /\ In(w, "stage") /\ seen[w].at = "ready" => <<Saved(w).plan, Saved(w).offset + 1>> \in stored
    /\ In(w, "finalize") /\ seen[w].at = "ready" => JobOf(w) \in finalized
    /\ seen[w].at \in {"publishing", "published", "conflict"} =>
         In(w, "publish") /\ claim[w].state = "committing"
    /\ seen[w].at = "published" => Begins(Saved(w).plan, head)
    /\ seen[w].at = "conflict" => Len(Saved(w).plan) <= Len(head) /\ ~Begins(Saved(w).plan, head)

AtPublish(j, plan) ==
    /\ Jobs!Exists(j) /\ row[j].state = "committing"
    /\ row[j].point.phase = "publish" /\ row[j].point.plan = plan

\* A head write that is still to come and may take effect, whoever sends it,
\* is the one its job is waiting for: its row can neither be cancelled nor fail.
LateWritesCounted ==
    \A w \in Worker : seen[w].at = "publishing" /\ Len(head) < Len(Saved(w).plan) =>
        AtPublish(JobOf(w), Saved(w).plan)

\* A job whose entry is published is completed or goes that way.
OnItsWay(j) ==
    \/ Ended(j, {"completed"})
    \/ Ended(j, {"committing"}) /\ row[j].point.phase = "finalize"
    \/ AtPublish(j, row[j].point.plan) /\ Begins(row[j].point.plan, head)
PublishedOnItsWay == \A j \in Job, k \in 1..Len(head) : head[k] = JobEntry(j) => OnItsWay(j)

\* Commands that no API invocation carries are published by their jobs.
OwnEntries ==
    \A k \in 1..Len(head) : head[k].id \in Job \ Twin => head[k] = JobEntry(head[k].id)

Inv ==
    /\ TypeOK /\ Stored!IInv
    /\ RowsOK /\ ClaimsOK
    /\ \A w \in Worker : SeenOK(w)
    /\ LateWritesCounted /\ PublishedOnItsWay /\ OwnEntries
    /\ PublishedContentComplete /\ ImportFinalized

\* What the ledger sees of a step: nothing, an answer or a new command.
LedgerStep == [Ledger!LedgerNext]_(Ledger!ledgerVars)

-----------------------------------------------------------------------------
(* JobStore's proof, for these rows and claims *)

\* The constants of JobStore are as its proof assumes.
LEMMA StoreConstants ==
    /\ Start \in Point /\ NoResult \in Nat
    /\ Lease \in Nat \ {0} /\ RetryWait \in Nat \ {0}
    /\ Never \in Nat /\ Never > Lease /\ Never > RetryWait
    /\ Absent \notin Stored!Row /\ Idle \notin Stored!Claim
  <1>1. Start \in Point
    BY JobAssumption DEF Start, Point, Phase
  <1>2. Absent \notin Stored!Row /\ Idle \notin Stored!Claim
    BY SentinelAssumption DEF Jobs!Row, Jobs!Claim, Stored!Row, Stored!Claim,
       Jobs!Terminal, Jobs!Claimable, Stored!Terminal, Stored!Claimable
  <1> QED
    BY <1>1, <1>2, JobAssumption DEF NoResult, Never

\* The operations are the same, under the name of either instance.
LEMMA SameStore ==
    /\ Jobs!TypeOK <=> Stored!TypeOK
    /\ Jobs!Init <=> Stored!Init
    /\ \A j \in Job :
          /\ Jobs!Exists(j) <=> Stored!Exists(j)
          /\ Jobs!Admit(j) <=> Stored!Admit(j)
          /\ Jobs!Cancel(j) <=> Stored!Cancel(j)
          /\ Jobs!ClaimCancelled(j) <=> Stored!ClaimCancelled(j)
    /\ \A w \in Worker, j \in Job : Jobs!ClaimJob(w, j) <=> Stored!ClaimJob(w, j)
    /\ \A w \in Worker : /\ Jobs!Holds(w) <=> Stored!Holds(w)
                         /\ Jobs!Leave(w) <=> Stored!Leave(w)
    /\ Jobs!Tick <=> Stored!Tick
  <1> USE DEF Jobs!Terminal, Stored!Terminal, Jobs!Claimable, Stored!Claimable,
        Jobs!Row, Stored!Row, Jobs!Claim, Stored!Claim,
        Jobs!Exists, Stored!Exists, Jobs!Unfinished, Stored!Unfinished,
        Jobs!Due, Stored!Due, Jobs!Stale, Stored!Stale
  <1>1. Jobs!TypeOK <=> Stored!TypeOK
    BY DEF Jobs!TypeOK, Stored!TypeOK
  <1>2. Jobs!Init <=> Stored!Init
    BY DEF Jobs!Init, Stored!Init
  <1>3. ASSUME NEW j \in Job
        PROVE  /\ Jobs!Exists(j) <=> Stored!Exists(j)
               /\ Jobs!Admit(j) <=> Stored!Admit(j)
               /\ Jobs!Cancel(j) <=> Stored!Cancel(j)
               /\ Jobs!ClaimCancelled(j) <=> Stored!ClaimCancelled(j)
    BY DEF Jobs!Admit, Stored!Admit, Jobs!Cancel, Stored!Cancel, Jobs!Cancellable,
       Stored!Cancellable, Jobs!ClaimCancelled, Stored!ClaimCancelled
  <1>4. ASSUME NEW w \in Worker, NEW j \in Job
        PROVE  Jobs!ClaimJob(w, j) <=> Stored!ClaimJob(w, j)
    BY DEF Jobs!ClaimJob, Stored!ClaimJob, Jobs!ClaimedState, Stored!ClaimedState
  <1>5. ASSUME NEW w \in Worker
        PROVE  /\ Jobs!Holds(w) <=> Stored!Holds(w)
               /\ Jobs!Leave(w) <=> Stored!Leave(w)
    BY DEF Jobs!Holds, Stored!Holds, Jobs!Leave, Stored!Leave
  <1>6. Jobs!Tick <=> Stored!Tick
    BY DEF Jobs!Tick, Stored!Tick, Jobs!Later, Stored!Later, Jobs!Less, Stored!Less
  <1> QED
    BY <1>1, <1>2, <1>3, <1>4, <1>5, <1>6

\* A worker's copy is the same but for being stale, perhaps.
Kept(v) ==
    /\ claim'[v] = Idle <=> claim[v] = Idle
    /\ claim[v] # Idle => /\ claim'[v].job = claim[v].job
                          /\ claim'[v].state = claim[v].state
                          /\ claim'[v].point = claim[v].point

\* Making copies stale keeps them.
LEMMA StaleKeeps ==
    ASSUME Stored!IInv, NEW j \in Job, NEW v \in Worker, claim'[v] = Jobs!Stale(j, v)
    PROVE  Kept(v)
  <1>1. CASE claim[v] # Idle /\ claim[v].job = j
    <2>1. claim[v] \in Stored!Claim
      BY <1>1 DEF Stored!IInv, Stored!TypeOK
    <2>2. claim'[v] = [claim[v] EXCEPT !.current = FALSE]
      BY <1>1 DEF Jobs!Stale
    <2>3. claim'[v] \in Stored!Claim
      BY <2>1, <2>2 DEF Stored!Claim
    <2> QED
      BY <1>1, <2>1, <2>2, <2>3, StoreConstants DEF Kept, Stored!Claim
  <1>2. CASE ~(claim[v] # Idle /\ claim[v].job = j)
    BY <1>2 DEF Jobs!Stale, Kept
  <1> QED
    BY <1>1, <1>2

States == Jobs!Terminal \cup {"running", "committing", "retry"}

\* What a checkpoint does: its worker has read the row it replaces.
LEMMA CheckpointEffect ==
    ASSUME Stored!IInv, NEW w \in Worker, NEW point \in Point, NEW result \in Nat,
           NEW wait \in 0..RetryWait, NEW stays \in BOOLEAN, NEW state \in States,
           stays => ~Jobs!Released(state, wait),
           Jobs!Checkpoint(w, point, state, result, wait, stays)
    PROVE  /\ Stored!IInv'
           /\ claim[w] # Idle /\ claim[w].state \in {"running", "committing"}
           /\ JobOf(w) \in Job /\ Jobs!Exists(JobOf(w))
           /\ row[JobOf(w)].state = claim[w].state /\ row[JobOf(w)].point = Saved(w)
           /\ row'[JobOf(w)] # Absent
           /\ row'[JobOf(w)].state = state /\ row'[JobOf(w)].point = point
           /\ row'[JobOf(w)].result = result
           /\ \A i \in Job \ {JobOf(w)} : row'[i] = row[i]
           /\ \A v \in Worker \ {w} : Kept(v)
           /\ IF stays
              THEN /\ claim'[w] # Idle /\ claim'[w].job = JobOf(w)
                   /\ claim'[w].state = state /\ claim'[w].point = point
              ELSE claim'[w] = Idle
  <1> DEFINE j == claim[w].job
             new == [row[j] EXCEPT !.point = point, !.state = state, !.result = result,
                                   !.due = Jobs!DueAfter(state, wait),
                                   !.lease = IF Jobs!Released(state, wait) THEN 0 ELSE Lease]
             copy == [job |-> j, state |-> state, point |-> point, current |-> TRUE]
  <1>1. /\ row' = [row EXCEPT ![j].point = point, ![j].state = state, ![j].result = result,
                              ![j].due = Jobs!DueAfter(state, wait),
                              ![j].lease = IF Jobs!Released(state, wait) THEN 0 ELSE Lease]
        /\ claim' = [v \in Worker |->
             IF v # w THEN Jobs!Stale(j, v) ELSE IF stays THEN copy ELSE Idle]
        /\ Jobs!Holds(w)
    BY DEF Jobs!Checkpoint, Jobs!CanWrite
  <1>2. /\ claim[w] # Idle /\ claim[w] \in Stored!Claim /\ j \in Job
        /\ row[j] # Absent /\ row[j] \in Stored!Row
        /\ row[j].state = claim[w].state /\ row[j].point = claim[w].point
    BY <1>1 DEF Jobs!Holds, Stored!Holds, Stored!IInv, Stored!TypeOK, Stored!OneWriter, Stored!Claim
  <1>3. Stored!IInv'
    <2>1. Stored!Checkpoint(w, point, state, result, wait, stays)
      BY DEF Jobs!Checkpoint, Stored!Checkpoint, Jobs!CanWrite, Stored!CanWrite, Jobs!Holds,
         Stored!Holds, Jobs!DueAfter, Stored!DueAfter, Jobs!Released, Stored!Released,
         Jobs!Stale, Stored!Stale, Jobs!Terminal, Stored!Terminal
    <2>2. state \in Stored!Terminal \cup {"running", "committing", "retry"}
          /\ (stays => ~Stored!Released(state, wait))
      BY DEF States, Jobs!Terminal, Stored!Terminal, Jobs!Released, Stored!Released
    <2> QED
      BY <2>1, <2>2, StoreConstants, Stored!CheckpointSafe DEF Stored!CheckpointSafe
  <1>4. row \in [Job -> Stored!Row \cup {Absent}]
    BY DEF Stored!IInv, Stored!TypeOK
  <1>5. row'[j] = new /\ \A i \in Job \ {j} : row'[i] = row[i]
    BY <1>1, <1>2, <1>4
  <1>6. new.state = state /\ new.point = point /\ new.result = result
    BY <1>2 DEF Stored!Row
  <1>7. row'[j] # Absent
    <2>1. Jobs!DueAfter(state, wait) \in 0..Never
      BY StoreConstants DEF Jobs!DueAfter
    <2>2. state \in Stored!Terminal \cup Stored!Claimable
      BY DEF States, Jobs!Terminal, Stored!Terminal, Stored!Claimable
    <2>3. (IF Jobs!Released(state, wait) THEN 0 ELSE Lease) \in 0..Lease
      BY StoreConstants
    <2> HIDE DEF j
    <2>4. new \in Stored!Row
      BY <1>2, <2>1, <2>2, <2>3 DEF Stored!Row
    <2> QED
      BY <1>5, <2>4, StoreConstants
  <1>8. \A v \in Worker \ {w} : Kept(v)
    <2>1. \A v \in Worker \ {w} : claim'[v] = Jobs!Stale(j, v)
      BY <1>1
    <2> QED
      BY <1>2, <2>1, StaleKeeps
  <1>9. IF stays THEN claim'[w] = copy ELSE claim'[w] = Idle
    BY <1>1
  <1>10. stays => claim'[w] # Idle
    <2>1. stays => state \in {"running", "committing"}
      BY DEF States, Jobs!Released
    <2>2. stays => copy \in Stored!Claim
      BY <1>2, <2>1 DEF Stored!Claim
    <2> QED
      BY <1>9, <2>2, StoreConstants
  <1>11. copy.job = j /\ copy.state = state /\ copy.point = point
    OBVIOUS
  <1>12. claim[w].state \in {"running", "committing"}
    BY <1>2 DEF Stored!Claim
  <1> HIDE DEF new, copy
  <1> QED
    BY <1>2, <1>3, <1>5, <1>6, <1>7, <1>8, <1>9, <1>10, <1>11, <1>12 DEF Jobs!Exists, Saved, JobOf

-----------------------------------------------------------------------------
(* Checkpoints and plans while the published chain grows *)

\* The fields of a checkpoint.
LEMMA PointFields ==
    ASSUME NEW p \in Point
    PROVE  /\ p.phase \in Phase /\ p.captured \in BOOLEAN
           /\ p.pinned \in Seq(Entry) /\ p.snapshot \in Seq(Entry) /\ p.plan \in Seq(Entry)
           /\ p.left \in Nat /\ p.found \in Nat /\ p.offset \in 0..Batches /\ p.result \in Nat
           /\ p.offset \in Nat
  BY JobAssumption DEF Point

\* A plan stays one, published or overtaken.
LEMMA PlanStaysOK ==
    ASSUME NEW h \in Seq(Entry), NEW g \in Seq(Entry), Begins(h, g),
           NEW j, NEW plan, PlanOK(j, plan, h)
    PROVE  PlanOK(j, plan, g)
  <1>1. /\ plan \in Seq(Entry) /\ Len(plan) \in Nat /\ Len(h) \in Nat /\ Len(g) \in Nat
        /\ Len(plan) <= Len(h) + 1 /\ Len(h) <= Len(g)
    BY DEF PlanOK, Begins
  <1>2. \A i \in 1..(Len(plan) - 1) : i \in 1..Len(h) /\ h[i] = g[i]
    BY <1>1 DEF Begins
  <1> QED
    BY <1>1, <1>2 DEF PlanOK

\* So does all else a checkpoint says.
LEMMA PointStaysOK ==
    ASSUME NEW h \in Seq(Entry), NEW g \in Seq(Entry), Begins(h, g),
           NEW batches, NEW more, batches \subseteq more,
           NEW j, NEW p, PointOK(p, j, h, batches)
    PROVE  PointOK(p, j, g, more)
  <1>1. p \in Point
    BY DEF PointOK
  <1>2. Begins(p.pinned, g) /\ Begins(p.snapshot, g)
    BY <1>1, PointFields, BeginsThrough DEF PointOK
  <1>3. p.phase \in {"stage", "publish", "finalize"} => PlanOK(j, p.plan, g)
    BY PlanStaysOK DEF PointOK
  <1>4. p.phase = "finalize" => Begins(p.plan, g)
    BY <1>1, PointFields, BeginsThrough DEF PointOK
  <1>5. /\ p.phase = "stage" => Staged(p.plan, p.offset, more)
        /\ p.phase \in {"publish", "finalize"} => Staged(p.plan, Batches, more)
    BY DEF PointOK, Staged
  <1> QED
    BY <1>1, <1>2, <1>3, <1>4, <1>5 DEF PointOK

\* A published plan answers for its job.
LEMMA PlanAnswers ==
    ASSUME NEW h \in Seq(Entry), NEW j, NEW plan, PlanOK(j, plan, h), Begins(plan, h)
    PROVE  AnswerOK(j, Len(plan), h)
  <1>1. Len(plan) \in Nat /\ Len(h) \in Nat /\ Len(plan) > 0 /\ Len(plan) <= Len(h)
    BY DEF PlanOK, Begins
  <1>2. h[Len(plan)] = JobEntry(j)
    BY <1>1 DEF PlanOK, Begins
  <1> QED
    BY <1>1, <1>2 DEF AnswerOK, JobEntry

\* An accepted answer stays right.
LEMMA AnswerStaysOK ==
    ASSUME NEW h \in Seq(Entry), NEW g \in Seq(Entry), Begins(h, g),
           NEW j, NEW version, AnswerOK(j, version, h)
    PROVE  AnswerOK(j, version, g)
  <1>1. Len(h) \in Nat /\ Len(g) \in Nat
    OBVIOUS
  <1> QED
    BY <1>1 DEF AnswerOK, Begins

\* The first checkpoint, and the ones that start again, say nothing.
Empty(p) ==
    /\ p \in Point /\ p.phase \in {"start", "history", "capture"}
    /\ p.pinned = <<>> /\ p.snapshot = <<>> /\ p.left = 0 /\ p.found = 0

\* A checkpoint that says nothing is true of every chain and store.
LEMMA EmptyPointOK ==
    ASSUME NEW h \in Seq(Entry), NEW batches, NEW j, NEW p, Empty(p)
    PROVE  PointOK(p, j, h, batches)
  <1>1. Len(<<>>) = 0 /\ Len(h) \in Nat /\ Begins(<<>>, h)
    BY DEF Begins
  <1>2. /\ Begins(p.pinned, h) /\ Begins(p.snapshot, h)
        /\ p.left <= Len(p.pinned) /\ ~(p.found > 0)
        /\ \A k \in 1..Len(p.pinned) : FALSE
    BY <1>1 DEF Empty
  <1> QED
    BY <1>2 DEF PointOK, Empty

\* The checkpoints of admission, of a restart and of a capture say nothing.
LEMMA EmptyPoints ==
    /\ Empty(Start)
    /\ Empty([Start EXCEPT !.phase = "capture"])
    /\ Empty([ToHistory(Start) EXCEPT !.captured = TRUE])
    /\ \A p \in Point : Empty(ToHistory(p))
  <1>1. Start \in Point
    BY StoreConstants
  <1>2. Empty(Start)
    BY <1>1 DEF Empty, Start
  <1>3. Empty([Start EXCEPT !.phase = "capture"])
    BY <1>1, <1>2 DEF Empty, Point, Phase
  <1>4. ASSUME NEW p \in Point
        PROVE  Empty(ToHistory(p))
    BY <1>1, <1>2, PointFields DEF Empty, ToHistory, Point, Phase
  <1>5. Empty([ToHistory(Start) EXCEPT !.captured = TRUE])
    <2> DEFINE p == ToHistory(Start)
    <2>1. p \in Point /\ Empty(p)
      BY <1>1, <1>4 DEF Empty
    <2> HIDE DEF p
    <2>2. Empty([p EXCEPT !.captured = TRUE])
      BY <2>1 DEF Empty, Point
    <2> QED
      BY <2>2 DEF p
  <1> QED
    BY <1>2, <1>3, <1>4, <1>5

-----------------------------------------------------------------------------
(* What a step leaves as it was *)

\* The invariant of the rows gives the types that the worker's module states.
LEMMA TypesOfStore == Stored!IInv' => Jobs!TypeOK'
  BY DEF Stored!IInv, Stored!TypeOK, Jobs!TypeOK, Stored!Row, Jobs!Row, Stored!Claim, Jobs!Claim,
     Stored!Terminal, Jobs!Terminal, Stored!Claimable, Jobs!Claimable

\* A worker with a claim has a job, and a checkpoint that is true of the store.
LEMMA ClaimFields ==
    ASSUME Inv, NEW v \in Worker, claim[v] # Idle
    PROVE  /\ claim[v] \in Stored!Claim /\ JobOf(v) \in Job /\ Saved(v) \in Point
           /\ PointOK(Saved(v), JobOf(v), head, stored)
  BY DEF Inv, Stored!IInv, Stored!TypeOK, Stored!Claim, JobOf, Saved, ClaimsOK

\* What an invocation knows stays true while others go on.
LEMMA OthersSafe ==
    ASSUME Inv, NEW v \in Worker, Kept(v), seen'[v] = seen[v],
           head' \in Seq(Entry), Begins(head, head'),
           stored \subseteq stored', finalized \subseteq finalized'
    PROVE  /\ SeenOK(v)'
           /\ claim'[v] # Idle => PointOK(Saved(v)', JobOf(v)', head', stored')
  <1>1. head \in Seq(Entry) /\ seen[v].head \in Seq(Entry) /\ SeenOK(v)
    BY DEF Inv, TypeOK
  <1>2. CASE claim[v] = Idle
    <2>1. claim'[v] = Idle /\ seen'[v] = Fresh
      BY <1>1, <1>2 DEF Kept, SeenOK
    <2>2. Begins(seen'[v].head, head')
      BY <1>1, BeginsThrough DEF SeenOK
    <2> QED
      BY <2>1, <2>2 DEF SeenOK, In, Fresh
  <1>3. CASE claim[v] # Idle
    <2>1. /\ Saved(v) \in Point /\ PointOK(Saved(v), JobOf(v), head, stored)
          /\ Saved(v).plan \in Seq(Entry)
      BY <1>3, ClaimFields, PointFields
    <2>2. /\ claim'[v] # Idle /\ claim'[v].state = claim[v].state
          /\ Saved(v)' = Saved(v) /\ JobOf(v)' = JobOf(v)
      BY <1>3 DEF Kept, Saved, JobOf
    <2>3. \A phase : In(v, phase)' <=> In(v, phase)
      BY <1>3, <2>2 DEF In
    <2>4. PointOK(Saved(v)', JobOf(v)', head', stored')
      BY <1>1, <2>1, <2>2, PointStaysOK
    <2>5. Begins(seen'[v].head, head')
      BY <1>1, BeginsThrough DEF SeenOK
    <2>6. seen[v].at = "published" => Begins(Saved(v).plan, head')
      BY <1>1, <2>1, BeginsThrough DEF SeenOK
    <2>7. seen[v].at = "conflict" =>
            Len(Saved(v).plan) <= Len(head') /\ ~Begins(Saved(v).plan, head')
      <3> SUFFICES ASSUME seen[v].at = "conflict"
                   PROVE  Len(Saved(v).plan) <= Len(head') /\ ~Begins(Saved(v).plan, head')
        OBVIOUS
      <3>1. /\ Len(Saved(v).plan) \in Nat /\ Len(head) \in Nat /\ Len(head') \in Nat
            /\ Len(Saved(v).plan) <= Len(head) /\ Len(head) <= Len(head')
            /\ ~Begins(Saved(v).plan, head)
        BY <1>1, <2>1 DEF SeenOK, Begins
      <3>2. PICK i \in 1..Len(Saved(v).plan) : Saved(v).plan[i] # head[i]
        BY <3>1 DEF Begins
      <3>3. i \in 1..Len(head) /\ head'[i] = head[i]
        BY <3>1, <3>2 DEF Begins
      <3> QED
        BY <3>1, <3>2, <3>3 DEF Begins
    <2> QED
      BY <1>1, <2>2, <2>3, <2>4, <2>5, <2>6, <2>7 DEF SeenOK
  <1> QED
    BY <1>2, <1>3

\* The answers change with the completed rows only.
LEMMA AnswersStay ==
    ASSUME head' = head,
           \A j \in Job : /\ Ended(j, {"completed"})' <=> Ended(j, {"completed"})
                          /\ Ended(j, {"completed"}) => row'[j].result = row[j].result
    PROVE  Answers' = Answers /\ LedgerStep
  <1>1. {i \in Job : Ended(i, {"completed"})}' = {i \in Job : Ended(i, {"completed"})}
    OBVIOUS
  <1>2. Answers' = Answers
    BY <1>1 DEF Answers
  <1> QED
    BY <1>2 DEF LedgerStep, Ledger!ledgerVars

\* A completed job answers with the version of its command.
LEMMA AnswerGiven ==
    ASSUME head' = head, NEW j \in Job, ~Ended(j, {"completed"}), Ended(j, {"completed"})',
           AnswerOK(j, row'[j].result, head), \A i \in Job \ {j} : row'[i] = row[i]
    PROVE  LedgerStep
  <1> DEFINE v == row'[j].result
             a == [id |-> j, hash |-> "own", version |-> v]
  <1>1. {i \in Job : Ended(i, {"completed"})}' = {i \in Job : Ended(i, {"completed"})} \cup {j}
    BY DEF Ended, Jobs!Exists
  <1>2. Answers' = Answers \cup {a}
    BY <1>1 DEF Answers
  <1>3. v \in 1..Len(head) /\ a = Ledger!AnswerFor(head[v], v)
    BY DEF AnswerOK, Ledger!AnswerFor
  <1> HIDE DEF v, a
  <1>4. Ledger!Answer(v)
    BY <1>2, <1>3 DEF Ledger!Answer
  <1> QED
    BY <1>3, <1>4 DEF LedgerStep, Ledger!LedgerNext

-----------------------------------------------------------------------------
(* A phase saves its checkpoint and returns *)

\* What a phase may save: a checkpoint that is right, an answer that was
\* accepted, and, of a job that has published or still may, none that turns back.
MaySave(w, point, state, result) ==
    /\ PointOK(point, JobOf(w), head, stored)
    /\ state = "completed" => /\ AnswerOK(JobOf(w), result, head)
                              /\ JobOf(w) \in Import => JobOf(w) \in finalized
    /\ claim[w].state = "committing" /\ Saved(w).phase = "publish" =>
         \/ state = "committing" /\ point.phase = "publish" /\ point.plan = Saved(w).plan
         \/ Len(Saved(w).plan) <= Len(head)
    /\ claim[w].state = "committing" /\ Saved(w).phase \in {"publish", "finalize"}
       /\ Begins(Saved(w).plan, head) =>
         \/ state = "completed"
         \/ state = "committing" /\ point.phase = "finalize"
         \/ state = "committing" /\ point.phase = "publish" /\ point.plan = Saved(w).plan

\* A checkpoint written over a row keeps what is said of rows, if the worker may save it.
LEMMA RowsAfterSave ==
    ASSUME Inv, NEW w \in Worker, NEW point \in Point, NEW result \in Nat,
           NEW wait \in 0..RetryWait, NEW stays \in BOOLEAN, NEW state \in States,
           stays => ~Jobs!Released(state, wait),
           Jobs!Checkpoint(w, point, state, result, wait, stays),
           MaySave(w, point, state, result), UNCHANGED portfolio
    PROVE  /\ Stored!IInv' /\ RowsOK'
           /\ \A i \in Job, plan \in Seq(Entry) :
                AtPublish(i, plan) /\ Len(head) < Len(plan) => AtPublish(i, plan)'
           /\ PublishedOnItsWay' /\ OwnEntries' /\ PublishedContentComplete' /\ ImportFinalized'
  <1> DEFINE j == JobOf(w)
  <1>1. Stored!IInv
    BY DEF Inv
  <1>2. /\ Stored!IInv' /\ claim[w] # Idle
        /\ j \in Job /\ Jobs!Exists(j)
        /\ row[j].state = claim[w].state /\ row[j].point = Saved(w)
        /\ row'[j] # Absent
        /\ row'[j].state = state /\ row'[j].point = point /\ row'[j].result = result
        /\ \A i \in Job \ {j} : row'[i] = row[i]
    BY <1>1, CheckpointEffect
  <1>3. head' = head /\ stored' = stored /\ finalized' = finalized
    BY DEF portfolio
  <1> HIDE DEF j
  <1>4. RowsOK'
    <2>1. ASSUME NEW i \in Job, Jobs!Exists(i)'
          PROVE  /\ PointOK(row'[i].point, i, head, stored)
                 /\ row'[i].state = "completed" => AnswerOK(i, row'[i].result, head)
      <3>1. CASE i = j
        BY <1>2, <3>1 DEF MaySave, j
      <3>2. CASE i # j
        BY <1>2, <2>1, <3>2 DEF Inv, RowsOK, Jobs!Exists
      <3> QED
        BY <3>1, <3>2
    <2> QED
      BY <1>3, <2>1 DEF RowsOK
  <1>5. ASSUME NEW i \in Job, NEW plan \in Seq(Entry), AtPublish(i, plan), Len(head) < Len(plan)
        PROVE  AtPublish(i, plan)'
    <2>1. CASE i = j
      <3>1. claim[w].state = "committing" /\ Saved(w).phase = "publish" /\ Saved(w).plan = plan
        BY <1>2, <1>5, <2>1 DEF AtPublish
      <3>2. Len(plan) \in Nat /\ Len(head) \in Nat
        BY DEF Inv, TypeOK
      <3>3. state = "committing" /\ point.phase = "publish" /\ point.plan = plan
        BY <1>5, <3>1, <3>2 DEF MaySave
      <3> QED
        BY <1>2, <2>1, <3>3 DEF AtPublish, Jobs!Exists
    <2>2. CASE i # j
      BY <1>2, <1>5, <2>2 DEF AtPublish, Jobs!Exists
    <2> QED
      BY <2>1, <2>2
  <1>6. ASSUME NEW i \in Job, OnItsWay(i)
        PROVE  OnItsWay(i)'
    <2>1. CASE i = j
      <3>1. row[j].state # "completed"
        BY <1>1, <1>2, CheckpointEffect
      <3>2. /\ claim[w].state = "committing" /\ Saved(w).phase \in {"publish", "finalize"}
            /\ Begins(Saved(w).plan, head)
        BY <1>2, <1>6, <2>1, <3>1, ClaimFields DEF OnItsWay, Ended, AtPublish, PointOK, j
      <3>3. \/ state = "completed"
            \/ state = "committing" /\ point.phase = "finalize"
            \/ state = "committing" /\ point.phase = "publish" /\ point.plan = Saved(w).plan
        BY <3>2 DEF MaySave
      <3> QED
        BY <1>2, <1>3, <2>1, <3>2, <3>3 DEF OnItsWay, Ended, AtPublish, Jobs!Exists
    <2>2. CASE i # j
      BY <1>2, <1>3, <1>6, <2>2 DEF OnItsWay, Ended, AtPublish, Jobs!Exists
    <2> QED
      BY <2>1, <2>2
  <1>7. PublishedOnItsWay'
    BY <1>3, <1>6 DEF Inv, PublishedOnItsWay
  <1>8. OwnEntries' /\ PublishedContentComplete'
    BY <1>3 DEF Inv, OwnEntries, PublishedContentComplete
  <1>9. ImportFinalized'
    <2>1. ASSUME NEW i \in Import, Ended(i, {"completed"})'
          PROVE  i \in finalized
      <3>1. i \in Job
        BY JobAssumption
      <3>2. CASE i = j
        BY <1>2, <2>1, <3>2 DEF MaySave, Ended, j
      <3>3. CASE i # j
        BY <1>2, <2>1, <3>1, <3>3 DEF Inv, ImportFinalized, Ended, Jobs!Exists
      <3> QED
        BY <3>2, <3>3
    <2> QED
      BY <1>3, <2>1 DEF ImportFinalized
  <1> QED
    BY <1>2, <1>4, <1>5, <1>7, <1>8, <1>9

\* Where the other invocations stand after a step of w.
LEMMA SeenAndClaims ==
    ASSUME Inv, NEW w \in Worker, \A v \in Worker \ {w} : Kept(v) /\ seen'[v] = seen[v],
           head' \in Seq(Entry), Begins(head, head'),
           stored \subseteq stored', finalized \subseteq finalized',
           SeenOK(w)', claim'[w] # Idle => PointOK(Saved(w)', JobOf(w)', head', stored')
    PROVE  ClaimsOK' /\ \A v \in Worker : SeenOK(v)'
  <1>1. ASSUME NEW v \in Worker
        PROVE  /\ SeenOK(v)'
               /\ claim'[v] # Idle => PointOK(Saved(v)', JobOf(v)', head', stored')
    BY OthersSafe
  <1> QED
    BY <1>1 DEF ClaimsOK

\* A write that is still to come counts as long as its row awaits it.
LEMMA LateWrites ==
    ASSUME Inv, NEW w \in Worker, \A v \in Worker \ {w} : Kept(v) /\ seen'[v] = seen[v],
           head' = head,
           \A i \in Job, plan \in Seq(Entry) :
              AtPublish(i, plan) /\ Len(head) < Len(plan) => AtPublish(i, plan)',
           seen'[w].at = "publishing" /\ Len(head) < Len(Saved(w)'.plan) =>
              AtPublish(JobOf(w), Saved(w).plan)'
    PROVE  LateWritesCounted'
  <1>1. ASSUME NEW v \in Worker \ {w}, seen'[v].at = "publishing", Len(head) < Len(Saved(v)'.plan)
        PROVE  AtPublish(JobOf(v), Saved(v).plan)'
    <2>1. seen[v].at = "publishing" /\ claim[v] # Idle
      BY <1>1 DEF Inv, SeenOK, In
    <2>2. Saved(v)' = Saved(v) /\ JobOf(v)' = JobOf(v)
      BY <2>1 DEF Kept, Saved, JobOf
    <2>3. Saved(v).plan \in Seq(Entry) /\ JobOf(v) \in Job
      BY <2>1, ClaimFields, PointFields
    <2>4. AtPublish(JobOf(v), Saved(v).plan)
      BY <1>1, <2>1, <2>2 DEF Inv, LateWritesCounted
    <2>5. AtPublish(JobOf(v), Saved(v).plan)'
      BY <1>1, <2>2, <2>3, <2>4
    <2> QED
      BY <2>5
  <1>2. Len(head') = Len(head)
    OBVIOUS
  <1> QED
    BY <1>1, <1>2 DEF LateWritesCounted

\* Every phase that saves and returns keeps the invariant.
LEMMA SaveSafe ==
    ASSUME Inv, NEW w \in Worker, NEW point \in Point, NEW result \in Nat,
           NEW wait \in 0..RetryWait, NEW state \in States,
           Jobs!Checkpoint(w, point, state, result, wait, FALSE),
           Return(w), UNCHANGED portfolio, faults' \in 0..MaxFaults,
           MaySave(w, point, state, result)
    PROVE  Inv' /\ LedgerStep
  <1>1. Stored!IInv /\ FALSE \in BOOLEAN
    BY DEF Inv
  <1>2. claim'[w] = Idle /\ \A v \in Worker \ {w} : Kept(v)
    BY <1>1, CheckpointEffect
  <1>3. /\ Stored!IInv' /\ RowsOK'
        /\ \A i \in Job, plan \in Seq(Entry) :
             AtPublish(i, plan) /\ Len(head) < Len(plan) => AtPublish(i, plan)'
        /\ PublishedOnItsWay' /\ OwnEntries' /\ PublishedContentComplete' /\ ImportFinalized'
    BY <1>1, RowsAfterSave
  <1>4. /\ head' = head /\ stored' = stored /\ finalized' = finalized
        /\ head \in Seq(Entry) /\ Begins(head, head)
    BY DEF portfolio, Inv, TypeOK, Begins
  <1>5. seen'[w] = Fresh /\ \A v \in Worker \ {w} : seen'[v] = seen[v]
    BY DEF Return, Inv, TypeOK
  <1>6. SeenOK(w)'
    <2>1. Begins(<<>>, head)
      BY <1>4 DEF Begins
    <2> QED
      BY <1>2, <1>4, <1>5, <2>1 DEF SeenOK, In, Fresh
  <1>7. ClaimsOK' /\ \A v \in Worker : SeenOK(v)'
    BY <1>2, <1>4, <1>5, <1>6, SeenAndClaims
  <1>8. LateWritesCounted'
    <2>1. seen'[w].at # "publishing"
      BY <1>5 DEF Fresh
    <2> QED
      BY <1>2, <1>3, <1>4, <1>5, <2>1, LateWrites
  <1>9. TypeOK'
    <2>1. seen' \in [Worker -> [at : {"begin", "ready", "publishing", "published", "conflict"},
                               head : Seq(Entry)]]
      BY DEF Inv, TypeOK, Return, Fresh
    <2> QED
      BY <1>3, <1>4, <2>1, TypesOfStore DEF Inv, TypeOK
  <1>10. LedgerStep
    <2> DEFINE j == JobOf(w)
    <2>1. /\ j \in Job /\ row[j].state \in {"running", "committing"}
          /\ row'[j] # Absent /\ row'[j].state = state /\ row'[j].result = result
          /\ \A i \in Job \ {j} : row'[i] = row[i]
      <3>1. /\ claim[w].state \in {"running", "committing"} /\ j \in Job
            /\ row[j].state = claim[w].state
            /\ row'[j] # Absent /\ row'[j].state = state /\ row'[j].result = result
            /\ \A i \in Job \ {j} : row'[i] = row[i]
        <4> DEFINE stays == FALSE
        <4>1. Jobs!Checkpoint(w, point, state, result, wait, stays) /\ stays \in BOOLEAN
              /\ (stays => ~Jobs!Released(state, wait))
          OBVIOUS
        <4> HIDE DEF stays, j
        <4> QED
          BY <1>1, <4>1, CheckpointEffect DEF j
      <3> QED
        BY <3>1
    <2> HIDE DEF j
    <2>2. ~Ended(j, {"completed"}) /\ \A i \in Job : i = j => Ended(i, {state})'
      BY <2>1 DEF Ended, Jobs!Exists
    <2>3. CASE state = "completed"
      <3>1. AnswerOK(j, row'[j].result, head)
        BY <2>1, <2>3 DEF MaySave, j
      <3>2. \A i \in Job : i = j => Ended(i, {"completed"})'
        BY <2>2, <2>3
      <3>3. PICK i \in Job : i = j
        BY <2>1
      <3> QED
        BY <1>4, <2>1, <2>2, <3>1, <3>2, <3>3, AnswerGiven
    <2>4. CASE state # "completed"
      <3>1. \A i \in Job : /\ Ended(i, {"completed"})' <=> Ended(i, {"completed"})
                           /\ Ended(i, {"completed"}) => row'[i].result = row[i].result
        BY <2>1, <2>2, <2>4 DEF Ended, Jobs!Exists
      <3> QED
        BY <1>4, <3>1, AnswersStay
    <2> QED
      BY <2>3, <2>4
  <1> QED
    BY <1>3, <1>7, <1>8, <1>9, <1>10 DEF Inv

-----------------------------------------------------------------------------
(* The phases that save and return, one by one *)

\* Before its publication a job may save whatever is right.
LEMMA EarlyMaySave ==
    ASSUME NEW w, NEW point, NEW state, NEW result,
           Saved(w).phase \notin {"publish", "finalize"},
           PointOK(point, JobOf(w), head, stored), state # "completed"
    PROVE  MaySave(w, point, state, result)
  BY DEF MaySave

\* What advance() and a failed phase are saved with.
LEMMA Waits ==
    /\ 0 \in 0..RetryWait /\ 1 \in 0..RetryWait /\ RetryWait \in 0..RetryWait /\ 0 \in Nat
    /\ {"completed", "failed", "running", "committing", "retry"} \subseteq States
    /\ "committing" # "completed" /\ "retry" # "completed" /\ "failed" # "completed"
  BY JobAssumption DEF States, Jobs!Terminal

\* An invocation that saves its next checkpoint before publication keeps the invariant.
LEMMA AdvanceSafe ==
    ASSUME Inv, NEW w \in Worker, NEW point \in Point, claim[w] # Idle,
           Saved(w).phase \notin {"publish", "finalize"},
           Advance(w, point), PointOK(point, JobOf(w), head, stored),
           Return(w), UNCHANGED portfolio, faults' \in 0..MaxFaults
    PROVE  Inv' /\ LedgerStep
  <1> DEFINE state == IF claim[w].state = "committing" THEN "committing" ELSE "retry"
  <1>1. state \in States /\ state # "completed" /\ 1 \in 0..RetryWait
    BY Waits
  <1>2. Jobs!Checkpoint(w, point, state, 0, 1, FALSE)
    BY DEF Advance, NoResult
  <1> HIDE DEF state
  <1>3. MaySave(w, point, state, 0)
    BY <1>1, EarlyMaySave
  <1> QED
    BY <1>1, <1>2, <1>3, Waits, SaveSafe

\* The checkpoints that start again.
LEMMA RestartSafe ==
    ASSUME Inv, NEW w \in Worker, claim[w] # Idle,
           Saved(w).phase \notin {"publish", "finalize"},
           NEW p, Empty(p), Advance(w, p),
           Return(w), UNCHANGED portfolio, faults' \in 0..MaxFaults
    PROVE  Inv' /\ LedgerStep
  <1>1. head \in Seq(Entry)
    BY DEF Inv, TypeOK
  <1>2. PointOK(p, JobOf(w), head, stored) /\ p \in Point
    BY <1>1, EmptyPointOK DEF Empty
  <1> QED
    BY <1>2, AdvanceSafe

\* An invocation that starts over (after registration, capture or a moved head) keeps it.
LEMMA RestartsSafe ==
    ASSUME Inv, NEW w \in Worker, SaveStart(w) \/ SaveCapture(w) \/ Recapture(w)
    PROVE  Inv' /\ LedgerStep
  <1>1. /\ claim[w] # Idle /\ Saved(w).phase \in {"start", "capture", "plan"}
        /\ Return(w) /\ UNCHANGED portfolio /\ faults' \in 0..MaxFaults
    BY JobAssumption DEF SaveStart, SaveCapture, Recapture, In, Inv, TypeOK
  <1>2. \/ Advance(w, ToHistory(Start))
        \/ Advance(w, [ToHistory(Start) EXCEPT !.captured = TRUE])
        \/ Advance(w, [Start EXCEPT !.phase = "capture"])
    BY DEF SaveStart, SaveCapture, Recapture
  <1>3. PICK p : Empty(p) /\ Advance(w, p)
    BY <1>2, EmptyPoints, StoreConstants
  <1> QED
    BY <1>1, <1>3, RestartSafe

\* A job that fails for good before publication keeps it.
LEMMA RefuseSafe ==
    ASSUME Inv, NEW w \in Worker, Refuse(w)
    PROVE  Inv' /\ LedgerStep
  <1>1. /\ claim[w] # Idle /\ Saved(w).phase \in {"start", "capture", "plan"}
        /\ Jobs!Checkpoint(w, Saved(w), "failed", 0, 0, FALSE) /\ Return(w)
        /\ UNCHANGED portfolio /\ faults' \in 0..MaxFaults
    BY DEF Refuse, In, Inv, TypeOK, NoResult
  <1>2. Saved(w) \in Point /\ PointOK(Saved(w), JobOf(w), head, stored)
    BY <1>1, ClaimFields
  <1>3. MaySave(w, Saved(w), "failed", 0)
    BY <1>1, <1>2, EarlyMaySave
  <1> QED
    BY <1>1, <1>2, <1>3, Waits, SaveSafe

\* A failed phase keeps its checkpoint, and a publishing job its state.
LEMMA RetrySafe ==
    ASSUME Inv, NEW w \in Worker, claim[w] # Idle, Retry(w),
           Return(w), UNCHANGED portfolio, faults' \in 0..MaxFaults
    PROVE  Inv' /\ LedgerStep
  <1> DEFINE state == IF claim[w].state = "committing" THEN "committing" ELSE "retry"
  <1>1. state \in States /\ state # "completed" /\ RetryWait \in 0..RetryWait
        /\ (claim[w].state = "committing" => state = "committing")
    BY Waits
  <1>2. Jobs!Checkpoint(w, Saved(w), state, 0, RetryWait, FALSE)
    BY DEF Retry, NoResult
  <1>3. Saved(w) \in Point /\ PointOK(Saved(w), JobOf(w), head, stored)
    BY ClaimFields
  <1> HIDE DEF state
  <1>4. MaySave(w, Saved(w), state, 0)
    BY <1>1, <1>3 DEF MaySave
  <1> QED
    BY <1>1, <1>2, <1>3, <1>4, Waits, SaveSafe

\* A phase that fails and is to be tried again keeps it.
LEMMA PhaseFailsSafe ==
    ASSUME Inv, NEW w \in Worker, PhaseFails(w) \/ IdentityReused(w)
    PROVE  Inv' /\ LedgerStep
  BY RetrySafe, JobAssumption DEF PhaseFails, IdentityReused, CanPage, In, Inv, TypeOK

-----------------------------------------------------------------------------
(* Steps of the store alone: clients, claims, time, invocations that end *)

\* A step that neither saves a checkpoint nor completes a job.
Quiet(j) ==
    /\ Jobs!Exists(j) =>
         /\ row'[j] # Absent
         /\ row'[j].point = row[j].point /\ row'[j].result = row[j].result
         /\ row'[j].state = "completed" <=> row[j].state = "completed"
         /\ row[j].state = "committing" => row'[j].state = "committing"
    /\ ~Jobs!Exists(j) =>
         row'[j] = Absent \/ (row'[j].point = Start /\ row'[j].state = "queued")

\* A worker slot goes on, is given up, or takes a job with its checkpoint.
Resumes(v) ==
    \/ Kept(v) /\ seen'[v] = seen[v]
    \/ claim'[v] = Idle /\ seen'[v] = Fresh
    \/ /\ claim[v] = Idle /\ claim'[v] # Idle /\ seen'[v] = seen[v]
       /\ claim'[v].job \in Job /\ Jobs!Exists(claim'[v].job)
       /\ claim'[v].point = row[claim'[v].job].point

\* A step of the store that moves no checkpoint and no head keeps it, and is no step of the ledger.
LEMMA QuietSafe ==
    ASSUME Inv, Stored!IInv', \A j \in Job : Quiet(j), \A v \in Worker : Resumes(v),
           UNCHANGED portfolio, faults' \in 0..MaxFaults,
           seen' \in [Worker -> [at : {"begin", "ready", "publishing", "published", "conflict"},
                                 head : Seq(Entry)]]
    PROVE  Inv' /\ LedgerStep
  <1>1. /\ head' = head /\ stored' = stored /\ finalized' = finalized
        /\ head \in Seq(Entry) /\ Begins(head, head) /\ Begins(<<>>, head)
    BY DEF portfolio, Inv, TypeOK, Begins
  <1>2. TypeOK'
    BY <1>1, TypesOfStore DEF Inv, TypeOK
  <1>3. RowsOK'
    <2>1. ASSUME NEW j \in Job, row'[j] # Absent
          PROVE  /\ PointOK(row'[j].point, j, head, stored)
                 /\ row'[j].state = "completed" => AnswerOK(j, row'[j].result, head)
      <3>1. CASE Jobs!Exists(j)
        BY <3>1 DEF Inv, RowsOK, Quiet
      <3>2. CASE ~Jobs!Exists(j)
        BY <1>1, <2>1, <3>2, EmptyPoints, EmptyPointOK DEF Quiet
      <3> QED
        BY <3>1, <3>2
    <2> QED
      BY <1>1, <2>1 DEF RowsOK, Jobs!Exists
  <1>4. ASSUME NEW v \in Worker
        PROVE  /\ SeenOK(v)'
               /\ claim'[v] # Idle => PointOK(Saved(v)', JobOf(v)', head', stored')
    <2>1. CASE Kept(v) /\ seen'[v] = seen[v]
      BY <1>1, <2>1, OthersSafe
    <2>2. CASE claim'[v] = Idle /\ seen'[v] = Fresh
      BY <1>1, <2>2 DEF SeenOK, In, Fresh
    <2>3. CASE /\ claim[v] = Idle /\ claim'[v] # Idle /\ seen'[v] = seen[v]
               /\ claim'[v].job \in Job /\ Jobs!Exists(claim'[v].job)
               /\ claim'[v].point = row[claim'[v].job].point
      <3>1. seen'[v] = Fresh
        BY <2>3 DEF Inv, SeenOK
      <3>2. PointOK(claim'[v].point, claim'[v].job, head, stored)
        BY <2>3 DEF Inv, RowsOK
      <3> QED
        BY <1>1, <2>3, <3>1, <3>2 DEF SeenOK, In, Fresh, Saved, JobOf
    <2> QED
      BY <2>1, <2>2, <2>3 DEF Resumes
  <1>5. LateWritesCounted'
    <2>1. ASSUME NEW v \in Worker, seen'[v].at = "publishing", Len(head) < Len(Saved(v)'.plan)
          PROVE  AtPublish(JobOf(v), Saved(v).plan)'
      <3>1. claim[v] # Idle /\ Kept(v) /\ seen[v].at = "publishing"
        <4>1. Fresh.at # "publishing"
          BY DEF Fresh
        <4>2. claim[v] = Idle => seen[v] = Fresh
          BY DEF Inv, SeenOK
        <4> QED
          BY <2>1, <4>1, <4>2 DEF Resumes
      <3>2. Saved(v)' = Saved(v) /\ JobOf(v)' = JobOf(v) /\ JobOf(v) \in Job
        BY <3>1, ClaimFields DEF Kept, Saved, JobOf
      <3>3. AtPublish(JobOf(v), Saved(v).plan)
        BY <2>1, <3>1, <3>2 DEF Inv, LateWritesCounted
      <3> QED
        BY <3>2, <3>3 DEF AtPublish, Quiet, Jobs!Exists
    <2> QED
      BY <1>1, <2>1 DEF LateWritesCounted
  <1>6. PublishedOnItsWay'
    <2>1. ASSUME NEW j \in Job, OnItsWay(j)
          PROVE  OnItsWay(j)'
      BY <1>1, <2>1 DEF OnItsWay, Ended, AtPublish, Quiet, Jobs!Exists
    <2> QED
      BY <1>1, <2>1 DEF Inv, PublishedOnItsWay
  <1>7. ImportFinalized'
    <2>1. \A j \in Import : Ended(j, {"completed"})' => Ended(j, {"completed"})
      BY JobAssumption DEF Ended, Quiet, Jobs!Exists
    <2> QED
      BY <1>1, <2>1 DEF Inv, ImportFinalized
  <1>8. OwnEntries' /\ PublishedContentComplete'
    BY <1>1 DEF Inv, OwnEntries, PublishedContentComplete
  <1>9. LedgerStep
    <2>1. \A j \in Job : /\ Ended(j, {"completed"})' <=> Ended(j, {"completed"})
                         /\ Ended(j, {"completed"}) => row'[j].result = row[j].result
      BY DEF Ended, Quiet, Jobs!Exists
    <2> QED
      BY <1>1, <2>1, AnswersStay
  <1> QED
    BY <1>2, <1>3, <1>4, <1>5, <1>6, <1>7, <1>8, <1>9 DEF Inv, ClaimsOK

\* The rows other than j, and the copies, of a write of row j.
LEMMA QuietWrite ==
    ASSUME Inv, NEW j \in Job, NEW new, row' = [row EXCEPT ![j] = new], new # Absent,
           Jobs!Exists(j) =>
              /\ new.point = row[j].point /\ new.result = row[j].result
              /\ new.state = "completed" <=> row[j].state = "completed"
              /\ row[j].state = "committing" => new.state = "committing",
           ~Jobs!Exists(j) => new.point = Start /\ new.state = "queued"
    PROVE  \A i \in Job : Quiet(i)
  <1>1. row'[j] = new /\ \A i \in Job \ {j} : row'[i] = row[i]
    BY DEF Inv, Stored!IInv, Stored!TypeOK
  <1>2. \A i \in Job \ {j} : Quiet(i)
    BY <1>1 DEF Quiet, Jobs!Exists
  <1>3. Quiet(j)
    BY <1>1 DEF Quiet
  <1> QED
    BY <1>2, <1>3

\* admit()
LEMMA AdmitQuiet ==
    ASSUME Inv, NEW j \in Job, Admit(j)
    PROVE  Inv' /\ LedgerStep
  <1>1. Stored!IInv'
    BY SameStore, StoreConstants, Stored!AdmitSafe DEF Stored!AdmitSafe, Inv, Admit
  <1> DEFINE new == [state |-> "queued", point |-> Start, result |-> NoResult,
                     cancelRequested |-> FALSE, due |-> 0, lease |-> 0]
  <1>2. row' = [row EXCEPT ![j] = new] /\ claim' = claim /\ ~Jobs!Exists(j)
    BY DEF Admit, Jobs!Admit
  <1>3. new # Absent
    <2>1. row'[j] = new /\ row'[j] \in Stored!Row \cup {Absent}
      BY <1>1, <1>2 DEF Inv, Stored!IInv, Stored!TypeOK
    <2>2. new \in Stored!Row
      BY StoreConstants DEF Stored!Row, Stored!Claimable, Stored!Terminal
    <2> QED
      BY <2>2, StoreConstants
  <1>4. \A i \in Job : Quiet(i)
    BY <1>2, <1>3, QuietWrite
  <1>5. \A v \in Worker : Resumes(v)
    BY <1>2 DEF Resumes, Kept, Admit
  <1> QED
    BY <1>1, <1>4, <1>5, QuietSafe DEF Admit, Inv, TypeOK

\* A write of an existing row, by a client or the dispatcher, that makes the
\* copies of it stale.
LEMMA StaleResumes ==
    ASSUME Inv, NEW j \in Job, NEW v \in Worker, claim'[v] = Jobs!Stale(j, v), seen' = seen
    PROVE  Resumes(v)
  BY StaleKeeps DEF Resumes, Inv

\* cancel(): a publishing job and a finished one are left alone.
LEMMA CancelQuiet ==
    ASSUME Inv, NEW j \in Job, Cancel(j)
    PROVE  Inv' /\ LedgerStep
  <1>1. Stored!IInv'
    BY SameStore, StoreConstants, Stored!CancelSafe DEF Stored!CancelSafe, Inv, Cancel
  <1>2. /\ Jobs!Exists(j) /\ row[j] \in Stored!Row
        /\ row[j].state \notin {"committing", "completed"}
        /\ claim' = [v \in Worker |-> Jobs!Stale(j, v)]
    BY DEF Cancel, Jobs!Cancel, Jobs!Cancellable, Jobs!Unfinished, Jobs!Exists, Jobs!Terminal,
       Inv, Stored!IInv, Stored!TypeOK
  <1>3. PICK new : /\ row' = [row EXCEPT ![j] = new]
                   /\ new = [row[j] EXCEPT !.cancelRequested = TRUE, !.due = row[j].lease] \/
                      new = [row[j] EXCEPT !.cancelRequested = TRUE, !.state = "cancelled", !.due = Never]
    BY ZenonT(30) DEF Cancel, Jobs!Cancel
  <1>4. /\ new.point = row[j].point /\ new.result = row[j].result
        /\ new.state \in {row[j].state, "cancelled"}
    BY <1>2, <1>3 DEF Stored!Row
  <1>5. new # Absent
    <2>1. /\ row[j].lease \in 0..Never /\ Never \in 0..Never
          /\ "cancelled" \in Stored!Terminal \cup Stored!Claimable
      BY <1>2, StoreConstants DEF Stored!Row, Stored!Terminal
    <2>2. new \in Stored!Row
      BY <1>2, <1>3, <2>1 DEF Stored!Row
    <2> QED
      BY <2>2, StoreConstants
  <1>6. \A i \in Job : Quiet(i)
    BY <1>2, <1>3, <1>4, <1>5, QuietWrite
  <1>7. \A v \in Worker : Resumes(v)
    BY <1>2, StaleResumes DEF Cancel
  <1> QED
    BY <1>1, <1>6, <1>7, QuietSafe DEF Cancel, Inv, TypeOK

\* claim(), of a job to be cancelled.
LEMMA ClaimCancelledQuiet ==
    ASSUME Inv, NEW j \in Job, ClaimCancelled(j)
    PROVE  Inv' /\ LedgerStep
  <1>1. Stored!IInv'
    BY SameStore, StoreConstants, Stored!ClaimCancelledSafe
    DEF Stored!ClaimCancelledSafe, Inv, ClaimCancelled
  <1> DEFINE new == [row[j] EXCEPT !.state = "cancelled", !.due = Never]
  <1>2. /\ Jobs!Exists(j) /\ row[j] \in Stored!Row
        /\ row[j].state \notin {"committing", "completed"}
        /\ claim' = [v \in Worker |-> Jobs!Stale(j, v)]
        /\ row' = [row EXCEPT ![j] = new]
    BY DEF ClaimCancelled, Jobs!ClaimCancelled, Jobs!Due, Jobs!Unfinished, Jobs!Exists,
       Jobs!Terminal, Inv, Stored!IInv, Stored!TypeOK
  <1>3. new.point = row[j].point /\ new.result = row[j].result /\ new.state = "cancelled"
    BY <1>2 DEF Stored!Row
  <1>4. new # Absent
    <2>1. Never \in 0..Never /\ "cancelled" \in Stored!Terminal \cup Stored!Claimable
      BY StoreConstants DEF Stored!Terminal
    <2>2. new \in Stored!Row
      BY <1>2, <2>1 DEF Stored!Row
    <2> QED
      BY <2>2, StoreConstants
  <1> HIDE DEF new
  <1>5. \A i \in Job : Quiet(i)
    BY <1>2, <1>3, <1>4, QuietWrite
  <1>6. \A v \in Worker : Resumes(v)
    BY <1>2, StaleResumes DEF ClaimCancelled
  <1> QED
    BY <1>1, <1>5, <1>6, QuietSafe DEF ClaimCancelled, Inv, TypeOK

\* claim(): the new worker goes on from the stored checkpoint.
LEMMA ClaimJobQuiet ==
    ASSUME Inv, NEW w \in Worker, NEW j \in Job, ClaimJob(w, j)
    PROVE  Inv' /\ LedgerStep
  <1>1. Stored!IInv'
    BY SameStore, StoreConstants, Stored!ClaimJobSafe DEF Stored!ClaimJobSafe, Inv, ClaimJob
  <1> DEFINE new == [row[j] EXCEPT !.state = Jobs!ClaimedState(j), !.due = Lease, !.lease = Lease]
             copy == [job |-> j, state |-> Jobs!ClaimedState(j), point |-> row[j].point,
                      current |-> TRUE]
  <1>2. /\ Jobs!Exists(j) /\ row[j] \in Stored!Row /\ row[j].state # "completed"
        /\ row' = [row EXCEPT ![j] = new] /\ claim[w] = Idle
        /\ claim' = [v \in Worker |-> IF v = w THEN copy ELSE Jobs!Stale(j, v)]
    BY DEF ClaimJob, Jobs!ClaimJob, Jobs!Due, Jobs!Unfinished, Jobs!Exists,
       Jobs!Terminal, Inv, Stored!IInv, Stored!TypeOK
  <1>3. /\ Jobs!ClaimedState(j) \in {"running", "committing"}
        /\ row[j].state = "committing" => Jobs!ClaimedState(j) = "committing"
    BY DEF Jobs!ClaimedState
  <1>4. new.point = row[j].point /\ new.result = row[j].result /\ new.state = Jobs!ClaimedState(j)
    BY <1>2 DEF Stored!Row
  <1>5. new # Absent /\ copy # Idle
    <2>1. /\ Lease \in 0..Never /\ Lease \in 0..Lease
          /\ Jobs!ClaimedState(j) \in Stored!Terminal \cup Stored!Claimable
      BY <1>3, StoreConstants DEF Stored!Claimable
    <2>2. new \in Stored!Row /\ copy \in Stored!Claim
      BY <1>2, <1>3, <2>1 DEF Stored!Row, Stored!Claim
    <2> QED
      BY <2>2, StoreConstants
  <1>6. copy.job = j /\ copy.point = row[j].point
    OBVIOUS
  <1> HIDE DEF new, copy
  <1>7. \A i \in Job : Quiet(i)
    BY <1>2, <1>3, <1>4, <1>5, QuietWrite
  <1>8. \A v \in Worker : Resumes(v)
    <2>1. Resumes(w)
      BY <1>2, <1>5, <1>6 DEF Resumes, ClaimJob
    <2>2. \A v \in Worker \ {w} : Resumes(v)
      BY <1>2, StaleResumes DEF ClaimJob
    <2> QED
      BY <2>1, <2>2
  <1> QED
    BY <1>1, <1>7, <1>8, QuietSafe DEF ClaimJob, Inv, TypeOK

\* An invocation ends without a write.
LEMMA LeaveQuiet ==
    ASSUME Inv, NEW w \in Worker, Crash(w) \/ Superseded(w)
    PROVE  Inv' /\ LedgerStep
  <1>1. /\ row' = row /\ claim' = [claim EXCEPT ![w] = Idle] /\ Return(w)
        /\ UNCHANGED portfolio /\ faults' \in 0..MaxFaults
    BY JobAssumption DEF Crash, Superseded, Jobs!Leave, Inv, TypeOK
  <1>2. Stored!IInv'
    BY <1>1, StoreConstants, Stored!LeaveSafe DEF Stored!LeaveSafe, Inv
  <1>3. \A i \in Job : Quiet(i)
    BY <1>1 DEF Quiet, Jobs!Exists
  <1>4. \A v \in Worker : Resumes(v)
    BY <1>1 DEF Resumes, Kept, Return, Inv, TypeOK, Stored!IInv, Stored!TypeOK
  <1>5. seen' \in [Worker -> [at : {"begin", "ready", "publishing", "published", "conflict"},
                              head : Seq(Entry)]]
    BY <1>1 DEF Inv, TypeOK, Return, Fresh
  <1> QED
    BY <1>1, <1>2, <1>3, <1>4, <1>5, QuietSafe

\* Time that passes keeps it.
LEMMA TickQuiet ==
    ASSUME Inv, Tick
    PROVE  Inv' /\ LedgerStep
  <1>1. Stored!IInv'
    BY SameStore, StoreConstants, Stored!TickSafe DEF Stored!TickSafe, Inv, Tick
  <1>2. ASSUME NEW j \in Job, Jobs!Exists(j)
        PROVE  /\ row'[j] # Absent /\ row'[j].point = row[j].point
               /\ row'[j].result = row[j].result /\ row'[j].state = row[j].state
    <2>1. row[j] # Absent /\ row[j] \in Stored!Row
      BY <1>2 DEF Inv, Stored!IInv, Stored!TypeOK, Jobs!Exists
    <2>2. row'[j] = [row[j] EXCEPT !.due = Jobs!Less(@), !.lease = Jobs!Less(@)]
      BY <2>1 DEF Tick, Jobs!Tick, Jobs!Later
    <2>3. row[j].due \in 0..Never /\ row[j].lease \in 0..Lease
      BY <2>1 DEF Stored!Row
    <2>4. Jobs!Less(row[j].due) \in 0..Never /\ Jobs!Less(row[j].lease) \in 0..Lease
      BY <2>3, StoreConstants DEF Jobs!Less
    <2>5. row'[j] \in Stored!Row
      BY <2>1, <2>2, <2>4 DEF Stored!Row
    <2> QED
      BY <2>1, <2>2, <2>5, StoreConstants DEF Stored!Row
  <1>3. \A j \in Job : ~Jobs!Exists(j) => row'[j] = Absent
    BY DEF Tick, Jobs!Tick, Jobs!Later, Jobs!Exists
  <1>4. \A j \in Job : Quiet(j)
    BY <1>2, <1>3 DEF Quiet
  <1>5. \A v \in Worker : Resumes(v)
    BY DEF Resumes, Kept, Tick, Jobs!Tick
  <1>6. faults' \in 0..MaxFaults
    BY JobAssumption DEF Tick, Inv, TypeOK
  <1> QED
    BY <1>1, <1>4, <1>5, <1>6, QuietSafe DEF Tick, Inv, TypeOK

-----------------------------------------------------------------------------
(* The phases from the history to the finalization *)

\* One page more of the history, or the first one of a head just read.
LEMMA PinnedOK ==
    ASSUME Inv, NEW w \in Worker, CanPage(w)
    PROVE  /\ claim[w] # Idle /\ Saved(w).phase = "history"
           /\ Pinned(w).phase = "history"
           /\ PointOK(Pinned(w), JobOf(w), head, stored)
  <1>1. claim[w] # Idle /\ Saved(w).phase = "history"
    BY DEF CanPage, In
  <1>2. Saved(w) \in Point /\ PointOK(Saved(w), JobOf(w), head, stored)
    BY <1>1, ClaimFields
  <1>3. CASE Saved(w).pinned # <<>>
    BY <1>1, <1>2, <1>3 DEF Pinned
  <1>4. CASE Saved(w).pinned = <<>>
    <2> DEFINE p == Pinned(w)
    <2>1. seen[w].head \in Seq(Entry) /\ Begins(seen[w].head, head) /\ Len(seen[w].head) \in Nat
      <3>1. seen[w].head \in Seq(Entry)
        BY DEF Inv, TypeOK
      <3>2. SeenOK(w)
        BY DEF Inv
      <3> QED
        BY <3>1, <3>2 DEF SeenOK
    <2>2. /\ p = [Saved(w) EXCEPT !.pinned = seen[w].head, !.left = Len(seen[w].head)]
          /\ Saved(w).found = 0
      <3>1. Len(<<>>) = 0 /\ Saved(w).found \in Nat
        BY <1>2, PointFields
      <3> QED
        BY <1>2, <1>4, <3>1 DEF Pinned, PointOK
    <2>3. /\ p \in Point /\ p.pinned = seen[w].head /\ p.left = Len(seen[w].head)
          /\ p.found = 0 /\ p.phase = "history" /\ p.snapshot = Saved(w).snapshot
      BY <1>1, <1>2, <2>1, <2>2 DEF Point
    <2> HIDE DEF p
    <2>4. Begins(p.snapshot, head)
      BY <1>2, <2>3 DEF PointOK
    <2>5. PointOK(p, JobOf(w), head, stored)
      BY <2>1, <2>3, <2>4 DEF PointOK
    <2> QED
      BY <1>1, <2>3, <2>5 DEF p
  <1> QED
    BY <1>3, <1>4

\* Saving how far the history was searched keeps it.
LEMMA SaveHistorySafe ==
    ASSUME Inv, NEW w \in Worker, SaveHistory(w)
    PROVE  Inv' /\ LedgerStep
  <1> DEFINE j == JobOf(w)
             p == Pinned(w)
             left == IF p.left > PageSize THEN p.left - PageSize ELSE 0
             found == IF PageRecord(w) = {} THEN p.found ELSE CHOOSE k \in PageRecord(w) : TRUE
             next == IF left > 0 THEN "history"
                     ELSE IF j \in Import /\ ~Saved(w).captured THEN "capture" ELSE "plan"
             new == [p EXCEPT !.left = left, !.found = found, !.phase = next]
  <1>1. /\ claim[w] # Idle /\ Saved(w).phase = "history" /\ p.phase = "history"
        /\ PointOK(p, j, head, stored) /\ j \in Job
    BY PinnedOK, ClaimFields DEF SaveHistory
  <1>2. /\ p \in Point /\ p.pinned \in Seq(Entry) /\ p.left \in Nat /\ p.found \in Nat
        /\ Len(p.pinned) \in Nat /\ p.left <= Len(p.pinned)
    BY <1>1, PointFields DEF PointOK
  <1>3. /\ Return(w) /\ UNCHANGED portfolio /\ faults' \in 0..MaxFaults /\ head \in Seq(Entry)
        /\ \A k \in PageRecord(w) : p.pinned[k].hash = "own"
        /\ IF left = 0 /\ found > 0 THEN Complete(w, found) ELSE Advance(w, new)
    BY DEF SaveHistory, SameRequest, Inv, TypeOK
  <1>4. /\ left \in Nat /\ left <= p.left
        /\ \A k \in 1..Len(p.pinned) : k > left /\ k <= p.left => k \in Page(p)
    BY <1>2, JobAssumption DEF Page
  <1>5. ASSUME NEW k \in PageRecord(w)
        PROVE  /\ k \in Nat /\ k > 0 /\ k <= Len(p.pinned)
               /\ p.pinned[k].id = j /\ p.pinned[k].hash = "own"
    BY <1>2, <1>3 DEF PageRecord, Page
  <1>6. found \in Nat
        /\ (found > 0 => /\ found <= Len(p.pinned)
                         /\ p.pinned[found].id = j /\ p.pinned[found].hash = "own")
        /\ (found = 0 => PageRecord(w) = {} /\ p.found = 0)
    <2>1. CASE PageRecord(w) = {}
      BY <1>1, <1>2, <2>1 DEF PointOK
    <2>2. CASE PageRecord(w) # {}
      <3>1. found \in PageRecord(w)
        BY <2>2
      <3> HIDE DEF found
      <3> QED
        BY <1>5, <3>1
    <2> QED
      BY <2>1, <2>2
  <1>7. found = 0 => \A k \in 1..Len(p.pinned) : k > left => p.pinned[k].id # j
    <2> SUFFICES ASSUME found = 0, NEW k \in 1..Len(p.pinned), k > left
                 PROVE  p.pinned[k].id # j
      OBVIOUS
    <2>1. PageRecord(w) = {} /\ p.found = 0
      BY <1>6
    <2>2. CASE k > p.left
      BY <1>1, <2>1, <2>2 DEF PointOK
    <2>3. CASE k <= p.left
      BY <1>4, <2>1, <2>3 DEF PageRecord
    <2> QED
      BY <1>2, <2>2, <2>3
  <1>8. next \in {"history", "capture", "plan"} /\ (next = "plan" => ~(left > 0))
    OBVIOUS
  <1> HIDE DEF p, left, found, next, j
  <1>9. /\ new \in Point /\ new.pinned = p.pinned /\ new.snapshot = p.snapshot
        /\ new.left = left /\ new.found = found /\ new.phase = next
    BY <1>2, <1>4, <1>6, <1>8 DEF Point, Phase
  <1>10. Begins(p.pinned, head) /\ Begins(p.snapshot, head)
    BY <1>1 DEF PointOK
  <1>11. CASE left = 0 /\ found > 0
    <2>2. AnswerOK(j, found, head)
      <3>1. /\ found \in 1..Len(p.pinned) /\ Len(p.pinned) <= Len(head) /\ Len(head) \in Nat
            /\ \A i \in 1..Len(p.pinned) : p.pinned[i] = head[i]
        BY <1>2, <1>3, <1>6, <1>10, <1>11 DEF Begins
      <3> QED
        BY <1>2, <1>6, <1>11, <3>1 DEF AnswerOK
    <2>3. Jobs!Checkpoint(w, Start, "completed", found, 0, FALSE)
      BY <1>3, <1>11 DEF Complete
    <2>4. j \notin Import
      <3> SUFFICES ASSUME j \in Import
                   PROVE  FALSE
        OBVIOUS
      <3>1. head[found] = JobEntry(j) /\ found \in 1..Len(head)
        BY <2>2, JobAssumption DEF AnswerOK, Inv, OwnEntries
      <3>2. OnItsWay(j)
        BY <1>1, <3>1 DEF Inv, PublishedOnItsWay
      <3>3. row[j].state \in {"running", "committing"} /\ row[j].point = Saved(w)
        BY <1>6, <2>3, Waits, StoreConstants, CheckpointEffect DEF Inv, j
      <3> QED
        BY <1>1, <3>2, <3>3 DEF OnItsWay, Ended, AtPublish
    <2>5. PointOK(Start, j, head, stored)
      BY <1>3, EmptyPoints, EmptyPointOK
    <2>6. MaySave(w, Start, "completed", found)
      BY <1>1, <2>2, <2>4, <2>5 DEF MaySave, j
    <2> QED
      BY <1>3, <1>6, <2>3, <2>6, Waits, StoreConstants, SaveSafe
  <1>12. CASE ~(left = 0 /\ found > 0)
    <2>1. next = "plan" => \A k \in 1..Len(p.pinned) : p.pinned[k].id # j
      <3> SUFFICES ASSUME next = "plan", NEW k \in 1..Len(p.pinned)
                   PROVE  p.pinned[k].id # j
        OBVIOUS
      <3>1. left = 0 /\ found = 0
        BY <1>4, <1>6, <1>8, <1>12
      <3> QED
        BY <1>7, <3>1
    <2>2. left <= Len(p.pinned)
      BY <1>2, <1>4
    <2> HIDE DEF new
    <2>3. new.phase \notin {"stage", "publish", "finalize"}
      BY <1>8, <1>9
    <2>4. PointOK(new, j, head, stored)
      BY <1>6, <1>7, <1>9, <1>10, <2>1, <2>2, <2>3 DEF PointOK
    <2>5. Advance(w, new)
      BY <1>3, <1>12
    <2> QED
      BY <1>1, <1>3, <1>9, <2>4, <2>5, AdvanceSafe DEF j
  <1> QED
    BY <1>11, <1>12

\* The input of a command, or the head it is planned against.
LEMMA SavePlanSafe ==
    ASSUME Inv, NEW w \in Worker, SavePlan(w)
    PROVE  Inv' /\ LedgerStep
  <1> DEFINE j == JobOf(w)
             p == Saved(w)
             now == seen[w].head
  <1>1. /\ claim[w] # Idle /\ p.phase = "plan" /\ j \in Job
        /\ p \in Point /\ PointOK(p, j, head, stored)
    BY ClaimFields DEF SavePlan, In
  <1>2. /\ Return(w) /\ UNCHANGED portfolio /\ faults' \in 0..MaxFaults
        /\ head \in Seq(Entry) /\ Len(head) \in Nat
    BY DEF SavePlan, Inv, TypeOK
  <1>3. CASE Advance(w, ToHistory(p))
    BY <1>1, <1>2, <1>3, EmptyPoints, RestartSafe
  <1>4. ASSUME NEW n \in Len(now)..Len(head), Advance(w, [p EXCEPT !.snapshot = SubSeq(head, 1, n)])
        PROVE  Inv' /\ LedgerStep
    <2> DEFINE new == [p EXCEPT !.snapshot = SubSeq(head, 1, n)]
    <2>1. now \in Seq(Entry)
      BY DEF Inv, TypeOK
    <2>2. n \in 0..Len(head)
      BY <1>2, <2>1
    <2>3. SubSeq(head, 1, n) \in Seq(Entry) /\ Begins(SubSeq(head, 1, n), head)
      BY <1>2, <2>2, BeginningBegins
    <2>4. /\ new \in Point /\ new.snapshot = SubSeq(head, 1, n) /\ new.phase = "plan"
          /\ new.pinned = p.pinned /\ new.left = p.left /\ new.found = p.found
      BY <1>1, <2>3 DEF Point
    <2> HIDE DEF new, p
    <2>5. PointOK(new, j, head, stored)
      BY <1>1, <2>3, <2>4 DEF PointOK
    <2>6. p.phase \notin {"publish", "finalize"} /\ Advance(w, new)
      BY <1>1, <1>4 DEF new
    <2> QED
      BY <1>1, <1>2, <2>4, <2>5, <2>6, AdvanceSafe DEF p
  <1>5. ASSUME now = p.pinned,
               Advance(w, [p EXCEPT !.phase = "stage", !.offset = 0, !.plan = Append(now, JobEntry(j))])
        PROVE  Inv' /\ LedgerStep
    <2> DEFINE plan == Append(now, JobEntry(j))
               new == [p EXCEPT !.phase = "stage", !.offset = 0, !.plan = plan]
    <2>1. now \in Seq(Entry) /\ Len(now) \in Nat
      BY DEF Inv, TypeOK
    <2>2. Begins(now, head) /\ \A k \in 1..Len(now) : now[k].id # j
      BY <1>1, <1>5 DEF PointOK
    <2>3. JobEntry(j) \in Entry
      BY <1>1 DEF JobEntry, Entry
    <2>4. /\ plan \in Seq(Entry) /\ Len(plan) = Len(now) + 1
          /\ plan[Len(now) + 1] = JobEntry(j)
          /\ \A i \in 1..Len(now) : plan[i] = now[i]
      BY <2>1, <2>3, AppendExtends
    <2> HIDE DEF plan
    <2>5. PlanOK(j, plan, head)
      <3>1. Len(now) <= Len(head) /\ \A i \in 1..Len(now) : now[i] = head[i]
        BY <2>2 DEF Begins
      <3>2. Len(plan) - 1 = Len(now)
        BY <2>1, <2>4
      <3> QED
        BY SMTT(20), <1>2, <2>1, <2>2, <2>4, <3>1, <3>2 DEF PlanOK
    <2>6. 0 < Batches /\ 0 \in 0..Batches
      BY JobAssumption
    <2>7. /\ new \in Point /\ new.phase = "stage" /\ new.offset = 0 /\ new.plan = plan
          /\ new.pinned = p.pinned /\ new.snapshot = p.snapshot
          /\ new.left = p.left /\ new.found = p.found
      BY <1>1, <2>4, <2>6 DEF Point, Phase
    <2>8. Staged(plan, 0, stored)
      BY DEF Staged
    <2>9. p.phase \notin {"publish", "finalize"} /\ Advance(w, new)
      BY <1>1, <1>5 DEF new, plan
    <2> HIDE DEF new, p
    <2>10. PointOK(new, j, head, stored)
      BY <1>1, <2>5, <2>6, <2>7, <2>8 DEF PointOK
    <2> QED
      BY <1>1, <1>2, <2>7, <2>9, <2>10, AdvanceSafe DEF p
  <1>6. \/ Advance(w, ToHistory(p))
        \/ \E n \in Len(now)..Len(head) : Advance(w, [p EXCEPT !.snapshot = SubSeq(head, 1, n)])
        \/ /\ now = p.pinned
           /\ Advance(w, [p EXCEPT !.phase = "stage", !.offset = 0, !.plan = Append(now, JobEntry(j))])
    BY DEF SavePlan
  <1> QED
    BY <1>3, <1>4, <1>5, <1>6

\* After its last batch a plan is stored completely.
LEMMA SaveStageSafe ==
    ASSUME Inv, NEW w \in Worker, SaveStage(w)
    PROVE  Inv' /\ LedgerStep
  <1> DEFINE j == JobOf(w)
             p == Saved(w)
             offset == p.offset + 1
             new == [p EXCEPT !.offset = offset, !.phase = StagePhase(offset)]
  <1>1. /\ claim[w] # Idle /\ p.phase = "stage" /\ j \in Job
        /\ p \in Point /\ PointOK(p, j, head, stored)
    BY ClaimFields DEF SaveStage, In
  <1>2. /\ Return(w) /\ UNCHANGED portfolio /\ faults' \in 0..MaxFaults /\ Advance(w, new)
    BY DEF SaveStage, Inv, TypeOK
  <1>3. <<p.plan, offset>> \in stored
    BY DEF SaveStage, Begun, Inv, SeenOK
  <1>4. /\ p.offset \in Nat /\ Batches \in Nat /\ p.offset < Batches
        /\ Staged(p.plan, p.offset, stored) /\ PlanOK(j, p.plan, head)
    BY <1>1, PointFields, JobAssumption DEF PointOK
  <1> HIDE DEF p
  <1>5. Staged(p.plan, offset, stored) /\ offset \in 0..Batches
    BY <1>3, <1>4 DEF Staged
  <1>6. /\ StagePhase(offset) \in {"stage", "publish"}
        /\ (StagePhase(offset) = "publish" => offset = Batches)
        /\ (StagePhase(offset) = "stage" => offset < Batches)
    BY <1>4 DEF StagePhase
  <1> HIDE DEF offset
  <1>7. /\ new \in Point /\ new.phase = StagePhase(offset) /\ new.offset = offset
        /\ new.plan = p.plan /\ new.pinned = p.pinned /\ new.snapshot = p.snapshot
        /\ new.left = p.left /\ new.found = p.found
    BY <1>1, <1>5, <1>6 DEF Point, Phase
  <1> HIDE DEF new
  <1>8. PointOK(new, j, head, stored)
    BY <1>1, <1>4, <1>5, <1>6, <1>7 DEF PointOK
  <1>9. Saved(w).phase \notin {"publish", "finalize"}
    BY <1>1 DEF p
  <1> QED
    BY <1>1, <1>2, <1>7, <1>8, <1>9, AdvanceSafe

\* The head write of a job has been acknowledged.
LEMMA SavePublishedSafe ==
    ASSUME Inv, NEW w \in Worker, SavePublished(w)
    PROVE  Inv' /\ LedgerStep
  <1> DEFINE j == JobOf(w)
             p == Saved(w)
             new == [p EXCEPT !.phase = "finalize", !.result = Len(p.plan)]
  <1>1. /\ claim[w] # Idle /\ claim[w].state = "committing" /\ p.phase = "publish"
        /\ Begins(p.plan, head)
    BY DEF SavePublished, Begun, Inv, SeenOK, In
  <1>2. j \in Job /\ p \in Point /\ PointOK(p, j, head, stored)
    BY <1>1, ClaimFields
  <1>3. /\ Return(w) /\ UNCHANGED portfolio /\ faults' \in 0..MaxFaults /\ head \in Seq(Entry)
        /\ IF j \in Import THEN Jobs!Checkpoint(w, new, "committing", 0, 0, FALSE)
           ELSE Jobs!Checkpoint(w, Start, "completed", Len(p.plan), 0, FALSE)
    BY DEF SavePublished, Complete, NoResult, Inv, TypeOK
  <1>4. PlanOK(j, p.plan, head) /\ Staged(p.plan, Batches, stored) /\ Len(p.plan) \in Nat
    BY <1>1, <1>2, PointFields DEF PointOK
  <1>5. Len(p.plan) <= Len(head)
    BY <1>1 DEF Begins
  <1>6. CASE j \in Import
    <2>1. /\ new \in Point /\ new.phase = "finalize" /\ new.result = Len(p.plan)
          /\ new.plan = p.plan /\ new.pinned = p.pinned /\ new.snapshot = p.snapshot
          /\ new.left = p.left /\ new.found = p.found
      BY <1>2, <1>4 DEF Point, Phase
    <2> HIDE DEF new, p
    <2>2. PointOK(new, j, head, stored)
      BY <1>1, <1>2, <1>4, <1>6, <2>1 DEF PointOK
    <2>3. MaySave(w, new, "committing", 0)
      BY <1>5, <2>1, <2>2, Waits DEF MaySave, p
    <2> QED
      BY <1>3, <1>6, <2>1, <2>3, Waits, SaveSafe
  <1>7. CASE j \notin Import
    <2>1. AnswerOK(j, Len(p.plan), head)
      BY <1>1, <1>3, <1>4, <1>5, PlanAnswers
    <2>2. PointOK(Start, j, head, stored)
      BY <1>3, EmptyPoints, EmptyPointOK
    <2>3. MaySave(w, Start, "completed", Len(p.plan))
      BY <1>5, <1>7, <2>1, <2>2 DEF MaySave
    <2> QED
      BY <1>3, <1>4, <1>7, <2>3, Waits, StoreConstants, SaveSafe
  <1> QED
    BY <1>6, <1>7

\* Another publication came first: its head no longer fits, now or later.
LEMMA SaveConflictSafe ==
    ASSUME Inv, NEW w \in Worker, SaveConflict(w)
    PROVE  Inv' /\ LedgerStep
  <1> DEFINE new == ToHistory(Saved(w))
  <1>1. /\ claim[w] # Idle /\ claim[w].state = "committing" /\ Saved(w).phase = "publish"
        /\ Len(Saved(w).plan) <= Len(head) /\ ~Begins(Saved(w).plan, head)
    BY DEF SaveConflict, Begun, Inv, SeenOK, In
  <1>2. Saved(w) \in Point /\ JobOf(w) \in Job
    BY <1>1, ClaimFields
  <1>3. /\ Return(w) /\ UNCHANGED portfolio /\ faults' \in 0..MaxFaults /\ head \in Seq(Entry)
        /\ Jobs!Checkpoint(w, new, "committing", 0, 1, FALSE)
    BY <1>1 DEF SaveConflict, Advance, NoResult, Inv, TypeOK
  <1>4. Empty(new)
    BY <1>2, EmptyPoints
  <1>5. new \in Point /\ PointOK(new, JobOf(w), head, stored)
    BY <1>3, <1>4, EmptyPointOK DEF Empty
  <1> HIDE DEF new
  <1>6. MaySave(w, new, "committing", 0)
    BY <1>1, <1>5, Waits DEF MaySave
  <1> QED
    BY <1>3, <1>5, <1>6, Waits, SaveSafe

\* The split markers of the import are written.
LEMMA SaveFinalizedSafe ==
    ASSUME Inv, NEW w \in Worker, SaveFinalized(w)
    PROVE  Inv' /\ LedgerStep
  <1> DEFINE j == JobOf(w)
             p == Saved(w)
  <1>1. /\ claim[w] # Idle /\ p.phase = "finalize" /\ j \in finalized
    BY DEF SaveFinalized, Begun, Inv, SeenOK, In
  <1>2. j \in Job /\ p \in Point /\ PointOK(p, j, head, stored)
    BY <1>1, ClaimFields
  <1>3. /\ Return(w) /\ UNCHANGED portfolio /\ faults' \in 0..MaxFaults /\ head \in Seq(Entry)
        /\ Jobs!Checkpoint(w, Start, "completed", p.result, 0, FALSE)
    BY DEF SaveFinalized, Complete, Inv, TypeOK
  <1>4. /\ PlanOK(j, p.plan, head) /\ p.result = Len(p.plan) /\ Begins(p.plan, head)
        /\ p.result \in Nat
    BY <1>1, <1>2, PointFields DEF PointOK
  <1>5. AnswerOK(j, p.result, head)
    BY <1>3, <1>4, PlanAnswers
  <1>6. PointOK(Start, j, head, stored)
    BY <1>3, EmptyPoints, EmptyPointOK
  <1> HIDE DEF p
  <1>7. Saved(w).phase # "publish"
    BY <1>1 DEF p
  <1>8. MaySave(w, Start, "completed", p.result)
    BY <1>1, <1>5, <1>6, <1>7 DEF MaySave
  <1> QED
    BY <1>3, <1>4, <1>8, Waits, StoreConstants, SaveSafe

\* From this checkpoint on the job can neither be cancelled nor fail.
LEMMA BeginPublishSafe ==
    ASSUME Inv, NEW w \in Worker, BeginPublish(w)
    PROVE  Inv' /\ LedgerStep
  <1> DEFINE j == JobOf(w)
             p == Saved(w)
  <1>1. claim[w] # Idle /\ p.phase = "publish"
    BY DEF BeginPublish, In
  <1>2. j \in Job /\ p \in Point /\ PointOK(p, j, head, stored)
    BY <1>1, ClaimFields
  <1>3. /\ UNCHANGED portfolio /\ faults' = faults /\ Stored!IInv
        /\ head \in Seq(Entry) /\ Begins(head, head)
        /\ head' = head /\ stored' = stored /\ finalized' = finalized
        /\ seen' = [seen EXCEPT ![w].at = "publishing"]
        /\ Jobs!Checkpoint(w, p, "committing", 0, 0, TRUE)
    <2>1. UNCHANGED portfolio /\ faults' = faults /\ seen' = [seen EXCEPT ![w].at = "publishing"]
          /\ Jobs!Checkpoint(w, p, "committing", 0, 0, TRUE)
      BY DEF BeginPublish, PublishingMark, NoResult
    <2>2. Stored!IInv /\ head \in Seq(Entry)
      BY DEF Inv, TypeOK
    <2>3. Begins(head, head)
      BY <2>2 DEF Begins
    <2> QED
      BY <2>1, <2>2, <2>3 DEF portfolio
  <1>4. MaySave(w, p, "committing", 0)
    BY <1>1, <1>2, Waits DEF MaySave
  <1>5. /\ TRUE \in BOOLEAN /\ "committing" \in States /\ 0 \in 0..RetryWait /\ 0 \in Nat
        /\ (TRUE => ~Jobs!Released("committing", 0))
    BY Waits DEF Jobs!Released, Jobs!Terminal
  <1>6. /\ Stored!IInv' /\ RowsOK'
        /\ \A i \in Job, plan \in Seq(Entry) :
             AtPublish(i, plan) /\ Len(head) < Len(plan) => AtPublish(i, plan)'
        /\ PublishedOnItsWay' /\ OwnEntries' /\ PublishedContentComplete' /\ ImportFinalized'
    BY <1>2, <1>3, <1>4, <1>5, RowsAfterSave
  <1>7. /\ \A v \in Worker \ {w} : Kept(v)
        /\ claim'[w] # Idle /\ claim'[w].job = j
        /\ claim'[w].state = "committing" /\ claim'[w].point = p
        /\ row'[j] # Absent /\ row'[j].state = "committing" /\ row'[j].point = p
    <2> DEFINE stays == TRUE
    <2> HIDE DEF p
    <2>1. /\ p \in Point /\ Jobs!Checkpoint(w, p, "committing", 0, 0, stays) /\ Stored!IInv
          /\ stays \in BOOLEAN /\ (stays => ~Jobs!Released("committing", 0))
      BY <1>2, <1>3, <1>5
    <2> HIDE DEF stays
    <2>2. /\ \A v \in Worker \ {w} : Kept(v)
          /\ row'[j] # Absent /\ row'[j].state = "committing" /\ row'[j].point = p
          /\ stays => /\ claim'[w] # Idle /\ claim'[w].job = j
                      /\ claim'[w].state = "committing" /\ claim'[w].point = p
      BY <1>5, <2>1, CheckpointEffect
    <2> QED
      BY <2>2 DEF stays
  <1>8. /\ \A v \in Worker \ {w} : seen'[v] = seen[v]
        /\ seen'[w].at = "publishing" /\ seen'[w].head = seen[w].head
        /\ seen' \in [Worker -> [at : {"begin", "ready", "publishing", "published", "conflict"},
                                 head : Seq(Entry)]]
    BY <1>3 DEF Inv, TypeOK
  <1>9. Begins(seen[w].head, head)
    <2>1. SeenOK(w)
      BY DEF Inv
    <2> QED
      BY <2>1 DEF SeenOK
  <1> HIDE DEF j, p
  <1>10. Saved(w)' = p /\ JobOf(w)' = j
    BY <1>7 DEF Saved, JobOf
  <1>11. SeenOK(w)'
    BY <1>1, <1>3, <1>7, <1>8, <1>9, <1>10 DEF SeenOK, In
  <1>12. ClaimsOK' /\ \A v \in Worker : SeenOK(v)'
    BY <1>2, <1>3, <1>7, <1>8, <1>10, <1>11, SeenAndClaims
  <1>13. LateWritesCounted'
    <2>1. AtPublish(JobOf(w), Saved(w).plan)'
      BY <1>1, <1>7, <1>10 DEF AtPublish, Jobs!Exists
    <2> QED
      BY <1>3, <1>6, <1>7, <1>8, <2>1, LateWrites
  <1>14. TypeOK'
    BY <1>3, <1>6, <1>8, TypesOfStore DEF Inv, TypeOK
  <1>15. LedgerStep
    <2>1. /\ row[j].state \in {"running", "committing"}
          /\ \A i \in Job \ {j} : row'[i] = row[i]
      BY <1>2, <1>3, <1>5, CheckpointEffect DEF j
    <2>2. \A i \in Job : /\ Ended(i, {"completed"})' <=> Ended(i, {"completed"})
                         /\ Ended(i, {"completed"}) => row'[i].result = row[i].result
      BY <1>7, <2>1 DEF Ended, Jobs!Exists
    <2> QED
      BY <1>3, <2>2, AnswersStay
  <1> QED
    BY <1>6, <1>12, <1>13, <1>14, <1>15 DEF Inv

-----------------------------------------------------------------------------
(* Steps that read or write elsewhere: rows and claims stay *)

\* What a step does that adds to the portfolio, or nothing, and lets one
\* worker note what it did.
Elsewhere ==
    /\ row' = row /\ claim' = claim /\ faults' = faults
    /\ head' \in Seq(Entry) /\ Begins(head, head')
    /\ stored \subseteq stored' /\ stored' \subseteq Seq(Entry) \X (1..Batches)
    /\ finalized \subseteq finalized' /\ finalized' \subseteq Import
    /\ seen' \in [Worker -> [at : {"begin", "ready", "publishing", "published", "conflict"},
                             head : Seq(Entry)]]
    /\ \A v \in Worker : seen'[v] = seen[v] \/ (SeenOK(v)' /\ seen'[v].at # "publishing")

\* Writes of content and of the head leave the rows, and what they say, as they were.
LEMMA ElsewhereKeeps ==
    ASSUME Inv, Elsewhere
    PROVE  /\ TypeOK' /\ Stored!IInv' /\ RowsOK' /\ ClaimsOK'
           /\ \A v \in Worker : SeenOK(v)'
           /\ LateWritesCounted' /\ ImportFinalized'
           /\ \A j \in Job : OnItsWay(j) => OnItsWay(j)'
  <1>1. /\ row' = row /\ claim' = claim /\ head' \in Seq(Entry) /\ Begins(head, head')
        /\ stored \subseteq stored' /\ finalized \subseteq finalized' /\ head \in Seq(Entry)
    BY DEF Elsewhere, Inv, TypeOK
  <1>2. Stored!IInv'
    BY <1>1, StoreConstants, Stored!LeaveSafe DEF Stored!LeaveSafe, Inv
  <1>3. TypeOK'
    BY <1>2, TypesOfStore DEF Elsewhere, Inv, TypeOK
  <1>4. RowsOK'
    <2>1. ASSUME NEW j \in Job, Jobs!Exists(j)
          PROVE  /\ PointOK(row[j].point, j, head', stored')
                 /\ row[j].state = "completed" => AnswerOK(j, row[j].result, head')
      BY <1>1, <2>1, PointStaysOK, AnswerStaysOK DEF Inv, RowsOK
    <2> QED
      BY <1>1, <2>1 DEF RowsOK, Jobs!Exists
  <1>5. \A v \in Worker : Kept(v)
    BY <1>1 DEF Kept
  <1>6. ASSUME NEW v \in Worker
        PROVE  SeenOK(v)' /\ (claim'[v] # Idle => PointOK(Saved(v)', JobOf(v)', head', stored'))
    <2>1. CASE seen'[v] = seen[v]
      BY <1>1, <1>5, <2>1, OthersSafe
    <2>2. CASE seen'[v] # seen[v]
      <3>1. SeenOK(v)'
        BY <2>2 DEF Elsewhere
      <3>2. claim[v] # Idle => PointOK(Saved(v), JobOf(v), head', stored')
        BY <1>1, ClaimFields, PointStaysOK
      <3> QED
        BY <1>1, <3>1, <3>2 DEF Saved, JobOf
    <2> QED
      BY <2>1, <2>2
  <1>7. LateWritesCounted'
    <2>1. Len(head) <= Len(head') /\ Len(head) \in Nat /\ Len(head') \in Nat
      BY <1>1 DEF Begins
    <2>2. ASSUME NEW v \in Worker, seen'[v].at = "publishing", Len(head') < Len(Saved(v).plan)
          PROVE  AtPublish(JobOf(v), Saved(v).plan)
      <3>1. seen[v].at = "publishing"
        BY <2>2 DEF Elsewhere
      <3>2. claim[v] # Idle
        BY <3>1 DEF Inv, SeenOK, In
      <3>3. Len(Saved(v).plan) \in Nat
        BY <3>2, ClaimFields, PointFields
      <3>4. Len(head) < Len(Saved(v).plan)
        BY <2>1, <2>2, <3>3
      <3> QED
        BY <3>1, <3>4 DEF Inv, LateWritesCounted
    <2> QED
      BY <1>1, <2>2 DEF LateWritesCounted, AtPublish, JobOf, Saved, Jobs!Exists
  <1>8. ImportFinalized'
    BY <1>1 DEF Inv, ImportFinalized, Ended, Jobs!Exists
  <1>9. ASSUME NEW j \in Job, OnItsWay(j)
        PROVE  OnItsWay(j)'
    <2>1. ASSUME Jobs!Exists(j), Begins(row[j].point.plan, head)
          PROVE  Begins(row[j].point.plan, head')
      <3>1. row[j].point.plan \in Seq(Entry)
        BY <2>1, PointFields DEF Inv, RowsOK, PointOK
      <3> QED
        BY <1>1, <2>1, <3>1, BeginsThrough
    <2> QED
      BY <1>1, <1>9, <2>1 DEF OnItsWay, Ended, AtPublish, Jobs!Exists
  <1> QED
    BY <1>2, <1>3, <1>4, <1>6, <1>7, <1>8, <1>9 DEF ClaimsOK

\* A write that is not the head's keeps the invariant.
LEMMA HeadStays ==
    ASSUME Inv, Elsewhere, head' = head
    PROVE  Inv' /\ LedgerStep
  <1>1. PublishedOnItsWay' /\ OwnEntries' /\ PublishedContentComplete'
    BY ElsewhereKeeps DEF Inv, PublishedOnItsWay, OwnEntries, PublishedContentComplete, Elsewhere
  <1>2. LedgerStep
    BY AnswersStay DEF Elsewhere, Ended, Jobs!Exists
  <1> QED
    BY <1>1, <1>2, ElsewhereKeeps DEF Inv

\* One more record is published.
LEMMA HeadGrows ==
    ASSUME Inv, Elsewhere, NEW e \in Entry, head' = Append(head, e),
           \A n \in 1..Batches : <<head', n>> \in stored',
           \A k \in 1..Len(head) : head[k].id # e.id,
           e.id \in Job \ Twin => e = JobEntry(e.id),
           \A j \in Job : e = JobEntry(j) => OnItsWay(j)'
    PROVE  Inv' /\ LedgerStep
  <1>1. head \in Seq(Entry) /\ Len(head) \in Nat /\ InitialHead \in Seq(Entry)
    BY HeadAssumption DEF Inv, TypeOK
  <1>2. /\ Len(head') = Len(head) + 1 /\ head'[Len(head) + 1] = e
        /\ \A k \in 1..Len(head) : head'[k] = head[k]
    BY <1>1, AppendExtends
  <1>3. \A k \in 1..Len(head') : k \in 1..Len(head) \/ k = Len(head) + 1
    BY <1>1, <1>2
  <1>4. PublishedOnItsWay'
    BY <1>2, <1>3, ElsewhereKeeps DEF Inv, PublishedOnItsWay
  <1>5. OwnEntries'
    BY <1>2, <1>3 DEF Inv, OwnEntries
  <1>6. PublishedContentComplete'
    <2>1. ASSUME NEW k \in (Len(InitialHead) + 1)..Len(head'), NEW n \in 1..Batches
          PROVE  <<SubSeq(head', 1, k), n>> \in stored'
      <3>1. Len(InitialHead) \in Nat /\ k \in 1..Len(head')
        BY <1>1, <1>2
      <3>2. CASE k = Len(head) + 1
        <4>1. SubSeq(head', 1, k) = head'
          BY <1>1, <3>2, BehindIsKept
        <4> QED
          BY <4>1
      <3>3. CASE k \in 1..Len(head)
        <4>1. SubSeq(head', 1, k) = SubSeq(head, 1, k)
          BY <1>1, <3>3, BehindIsKept
        <4>2. k \in (Len(InitialHead) + 1)..Len(head)
          BY <1>1, <3>1, <3>3
        <4>3. <<SubSeq(head, 1, k), n>> \in stored
          BY <4>2 DEF Inv, PublishedContentComplete
        <4> QED
          BY <4>1, <4>3 DEF Elsewhere
      <3> QED
        BY <1>3, <3>1, <3>2, <3>3
    <2> QED
      BY <2>1 DEF PublishedContentComplete
  <1>7. LedgerStep
    <2>1. Answers' = Answers
      BY DEF Elsewhere, Answers, Ended, Jobs!Exists
    <2>2. Ledger!Commit(e)
      BY <2>1 DEF Ledger!Commit
    <2> QED
      BY <2>2 DEF LedgerStep, Ledger!LedgerNext
  <1> QED
    BY <1>4, <1>5, <1>6, <1>7, ElsewhereKeeps DEF Inv

\* The head a phase is going to compare with or plan against.
LEMMA ReadHeadSafe ==
    ASSUME Inv, NEW w \in Worker, ReadHead(w)
    PROVE  Inv' /\ LedgerStep
  <1>1. /\ row' = row /\ claim' = claim /\ faults' = faults
        /\ head' = head /\ stored' = stored /\ finalized' = finalized
        /\ seen' = [seen EXCEPT ![w] = [at |-> "ready", head |-> head]]
        /\ claim[w] # Idle /\ Saved(w).phase \in {"plan", "history"}
    BY DEF ReadHead, Begun, In, portfolio
  <1>2. head \in Seq(Entry)
    BY DEF Inv, TypeOK
  <1>3. /\ seen' \in [Worker -> [at : {"begin", "ready", "publishing", "published", "conflict"},
                                 head : Seq(Entry)]]
        /\ seen'[w].at = "ready" /\ seen'[w].head = head
        /\ \A v \in Worker \ {w} : seen'[v] = seen[v]
    BY <1>1, <1>2 DEF Inv, TypeOK
  <1>4. Begins(head, head)
    BY <1>2 DEF Begins
  <1>5. SeenOK(w)'
    BY <1>1, <1>3, <1>4 DEF SeenOK, In, Saved
  <1>6. Elsewhere
    BY <1>1, <1>2, <1>3, <1>4, <1>5 DEF Elsewhere, Inv, TypeOK
  <1> QED
    BY <1>1, <1>6, HeadStays

\* A batch of the plan is stored, again perhaps.
LEMMA StageBatchSafe ==
    ASSUME Inv, NEW w \in Worker, StageBatch(w)
    PROVE  Inv' /\ LedgerStep
  <1> DEFINE plan == Saved(w).plan
             n == Saved(w).offset + 1
  <1>1. /\ row' = row /\ claim' = claim /\ faults' = faults
        /\ head' = head /\ stored' = stored \cup {<<plan, n>>} /\ finalized' = finalized
        /\ seen' = [seen EXCEPT ![w].at = "ready"]
        /\ claim[w] # Idle /\ Saved(w).phase = "stage"
    BY DEF StageBatch, Begun, In
  <1>2. head \in Seq(Entry)
    BY DEF Inv, TypeOK
  <1>3. plan \in Seq(Entry) /\ n \in 1..Batches
    <2>1. /\ Saved(w) \in Point /\ Saved(w).plan \in Seq(Entry)
          /\ Saved(w).offset \in Nat /\ Saved(w).offset < Batches
      BY <1>1, ClaimFields, PointFields DEF PointOK
    <2> QED
      BY <2>1, JobAssumption
  <1>4. /\ seen' \in [Worker -> [at : {"begin", "ready", "publishing", "published", "conflict"},
                                 head : Seq(Entry)]]
        /\ seen'[w].at = "ready" /\ seen'[w].head = seen[w].head
        /\ \A v \in Worker \ {w} : seen'[v] = seen[v]
    BY <1>1 DEF Inv, TypeOK
  <1>5. Begins(head, head) /\ Begins(seen[w].head, head)
    <2>1. SeenOK(w)
      BY DEF Inv
    <2> QED
      BY <1>2, <2>1 DEF SeenOK, Begins
  <1>6. SeenOK(w)'
    BY <1>1, <1>4, <1>5 DEF SeenOK, In, Saved
  <1>7. Elsewhere
    BY <1>1, <1>2, <1>3, <1>4, <1>5, <1>6 DEF Elsewhere, Inv, TypeOK
  <1> QED
    BY <1>1, <1>7, HeadStays

\* Only imports are finalized.
LEMMA MarkSplitsSafe ==
    ASSUME Inv, NEW w \in Worker, MarkSplits(w)
    PROVE  Inv' /\ LedgerStep
  <1>1. /\ row' = row /\ claim' = claim /\ faults' = faults
        /\ head' = head /\ stored' = stored /\ finalized' = finalized \cup {JobOf(w)}
        /\ seen' = [seen EXCEPT ![w].at = "ready"]
        /\ claim[w] # Idle /\ Saved(w).phase = "finalize"
    BY DEF MarkSplits, Begun, In
  <1>2. head \in Seq(Entry)
    BY DEF Inv, TypeOK
  <1>3. JobOf(w) \in Import
    BY <1>1, ClaimFields DEF PointOK
  <1>4. /\ seen' \in [Worker -> [at : {"begin", "ready", "publishing", "published", "conflict"},
                                 head : Seq(Entry)]]
        /\ seen'[w].at = "ready" /\ seen'[w].head = seen[w].head
        /\ \A v \in Worker \ {w} : seen'[v] = seen[v]
    BY <1>1 DEF Inv, TypeOK
  <1>5. Begins(head, head) /\ Begins(seen[w].head, head)
    <2>1. SeenOK(w)
      BY DEF Inv
    <2> QED
      BY <1>2, <2>1 DEF SeenOK, Begins
  <1>6. SeenOK(w)'
    BY <1>1, <1>4, <1>5 DEF SeenOK, In, Saved, JobOf
  <1>7. Elsewhere
    BY <1>1, <1>2, <1>3, <1>4, <1>5, <1>6 DEF Elsewhere, Inv, TypeOK
  <1> QED
    BY <1>1, <1>7, HeadStays

\* An API invocation stores and publishes its command at once, as far as the
\* jobs can see.
LEMMA ApiCommitSafe ==
    ASSUME Inv, NEW c \in Twin \cup Other, ApiCommit(c)
    PROVE  Inv' /\ LedgerStep
  <1>1. PICK hash \in {"own", "foreign"} : head' = Append(head, ApiEntry(c, hash))
    BY DEF ApiCommit
  <1>2. /\ row' = row /\ claim' = claim /\ faults' = faults /\ seen' = seen
        /\ finalized' = finalized
        /\ stored' = stored \cup {<<head', n>> : n \in 1..Batches}
    BY DEF ApiCommit
  <1> DEFINE e == ApiEntry(c, hash)
  <1>3. /\ e \in Entry /\ e.id = c /\ c \notin Job \ Twin
        /\ \A j \in Job : e # JobEntry(j)
    BY JobAssumption DEF ApiEntry, Entry, JobEntry
  <1> HIDE DEF e
  <1>4. head \in Seq(Entry)
    BY DEF Inv, TypeOK
  <1>5. head' = Append(head, e)
    BY <1>1 DEF e
  <1>6. head' \in Seq(Entry) /\ Begins(head, head')
    BY <1>3, <1>4, <1>5, AppendExtends
  <1>7. Elsewhere
    BY <1>2, <1>6 DEF Elsewhere, Inv, TypeOK
  <1>8. \A n \in 1..Batches : <<head', n>> \in stored'
    BY <1>2
  <1>9. \A k \in 1..Len(head) : head[k].id # e.id
    BY <1>3 DEF ApiCommit
  <1> QED
    BY <1>3, <1>5, <1>7, <1>8, <1>9, HeadGrows

\* The head of a plan is written, found written, or refused.
LEMMA PublishHeadSafe ==
    ASSUME Inv, NEW w \in Worker, PublishHead(w)
    PROVE  Inv' /\ LedgerStep
  <1> DEFINE j == JobOf(w)
             plan == Saved(w).plan
             at == IF HeadOutcome(plan) = "conflict" THEN "conflict" ELSE "published"
  <1>1. /\ row' = row /\ claim' = claim /\ faults' = faults
        /\ stored' = stored /\ finalized' = finalized
        /\ seen' = [seen EXCEPT ![w].at = at]
        /\ head' = IF HeadOutcome(plan) = "applied" THEN plan ELSE head
        /\ claim[w] # Idle /\ seen[w].at = "publishing"
    BY DEF PublishHead, Begun
  <1>2. /\ head \in Seq(Entry) /\ Len(head) \in Nat /\ Begins(head, head)
        /\ SeenOK(w)
    BY DEF Inv, TypeOK, Begins
  <1>3. Saved(w).phase = "publish" /\ claim[w].state = "committing"
        /\ Begins(seen[w].head, head)
    BY <1>1, <1>2 DEF SeenOK, In
  <1>4. /\ j \in Job /\ PlanOK(j, plan, head) /\ Staged(plan, Batches, stored)
        /\ plan \in Seq(Entry) /\ Len(plan) \in Nat
    BY <1>1, <1>3, ClaimFields, PointFields DEF PointOK
  <1> DEFINE front == SubSeq(plan, 1, Len(plan) - 1)
  <1>5. /\ front \in Seq(Entry) /\ Len(front) = Len(plan) - 1
        /\ \A i \in 1..(Len(plan) - 1) : front[i] = plan[i] /\ front[i] = head[i]
    <2>1. Len(plan) - 1 \in 0..Len(plan)
      BY <1>4 DEF PlanOK
    <2> HIDE DEF plan
    <2> QED
      BY <1>4, <2>1, BeginningIs DEF PlanOK
  <1>6. /\ Published(plan) <=> Begins(plan, head)
        /\ HeadOutcome(plan) \in {"replayed", "applied", "conflict"}
        /\ HeadOutcome(plan) = "replayed" <=> Published(plan)
        /\ HeadOutcome(plan) = "applied" <=> ~Published(plan) /\ head = front
    BY <1>2, <1>4, BeginsIsSubSeq DEF Published, HeadOutcome
  <1> HIDE DEF plan, front, at
  <1>7. /\ seen' \in [Worker -> [at : {"begin", "ready", "publishing", "published", "conflict"},
                                 head : Seq(Entry)]]
        /\ seen'[w].at = at /\ seen'[w].head = seen[w].head
        /\ \A v \in Worker \ {w} : seen'[v] = seen[v]
        /\ at \in {"published", "conflict"}
    BY <1>1 DEF Inv, TypeOK, at
  <1>8. ASSUME head' \in Seq(Entry), Begins(head, head'),
               at = "published" => Begins(plan, head'),
               at = "conflict" => Len(plan) <= Len(head') /\ ~Begins(plan, head')
        PROVE  Elsewhere
    <2>1. Begins(seen[w].head, head')
      <3>1. seen[w].head \in Seq(Entry)
        BY DEF Inv, TypeOK
      <3> QED
        BY <1>2, <1>3, <1>8, <3>1, BeginsThrough
    <2>2. SeenOK(w)'
      BY <1>1, <1>3, <1>7, <1>8, <2>1 DEF SeenOK, In, Saved, JobOf, plan
    <2> QED
      BY <1>1, <1>7, <1>8, <2>2 DEF Elsewhere, Inv, TypeOK
  <1>9. CASE HeadOutcome(plan) = "replayed"
    <2>1. head' = head /\ at = "published" /\ Begins(plan, head)
      BY <1>1, <1>6, <1>9 DEF at
    <2> QED
      BY <1>2, <1>8, <2>1, HeadStays
  <1>10. CASE HeadOutcome(plan) = "conflict"
    <2>1. head' = head /\ at = "conflict" /\ ~Begins(plan, head) /\ head # front
      BY <1>1, <1>6, <1>10 DEF at
    <2>2. Len(plan) <= Len(head)
      <3>1. ASSUME Len(plan) = Len(head) + 1
            PROVE  head = front
        <4>1. Len(front) = Len(head) /\ \A i \in 1..Len(head) : front[i] = head[i]
          BY <1>2, <1>4, <1>5, <3>1
        <4> QED
          BY <1>2, <1>5, <4>1, SeqEqual
      <3> QED
        BY <1>2, <1>4, <2>1, <3>1 DEF PlanOK
    <2> QED
      BY <1>2, <1>8, <2>1, <2>2, HeadStays
  <1>11. CASE HeadOutcome(plan) = "applied"
    <2> DEFINE e == JobEntry(j)
    <2>1. head' = plan /\ at = "published" /\ head = front
      BY <1>1, <1>6, <1>11 DEF at
    <2>2. Len(plan) = Len(head) + 1 /\ plan[Len(plan)] = e
      BY <1>4, <1>5, <2>1 DEF PlanOK
    <2>3. e \in Entry /\ e.id = j /\ \A i \in Job : e = JobEntry(i) => i = j
      BY <1>4 DEF JobEntry, Entry
    <2> HIDE DEF e
    <2>4. plan = Append(head, e)
      <3> DEFINE q == Append(head, e)
      <3>1. /\ q \in Seq(Entry) /\ Len(q) = Len(head) + 1 /\ q[Len(head) + 1] = e
            /\ \A i \in 1..Len(head) : q[i] = head[i]
        BY <1>2, <2>3, AppendExtends
      <3> HIDE DEF q
      <3>2. \A i \in 1..Len(plan) : q[i] = plan[i]
        BY <1>2, <1>4, <1>5, <2>1, <2>2, <3>1
      <3>3. q = plan
        BY <1>4, <2>2, <3>1, <3>2, SeqEqual
      <3> QED
        BY <3>3 DEF q
    <2>5. Begins(head, head') /\ Begins(plan, head') /\ head' \in Seq(Entry)
      BY <1>2, <1>4, <2>1, <2>3, <2>4, AppendExtends DEF Begins
    <2>6. Elsewhere
      BY <1>8, <2>1, <2>5
    <2>7. AtPublish(j, plan)
      BY <1>1, <1>2, <2>2 DEF Inv, LateWritesCounted, plan
    <2>8. ASSUME NEW i \in Job, i = j
          PROVE  OnItsWay(i)'
      <3>1. /\ row'[i] # Absent /\ row'[i].state = "committing"
            /\ row'[i].point.phase = "publish" /\ row'[i].point.plan = plan
        BY <1>1, <2>7, <2>8 DEF AtPublish, Jobs!Exists
      <3>2. Begins(row'[i].point.plan, head')
        BY <2>5, <3>1
      <3> QED
        BY <3>1, <3>2 DEF OnItsWay, AtPublish, Jobs!Exists
    <2>9. \A n \in 1..Batches : <<head', n>> \in stored'
      BY <1>1, <1>4, <2>1 DEF Staged
    <2>10. e = JobEntry(e.id)
      BY <2>3 DEF e
    <2> QED
      <3>1. ASSUME NEW i \in Job, e = JobEntry(i)
            PROVE  OnItsWay(i)'
        <4>1. i = j
          BY <2>3, <3>1
        <4> QED
          BY <2>8, <4>1
      <3>2. head' = Append(head, e)
        BY <2>1, <2>4
      <3>3. \A k \in 1..Len(head) : head[k].id # e.id
        <4>1. \A k \in 1..Len(head) : k \in 1..(Len(plan) - 1)
          BY <1>2, <2>2
        <4> QED
          BY <1>4, <2>3, <4>1 DEF PlanOK
      <3> QED
        BY <2>3, <2>6, <2>9, <2>10, <3>1, <3>2, <3>3, HeadGrows
  <1> QED
    BY <1>6, <1>9, <1>10, <1>11

-----------------------------------------------------------------------------
(* The theorems *)

\* Nothing is submitted, and what is published came by other ways.
LEMMA InitEstablishes ==
    ASSUME Init
    PROVE  Inv /\ Ledger!LedgerInit
  <1>1. /\ row = [j \in Job |-> Absent] /\ claim = [w \in Worker |-> Idle]
        /\ head = InitialHead /\ stored = {} /\ finalized = {}
        /\ seen = [w \in Worker |-> Fresh] /\ faults = 0
    BY DEF Init, Jobs!Init
  <1>2. Stored!IInv
    BY SameStore, StoreConstants, Stored!InitEstablishes DEF Stored!InitEstablishes, Init
  <1>3. head \in Seq(Entry) /\ Begins(<<>>, head)
    BY <1>1, HeadAssumption DEF Begins
  <1>4. TypeOK
    <2>1. Jobs!TypeOK
      BY <1>2, SameStore DEF Stored!IInv
    <2>2. seen \in [Worker -> [at : {"begin", "ready", "publishing", "published", "conflict"},
                              head : Seq(Entry)]]
      BY <1>1 DEF Fresh
    <2> QED
      BY <1>1, <1>3, <2>1, <2>2, JobAssumption DEF TypeOK
  <1>5. \A j \in Job : ~Jobs!Exists(j)
    BY <1>1 DEF Jobs!Exists
  <1>6. RowsOK /\ ClaimsOK /\ ImportFinalized /\ Answers = {}
    BY <1>1, <1>5, JobAssumption DEF RowsOK, ClaimsOK, ImportFinalized, Answers, Ended
  <1>7. (\A w \in Worker : SeenOK(w)) /\ LateWritesCounted
    BY <1>1, <1>3 DEF SeenOK, LateWritesCounted, In, Fresh
  <1>8. PublishedOnItsWay /\ OwnEntries
    <2>1. \A k \in 1..Len(head) : head[k].id \in Job => head[k].id \in Twin /\ head[k].by = "api"
      BY <1>1, HeadAssumption
    <2> QED
      BY <2>1 DEF PublishedOnItsWay, OwnEntries, JobEntry
  <1>9. PublishedContentComplete
    <2>1. Len(head) \in Nat
      BY <1>3
    <2> QED
      BY <1>1, <2>1 DEF PublishedContentComplete
  <1> QED
    BY <1>1, <1>2, <1>4, <1>6, <1>7, <1>8, <1>9 DEF Inv, Ledger!LedgerInit

\* Every step keeps the invariant and is one that the ledger allows.
LEMMA NextSafe ==
    ASSUME Inv, [Next]_vars
    PROVE  Inv' /\ LedgerStep
  <1>1. ASSUME NEW j \in Job, Admit(j) \/ Cancel(j) \/ ClaimCancelled(j)
        PROVE  Inv' /\ LedgerStep
    BY <1>1, AdmitQuiet, CancelQuiet, ClaimCancelledQuiet
  <1>2. ASSUME NEW w \in Worker, NEW j \in Job, ClaimJob(w, j)
        PROVE  Inv' /\ LedgerStep
    BY <1>2, ClaimJobQuiet
  <1>3. ASSUME NEW w \in Worker, Phases(w)
        PROVE  Inv' /\ LedgerStep
    <2>1. CASE SaveStart(w) \/ SaveCapture(w)
      BY <2>1, RestartsSafe
    <2>2. CASE SaveHistory(w) \/ SavePlan(w) \/ SaveStage(w)
      BY <2>2, SaveHistorySafe, SavePlanSafe, SaveStageSafe
    <2>3. CASE BeginPublish(w) \/ PublishHead(w) \/ SavePublished(w) \/ SaveConflict(w)
      BY <2>3, BeginPublishSafe, PublishHeadSafe, SavePublishedSafe, SaveConflictSafe
    <2>4. CASE ReadHead(w) \/ StageBatch(w) \/ MarkSplits(w) \/ SaveFinalized(w)
      BY <2>4, ReadHeadSafe, StageBatchSafe, MarkSplitsSafe, SaveFinalizedSafe
    <2>5. CASE IdentityReused(w) \/ Superseded(w)
      BY <2>5, PhaseFailsSafe, LeaveQuiet
    <2> QED
      BY <1>3, <2>1, <2>2, <2>3, <2>4, <2>5 DEF Phases
  <1>4. ASSUME NEW w \in Worker, Recapture(w) \/ Refuse(w) \/ PhaseFails(w) \/ Crash(w)
        PROVE  Inv' /\ LedgerStep
    BY <1>4, RestartsSafe, RefuseSafe, PhaseFailsSafe, LeaveQuiet
  <1>5. ASSUME NEW c \in Twin \cup Other, ApiCommit(c)
        PROVE  Inv' /\ LedgerStep
    BY <1>5, ApiCommitSafe
  <1>6. CASE UNCHANGED vars
    <2>1. Elsewhere /\ head' = head
      <3>1. head \in Seq(Entry) /\ Begins(head, head)
        BY DEF Inv, TypeOK, Begins
      <3> QED
        BY <1>6, <3>1 DEF vars, Elsewhere, Inv, TypeOK
    <2> QED
      BY <2>1, HeadStays
  <1>7. CASE Tick
    BY <1>7, TickQuiet
  <1> QED
    BY <1>1, <1>2, <1>3, <1>4, <1>5, <1>6, <1>7 DEF Next, AllSettled

\* The inductive invariant holds in every reachable state.
THEOREM Invariance == Spec => []Inv
  <1>1. Init => Inv
    BY InitEstablishes
  <1>2. Inv /\ [Next]_vars => Inv'
    BY NextSafe
  <1> QED
    BY <1>1, <1>2, PTL DEF Spec

\* Rows, claims, checkpoints and the head keep their types.
THEOREM TypeCorrect == Spec => []TypeOK
  <1>1. Inv => TypeOK
    BY DEF Inv
  <1> QED
    BY <1>1, Invariance, PTL

\* A job that was cancelled or has failed is never published, not even by a
\* worker that lost its claim long ago (worker.js:111-119, jobs.js:37-61).
THEOREM UndoneIsNeverPublished == Spec => []UndoneNeverPublished
  <1>1. Inv => UndoneNeverPublished
    <2> SUFFICES ASSUME Inv, NEW j \in Job \ Twin, Ended(j, {"cancelled", "failed"}), InLedger(j)
                 PROVE  FALSE
      BY DEF UndoneNeverPublished
    <2>1. PICK k \in 1..Len(head) : head[k] = JobEntry(j)
      BY DEF InLedger, Inv, OwnEntries
    <2>2. OnItsWay(j)
      BY <2>1 DEF Inv, PublishedOnItsWay
    <2> QED
      BY <2>2 DEF OnItsWay, AtPublish, Ended
  <1> QED
    BY <1>1, Invariance, PTL

\* Every published version was staged completely before (worker.js:101-115).
THEOREM PublishedIsComplete == Spec => []PublishedContentComplete
  <1>1. Inv => PublishedContentComplete
    BY DEF Inv
  <1> QED
    BY <1>1, Invariance, PTL

\* A completed broker import has written its split markers (worker.js:116).
THEOREM ImportsAreFinalized == Spec => []ImportFinalized
  <1>1. Inv => ImportFinalized
    BY DEF Inv
  <1> QED
    BY <1>1, Invariance, PTL

\* Jobs and API invocations together implement the ledger: no command is
\* accepted twice, and a completed job reports the version of its command
\* (worker.js:64-117, repository.js:133).
THEOREM JobsImplementLedger == Spec => ImplementsLedger
  <1>1. Init => Ledger!LedgerInit
    BY InitEstablishes
  <1>2. Inv /\ [Next]_vars => [Ledger!LedgerNext]_(Ledger!ledgerVars)
    BY NextSafe DEF LedgerStep
  <1> QED
    BY <1>1, <1>2, Invariance, PTL DEF Spec, ImplementsLedger, Ledger!LedgerSpec
=============================================================================
