---------------------------- MODULE JobStoreProof ----------------------------
(***************************************************************************)
(* Proofs about JobStore for every number of jobs and workers, every lease *)
(* and retry time and every set of checkpoints.                            *)
(***************************************************************************)
EXTENDS JobStore, TLAPS

\* What is true of a stored row whoever wrote it: only unfinished jobs are
\* due, only claimed ones are leased, and no publishing one is being cancelled.
RowOK(r) ==
    /\ r.state \in Terminal <=> r.due = Never
    /\ r.lease > 0 => r.state \in {"running", "committing"}
    /\ r.state = "committing" => ~r.cancelRequested

IInv ==
    /\ TypeOK
    /\ OneWriter
    /\ \A j \in Job : Exists(j) => RowOK(row[j])

\* What a write may make of a row.
LegalWrite(old, new) ==
    /\ old.state \in Terminal => new = old
    /\ old.cancelRequested =>
         /\ new.state \in {old.state, "cancelled"}
         /\ new.point = old.point /\ new.result = old.result
         /\ new.cancelRequested
    /\ old.state = "committing" => new.state # "cancelled" /\ ~new.cancelRequested
RowsChangeLegally == \A j \in Job : Exists(j) => LegalWrite(row[j], row'[j])

\* After a write of job j a worker has no current copy, or the one of another
\* job it had before.
OldCopy(j, v) ==
    claim'[v] # Idle /\ claim'[v].current => claim[v] # Idle /\ claim'[v] = claim[v] /\ claim[v].job # j

\* One write of one row, which takes the current copies away from all but
\* the writer w.
LEMMA RowWritten ==
    ASSUME IInv, NEW j \in Job, NEW w, NEW new \in Row, RowOK(new),
           row' = [row EXCEPT ![j] = new],
           claim' \in [Worker -> Claim \cup {Idle}],
           \A v \in Worker :
              \/ OldCopy(j, v)
              \/ /\ v = w /\ ~new.cancelRequested
                 /\ claim'[v] = [job |-> j, state |-> new.state, point |-> new.point, current |-> TRUE]
    PROVE  IInv'
  <1>1. /\ row'[j] = new
        /\ \A i \in Job \ {j} : row'[i] = row[i]
        /\ row' \in [Job -> Row \cup {Absent}]
        /\ new # Absent
    BY SentinelAssumption DEF IInv, TypeOK
  <1>2. TypeOK'
    BY <1>1 DEF TypeOK
  <1>3. \A i \in Job : Exists(i)' => RowOK(row[i])'
    BY <1>1 DEF IInv, Exists
  <1>4. OneWriter'
    <2> DEFINE Own(v) == claim'[v] = [job |-> j, state |-> new.state, point |-> new.point, current |-> TRUE]
    <2>1. ASSUME NEW v \in Worker, Holds(v)', OldCopy(j, v)
          PROVE  /\ Holds(v) /\ claim'[v] = claim[v] /\ claim[v].job # j
                 /\ row'[claim[v].job] = row[claim[v].job]
      <3>1. Holds(v) /\ claim'[v] = claim[v] /\ claim[v].job # j
        BY <2>1 DEF Holds, OldCopy
      <3>2. claim[v].job \in Job
        BY <3>1 DEF IInv, TypeOK, Holds, Claim
      <3> QED
        BY <3>1, <3>2, <1>1
    <2>2. ASSUME NEW v \in Worker, Holds(v)'
          PROVE  /\ row'[claim'[v].job] # Absent
                 /\ row'[claim'[v].job].state = claim'[v].state
                 /\ row'[claim'[v].job].point = claim'[v].point
                 /\ ~row'[claim'[v].job].cancelRequested
      <3>1. CASE OldCopy(j, v)
        BY <2>1, <2>2, <3>1 DEF IInv, OneWriter
      <3>2. CASE Own(v) /\ ~new.cancelRequested
        BY <1>1, <3>2
      <3> QED
        BY <3>1, <3>2
    <2>3. ASSUME NEW v \in Worker, NEW u \in Worker \ {v}, Holds(v)', Holds(u)'
          PROVE  claim'[u].job # claim'[v].job
      <3>1. CASE OldCopy(j, v) /\ OldCopy(j, u)
        BY <2>1, <2>3, <3>1 DEF IInv, OneWriter
      <3>2. CASE v = w /\ Own(v) /\ OldCopy(j, u)
        BY <2>1, <2>3, <3>2
      <3>3. CASE OldCopy(j, v) /\ u = w /\ Own(u)
        BY <2>1, <2>3, <3>3
      <3> QED
        BY <3>1, <3>2, <3>3
    <2> QED
      BY <2>2, <2>3 DEF OneWriter
  <1> QED
    BY <1>2, <1>3, <1>4 DEF IInv

\* Copies made stale are old copies.
LEMMA StaleCopies ==
    ASSUME IInv, NEW j \in Job
    PROVE  /\ [v \in Worker |-> Stale(j, v)] \in [Worker -> Claim \cup {Idle}]
           /\ \A v \in Worker : Stale(j, v) \in Claim \cup {Idle}
           /\ \A v \in Worker : Stale(j, v) # Idle /\ Stale(j, v).current =>
                claim[v] # Idle /\ Stale(j, v) = claim[v] /\ claim[v].job # j
  <1>1. ASSUME NEW v \in Worker
        PROVE  /\ Stale(j, v) \in Claim \cup {Idle}
               /\ Stale(j, v) # Idle /\ Stale(j, v).current =>
                    claim[v] # Idle /\ Stale(j, v) = claim[v] /\ claim[v].job # j
    <2>1. CASE claim[v] # Idle /\ claim[v].job = j
      <3>1. claim[v] \in Claim
        BY <2>1 DEF IInv, TypeOK
      <3>2. Stale(j, v) = [claim[v] EXCEPT !.current = FALSE]
        BY <2>1 DEF Stale
      <3> QED
        BY <3>1, <3>2 DEF Claim
    <2>2. CASE ~(claim[v] # Idle /\ claim[v].job = j)
      <3>1. Stale(j, v) = claim[v]
        BY <2>2 DEF Stale
      <3> QED
        BY <2>2, <3>1 DEF IInv, TypeOK
    <2> QED
      BY <2>1, <2>2
  <1> QED
    BY <1>1

\* A write of row j alone is legal for all rows if it is for that one.
LEMMA OneRowLegal ==
    ASSUME IInv, NEW j \in Job, NEW new, row' = [row EXCEPT ![j] = new],
           Exists(j) => LegalWrite(row[j], new)
    PROVE  RowsChangeLegally
  <1>1. row'[j] = new /\ \A i \in Job \ {j} : row'[i] = row[i]
    BY DEF IInv, TypeOK
  <1>2. \A i \in Job \ {j} : Exists(i) => LegalWrite(row[i], row[i])
    BY DEF IInv, RowOK, LegalWrite
  <1> QED
    BY <1>1, <1>2 DEF RowsChangeLegally

\* What the fields of an existing row are.
LEMMA RowFields ==
    ASSUME IInv, NEW j \in Job, Exists(j)
    PROVE  /\ row[j] \in Row /\ RowOK(row[j])
           /\ row[j].due \in 0..Never /\ row[j].lease \in 0..Lease
           /\ row[j].cancelRequested \in BOOLEAN
           /\ row[j] = [state |-> row[j].state, point |-> row[j].point, result |-> row[j].result,
                        cancelRequested |-> row[j].cancelRequested,
                        due |-> row[j].due, lease |-> row[j].lease]
  BY DEF IInv, TypeOK, Exists, Row

\* Times a row may hold, and states.
LEMMA TimesAndStates ==
    /\ Lease \in 0..Never /\ Never \in 0..Never /\ 0 \in 0..Never
    /\ 0 \in 0..Lease /\ Lease \in 0..Lease
    /\ Lease # Never /\ 0 # Never /\ Lease > 0
    /\ \A n \in 0..Lease : n \in 0..Never /\ n # Never
    /\ \A n \in 0..RetryWait : n \in 0..Never /\ n # Never
    /\ {"queued", "retry", "running", "committing"} \cap Terminal = {}
    /\ Terminal \subseteq Terminal \cup Claimable
    /\ {"queued", "retry", "running", "committing"} \subseteq Terminal \cup Claimable
  <1>1. /\ Lease \in Nat \ {0} /\ RetryWait \in Nat \ {0}
        /\ Never \in Nat /\ Never > Lease /\ Never > RetryWait
    BY TimeAssumption
  <1>2. {"queued", "retry", "running", "committing"} \cap Terminal = {}
    BY DEF Terminal
  <1>3. {"queued", "retry", "running", "committing"} \subseteq Terminal \cup Claimable
    BY DEF Claimable
  <1> QED
    BY <1>1, <1>2, <1>3

\* admit(): no worker can hold a job that did not exist.
LEMMA AdmitSafe ==
    ASSUME IInv, NEW j \in Job, Admit(j)
    PROVE  IInv' /\ RowsChangeLegally
  <1> DEFINE new == [state |-> "queued", point |-> Start, result |-> NoResult,
                     cancelRequested |-> FALSE, due |-> 0, lease |-> 0]
  <1>1. row' = [row EXCEPT ![j] = new] /\ claim' = claim /\ row[j] = Absent
    BY DEF Admit, Exists
  <1>2. new \in Row /\ RowOK(new)
    BY PointAssumption, TimeAssumption DEF Row, RowOK, Terminal, Claimable
  <1>3. \A v \in Worker : OldCopy(j, v)
    BY <1>1 DEF OldCopy, IInv, OneWriter, Holds
  <1>4. claim' \in [Worker -> Claim \cup {Idle}]
    BY <1>1 DEF IInv, TypeOK
  <1> HIDE DEF new
  <1>5. IInv'
    BY <1>1, <1>2, <1>3, <1>4, RowWritten
  <1>6. RowsChangeLegally
    BY <1>1, OneRowLegal DEF Exists
  <1> QED
    BY <1>5, <1>6

\* claim() of a job whose cancellation waited for its lease.
LEMMA ClaimCancelledSafe ==
    ASSUME IInv, NEW j \in Job, ClaimCancelled(j)
    PROVE  IInv' /\ RowsChangeLegally
  <1> DEFINE new == [row[j] EXCEPT !.state = "cancelled", !.due = Never]
  <1>1. /\ row' = [row EXCEPT ![j] = new]
        /\ claim' = [v \in Worker |-> Stale(j, v)]
        /\ Exists(j) /\ row[j].state \notin Terminal \cup {"committing"}
        /\ row[j].lease = 0 /\ row[j].cancelRequested
    BY DEF ClaimCancelled, Due, Unfinished, Exists, IInv, TypeOK
  <1>2. new \in Row /\ RowOK(new)
    <2>1. row[j] \in Row /\ "cancelled" \in Terminal
      BY <1>1, RowFields DEF Terminal
    <2>2. new \in Row
      <3>1. "cancelled" \in Terminal \cup Claimable /\ Never \in 0..Never
        BY <2>1, TimesAndStates
      <3> QED
        BY <2>1, <3>1 DEF Row
    <2>3. new.state = "cancelled" /\ new.due = Never /\ new.lease = 0
      BY <1>1, <2>1 DEF Row
    <2> QED
      BY <2>1, <2>2, <2>3 DEF RowOK
  <1>3. LegalWrite(row[j], new)
    BY <1>1, RowFields DEF LegalWrite, Row
  <1>4. claim' \in [Worker -> Claim \cup {Idle}] /\ \A v \in Worker : OldCopy(j, v)
    BY <1>1, StaleCopies DEF OldCopy
  <1> HIDE DEF new
  <1> QED
    BY <1>1, <1>2, <1>3, <1>4, RowWritten, OneRowLegal

\* claim(): the new claimant is the only one, and no cancellation is pending.
LEMMA ClaimJobSafe ==
    ASSUME IInv, NEW w \in Worker, NEW j \in Job, ClaimJob(w, j)
    PROVE  IInv' /\ RowsChangeLegally
  <1> DEFINE new == [row[j] EXCEPT !.state = ClaimedState(j), !.due = Lease, !.lease = Lease]
             copy == [job |-> j, state |-> ClaimedState(j), point |-> row[j].point, current |-> TRUE]
  <1>1. /\ row' = [row EXCEPT ![j] = new]
        /\ claim' = [v \in Worker |-> IF v = w THEN copy ELSE Stale(j, v)]
        /\ Exists(j) /\ row[j].state \notin Terminal
        /\ row[j].cancelRequested => row[j].state = "committing"
    BY DEF ClaimJob, Due, Unfinished, Exists, IInv, TypeOK
  <1>2. ~row[j].cancelRequested /\ row[j] \in Row
    BY <1>1, RowFields DEF RowOK
  <1>3. ClaimedState(j) \in {"running", "committing"}
        /\ (row[j].state = "committing" => ClaimedState(j) = "committing")
    BY DEF ClaimedState
  <1>4. new \in Row /\ RowOK(new)
    <2>1. new \in Row
      <3>1. ClaimedState(j) \in Terminal \cup Claimable
            /\ Lease \in 0..Never /\ Lease \in 0..Lease
        BY <1>3, TimesAndStates
      <3> QED
        BY <1>2, <3>1 DEF Row
    <2>2. new.state = ClaimedState(j) /\ new.due = Lease /\ new.lease = Lease
          /\ ~new.cancelRequested
      BY <1>2 DEF Row
    <2>3. new.state \notin Terminal /\ new.due # Never
      BY <1>3, <2>2, TimesAndStates
    <2> QED
      BY <1>3, <2>1, <2>2, <2>3 DEF RowOK
  <1>5. /\ new.state = ClaimedState(j) /\ new.point = row[j].point /\ ~new.cancelRequested
        /\ copy \in Claim
    BY <1>2, <1>3 DEF Row, Claim
  <1>6. LegalWrite(row[j], new)
    BY <1>1, <1>2, <1>3, <1>5 DEF LegalWrite
  <1>7. claim' \in [Worker -> Claim \cup {Idle}]
    BY <1>1, <1>5, StaleCopies
  <1>8. \A v \in Worker : OldCopy(j, v) \/ (v = w /\ claim'[v] = copy)
    BY <1>1, StaleCopies DEF OldCopy
  <1> HIDE DEF new
  <1>9. IInv'
    <2>1. copy = [job |-> j, state |-> new.state, point |-> new.point, current |-> TRUE]
      BY <1>5
    <2>2. \A v \in Worker :
             \/ OldCopy(j, v)
             \/ /\ v = w /\ ~new.cancelRequested
                /\ claim'[v] = [job |-> j, state |-> new.state, point |-> new.point, current |-> TRUE]
      BY <1>5, <1>8, <2>1
    <2>3. row' = [row EXCEPT ![j] = new]
      BY <1>1
    <2> QED
      BY <1>4, <1>7, <2>2, <2>3, RowWritten
  <1> QED
    BY <1>1, <1>6, <1>9, OneRowLegal

\* checkpoint(): only the current claimant gets here, so the row it replaces
\* is unfinished, is the one it read and is not being cancelled.
LEMMA CheckpointSafe ==
    ASSUME IInv, NEW w \in Worker, NEW point \in Point, NEW result \in Result,
           NEW wait \in 0..RetryWait, NEW stays \in BOOLEAN,
           NEW state \in Terminal \cup {"running", "committing", "retry"},
           stays => ~Released(state, wait),
           Checkpoint(w, point, state, result, wait, stays)
    PROVE  IInv' /\ RowsChangeLegally
  <1> DEFINE j == claim[w].job
             new == [row[j] EXCEPT !.point = point, !.state = state, !.result = result,
                                   !.due = DueAfter(state, wait),
                                   !.lease = IF Released(state, wait) THEN 0 ELSE Lease]
             copy == [job |-> j, state |-> state, point |-> point, current |-> TRUE]
  <1>1. /\ Holds(w) /\ claim[w] \in Claim /\ j \in Job
        /\ Exists(j) /\ row[j] \in Row /\ ~row[j].cancelRequested
        /\ row[j].state = claim[w].state /\ row[j].state \in {"running", "committing"}
    <2>1. Holds(w) /\ claim[w] \in Claim
      BY DEF Checkpoint, CanWrite, Holds, IInv, TypeOK
    <2>2. row[j] # Absent /\ ~row[j].cancelRequested /\ row[j].state = claim[w].state
      BY <2>1 DEF IInv, OneWriter
    <2> QED
      BY <2>1, <2>2 DEF Claim, IInv, TypeOK, Exists
  <1>2. /\ row' = [row EXCEPT ![j] = new]
        /\ claim' = [v \in Worker |->
             IF v # w THEN Stale(j, v) ELSE IF stays THEN copy ELSE Idle]
        /\ ~(row[j].state = "committing" /\ state = "cancelled")
        /\ state = "retry" => wait > 0
    BY <1>1 DEF Checkpoint, IInv, TypeOK
  <1>3. new \in Row /\ RowOK(new)
    <2>1. DueAfter(state, wait) \in 0..Never /\ (state \in Terminal <=> DueAfter(state, wait) = Never)
      BY TimesAndStates DEF DueAfter
    <2>2. ~Released(state, wait) => state \in {"running", "committing"}
      BY <1>2 DEF Released
    <2> HIDE DEF j
    <2>3. new \in Row
      <3>1. (IF Released(state, wait) THEN 0 ELSE Lease) \in 0..Lease
        BY TimesAndStates
      <3>2. state \in Terminal \cup Claimable
        BY TimesAndStates
      <3> QED
        BY <1>1, <2>1, <3>1, <3>2 DEF Row
    <2>4. /\ new.state = state /\ new.due = DueAfter(state, wait)
          /\ new.lease = (IF Released(state, wait) THEN 0 ELSE Lease)
          /\ ~new.cancelRequested
      BY <1>1 DEF Row
    <2> QED
      BY <2>1, <2>2, <2>3, <2>4 DEF RowOK
  <1>4. new.state = state /\ new.point = point /\ ~new.cancelRequested
    BY <1>1 DEF Row
  <1>5. LegalWrite(row[j], new)
    BY <1>1, <1>2, <1>4 DEF LegalWrite, Terminal
  <1>6. stays => copy \in Claim
    BY <1>1, <1>2 DEF Claim, Released
  <1>7. claim' \in [Worker -> Claim \cup {Idle}]
    BY <1>1, <1>2, <1>6, StaleCopies
  <1>8. \A v \in Worker : OldCopy(j, v) \/ (v = w /\ claim'[v] = copy)
    BY <1>1, <1>2, StaleCopies DEF OldCopy
  <1> HIDE DEF new, j
  <1>9. IInv'
    BY ZenonT(30), <1>1, <1>2, <1>3, <1>4, <1>7, <1>8, RowWritten
  <1> QED
    BY <1>1, <1>2, <1>5, <1>9, OneRowLegal

\* A copy made stale is the same copy, and nobody writes with it.
LEMMA StaleIs ==
    ASSUME IInv, NEW j \in Job, NEW v \in Worker
    PROVE  /\ Stale(j, v) = Idle <=> claim[v] = Idle
           /\ claim[v] # Idle =>
                /\ Stale(j, v).job = claim[v].job /\ Stale(j, v).state = claim[v].state
                /\ Stale(j, v).point = claim[v].point
                /\ Stale(j, v).current => claim[v].current /\ claim[v].job # j
  <1>1. CASE claim[v] # Idle /\ claim[v].job = j
    <2>1. claim[v] \in Claim
      BY <1>1 DEF IInv, TypeOK
    <2>2. Stale(j, v) = [claim[v] EXCEPT !.current = FALSE]
      BY <1>1 DEF Stale
    <2>3. Stale(j, v) \in Claim /\ ~Stale(j, v).current
      BY <2>1, <2>2 DEF Claim
    <2> QED
      BY <1>1, <2>1, <2>2, <2>3, SentinelAssumption DEF Claim
  <1>2. CASE ~(claim[v] # Idle /\ claim[v].job = j)
    BY <1>2 DEF Stale
  <1> QED
    BY <1>1, <1>2

\* What a checkpoint does: its worker has read the row it replaces.
LEMMA CheckpointEffect ==
    ASSUME IInv, NEW w \in Worker, NEW point \in Point, NEW result \in Result,
           NEW wait \in 0..RetryWait, NEW stays \in BOOLEAN,
           NEW state \in Terminal \cup {"running", "committing", "retry"},
           Checkpoint(w, point, state, result, wait, stays)
    PROVE  LET j == claim[w].job
           IN  /\ claim[w] # Idle /\ claim[w].current
               /\ claim[w].state \in {"running", "committing"}
               /\ j \in Job /\ Exists(j)
               /\ row[j].state = claim[w].state /\ row[j].point = claim[w].point
               /\ row'[j] # Absent /\ row'[j].state = state
               /\ row'[j].point = point /\ row'[j].result = result
               /\ \A i \in Job \ {j} : row'[i] = row[i]
               /\ \A v \in Worker \ {w} : claim'[v] = Stale(j, v)
               /\ ~stays => claim'[w] = Idle
  <1> DEFINE j == claim[w].job
             new == [row[j] EXCEPT !.point = point, !.state = state, !.result = result,
                                   !.due = DueAfter(state, wait),
                                   !.lease = IF Released(state, wait) THEN 0 ELSE Lease]
  <1>1. /\ row' = [row EXCEPT ![j].point = point, ![j].state = state, ![j].result = result,
                              ![j].due = DueAfter(state, wait),
                              ![j].lease = IF Released(state, wait) THEN 0 ELSE Lease]
        /\ \A v \in Worker \ {w} : claim'[v] = Stale(j, v)
        /\ ~stays => claim'[w] = Idle
        /\ Holds(w)
    BY DEF Checkpoint, CanWrite
  <1>2. /\ claim[w] # Idle /\ claim[w] \in Claim /\ j \in Job
        /\ row[j] # Absent /\ row[j] \in Row
        /\ row[j].state = claim[w].state /\ row[j].point = claim[w].point
    BY <1>1 DEF Holds, IInv, TypeOK, OneWriter, Claim
  <1>3. row'[j] = new /\ \A i \in Job \ {j} : row'[i] = row[i]
    BY <1>1, <1>2 DEF IInv, TypeOK
  <1>4. new.state = state /\ new.point = point /\ new.result = result
    BY <1>2 DEF Row
  <1>5. new \in Row
    <2>1. DueAfter(state, wait) \in 0..Never
      BY TimeAssumption DEF DueAfter
    <2>2. state \in Terminal \cup Claimable
      BY DEF Terminal, Claimable
    <2>3. (IF Released(state, wait) THEN 0 ELSE Lease) \in 0..Lease
      BY TimeAssumption
    <2> HIDE DEF j
    <2> QED
      BY <1>2, <2>1, <2>2, <2>3 DEF Row
  <1>6. claim[w].state \in {"running", "committing"} /\ claim[w].current
    BY <1>1, <1>2 DEF Claim, Holds
  <1> HIDE DEF new
  <1> QED
    BY <1>1, <1>2, <1>3, <1>4, <1>5, <1>6, SentinelAssumption DEF Exists

\* cancel(): the row changes, so a worker that was executing has an old copy.
LEMMA CancelSafe ==
    ASSUME IInv, NEW j \in Job, Cancel(j)
    PROVE  IInv' /\ RowsChangeLegally
  <1>1. /\ claim' = [v \in Worker |-> Stale(j, v)]
        /\ Exists(j) /\ row[j].state \notin Terminal \cup {"committing"}
        /\ row[j] \in Row /\ RowOK(row[j])
    BY RowFields DEF Cancel, Cancellable, Unfinished
  <1>2. claim' \in [Worker -> Claim \cup {Idle}] /\ \A v \in Worker : OldCopy(j, v)
    BY <1>1, StaleCopies DEF OldCopy
  <1>3. ASSUME row[j].state = "running",
               row' = [row EXCEPT ![j].cancelRequested = TRUE, ![j].due = row[j].lease]
        PROVE  IInv' /\ RowsChangeLegally
    <2> DEFINE new == [row[j] EXCEPT !.cancelRequested = TRUE, !.due = row[j].lease]
    <2>1. row' = [row EXCEPT ![j] = new]
      BY <1>3 DEF IInv, TypeOK
    <2>2. row[j].lease \in 0..Never /\ row[j].lease # Never
      BY <1>1, TimesAndStates DEF Row
    <2>3. new \in Row
      BY <1>1, <2>2 DEF Row
    <2>4. /\ new.state = "running" /\ new.due # Never /\ "running" \notin Terminal
          /\ new.point = row[j].point /\ new.result = row[j].result /\ new.cancelRequested
      BY <1>1, <1>3, <2>2, TimesAndStates DEF Row
    <2>5. RowOK(new) /\ LegalWrite(row[j], new)
      BY <1>1, <1>3, <2>4 DEF RowOK, LegalWrite
    <2> HIDE DEF new
    <2> QED
      BY <1>2, <2>1, <2>3, <2>5, RowWritten, OneRowLegal
  <1>4. ASSUME ~(row[j].state = "running" /\ row[j].lease > 0),
               row' = [row EXCEPT ![j].cancelRequested = TRUE, ![j].state = "cancelled",
                                  ![j].due = Never]
        PROVE  IInv' /\ RowsChangeLegally
    <2> DEFINE new == [row[j] EXCEPT !.cancelRequested = TRUE, !.state = "cancelled", !.due = Never]
    <2>1. row' = [row EXCEPT ![j] = new]
      BY <1>4 DEF IInv, TypeOK
    <2>2. "cancelled" \in Terminal \cup Claimable /\ "cancelled" \in Terminal /\ Never \in 0..Never
      BY TimesAndStates DEF Terminal
    <2>3. new \in Row
      BY <1>1, <2>2 DEF Row
    <2>4. /\ new.state = "cancelled" /\ new.due = Never /\ new.lease = row[j].lease
          /\ new.point = row[j].point /\ new.result = row[j].result /\ new.cancelRequested
      BY <1>1 DEF Row
    <2>5. ~(row[j].lease > 0)
      BY <1>1, <1>4 DEF RowOK
    <2>6. RowOK(new) /\ LegalWrite(row[j], new)
      BY <1>1, <2>2, <2>4, <2>5 DEF RowOK, LegalWrite
    <2> HIDE DEF new
    <2> QED
      BY <1>2, <2>1, <2>3, <2>6, RowWritten, OneRowLegal
  <1> QED
    BY <1>3, <1>4 DEF Cancel

\* Time passes for leases and waits, and changes nothing else of a row.
LEMMA LaterRow ==
    ASSUME NEW r \in Row, RowOK(r)
    PROVE  /\ Later(r) \in Row /\ Later(r) # Absent /\ RowOK(Later(r))
           /\ Later(r).state = r.state /\ Later(r).point = r.point
           /\ Later(r).cancelRequested = r.cancelRequested
           /\ LegalWrite(r, Later(r))
  <1>1. /\ r # Absent /\ r.due \in 0..Never /\ r.lease \in 0..Lease
        /\ Lease \in Nat /\ Never \in Nat /\ Never > Lease /\ Never > 0
    BY SentinelAssumption, TimeAssumption DEF Row
  <1>2. Later(r) = [r EXCEPT !.due = Less(r.due), !.lease = Less(r.lease)]
    BY <1>1 DEF Later
  <1>3. /\ Less(r.due) \in 0..Never /\ (Less(r.due) = Never <=> r.due = Never)
        /\ Less(r.lease) \in 0..Lease /\ (Less(r.lease) > 0 => r.lease > 0)
        /\ r.lease = 0 => Less(r.lease) = 0
        /\ r.due = Never => Less(r.due) = r.due
    BY <1>1 DEF Less
  <1>4. /\ Later(r).state = r.state /\ Later(r).point = r.point /\ Later(r).result = r.result
        /\ Later(r).cancelRequested = r.cancelRequested
        /\ Later(r).due = Less(r.due) /\ Later(r).lease = Less(r.lease)
        /\ Later(r) \in Row
    BY <1>2, <1>3 DEF Row
  <1>5. RowOK(Later(r))
    BY <1>3, <1>4 DEF RowOK
  <1>6. r.state \in Terminal => Later(r) = r
    <2>1. r.state \in Terminal => r.lease = 0 /\ r.due = Never
      BY <1>1, TimesAndStates DEF RowOK
    <2> QED
      BY <1>2, <1>3, <2>1 DEF Row
  <1>7. LegalWrite(r, Later(r))
    <2>1. r.state = "committing" => r.state # "cancelled" /\ ~r.cancelRequested
      BY DEF RowOK
    <2> QED
      BY <1>4, <1>6, <2>1 DEF LegalWrite
  <1> QED
    BY <1>4, <1>5, <1>7, SentinelAssumption

\* Tick.
LEMMA TickSafe ==
    ASSUME IInv, Tick
    PROVE  IInv' /\ RowsChangeLegally
  <1>1. claim' = claim /\ \A j \in Job : row'[j] = Later(row[j])
    BY DEF Tick
  <1>2. \A j \in Job : Exists(j) => row[j] \in Row /\ RowOK(row[j])
    BY DEF IInv, TypeOK, Exists
  <1>3. ASSUME NEW j \in Job, Exists(j)
        PROVE  /\ row'[j] \in Row /\ row'[j] # Absent /\ RowOK(row'[j])
               /\ row'[j].state = row[j].state /\ row'[j].point = row[j].point
               /\ row'[j].cancelRequested = row[j].cancelRequested
               /\ LegalWrite(row[j], row'[j])
    BY <1>1, <1>2, <1>3, LaterRow
  <1>4. \A j \in Job : ~Exists(j) => row'[j] = Absent
    BY <1>1 DEF Later, Exists
  <1>5. TypeOK'
    <2>1. row' = [j \in Job |-> Later(row[j])]
      BY DEF Tick
    <2>2. \A j \in Job : Later(row[j]) \in Row \cup {Absent}
      BY <1>1, <1>3, <1>4
    <2> QED
      BY <1>1, <2>1, <2>2 DEF IInv, TypeOK
  <1>6. OneWriter'
    <2>1. \A v \in Worker : Holds(v)' = Holds(v)
      BY <1>1 DEF Holds
    <2>2. \A v \in Worker : Holds(v) => claim[v].job \in Job /\ Exists(claim[v].job)
      BY DEF IInv, TypeOK, OneWriter, Holds, Claim, Exists
    <2> QED
      BY <1>1, <1>3, <2>1, <2>2 DEF IInv, OneWriter
  <1>7. \A j \in Job : Exists(j)' => RowOK(row[j])'
    BY <1>3, <1>4 DEF Exists
  <1> QED
    BY <1>3, <1>5, <1>6, <1>7 DEF IInv, RowsChangeLegally

\* Leaving rows alone, and giving up copies of them, is always safe.
LEMMA LeaveSafe ==
    ASSUME IInv, row' = row,
           claim' = claim \/ \E w \in Worker : claim' = [claim EXCEPT ![w] = Idle]
    PROVE  IInv' /\ RowsChangeLegally
  <1>1. \A v \in Worker : claim'[v] = claim[v] \/ claim'[v] = Idle
    BY DEF IInv, TypeOK
  <1>2. TypeOK'
    BY DEF IInv, TypeOK
  <1>3. OneWriter'
    BY <1>1 DEF IInv, OneWriter, Holds
  <1>4. RowsChangeLegally
    BY DEF RowsChangeLegally, LegalWrite, IInv, RowOK
  <1> QED
    BY <1>2, <1>3, <1>4 DEF IInv, Exists

-----------------------------------------------------------------------------
\* No job, no claim.
LEMMA InitEstablishes == Init => IInv
  BY DEF Init, IInv, TypeOK, OneWriter, Holds, Exists

\* Every step keeps the invariant, and changes rows in legal ways only.
LEMMA NextSafe == IInv /\ [Next]_jobVars => IInv' /\ RowsChangeLegally
  <1> SUFFICES ASSUME IInv, [Next]_jobVars
               PROVE  IInv' /\ RowsChangeLegally
    OBVIOUS
  <1>1. ASSUME NEW j \in Job, Admit(j) \/ ClaimCancelled(j) \/ Cancel(j)
        PROVE  IInv' /\ RowsChangeLegally
    BY <1>1, AdmitSafe, ClaimCancelledSafe, CancelSafe
  <1>2. ASSUME NEW w \in Worker, WorkerStep(w)
        PROVE  IInv' /\ RowsChangeLegally
    <2>1. ASSUME NEW j \in Job, ClaimJob(w, j)
          PROVE  IInv' /\ RowsChangeLegally
      BY <2>1, ClaimJobSafe
    <2>2. ASSUME NEW point \in Point, NEW result \in Result,
                 NEW wait \in 0..RetryWait, NEW stays \in BOOLEAN,
                 NEW state \in Terminal \cup {"running", "committing", "retry"},
                 stays => ~Released(state, wait),
                 Checkpoint(w, point, state, result, wait, stays)
          PROVE  IInv' /\ RowsChangeLegally
      BY <2>2, CheckpointSafe
    <2>3. ASSUME Leave(w)
          PROVE  IInv' /\ RowsChangeLegally
      BY <2>3, LeaveSafe DEF Leave
    <2> QED
      BY <1>2, <2>1, <2>2, <2>3 DEF WorkerStep
  <1>3. CASE UNCHANGED jobVars
    BY <1>3, LeaveSafe DEF jobVars
  <1> QED
    BY <1>1, <1>2, <1>3, TickSafe DEF Next, AllFinished

\* The inductive invariant holds in every reachable state.
THEOREM Invariance == Spec => []IInv
  <1>1. IInv /\ [Next]_jobVars => IInv'
    BY NextSafe
  <1> QED
    BY <1>1, InitEstablishes, PTL DEF Spec

\* Rows and claims keep their types.
THEOREM TypeCorrect == Spec => []TypeOK
  <1>1. IInv => TypeOK
    BY DEF IInv
  <1> QED
    BY <1>1, Invariance, PTL

\* At most one invocation can still write to a job (jobs.js:38, 43-49).
THEOREM SingleWriter == Spec => []OneWriter
  <1>1. IInv => OneWriter
    BY DEF IInv
  <1> QED
    BY <1>1, Invariance, PTL

\* Exactly the unfinished jobs are found by the dispatcher (jobs.js:86-91).
THEOREM DueIndexExact == Spec => []DueIndexIsExact
  <1>1. IInv => DueIndexIsExact
    BY DEF IInv, RowOK, DueIndexIsExact
  <1> QED
    BY <1>1, Invariance, PTL

\* A finished job stays as it is (jobs.js:35, 43, 54).
THEOREM TerminalFinal == Spec => TerminalIsFinal
  <1>1. IInv /\ [Next]_jobVars =>
          [\A j \in Job : Exists(j) /\ row[j].state \in Terminal => row'[j] = row[j]]_jobVars
    BY NextSafe DEF RowsChangeLegally, LegalWrite
  <1> QED
    BY <1>1, Invariance, PTL DEF Spec, TerminalIsFinal

\* After an accepted cancellation only "cancelled" follows (jobs.js:37, 51-63).
THEOREM CancelStops == Spec => CancelStopsProgress
  <1>1. IInv /\ [Next]_jobVars =>
          [\A j \in Job : Exists(j) /\ row[j].cancelRequested =>
             /\ row'[j].state \in {row[j].state, "cancelled"}
             /\ row'[j].point = row[j].point /\ row'[j].result = row[j].result
             /\ row'[j].cancelRequested]_jobVars
    BY NextSafe DEF RowsChangeLegally, LegalWrite
  <1> QED
    BY <1>1, Invariance, PTL DEF Spec, CancelStopsProgress

\* A publishing job is never cancelled (jobs.js:44, 55).
THEOREM PublishingStays == Spec => PublishingIsNotCancelled
  <1>1. IInv /\ [Next]_jobVars =>
          [\A j \in Job : Exists(j) /\ row[j].state = "committing" =>
             row'[j].state # "cancelled" /\ ~row'[j].cancelRequested]_jobVars
    BY NextSafe DEF RowsChangeLegally, LegalWrite
  <1> QED
    BY <1>1, Invariance, PTL DEF Spec, PublishingIsNotCancelled
=============================================================================
