--------------------------- MODULE MCJobStoreProof ---------------------------
(***************************************************************************)
(* Proofs about the parts MCJobStore runs beside the rows of JobStore: the *)
(* registration of the broker user, the uploads and the jobs of the cache  *)
(* lane.  Each part is free of the others, and its proof holds for every   *)
(* number of workers, uploads, import commands, chunks, invocations, cache *)
(* jobs and dates.                                                         *)
(***************************************************************************)
EXTENDS MCJobStore, Sequences, WellFoundedInduction, TLAPS

-----------------------------------------------------------------------------
(* Registration: the inductive invariant *)

Shared == User!Shared
Place == {"start", "register_pending", "history"}
Stage == {"begin", "mark", "call", "save", "look again", "give up", "advance"}
UserRow == [state : Terminal \cup Claimable, point : Place, result : {0},
            cancelRequested : BOOLEAN, due : 0..User!NotDue, lease : 0..Lease]
UserClaim == [job : {Shared}, state : {"running", "committing"}, point : Place, current : BOOLEAN]

\* The marker has been saved: from here on the job is not cancelled, and does
\* not start over unless it has ended.
Marked ==
    /\ registerRow[Shared] # Absent
    /\ registerRow[Shared].state \in {"committing", "completed", "needs-attention"}
    /\ registerRow[Shared].state # "completed" =>
          registerRow[Shared].point \in {"register_pending", "history"}

\* What an invocation knows, however late it is.
WorkerOK(w) ==
    /\ registerClaim[w] # Idle =>
          /\ registerClaim[w].current =>
                /\ registerRow[Shared] # Absent
                /\ registerRow[Shared].state = registerClaim[w].state
                /\ registerRow[Shared].point = registerClaim[w].point
          /\ registerClaim[w].point = "history" => answer
          /\ registerClaim[w].point = "register_pending" => Marked
    /\ at[w] # "begin" => registerClaim[w] # Idle
    /\ at[w] = "mark" => registerClaim[w].point = "start"
    /\ at[w] \in {"call", "save", "look again", "give up"} => registerClaim[w].point # "start"
    /\ at[w] = "call" => registered = 0 /\ \A v \in Worker \ {w} : at[v] # "call"
    /\ at[w] = "save" => registered = 1
    /\ at[w] = "advance" => answer

UserTypes ==
    /\ registerRow \in [{Shared} -> UserRow \cup {Absent}]
    /\ registerClaim \in [Worker -> UserClaim \cup {Idle}]
    /\ at \in [Worker -> Stage] /\ registered \in {0, 1} /\ answer \in BOOLEAN
Answered ==
    /\ registered = 1 => Marked
    /\ answer => registered = 1
    /\ registerRow[Shared] # Absent =>
          /\ registerRow[Shared].point = "history" \/ registerRow[Shared].state = "completed" => answer
          /\ registerRow[Shared].point = "register_pending" => Marked
UserInv == UserTypes /\ Answered /\ \A w \in Worker : WorkerOK(w)

-----------------------------------------------------------------------------
(* Registration: the steps *)

\* The sentinels are no rows and no claims.
LEMMA UserSentinel == Absent \notin UserRow /\ Idle \notin UserClaim
  BY UserAssumption DEF UserRow, UserClaim, Place, Shared, User!Shared, User!NoAnswer,
     User!Jobs!Row, User!Jobs!Claim, User!Jobs!Terminal, User!Jobs!Claimable, Terminal, Claimable

\* A write leaves every other invocation with a copy that is out of date.
LEMMA UserStale ==
    ASSUME UserTypes, NEW v \in Worker
    PROVE  /\ registerClaim[v] = Idle => User!Jobs!Stale(Shared, v) = Idle
           /\ registerClaim[v] # Idle =>
                /\ User!Jobs!Stale(Shared, v) \in UserClaim
                /\ User!Jobs!Stale(Shared, v).point = registerClaim[v].point
                /\ ~User!Jobs!Stale(Shared, v).current
                /\ User!Jobs!Stale(Shared, v) # Idle
  BY UserSentinel DEF UserTypes, UserClaim, Shared, User!Jobs!Stale

\* What an invocation knows stays true when another one writes the row.
LEMMA OthersKept ==
    ASSUME UserInv, NEW v \in Worker, at'[v] = at[v], registered' = registered,
           answer => answer', Marked => Marked',
           registerClaim[v] = Idle => registerClaim'[v] = Idle,
           registerClaim[v] # Idle => /\ registerClaim'[v] # Idle
                                      /\ registerClaim'[v].point = registerClaim[v].point
                                      /\ ~registerClaim'[v].current,
           at[v] = "call" => \A u \in Worker \ {v} : at'[u] # "call"
    PROVE  WorkerOK(v)'
  BY DEF UserInv, WorkerOK

\* A write of the row by nobody's claim: admission, cancellation.
LEMMA RowWrittenOutside ==
    ASSUME UserInv, NEW new \in UserRow, registerRow' = [registerRow EXCEPT ![Shared] = new],
           registerClaim' = [v \in Worker |-> User!Jobs!Stale(Shared, v)],
           UNCHANGED <<at, registered, answer>>, Marked => Marked', Answered'
    PROVE  UserInv'
<1>1. UserTypes'
  <2>1. \A v \in Worker : User!Jobs!Stale(Shared, v) \in UserClaim \cup {Idle}
    BY UserStale DEF UserInv, UserTypes
  <2> QED  BY <2>1 DEF UserInv, UserTypes
<1>2. ASSUME NEW v \in Worker PROVE WorkerOK(v)'
  <2>1. /\ registerClaim[v] = Idle => registerClaim'[v] = Idle
        /\ registerClaim[v] # Idle => /\ registerClaim'[v] # Idle
                                      /\ registerClaim'[v].point = registerClaim[v].point
                                      /\ ~registerClaim'[v].current
    BY UserStale DEF UserInv
  <2>2. at[v] = "call" => \A u \in Worker \ {v} : at'[u] # "call"
    BY DEF UserInv, WorkerOK
  <2> QED  BY <2>1, <2>2, OthersKept
<1> QED  BY <1>1, <1>2 DEF UserInv

\* What the row is, when there is one.
LEMMA UserRowIs ==
    ASSUME UserInv
    PROVE  /\ User!Jobs!Exists(Shared) <=> registerRow[Shared] # Absent
           /\ registerRow[Shared] # Absent => registerRow[Shared] \in UserRow
           /\ \A new : [registerRow EXCEPT ![Shared] = new][Shared] = new
  BY DEF UserInv, UserTypes, User!Jobs!Exists

\* As long as no marker is saved, nobody has called the provider.
LEMMA Unmarked ==
    ASSUME UserInv, ~Marked
    PROVE  /\ registered = 0 /\ ~answer
           /\ registerRow[Shared] # Absent =>
                 registerRow[Shared].point = "start" /\ registerRow[Shared].state # "completed"
           /\ \A v \in Worker : registerClaim[v] # Idle => registerClaim[v].point = "start"
           /\ \A v \in Worker : at[v] \in {"begin", "mark"}
<1>1. registered = 0 /\ ~answer  BY DEF UserInv, UserTypes, Answered
<1>2. registerRow[Shared] # Absent =>
         registerRow[Shared].point = "start" /\ registerRow[Shared].state # "completed"
  BY <1>1, UserRowIs DEF UserInv, Answered, UserRow, Place
<1>3. ASSUME NEW v \in Worker, registerClaim[v] # Idle PROVE registerClaim[v].point = "start"
  BY <1>1, <1>3 DEF UserInv, UserTypes, UserClaim, Place, WorkerOK
<1>4. ASSUME NEW v \in Worker PROVE at[v] \in {"begin", "mark"}
  BY <1>1, <1>3 DEF UserInv, UserTypes, Stage, WorkerOK
<1> QED  BY <1>1, <1>2, <1>3, <1>4

\* Request admits the one job; nobody is at work on it yet.
LEMMA RequestSafe == UserInv /\ User!Request => UserInv'
<1> SUFFICES ASSUME UserInv, User!Request PROVE UserInv'
  OBVIOUS
<1> DEFINE new == [state |-> "queued", point |-> "start", result |-> 0,
                   cancelRequested |-> FALSE, due |-> 0, lease |-> 0]
<1>1. /\ registerRow[Shared] = Absent /\ registerRow' = [registerRow EXCEPT ![Shared] = new]
      /\ UNCHANGED <<registerClaim, at, registered, answer>>
  BY UserRowIs DEF User!Request, User!Outside, User!Jobs!Admit, User!NoAnswer, Shared
<1>2. new \in UserRow
  BY TimeAssumption DEF UserRow, Place, Claimable, User!NotDue
<1>3. ~Marked /\ registered = 0 /\ ~answer  BY <1>1, Unmarked DEF Marked
<1>4. registerRow'[Shared] = new  BY <1>1, UserRowIs
<1>5. ~Marked'  BY <1>4 DEF Marked
<1>6. Answered'  BY <1>1, <1>3, <1>4, <1>5 DEF Answered
<1>7. UserTypes'
  <2> HIDE DEF new
  <2> QED  BY <1>1, <1>2 DEF UserInv, UserTypes
<1>8. ASSUME NEW v \in Worker PROVE WorkerOK(v)'
  <2>1. registerClaim[v] # Idle => ~registerClaim[v].current /\ registerClaim[v].point = "start"
    BY <1>1, <1>3, Unmarked DEF UserInv, WorkerOK
  <2>2. at[v] \in {"begin", "mark"}  BY <1>3, Unmarked
  <2> QED  BY <1>1, <2>1, <2>2 DEF UserInv, WorkerOK
<1> QED  BY <1>6, <1>7, <1>8 DEF UserInv
\* A cancellation is accepted only before the marker is saved.
LEMMA UserCancelSafe == UserInv /\ (User!Cancel \/ User!ClaimCancelled) => UserInv'
<1> SUFFICES ASSUME UserInv, User!Cancel \/ User!ClaimCancelled PROVE UserInv'
  OBVIOUS
<1> DEFINE old == registerRow[Shared]
           asked == [old EXCEPT !.cancelRequested = TRUE, !.due = old.lease]
           over == [old EXCEPT !.cancelRequested = TRUE, !.state = "cancelled", !.due = User!NotDue]
           ended == [old EXCEPT !.state = "cancelled", !.due = User!NotDue]
<1>1. /\ old # Absent /\ old.state \notin Terminal /\ old.state # "committing"
      /\ registerClaim' = [v \in Worker |-> User!Jobs!Stale(Shared, v)]
      /\ UNCHANGED <<at, registered, answer>>
  BY DEF User!Cancel, User!ClaimCancelled, User!Outside, User!Jobs!Cancel, User!Jobs!ClaimCancelled,
     User!Jobs!Cancellable, User!Jobs!Due, User!Jobs!Unfinished, User!Jobs!Exists,
     User!Jobs!Terminal, Terminal, Shared
<1>2. old \in UserRow  BY <1>1, UserRowIs
<1>3. \/ registerRow' = [registerRow EXCEPT ![Shared] = asked]
      \/ registerRow' = [registerRow EXCEPT ![Shared] = over]
      \/ registerRow' = [registerRow EXCEPT ![Shared] = ended]
  BY DEF User!Cancel, User!ClaimCancelled, User!Jobs!Cancel, User!Jobs!ClaimCancelled, Shared,
     UserInv, UserTypes
<1>4. User!NotDue \in 0..User!NotDue /\ old.lease \in 0..User!NotDue
  BY <1>2, TimeAssumption DEF UserRow, User!NotDue
<1>5. asked \in UserRow /\ over \in UserRow /\ ended \in UserRow
  BY <1>2, <1>4 DEF UserRow, Terminal
<1>6. PICK new \in UserRow : /\ registerRow' = [registerRow EXCEPT ![Shared] = new]
                             /\ new.point = old.point /\ new.state \in {old.state, "cancelled"}
  <2>1. /\ asked.point = old.point /\ asked.state = old.state
        /\ over.point = old.point /\ over.state = "cancelled"
        /\ ended.point = old.point /\ ended.state = "cancelled"
    BY <1>2 DEF UserRow
  <2> HIDE DEF asked, over, ended
  <2> QED  BY <1>3, <1>5, <2>1
<1>7. ~Marked  BY <1>1 DEF Marked, Terminal
<1>8. registerRow'[Shared] = new  BY <1>6, UserRowIs
<1>9. Answered'
  BY <1>1, <1>6, <1>7, <1>8, Unmarked DEF Answered, Terminal
<1> QED  BY <1>1, <1>6, <1>7, <1>9, RowWrittenOutside

\* Time passes for the row only.
LEMMA UserTickSafe == UserInv /\ User!Tick => UserInv'
<1> SUFFICES ASSUME UserInv, User!Tick PROVE UserInv'
  OBVIOUS
<1> DEFINE old == registerRow[Shared]
           new == [old EXCEPT !.due = User!Jobs!Less(@), !.lease = User!Jobs!Less(@)]
<1>1. /\ registerRow' = [j \in {Shared} |-> User!Jobs!Later(registerRow[j])]
      /\ UNCHANGED <<registerClaim, at, registered, answer>>
  BY DEF User!Tick, User!Outside, User!Jobs!Tick, Shared
<1>2. old = Absent => registerRow'[Shared] = Absent
  BY <1>1 DEF User!Jobs!Later
<1>3. old # Absent => /\ registerRow'[Shared] \in UserRow
                      /\ registerRow'[Shared].point = old.point /\ registerRow'[Shared].state = old.state
  <2> SUFFICES ASSUME old # Absent
               PROVE  /\ registerRow'[Shared] \in UserRow
                      /\ registerRow'[Shared].point = old.point /\ registerRow'[Shared].state = old.state
    OBVIOUS
  <2>1. old \in UserRow  BY UserRowIs
  <2>2. \A n \in 0..User!NotDue : User!Jobs!Less(n) \in 0..User!NotDue
    BY TimeAssumption DEF User!Jobs!Less, User!NotDue
  <2>3. \A n \in 0..Lease : User!Jobs!Less(n) \in 0..Lease
    BY TimeAssumption DEF User!Jobs!Less, User!NotDue
  <2>4. old.due \in 0..User!NotDue /\ old.lease \in 0..Lease  BY <2>1 DEF UserRow
  <2>5. User!Jobs!Less(old.due) \in 0..User!NotDue /\ User!Jobs!Less(old.lease) \in 0..Lease
    BY <2>2, <2>3, <2>4
  <2>6. registerRow'[Shared] = new  BY <1>1 DEF User!Jobs!Later
  <2> QED  BY <2>1, <2>5, <2>6 DEF UserRow
<1>4. UserTypes'
  BY <1>1, <1>2, <1>3 DEF UserInv, UserTypes
<1>5. (registerRow'[Shared] = Absent <=> old = Absent) /\ (Marked' <=> Marked)
  BY <1>2, <1>3, UserSentinel DEF Marked
<1>6. Answered'  BY <1>1, <1>3, <1>5 DEF UserInv, Answered
<1>7. \A v \in Worker : WorkerOK(v)'  BY <1>1, <1>3, <1>5 DEF UserInv, WorkerOK
<1> QED  BY <1>4, <1>6, <1>7 DEF UserInv

\* A claim reads the row as it is, and keeps a job that is past its marker so.
LEMMA UserClaimSafe == ASSUME UserInv, NEW w \in Worker, User!ClaimJob(w) PROVE UserInv'
<1> DEFINE old == registerRow[Shared]
           state == User!Jobs!ClaimedState(Shared)
           new == [old EXCEPT !.state = state, !.due = Lease, !.lease = Lease]
           copy == [job |-> Shared, state |-> state, point |-> old.point, current |-> TRUE]
<1>1. /\ registerClaim[w] = Idle /\ old # Absent /\ old.state \notin Terminal
      /\ registerRow' = [registerRow EXCEPT ![Shared] = new]
      /\ registerClaim' = [v \in Worker |-> IF v = w THEN copy ELSE User!Jobs!Stale(Shared, v)]
      /\ UNCHANGED <<at, registered, answer>>
  BY DEF User!ClaimJob, User!Outside, User!Jobs!ClaimJob, User!Jobs!Due, User!Jobs!Unfinished,
     User!Jobs!Exists, User!Jobs!Terminal, Terminal, Shared, UserInv, UserTypes
<1>2. old \in UserRow  BY <1>1, UserRowIs
<1>3. state \in {"running", "committing"} /\ (old.state = "committing" <=> state = "committing")
  BY DEF User!Jobs!ClaimedState, Shared
<1>4. Lease \in 0..Lease /\ Lease \in 0..User!NotDue  BY TimeAssumption DEF User!NotDue
<1>5. new \in UserRow /\ new.point = old.point /\ new.state = state /\ copy \in UserClaim
  BY <1>2, <1>3, <1>4 DEF UserRow, UserClaim, Claimable
<1> HIDE DEF new, state
<1>6. registerRow'[Shared] = new /\ new # Absent  BY <1>1, <1>5, UserRowIs, UserSentinel
<1>7. Marked' <=> Marked  BY <1>1, <1>3, <1>5, <1>6 DEF Marked, Terminal
<1>8. UserTypes'
  <2>1. \A v \in Worker : User!Jobs!Stale(Shared, v) \in UserClaim \cup {Idle}
    BY UserStale DEF UserInv, UserTypes
  <2> HIDE DEF copy
  <2> QED  BY <1>1, <1>5, <2>1 DEF UserInv, UserTypes
<1>9. Answered'
  <2>1. old.state # "completed" /\ new.state # "completed"  BY <1>1, <1>3, <1>5 DEF Terminal
  <2> QED  BY <1>1, <1>5, <1>6, <1>7, <2>1 DEF UserInv, Answered
<1>10. ASSUME NEW v \in Worker PROVE WorkerOK(v)'
  <2>1. CASE v = w
    <3>1. registerClaim'[v] = copy /\ at[v] = "begin" /\ at'[v] = "begin"
      BY <1>1, <2>1 DEF UserInv, WorkerOK
    <3>2. (old.point = "history" => answer) /\ (old.point = "register_pending" => Marked)
      BY <1>1 DEF UserInv, Answered
    <3> QED  BY <1>1, <1>5, <1>6, <1>7, <3>1, <3>2 DEF WorkerOK
  <2>2. CASE v # w
    <3>1. registerClaim'[v] = User!Jobs!Stale(Shared, v)  BY <1>1, <2>2
    <3>2. at[v] = "call" => \A u \in Worker \ {v} : at'[u] # "call"
      BY <1>1 DEF UserInv, WorkerOK
    <3>3. /\ registerClaim[v] = Idle => registerClaim'[v] = Idle
          /\ registerClaim[v] # Idle => /\ registerClaim'[v] # Idle
                                        /\ registerClaim'[v].point = registerClaim[v].point
                                        /\ ~registerClaim'[v].current
      BY <3>1, UserStale DEF UserInv
    <3> QED  BY <1>1, <1>7, <3>2, <3>3, OthersKept
  <2> QED  BY <2>1, <2>2
<1> QED  BY <1>8, <1>9, <1>10 DEF UserInv
\* Only the current claimant writes a checkpoint: the row is as it read it.
LEMMA UserWriter ==
    ASSUME UserInv, NEW w \in Worker, User!Jobs!CanWrite(w)
    PROVE  /\ registerClaim[w] \in UserClaim /\ registerRow[Shared] \in UserRow
           /\ registerRow[Shared].state = registerClaim[w].state
           /\ registerRow[Shared].point = registerClaim[w].point
           /\ Marked => registerClaim[w].state = "committing" /\ registerClaim[w].point # "start"
<1>1. registerClaim[w] # Idle /\ registerClaim[w].current  BY DEF User!Jobs!CanWrite, User!Jobs!Holds
<1>2. /\ registerClaim[w] \in UserClaim /\ registerRow[Shared] # Absent
      /\ registerRow[Shared].state = registerClaim[w].state
      /\ registerRow[Shared].point = registerClaim[w].point
  BY <1>1 DEF UserInv, UserTypes, WorkerOK
<1>3. registerRow[Shared] \in UserRow  BY <1>2, UserRowIs
<1> QED  BY <1>2, <1>3 DEF Marked, UserClaim

\* A checkpoint keeps the invariant if what it saves has been secured: a
\* marker is never taken back, and an answer is stored before it is used.
LEMMA UserCheckpointSafe ==
    ASSUME UserInv, NEW w \in Worker, NEW point \in Place, NEW wait \in 0..RetryWait,
           NEW state \in Terminal \cup {"running", "committing", "retry"}, NEW stays \in BOOLEAN,
           User!Jobs!Checkpoint(w, point, state, 0, wait, stays),
           UNCHANGED <<registered, answer>>,
           at' = [at EXCEPT ![w] = IF stays THEN "call" ELSE "begin"],
           point = "history" \/ state = "completed" => answer,
           Marked \/ point = "register_pending" =>
              /\ state \in {"committing", "completed", "needs-attention"}
              /\ state # "completed" => point # "start",
           stays => ~Marked /\ point = "register_pending" /\ state = "committing"
    PROVE  UserInv'
<1> DEFINE old == registerRow[Shared]
           due == User!Jobs!DueAfter(state, wait)
           lease == IF User!Jobs!Released(state, wait) THEN 0 ELSE Lease
           new == [old EXCEPT !.point = point, !.state = state, !.result = 0, !.due = due, !.lease = lease]
           copy == [job |-> Shared, state |-> state, point |-> point, current |-> TRUE]
<1>1. User!Jobs!CanWrite(w) /\ registerClaim[w] # Idle
  BY DEF User!Jobs!Checkpoint, User!Jobs!CanWrite, User!Jobs!Holds
<1>2. registerClaim[w] \in UserClaim /\ old \in UserRow  BY <1>1, UserWriter
<1>3. registerClaim[w].job = Shared  BY <1>2 DEF UserClaim
<1>4. /\ registerRow' = [registerRow EXCEPT ![Shared] = new]
      /\ registerClaim' = [v \in Worker |-> IF v # w THEN User!Jobs!Stale(Shared, v)
                                            ELSE IF stays THEN copy ELSE Idle]
  BY <1>3 DEF User!Jobs!Checkpoint, UserInv, UserTypes
<1>5. due \in 0..User!NotDue /\ lease \in 0..Lease
  BY TimeAssumption DEF User!Jobs!DueAfter, User!NotDue
<1>6. new \in UserRow /\ new.point = point /\ new.state = state
  BY <1>2, <1>5 DEF UserRow, Claimable
<1>7. stays => copy \in UserClaim  BY DEF UserClaim
<1> HIDE DEF new
<1>8. registerRow'[Shared] = new /\ new # Absent  BY <1>4, <1>6, UserRowIs, UserSentinel
<1>9. (Marked \/ point = "register_pending" => Marked')
  BY <1>6, <1>8 DEF Marked, Place
<1>10. UserTypes'
  <2>1. \A v \in Worker : User!Jobs!Stale(Shared, v) \in UserClaim \cup {Idle}
    BY UserStale DEF UserInv, UserTypes
  <2> HIDE DEF copy
  <2> QED  BY <1>4, <1>6, <1>7, <2>1 DEF UserInv, UserTypes, Stage
<1>11. Answered'
  BY <1>6, <1>8, <1>9 DEF UserInv, Answered
<1>12. stays => \A v \in Worker : at[v] \in {"begin", "mark"} /\ registered = 0
  BY Unmarked
<1>13. ASSUME NEW v \in Worker PROVE WorkerOK(v)'
  <2>1. CASE v = w
    <3>1. registerClaim'[v] = (IF stays THEN copy ELSE Idle)  BY <1>4, <2>1
    <3>2. at'[v] = (IF stays THEN "call" ELSE "begin")  BY <2>1 DEF UserInv, UserTypes
    <3>3. copy.job = Shared /\ copy.state = state /\ copy.point = point /\ copy.current
      OBVIOUS
    <3> HIDE DEF copy
    <3>4. CASE stays
      <4>1. registerClaim'[v] = copy /\ at'[v] = "call" /\ copy # Idle
        BY <1>7, <3>1, <3>2, <3>4, UserSentinel
      <4>2. \A u \in Worker \ {v} : at'[u] # "call"
        BY <1>12, <2>1, <3>4 DEF UserInv, UserTypes
      <4>3. point = "register_pending" /\ state = "committing" /\ Marked' /\ registered = 0
        BY <1>9, <1>12, <3>4
      <4> QED  BY <1>6, <1>8, <3>3, <4>1, <4>2, <4>3 DEF WorkerOK
    <3>5. CASE ~stays
      <4>1. registerClaim'[v] = Idle /\ at'[v] = "begin"  BY <3>1, <3>2, <3>5
      <4> QED  BY <4>1 DEF WorkerOK
    <3> QED  BY <3>4, <3>5
  <2>2. CASE v # w
    <3>1. registerClaim'[v] = User!Jobs!Stale(Shared, v) /\ at'[v] = at[v]
      BY <1>4, <2>2 DEF UserInv, UserTypes
    <3>2. at[v] = "call" => \A u \in Worker \ {v} : at'[u] # "call"
      BY <1>12 DEF UserInv, UserTypes, WorkerOK
    <3>3. /\ registerClaim[v] = Idle => registerClaim'[v] = Idle
          /\ registerClaim[v] # Idle => /\ registerClaim'[v] # Idle
                                        /\ registerClaim'[v].point = registerClaim[v].point
                                        /\ ~registerClaim'[v].current
      BY <3>1, UserStale DEF UserInv
    <3> QED  BY <1>9, <3>1, <3>2, <3>3, OthersKept
  <2> QED  BY <2>1, <2>2
<1> QED  BY <1>10, <1>11, <1>13 DEF UserInv

\* A step of one invocation that writes no row.
LEMMA UserAloneSafe ==
    ASSUME UserInv, NEW w \in Worker, NEW step \in Stage, at' = [at EXCEPT ![w] = step],
           UNCHANGED <<registerRow, registerClaim>>,
           registered' \in {0, 1}, answer' \in BOOLEAN, answer => answer',
           registered = 1 => registered' = 1, registered' = 1 => Marked, answer' => registered' = 1,
           registered' # registered => at[w] = "call",
           step # "call", registerClaim[w] # Idle,
           step = "mark" => registerClaim[w].point = "start",
           step \in {"save", "look again", "give up"} => registerClaim[w].point # "start",
           step = "save" => registered' = 1, step = "advance" => answer'
    PROVE  UserInv'
<1>1. Marked' <=> Marked  BY DEF Marked
<1>2. UserTypes' /\ Answered'  BY <1>1 DEF UserInv, UserTypes, Answered
<1>3. ASSUME NEW v \in Worker PROVE WorkerOK(v)'
  <2>1. CASE v = w
    <3>1. at'[v] = step /\ registerClaim'[v] = registerClaim[v]  BY <2>1 DEF UserInv, UserTypes
    <3> QED  BY <1>1, <2>1, <3>1 DEF UserInv, WorkerOK
  <2>2. CASE v # w
    <3>1. at'[v] = at[v] /\ registerClaim'[v] = registerClaim[v] /\ at'[w] # "call"
      BY <2>2 DEF UserInv, UserTypes
    <3>2. \A u \in Worker : at'[u] = "call" => at[u] = "call"
      BY <3>1 DEF UserInv, UserTypes
    <3>3. at[v] = "call" => registered' = 0
      BY <2>2 DEF UserInv, WorkerOK
    <3>4. at[v] = "save" => registered' = 1
      BY DEF UserInv, WorkerOK
    <3> QED  BY <1>1, <3>1, <3>2, <3>3, <3>4 DEF UserInv, WorkerOK
  <2> QED  BY <2>1, <2>2
<1> QED  BY <1>2, <1>3 DEF UserInv
\* Every step of an invocation: whatever calls the provider has saved the
\* marker, and the only invocation to save it finds no user registered.
LEMMA UserWorks ==
    ASSUME UserInv, NEW w \in Worker,
           \/ User!Look(w) \/ User!Mark(w) \/ User!Call(w) \/ User!Save(w) \/ User!LookAgain(w)
           \/ User!GiveUp(w) \/ User!Advance(w) \/ User!Fail(w) \/ User!Publish(w) \/ User!Leave(w)
    PROVE  UserInv'
<1> USE DEF User!Works, User!Goes, User!Returns, User!Outside, User!Saved, User!NoAnswer
<1>0. /\ registerClaim[w] # Idle => registerClaim[w] \in UserClaim
      /\ registerClaim[w] # Idle => registerClaim[w].point \in Place
  BY DEF UserInv, UserTypes, UserClaim
<1>a. /\ registered \in {0, 1} /\ answer \in BOOLEAN /\ WorkerOK(w) /\ Answered
      /\ \A step \in Stage : at' = [at EXCEPT ![w] = step] => at'[w] = step
  BY DEF UserInv, UserTypes
<1>b. registerClaim[w] # Idle /\ registerClaim[w].point # "start" => Marked
  BY <1>0, <1>a DEF Place, WorkerOK, Answered
<1>1. CASE User!Look(w)
  <2>1. PICK step \in {"advance", "mark", "give up"} :
           /\ at' = [at EXCEPT ![w] = step]
           /\ step = "advance" => answer
           /\ step = "mark" => registerClaim[w].point = "start"
           /\ step = "give up" => registerClaim[w].point # "start"
    BY <1>1 DEF User!Look, User!NextStep
  <2>2. registerClaim[w] # Idle /\ UNCHANGED <<registerRow, registerClaim, registered, answer>>
    BY <1>1 DEF User!Look
  <2> QED  BY <1>a, <2>1, <2>2, UserAloneSafe DEF Stage, Answered
<1>2. CASE User!Mark(w)
  <2>1. /\ User!Jobs!Checkpoint(w, "register_pending", "committing", 0, 0, TRUE)
        /\ at' = [at EXCEPT ![w] = "call"] /\ UNCHANGED <<registered, answer>>
        /\ at[w] = "mark" /\ User!Jobs!CanWrite(w)
    BY <1>2 DEF User!Mark, User!Jobs!Checkpoint
  <2>2. ~Marked  BY <1>a, <2>1, UserWriter DEF WorkerOK
  <2>3. 0 \in 0..RetryWait /\ TRUE \in BOOLEAN  BY TimeAssumption
  <2> DEFINE stays == TRUE
  <2>4. /\ stays \in BOOLEAN /\ stays /\ at' = [at EXCEPT ![w] = IF stays THEN "call" ELSE "begin"]
        /\ User!Jobs!Checkpoint(w, "register_pending", "committing", 0, 0, stays)
    BY <2>1
  <2> HIDE DEF stays
  <2> QED  BY <2>1, <2>2, <2>3, <2>4, UserCheckpointSafe DEF Place
<1>3. CASE User!Call(w)
  <2>1. at[w] = "call" /\ registered = 0 /\ registerClaim[w] # Idle
        /\ registerClaim[w].point # "start"
    BY <1>3, <1>a DEF User!Call, WorkerOK
  <2>4. ~answer  BY <1>a, <2>1 DEF Answered
  <2>5. Marked  BY <1>b, <2>1
  <2>6. registered' = registered + 1 => registered' = 1  BY <2>1
  <2>2. PICK step \in {"save", "look again"} :
           /\ at' = [at EXCEPT ![w] = step] /\ registered' \in {0, 1}
           /\ step = "save" => registered' = 1
    <3>1. CASE registered' = registered + 1 /\ at' = [at EXCEPT ![w] = "save"]
      BY <2>1, <3>1
    <3>2. CASE registered' = registered + 1 /\ at' = [at EXCEPT ![w] = "look again"]
      BY <2>6, <3>2
    <3>3. CASE UNCHANGED registered /\ at' = [at EXCEPT ![w] = "look again"]
      BY <2>1, <3>3
    <3> QED  BY <1>3, <3>1, <3>2, <3>3 DEF User!Call
  <2>3. UNCHANGED <<registerRow, registerClaim, answer>>  BY <1>3 DEF User!Call
  <2> QED  BY <1>a, <2>1, <2>2, <2>3, <2>4, <2>5, UserAloneSafe DEF Stage
<1>4. CASE User!Save(w)
  <2>1. registered = 1 /\ registerClaim[w] # Idle /\ registerClaim[w].point # "start" /\ Marked
    BY <1>4, <1>a DEF User!Save, WorkerOK, Answered
  <2>2. PICK step \in {"advance", "look again"} : at' = [at EXCEPT ![w] = step]
    BY <1>4 DEF User!Save
  <2>3. /\ UNCHANGED <<registerRow, registerClaim, registered>>
        /\ answer' \in {answer, TRUE} /\ (step = "advance" => answer')
    BY <1>4, <1>a, <2>2 DEF User!Save, Stage
  <2>4. answer' \in BOOLEAN /\ (answer => answer')
    <3>1. CASE answer' = answer  BY <1>a, <3>1
    <3>2. CASE answer' = TRUE  BY <3>2
    <3> QED  BY <2>3, <3>1, <3>2
  <2> QED  BY <1>a, <2>1, <2>2, <2>3, <2>4, UserAloneSafe DEF Stage
<1>5. CASE User!LookAgain(w)
  <2>1. registerClaim[w] # Idle /\ registerClaim[w].point # "start"
    BY <1>5, <1>a DEF User!LookAgain, WorkerOK
  <2>2. PICK step \in {"advance", "give up"} :
           at' = [at EXCEPT ![w] = step] /\ (step = "advance" => answer)
    BY <1>5 DEF User!LookAgain
  <2>3. UNCHANGED <<registerRow, registerClaim, registered, answer>>  BY <1>5 DEF User!LookAgain
  <2> QED  BY <1>a, <2>1, <2>2, <2>3, UserAloneSafe DEF Stage, Answered
<1>6. ASSUME NEW point \in Place, NEW state \in Terminal \cup {"committing", "retry"},
             NEW wait \in 0..RetryWait, User!Jobs!Checkpoint(w, point, state, 0, wait, FALSE),
             at' = [at EXCEPT ![w] = "begin"], UNCHANGED <<registered, answer>>,
             point = "history" \/ state = "completed" => answer,
             Marked \/ point = "register_pending" =>
                /\ state \in {"committing", "completed", "needs-attention"}
                /\ state # "completed" => point # "start"
      PROVE  UserInv'
  <2> DEFINE stays == FALSE
  <2>1. /\ stays \in BOOLEAN /\ ~stays /\ at' = [at EXCEPT ![w] = IF stays THEN "call" ELSE "begin"]
        /\ User!Jobs!Checkpoint(w, point, state, 0, wait, stays)
    BY <1>6
  <2> HIDE DEF stays
  <2> QED  BY <1>6, <2>1, UserCheckpointSafe
<1>7. ASSUME NEW point, NEW state, NEW wait, User!Jobs!Checkpoint(w, point, state, 0, wait, FALSE)
      PROVE  /\ registerClaim[w] # Idle /\ registerClaim[w] \in UserClaim
             /\ Marked => registerClaim[w].state = "committing" /\ registerClaim[w].point # "start"
  <2>1. User!Jobs!CanWrite(w)  BY <1>7 DEF User!Jobs!Checkpoint
  <2> QED  BY <2>1, UserWriter DEF User!Jobs!CanWrite, User!Jobs!Holds
<1>8. CASE User!GiveUp(w)
  <2>1. /\ User!Jobs!Checkpoint(w, registerClaim[w].point, "needs-attention", 0, 0, FALSE)
        /\ at' = [at EXCEPT ![w] = "begin"] /\ UNCHANGED <<registered, answer>>
        /\ registerClaim[w] # Idle /\ at[w] = "give up"
    BY <1>8 DEF User!GiveUp
  <2>2. 0 \in 0..RetryWait /\ "needs-attention" \in Terminal  BY TimeAssumption DEF Terminal
  <2> QED  BY <1>0, <1>6, <1>a, <2>1, <2>2 DEF WorkerOK
<1>9. ASSUME registerClaim[w] # Idle, Marked => registerClaim[w].state = "committing"
      PROVE  /\ User!Waiting(w) \in {"committing", "retry"}
             /\ Marked => User!Waiting(w) = "committing"
  BY <1>9 DEF User!Waiting
<1>10. CASE User!Advance(w)
  <2>1. /\ User!Jobs!Checkpoint(w, "history", User!Waiting(w), 0, 1, FALSE)
        /\ at' = [at EXCEPT ![w] = "begin"] /\ UNCHANGED <<registered, answer>> /\ answer
    BY <1>10, <1>a DEF User!Advance, WorkerOK
  <2>2. 1 \in 0..RetryWait /\ "history" \in Place  BY TimeAssumption DEF Place
  <2>3. User!Waiting(w) \in {"committing", "retry"} /\ (Marked => User!Waiting(w) = "committing")
    BY <1>7, <1>9, <2>1
  <2> QED  BY <1>6, <2>1, <2>2, <2>3
<1>11. CASE User!Fail(w)
  <2>1. /\ User!Jobs!Checkpoint(w, registerClaim[w].point, User!Waiting(w), 0, RetryWait, FALSE)
        /\ at' = [at EXCEPT ![w] = "begin"] /\ UNCHANGED <<registered, answer>>
        /\ registerClaim[w] # Idle
    BY <1>11 DEF User!Fail
  <2>2. RetryWait \in 0..RetryWait  BY TimeAssumption
  <2>3. /\ User!Waiting(w) \in {"committing", "retry"} /\ (Marked => User!Waiting(w) = "committing")
        /\ Marked => registerClaim[w].point # "start"
    BY <1>7, <1>9, <2>1
  <2>4. registerClaim[w].point = "history" => answer  BY <1>a, <2>1 DEF WorkerOK
  <2>5. registerClaim[w].point = "register_pending" => Marked  BY <1>a, <2>1 DEF WorkerOK
  <2> QED  BY <1>0, <1>6, <2>1, <2>2, <2>3, <2>4, <2>5
<1>12. CASE User!Publish(w)
  <2>1. /\ User!Jobs!Checkpoint(w, "start", "completed", 0, 0, FALSE)
        /\ at' = [at EXCEPT ![w] = "begin"] /\ UNCHANGED <<registered, answer>> /\ answer
    BY <1>12, <1>a DEF User!Publish, WorkerOK
  <2>2. 0 \in 0..RetryWait /\ "completed" \in Terminal /\ "start" \in Place
    BY TimeAssumption DEF Terminal, Place
  <2> QED  BY <1>6, <2>1, <2>2
<1>13. CASE User!Leave(w)
  <2>1. /\ registerClaim' = [registerClaim EXCEPT ![w] = Idle] /\ at' = [at EXCEPT ![w] = "begin"]
        /\ UNCHANGED <<registerRow, registered, answer>>
    BY <1>13 DEF User!Leave, User!Jobs!Leave
  <2>2. UserTypes' /\ Answered' /\ (Marked' <=> Marked)
    BY <2>1 DEF UserInv, UserTypes, Answered, Marked, Stage
  <2>3. ASSUME NEW v \in Worker PROVE WorkerOK(v)'
    <3>1. /\ v # w => registerClaim'[v] = registerClaim[v] /\ at'[v] = at[v]
          /\ v = w => registerClaim'[v] = Idle /\ at'[v] = "begin"
          /\ \A u \in Worker : at'[u] = "call" => at[u] = "call"
      BY <2>1 DEF UserInv, UserTypes
    <3> QED  BY <2>1, <2>2, <3>1 DEF UserInv, WorkerOK
  <2> QED  BY <2>2, <2>3 DEF UserInv
<1> QED  BY <1>1, <1>2, <1>3, <1>4, <1>5, <1>8, <1>10, <1>11, <1>12, <1>13
-----------------------------------------------------------------------------
(* Registration: the theorem *)

\* Nobody has asked for a registration yet.
LEMMA UserInitEstablishes == User!Init => UserInv
<1> SUFFICES ASSUME User!Init PROVE UserInv
  OBVIOUS
<1>1. /\ registerRow = [j \in {Shared} |-> Absent] /\ registerClaim = [w \in Worker |-> Idle]
      /\ at = [w \in Worker |-> "begin"] /\ registered = 0 /\ answer = FALSE
  BY DEF User!Init, User!Jobs!Init, Shared
<1>2. UserTypes  BY <1>1 DEF UserTypes, Stage
<1>3. Answered /\ \A w \in Worker : WorkerOK(w)  BY <1>1 DEF Answered, WorkerOK
<1> QED  BY <1>2, <1>3 DEF UserInv

\* Every step of the requests, the dispatcher and the invocations keeps the
\* invariant of the registration.
LEMMA UserNextSafe == UserInv /\ (User!Next \/ UNCHANGED userVars) => UserInv'
<1> SUFFICES ASSUME UserInv, User!Next \/ UNCHANGED userVars PROVE UserInv'
  OBVIOUS
<1>1. CASE UNCHANGED userVars
  BY <1>1 DEF userVars, UserInv, UserTypes, Answered, WorkerOK, Marked
<1>2. CASE User!Jobs!AllFinished /\ UNCHANGED <<at, registered, answer>>
  BY <1>2 DEF User!Jobs!AllFinished, User!Jobs!jobVars, UserInv, UserTypes, Answered, WorkerOK, Marked
<1>3. ASSUME NEW w \in Worker, User!ClaimJob(w) PROVE UserInv'
  BY <1>3, UserClaimSafe
<1> QED
  BY <1>1, <1>2, <1>3, RequestSafe, UserCancelSafe, UserTickSafe, UserWorks DEF User!Next

\* Of the parts, the ones that do not run stay where they started.
LEMMA UserPart ==
    /\ PartsInit => User!Init
    /\ [PartsNext]_<<part, jobVars, cacheVars, fileVars, userVars>> =>
          User!Next \/ UNCHANGED userVars
  BY DEF PartsInit, PartsNext

\* However often the registration is requested, cancelled, stopped and taken
\* over, one user is registered at most, and its secret is stored or its loss
\* is reported (worker.js:34-48).
THEOREM RegistrationHappensOnce == PartsSpec => []RegisteredOnce
<1>1. PartsInit => UserInv  BY UserPart, UserInitEstablishes
<1>2. UserInv /\ [PartsNext]_<<part, jobVars, cacheVars, fileVars, userVars>> => UserInv'
  BY UserPart, UserNextSafe
<1>3. UserInv => RegisteredOnce
  <2> SUFFICES ASSUME UserInv PROVE RegisteredOnce
    OBVIOUS
  <2>1. registered <= 1  BY DEF UserInv, UserTypes
  <2>2. ASSUME registerRow[Shared] # Absent, registerRow[Shared].state = "completed"
        PROVE  registered = 1 /\ answer
    BY <2>2 DEF UserInv, Answered
  <2>3. ASSUME registerRow[Shared].state \in {"failed", "cancelled"} PROVE registered = 0
    BY <2>3 DEF UserInv, UserTypes, Answered, Marked
  <2> QED
    BY <2>1, <2>2, <2>3 DEF RegisteredOnce, User!RegisteredOnce, User!Jobs!Exists, Shared
<1> QED  BY <1>1, <1>2, <1>3, PTL DEF PartsSpec
-----------------------------------------------------------------------------
(* Uploads: the inductive invariant *)

Request == {"right", "wrong", "assemble", "seal", "bind", "bindWrite", "admit", "capture",
            "expire", "expireWrite", "list", "delete", "settle"}
Calls == [at : Request, upload : Upload, command : Command \cup {None}, index : Nat,
          seen : Files!RootDocument, todo : SUBSET Files!Index]

\* A revision tells the state and the owner of a root, though not its deadline.
Follows(new, old) ==
    old.rev <= new.rev /\ (old.rev = new.rev => old.state = new.state /\ old.owner = new.owner)

\* What an invocation has read, and what has become of it.
CallOK(s) == call[s] # Files!Resting =>
    LET u == call[s].upload  c == call[s].command  old == call[s].seen
    IN  /\ call[s] \in Calls
        /\ root[u] # None /\ Follows(root[u], old)
        /\ call[s].at \in {"right", "wrong"} => call[s].index \in Files!Index
        /\ call[s].at = "seal" =>
              old.state = "uploading" /\ (root[u].rev = old.rev => Files!Whole(u))
        /\ call[s].at \in {"bind", "bindWrite", "admit", "capture"} => c # None
        /\ call[s].at = "bindWrite" => old.state = "sealed"
        /\ call[s].at = "admit" =>
              importJob[c] # None \/ (root[u].state = "bound" /\ root[u].owner = c)
        /\ call[s].at \in {"expire", "expireWrite", "list", "delete", "settle"} /\ c # None =>
              importJob[c] # None /\ importJob[c].state = "ended"
        /\ call[s].at = "expireWrite" =>
              \/ old.state = "sealed" \/ (c = None /\ old.state # "bound")
              \/ (c # None /\ old.state = "bound" /\ old.owner = c)
        /\ call[s].at \in {"list", "delete"} \/ (call[s].at = "settle" /\ c = None) =>
              root[u].state = "expired"
        /\ call[s].at = "settle" /\ c = None => \A i \in Files!Remaining(u) : <<u, i>> \in delayed

FilesTypes ==
    /\ root \in [Upload -> Files!RootDocument \cup {None}]
    /\ chunk \in [Upload -> [Files!Index -> {"right", "wrong", None}]]
    /\ importJob \in [Command -> Files!ImportJob \cup {None}]
    /\ call \in [Slot -> Calls \cup {Files!Resting}]
\* A sealed upload is whole.
SealedWhole == \A u \in Upload : root[u] # None /\ root[u].state \in {"sealed", "bound"} => Files!Whole(u)
\* An import has its upload until it ends.
ImportBound == \A c \in Command : importJob[c] # None =>
    /\ importJob[c].state # "ended" =>
          /\ root[importJob[c].upload] # None
          /\ root[importJob[c].upload].state = "bound" /\ root[importJob[c].upload].owner = c
          /\ importJob[c].deadline = "none"
    /\ root[importJob[c].upload] # None
\* What the cleanup has let go of is gone.
ExpiredGone == \A u \in Upload :
    root[u] # None /\ root[u].state = "expired" /\ root[u].deadline = "none" =>
        \A i \in Files!Remaining(u) : <<u, i>> \in delayed
FilesInv ==
    FilesTypes /\ SealedWhole /\ ImportBound /\ ExpiredGone /\ \A s \in Slot : CallOK(s)

\* What no step takes back.
Advances ==
    /\ \A u \in Upload : root[u] # None =>
          /\ root'[u] # None /\ Follows(root'[u], root[u])
          /\ root[u].state = "expired" =>
                /\ root'[u].state = "expired"
                /\ (\A i \in Files!Remaining(u) : <<u, i>> \in delayed) =>
                      \A i \in Files!Remaining(u)' : <<u, i>> \in delayed'
          /\ root'[u].rev = root[u].rev /\ root[u].state # "expired" /\ Files!Whole(u) =>
                Files!Whole(u)'
          /\ \A c \in Command :
                importJob'[c] = None /\ root[u].state = "bound" /\ root[u].owner = c =>
                    root'[u].state = "bound" /\ root'[u].owner = c
    /\ \A c \in Command : importJob[c] # None =>
          importJob'[c] # None /\ (importJob[c].state = "ended" => importJob'[c].state = "ended")

\* What a step does to the documents keeps what is said of them.
DocumentsKept ==
    /\ root' \in [Upload -> Files!RootDocument \cup {None}]
    /\ chunk' \in [Upload -> [Files!Index -> {"right", "wrong", None}]]
    /\ importJob' \in [Command -> Files!ImportJob \cup {None}]
    /\ Advances /\ SealedWhole' /\ ImportBound' /\ ExpiredGone'

-----------------------------------------------------------------------------
(* Uploads: the steps *)

\* Whatever another invocation does, what a resting or working one knows of
\* the root it has read stays true.
LEMMA CallKept ==
    ASSUME FilesInv, Advances, FilesTypes', NEW s \in Slot, call'[s] = call[s]
    PROVE  CallOK(s)'
<1> SUFFICES ASSUME call[s] # Files!Resting PROVE CallOK(s)'
  BY DEF CallOK
<1> DEFINE u == call[s].upload  c == call[s].command  old == call[s].seen
<1>1. CallOK(s) /\ call[s] \in Calls  BY DEF FilesInv, CallOK
<1>2. u \in Upload /\ c \in Command \cup {None} /\ old \in Files!RootDocument  BY <1>1 DEF Calls
<1>3. root[u] # None /\ Follows(root[u], old)  BY <1>1 DEF CallOK
<1>4. root'[u] # None /\ Follows(root'[u], root[u])  BY <1>2, <1>3 DEF Advances
<1>5. root[u] \in Files!RootDocument /\ root'[u] \in Files!RootDocument
  BY <1>2, <1>3, <1>4 DEF FilesInv, FilesTypes
<1>6. Follows(root'[u], old) /\ (root'[u].rev = old.rev => root[u].rev = old.rev /\ root[u].state = old.state)
  BY <1>2, <1>3, <1>4, <1>5 DEF Follows, Files!RootDocument
<1>7. call[s].at = "seal" =>
         old.state = "uploading" /\ (root'[u].rev = old.rev => Files!Whole(u)')
  <2> SUFFICES ASSUME call[s].at = "seal", root'[u].rev = old.rev PROVE Files!Whole(u)'
    BY <1>1 DEF CallOK
  <2>1. Files!Whole(u) /\ root[u].state = "uploading"  BY <1>1, <1>6 DEF CallOK
  <2> QED  BY <1>2, <1>3, <1>6, <2>1 DEF Advances
<1>8. call[s].at = "admit" =>
         importJob'[c] # None \/ (root'[u].state = "bound" /\ root'[u].owner = c)
  <2> SUFFICES ASSUME call[s].at = "admit", importJob'[c] = None
               PROVE  root'[u].state = "bound" /\ root'[u].owner = c
    OBVIOUS
  <2>1. c \in Command  BY <1>1, <1>2 DEF CallOK
  <2>2. root[u].state = "bound" /\ root[u].owner = c  BY <1>1, <2>1 DEF CallOK, Advances
  <2> QED  BY <1>2, <1>3, <2>1, <2>2 DEF Advances
<1>9. call[s].at \in {"expire", "expireWrite", "list", "delete", "settle"} /\ c # None =>
         importJob'[c] # None /\ importJob'[c].state = "ended"
  BY <1>1, <1>2 DEF CallOK, Advances
<1>10. call[s].at \in {"list", "delete"} \/ (call[s].at = "settle" /\ c = None) =>
          root'[u].state = "expired"
  BY <1>1, <1>2 DEF CallOK, Advances
<1>11. call[s].at = "settle" /\ c = None => \A i \in Files!Remaining(u)' : <<u, i>> \in delayed'
  BY <1>1, <1>2 DEF CallOK, Advances
<1> QED  BY <1>1, <1>4, <1>6, <1>7, <1>8, <1>9, <1>10, <1>11 DEF CallOK
\* The sentinel is no document and no command.
LEMMA FilesSentinel ==
    /\ None \notin Command /\ None \notin {"right", "wrong"}
    /\ None \notin Files!RootDocument /\ None \notin Files!ImportJob
  BY FilesAssumption

\* An invocation at work is told from a resting one by what it carries.
LEMMA RestingIsNone == Files!Resting \notin Calls
  BY DEF Files!Resting, Calls, Request

\* With the roots, chunks and jobs, everything said of them stays as it is.
LEMMA DocumentsStay ==
    ASSUME FilesInv, UNCHANGED <<root, chunk, importJob, delayed>>
    PROVE  DocumentsKept
<1>1. Advances
  <2> SUFFICES ASSUME NEW u \in Upload, root[u] # None PROVE Follows(root[u], root[u])
    BY DEF Advances, Files!Whole, Files!Remaining
  <2>1. root[u] \in Files!RootDocument  BY DEF FilesInv, FilesTypes
  <2> QED  BY <2>1 DEF Follows, Files!RootDocument
<1>2. SealedWhole'  BY DEF FilesInv, SealedWhole, Files!Whole
<1>3. ImportBound'  BY DEF FilesInv, ImportBound
<1>4. ExpiredGone'  BY DEF FilesInv, ExpiredGone, Files!Remaining
<1> QED  BY <1>1, <1>2, <1>3, <1>4 DEF DocumentsKept, FilesInv, FilesTypes

\* A step of one invocation, when it leaves it in order.
LEMMA OneCall ==
    ASSUME FilesInv, DocumentsKept, NEW s \in Slot,
           NEW new \in Calls \cup {Files!Resting}, call' = [call EXCEPT ![s] = new], CallOK(s)'
    PROVE  FilesInv'
<1>1. FilesTypes' /\ Advances  BY DEF FilesInv, FilesTypes, DocumentsKept
<1>2. ASSUME NEW v \in Slot PROVE CallOK(v)'
  <2>1. CASE v = s  BY <2>1
  <2>2. CASE v # s
    <3>1. call'[v] = call[v]  BY <2>2 DEF FilesInv, FilesTypes
    <3> QED  BY <1>1, <3>1, CallKept
  <2> QED  BY <2>1, <2>2
<1> QED  BY <1>1, <1>2 DEF FilesInv, DocumentsKept

\* An invocation that reads, or that ends.
LEMMA OneCallReads ==
    ASSUME FilesInv, UNCHANGED <<root, chunk, importJob, delayed>>, NEW s \in Slot,
           NEW new \in Calls \cup {Files!Resting}, call' = [call EXCEPT ![s] = new], CallOK(s)'
    PROVE  FilesInv'
<1>1. DocumentsKept  BY DocumentsStay
<1> QED  BY <1>1, OneCall

\* An invocation that ends, whatever it has written last.
LEMMA CallEnds ==
    ASSUME FilesInv, DocumentsKept, NEW s \in Slot, Files!End(s)
    PROVE  FilesInv'
<1> DEFINE new == Files!Resting
<1>1. call' = [call EXCEPT ![s] = new]  BY DEF Files!End
<1>2. call'[s] = new  BY <1>1 DEF FilesInv, FilesTypes
<1>3. CallOK(s)'  BY <1>2 DEF CallOK, Files!Resting
<1> HIDE DEF new
<1> QED  BY <1>1, <1>3, OneCall DEF new

\* What an invocation at work may rely on.
LEMMA Working ==
    ASSUME FilesInv, NEW s \in Slot, call[s].at # "idle"
    PROVE  /\ call[s] \in Calls /\ call[s] # Files!Resting
           /\ call[s].upload \in Upload /\ call[s].command \in Command \cup {None}
           /\ call[s].seen \in Files!RootDocument /\ call[s].at \in Request
           /\ root[call[s].upload] \in Files!RootDocument /\ root[call[s].upload] # None
           /\ CallOK(s)
<1>1. call[s] # Files!Resting  BY DEF Files!Resting
<1>2. CallOK(s) /\ call[s] \in Calls  BY <1>1 DEF FilesInv, FilesTypes
<1>3. call[s].upload \in Upload  BY <1>2 DEF Calls
<1>4. root[call[s].upload] # None  BY <1>1, <1>2 DEF CallOK
<1>5. root[call[s].upload] \in Files!RootDocument  BY <1>3, <1>4 DEF FilesInv, FilesTypes
<1> QED  BY <1>1, <1>2, <1>3, <1>4, <1>5 DEF Calls
\* A request reads the root it is about.
LEMMA EntersSafe ==
    ASSUME FilesInv, UNCHANGED <<root, chunk, importJob, delayed>>, NEW s \in Slot,
           NEW u \in Upload, root[u] # None, NEW c \in Command \cup {None}, NEW i \in Nat,
           NEW step \in {"right", "wrong", "assemble", "bind", "capture", "expire"},
           Files!Enters(s, step, u, c, i),
           step \in {"right", "wrong"} => i \in Files!Index,
           step \in {"bind", "capture"} => c # None,
           step = "expire" /\ c # None => importJob[c] # None /\ importJob[c].state = "ended"
    PROVE  FilesInv'
<1> DEFINE new == [at |-> step, upload |-> u, command |-> c, index |-> i, seen |-> root[u], todo |-> {}]
<1>1. call' = [call EXCEPT ![s] = new]  BY DEF Files!Enters, Files!Call
<1>2. root[u] \in Files!RootDocument  BY DEF FilesInv, FilesTypes
<1>3. new \in Calls  BY <1>2 DEF Calls, Request
<1>4. call'[s] = new  BY <1>1 DEF FilesInv, FilesTypes
<1>5. Follows(root'[u], root[u])  BY <1>2 DEF Follows, Files!RootDocument
<1>6. CallOK(s)'  BY <1>3, <1>4, <1>5 DEF CallOK
<1> HIDE DEF new
<1> QED  BY <1>1, <1>3, <1>6, OneCallReads

\* What there must be for an invocation to go on to a request.
MayMove(s, step, known) ==
    LET u == call[s].upload  c == call[s].command
    IN  /\ step = "seal" => known.state = "uploading" /\ Files!Whole(u)
        /\ step \in {"bind", "bindWrite", "admit", "capture"} => c # None
        /\ step = "bindWrite" => known.state = "sealed"
        /\ step = "admit" => root[u].state = "bound" /\ root[u].owner = c
        /\ step \in {"expire", "expireWrite", "list", "delete", "settle"} /\ c # None =>
              importJob[c] # None /\ importJob[c].state = "ended"
        /\ step = "expireWrite" => \/ known.state = "sealed" \/ (c = None /\ known.state # "bound")
                                  \/ (c # None /\ known.state = "bound" /\ known.owner = c)
        /\ step \in {"list", "delete"} \/ (step = "settle" /\ c = None) => root[u].state = "expired"
        /\ step = "settle" /\ c = None => \A i \in Files!Remaining(u) : <<u, i>> \in delayed

\* An invocation goes on to its next request, with what it has read.
LEMMA MovesSafe ==
    ASSUME FilesInv, UNCHANGED <<root, chunk, importJob, delayed>>, NEW s \in Slot,
           call[s].at # "idle", NEW step \in Request \ {"right", "wrong"},
           NEW known \in {call[s].seen, root[call[s].upload]}, NEW todo \in SUBSET Files!Index,
           call' = [call EXCEPT ![s] = [call[s] EXCEPT !.at = step, !.seen = known, !.todo = todo]],
           MayMove(s, step, known)
    PROVE  FilesInv'
<1> DEFINE old == call[s]  u == call[s].upload
           new == [old EXCEPT !.at = step, !.seen = known, !.todo = todo]
<1>1. /\ old \in Calls /\ root[u] \in Files!RootDocument /\ root[u] # None
      /\ old.seen \in Files!RootDocument /\ Follows(root[u], old.seen)
  BY Working DEF CallOK
<1>2. /\ new \in Calls /\ new.at = step /\ new.seen = known /\ new.upload = u
      /\ new.command = old.command
  BY <1>1 DEF Calls
<1>3. Follows(root[u], known)  BY <1>1 DEF Follows, Files!RootDocument
<1>4. call'[s] = new  BY DEF FilesInv, FilesTypes
<1> HIDE DEF new
<1>5. Files!Whole(u) => Files!Whole(u)'  BY <1>2, <1>4 DEF Files!Whole
<1>6. CallOK(s)'
  <2> DEFINE c == old.command
  <2>1. /\ call'[s].upload = u /\ call'[s].command = c /\ call'[s].at = step /\ call'[s].seen = known
        /\ call'[s] \in Calls
    BY <1>2, <1>4
  <2>2. step = "seal" => Files!Whole(u)  BY DEF MayMove
  <2>3. \A i \in Files!Index : chunk'[u][i] = chunk[u][i]  OBVIOUS
  <2> QED  BY <1>1, <1>3, <2>1, <2>2, <2>3 DEF CallOK, MayMove, Files!Whole, Files!Remaining, Request
<1> QED  BY <1>2, <1>6, OneCallReads DEF new

\* The steps by which an invocation begins.
LEMMA BeginsSafe ==
    ASSUME FilesInv, NEW s \in Slot,
           \/ \E u \in Upload : Files!BeginSeal(s, u) \/ \E c \in Command : Files!BeginImport(s, u, c)
           \/ \E u \in Upload, i \in Files!Index, content \in {"right", "wrong"} :
                 Files!BeginChunk(s, u, i, content)
           \/ \E c \in Command : Files!BeginWork(s, c)
           \/ Files!BeginCleanup(s)
    PROVE  FilesInv'
<1>1. ASSUME NEW u \in Upload, Files!BeginSeal(s, u) PROVE FilesInv'
  BY <1>1, EntersSafe DEF Files!BeginSeal, Files!Known
<1>2. ASSUME NEW u \in Upload, NEW c \in Command, Files!BeginImport(s, u, c) PROVE FilesInv'
  BY <1>2, EntersSafe, FilesSentinel DEF Files!BeginImport, Files!Known
<1>3. ASSUME NEW u \in Upload, NEW i \in Files!Index, NEW content \in {"right", "wrong"},
             Files!BeginChunk(s, u, i, content)
      PROVE  FilesInv'
  <2>1. i \in Nat  BY DEF Files!Index
  <2> QED  BY <1>3, <2>1, EntersSafe DEF Files!BeginChunk, Files!Known
<1>4. ASSUME NEW c \in Command, Files!BeginWork(s, c) PROVE FilesInv'
  <2>1. importJob[c] # None  BY <1>4 DEF Files!BeginWork, Files!Live
  <2>2. importJob[c].upload \in Upload /\ root[importJob[c].upload] # None
    BY <2>1 DEF FilesInv, FilesTypes, ImportBound, Files!ImportJob
  <2> QED  BY <1>4, <2>2, EntersSafe, FilesSentinel DEF Files!BeginWork
<1>5. CASE Files!BeginCleanup(s)
  <2>1. UNCHANGED <<root, chunk, importJob, delayed>>  BY <1>5 DEF Files!BeginCleanup
  <2>2. ASSUME NEW c \in Files!DueJobs, Files!Enters(s, "expire", importJob[c].upload, c, 1)
        PROVE  FilesInv'
    <3>1. c \in Command /\ importJob[c] # None /\ importJob[c].deadline = "passed"
      BY DEF Files!DueJobs, Files!Passed
    <3>2. /\ importJob[c].upload \in Upload /\ root[importJob[c].upload] # None
          /\ importJob[c].state = "ended"
      BY <3>1 DEF FilesInv, FilesTypes, ImportBound, Files!ImportJob
    <3> QED  BY <2>1, <2>2, <3>1, <3>2, EntersSafe
  <2>3. ASSUME NEW u \in Files!DueUploads, Files!Enters(s, "expire", u, None, 1) PROVE FilesInv'
    <3>1. u \in Upload /\ root[u] # None  BY DEF Files!DueUploads, Files!Known
    <3> QED  BY <2>1, <2>3, <3>1, EntersSafe
  <2> QED  BY <1>5, <2>2, <2>3 DEF Files!BeginCleanup
<1> QED  BY <1>1, <1>2, <1>3, <1>4, <1>5
\* The next request of an invocation, by the names the model has for it.
LEMMA GoIs ==
    ASSUME FilesInv, NEW s \in Slot, call[s].at # "idle", NEW step
    PROVE  /\ Files!Go(s, step) =>
                 call' = [call EXCEPT ![s] = [call[s] EXCEPT !.at = step, !.seen = call[s].seen,
                                                             !.todo = call[s].todo]]
           /\ \A known : call' = [call EXCEPT ![s].at = step, ![s].seen = known] =>
                 call' = [call EXCEPT ![s] = [call[s] EXCEPT !.at = step, !.seen = known,
                                                             !.todo = call[s].todo]]
           /\ call[s].todo \in SUBSET Files!Index
<1>1. call[s] \in Calls /\ call[s].todo \in SUBSET Files!Index  BY Working DEF Calls
<1>2. [call[s] EXCEPT !.at = step] =
         [call[s] EXCEPT !.at = step, !.seen = call[s].seen, !.todo = call[s].todo]
  BY <1>1 DEF Calls
<1>3. \A known : [call[s] EXCEPT !.at = step, !.seen = known] =
         [call[s] EXCEPT !.at = step, !.seen = known, !.todo = call[s].todo]
  BY <1>1 DEF Calls
<1>4. call \in [Slot -> Calls \cup {Files!Resting}]  BY DEF FilesInv, FilesTypes
<1>5. Files!Go(s, step) => call' = [call EXCEPT ![s] = [call[s] EXCEPT !.at = step]]
  BY <1>4 DEF Files!Go
<1>6. ASSUME NEW known, call' = [call EXCEPT ![s].at = step, ![s].seen = known]
      PROVE  call' = [call EXCEPT ![s] = [call[s] EXCEPT !.at = step, !.seen = known]]
  BY <1>4, <1>6
<1> QED  BY ZenonT(30), <1>1, <1>2, <1>3, <1>5, <1>6

\* An invocation goes on with what it had read, or with what it reads now.
LEMMA GoesSafe ==
    ASSUME FilesInv, UNCHANGED <<root, chunk, importJob, delayed>>, NEW s \in Slot,
           call[s].at # "idle", NEW step \in Request \ {"right", "wrong"},
           NEW known \in {call[s].seen, root[call[s].upload]}, MayMove(s, step, known),
           \/ Files!Go(s, step) /\ known = call[s].seen
           \/ call' = [call EXCEPT ![s].at = step, ![s].seen = known]
    PROVE  FilesInv'
<1>1. call' = [call EXCEPT ![s] = [call[s] EXCEPT !.at = step, !.seen = known, !.todo = call[s].todo]]
  BY GoIs
<1>2. call[s].todo \in SUBSET Files!Index  BY GoIs
<1> QED  BY <1>1, <1>2, MovesSafe

\* An invocation that ends without a write.
LEMMA EndsIdle ==
    ASSUME FilesInv, UNCHANGED <<root, chunk, importJob, delayed>>, NEW s \in Slot, Files!End(s)
    PROVE  FilesInv'
  BY DocumentsStay, CallEnds

\* assemble() goes on to seal what it has found complete.
LEMMA AssembleSafe == ASSUME FilesInv, NEW s \in Slot, Files!Assemble(s) PROVE FilesInv'
<1>1. call[s].at = "assemble" /\ UNCHANGED <<root, chunk, importJob, delayed>>
  BY DEF Files!Assemble, Files!At
<1>2. CASE Files!End(s)  BY <1>1, <1>2, EndsIdle
<1>3. CASE Files!Whole(call[s].upload) /\ call[s].seen.state = "uploading" /\ Files!Go(s, "seal")
  <2>1. "seal" \in Request \ {"right", "wrong"}  BY DEF Request
  <2>2. MayMove(s, "seal", call[s].seen)  BY <1>1, <1>3 DEF MayMove
  <2> QED  BY <1>1, <1>3, <2>1, <2>2, GoesSafe
<1> QED  BY <1>2, <1>3 DEF Files!Assemble

\* bind() reads the root before it writes it, and again when that failed.
LEMMA ReadBindSafe == ASSUME FilesInv, NEW s \in Slot, Files!ReadBind(s) PROVE FilesInv'
<1> DEFINE r == root[call[s].upload]
<1>1. call[s].at = "bind" /\ UNCHANGED <<root, chunk, importJob, delayed>>
  BY DEF Files!ReadBind, Files!At
<1>2. call[s].command # None  BY <1>1, Working DEF CallOK
<1>3. CASE Files!End(s)  BY <1>1, <1>3, EndsIdle
<1>4. CASE r.state = "bound" /\ r.owner = call[s].command /\ Files!Go(s, "admit")
  <2>1. "admit" \in Request \ {"right", "wrong"}  BY DEF Request
  <2>2. MayMove(s, "admit", call[s].seen)  BY <1>1, <1>2, <1>4 DEF MayMove
  <2> QED  BY <1>1, <1>2, <1>4, <2>1, <2>2, GoesSafe
<1>5. CASE r.state = "sealed" /\ call' = [call EXCEPT ![s].at = "bindWrite", ![s].seen = r]
  <2>1. "bindWrite" \in Request \ {"right", "wrong"}  BY DEF Request
  <2>2. MayMove(s, "bindWrite", r)  BY <1>1, <1>2, <1>5 DEF MayMove
  <2> QED  BY <1>1, <1>2, <1>5, <2>1, <2>2, GoesSafe
<1> QED  BY <1>3, <1>4, <1>5 DEF Files!ReadBind

\* A cleanup leaves alone what is not its own.
LEMMA PassBySafe ==
    ASSUME FilesInv, NEW s \in Slot, UNCHANGED <<root, chunk, importJob, delayed>>,
           call[s].at \in {"expire", "expireWrite"}, Files!PassBy(s)
    PROVE  FilesInv'
<1>1. call[s].at # "idle"  OBVIOUS
<1>2. call[s].command # None =>
         importJob[call[s].command] # None /\ importJob[call[s].command].state = "ended"
  BY <1>1, Working DEF CallOK
<1>3. CASE Files!End(s)  BY <1>3, EndsIdle
<1>4. CASE call[s].command # None /\ Files!Go(s, "settle")
  <2>1. "settle" \in Request \ {"right", "wrong"}  BY DEF Request
  <2>2. MayMove(s, "settle", call[s].seen)  BY <1>1, <1>2, <1>4 DEF MayMove
  <2> QED  BY <1>1, <1>2, <1>4, <2>1, <2>2, GoesSafe
<1> QED  BY <1>3, <1>4 DEF Files!PassBy

\* A cleanup reads the root before it expires it.
LEMMA ReadExpireSafe == ASSUME FilesInv, NEW s \in Slot, Files!ReadExpire(s) PROVE FilesInv'
<1> DEFINE r == root[call[s].upload]
<1>1. call[s].at = "expire" /\ UNCHANGED <<root, chunk, importJob, delayed>>
  BY DEF Files!ReadExpire, Files!At
<1>2. call[s].command # None =>
         importJob[call[s].command] # None /\ importJob[call[s].command].state = "ended"
  BY <1>1, Working DEF CallOK
<1>3. CASE Files!PassBy(s)  BY <1>1, <1>3, PassBySafe
<1>4. CASE r.state = "expired" /\ call' = [call EXCEPT ![s].at = "list", ![s].seen = r]
  <2>1. "list" \in Request \ {"right", "wrong"}  BY DEF Request
  <2>2. MayMove(s, "list", r)  BY <1>1, <1>2, <1>4 DEF MayMove
  <2> QED  BY <1>1, <1>2, <1>4, <2>1, <2>2, GoesSafe
<1>5. CASE Files!MayExpire(s, r) /\ call' = [call EXCEPT ![s].at = "expireWrite", ![s].seen = r]
  <2>1. "expireWrite" \in Request \ {"right", "wrong"}  BY DEF Request
  <2>2. MayMove(s, "expireWrite", r)  BY <1>1, <1>2, <1>5 DEF MayMove, Files!MayExpire
  <2> QED  BY <1>1, <1>2, <1>5, <2>1, <2>2, GoesSafe
<1> QED  BY <1>3, <1>4, <1>5 DEF Files!ReadExpire

\* A cleanup that finds nothing left may settle.
LEMMA ListChunksSafe == ASSUME FilesInv, NEW s \in Slot, Files!ListChunks(s) PROVE FilesInv'
<1> DEFINE left == Files!Remaining(call[s].upload)
<1>1. call[s].at = "list" /\ UNCHANGED <<root, chunk, importJob, delayed>>
  BY DEF Files!ListChunks, Files!At
<1>2. /\ root[call[s].upload].state = "expired"
      /\ call[s].command # None =>
            importJob[call[s].command] # None /\ importJob[call[s].command].state = "ended"
  BY <1>1, Working DEF CallOK
<1>3. CASE left = {} /\ Files!Go(s, "settle")
  <2>1. "settle" \in Request \ {"right", "wrong"}  BY DEF Request
  <2>2. MayMove(s, "settle", call[s].seen)  BY <1>1, <1>2, <1>3 DEF MayMove
  <2> QED  BY <1>1, <1>2, <1>3, <2>1, <2>2, GoesSafe
<1>4. CASE call' = [call EXCEPT ![s].at = "delete", ![s].todo = left]
  <2>1. call' = [call EXCEPT ![s] = [call[s] EXCEPT !.at = "delete", !.seen = call[s].seen,
                                                    !.todo = left]]
    <3>1. call[s] \in Calls /\ call \in [Slot -> Calls \cup {Files!Resting}]
      BY <1>1, Working DEF FilesInv, FilesTypes
    <3>2. [call[s] EXCEPT !.at = "delete", !.todo = left] =
             [call[s] EXCEPT !.at = "delete", !.seen = call[s].seen, !.todo = left]
      BY <3>1 DEF Calls
    <3>3. call' = [call EXCEPT ![s] = [call[s] EXCEPT !.at = "delete", !.todo = left]]
      BY <1>4, <3>1
    <3> QED  BY <3>2, <3>3
  <2>2. left \in SUBSET Files!Index  BY DEF Files!Remaining
  <2>3. "delete" \in Request \ {"right", "wrong"}  BY DEF Request
  <2>4. MayMove(s, "delete", call[s].seen)  BY <1>1, <1>2 DEF MayMove
  <2> HIDE DEF left
  <2> QED  BY <1>1, <2>1, <2>2, <2>3, <2>4, MovesSafe
<1> QED  BY <1>3, <1>4 DEF Files!ListChunks
-----------------------------------------------------------------------------
(* Uploads: the writes *)

\* A chunk that comes or goes, when it neither spoils a whole upload nor
\* brings back something of one that is gone.
LEMMA ChunksKept ==
    ASSUME FilesInv, UNCHANGED <<root, importJob>>,
           chunk' \in [Upload -> [Files!Index -> {"right", "wrong", None}]],
           \A u \in Upload : root[u] # None =>
              IF root[u].state = "expired"
              THEN (\A i \in Files!Remaining(u) : <<u, i>> \in delayed) =>
                      \A i \in Files!Remaining(u)' : <<u, i>> \in delayed'
              ELSE Files!Whole(u) => Files!Whole(u)'
    PROVE  DocumentsKept
<1>1. Advances
  <2> SUFFICES ASSUME NEW u \in Upload, root[u] # None PROVE Follows(root[u], root[u])
    BY DEF Advances
  <2>1. root[u] \in Files!RootDocument  BY DEF FilesInv, FilesTypes
  <2> QED  BY <2>1 DEF Follows, Files!RootDocument
<1>2. SealedWhole'  BY DEF FilesInv, SealedWhole
<1>3. ImportBound'  BY DEF FilesInv, ImportBound
<1>4. ExpiredGone'  BY DEF FilesInv, ExpiredGone
<1> QED  BY <1>1, <1>2, <1>3, <1>4 DEF DocumentsKept, FilesInv, FilesTypes

\* An import job that is admitted, captures, ends or is settled.
LEMMA JobsKept ==
    ASSUME FilesInv, UNCHANGED <<root, chunk, delayed>>, NEW c \in Command, NEW new \in Files!ImportJob,
           importJob' = [importJob EXCEPT ![c] = new], root[new.upload] # None,
           importJob[c] # None /\ importJob[c].state = "ended" => new.state = "ended",
           new.state # "ended" => /\ root[new.upload].state = "bound" /\ root[new.upload].owner = c
                                  /\ new.deadline = "none"
    PROVE  DocumentsKept
<1>1. /\ importJob'[c] = new /\ new # None
      /\ \A d \in Command : d # c => importJob'[d] = importJob[d]
  BY FilesSentinel DEF FilesInv, FilesTypes
<1>2. Advances
  <2>1. ASSUME NEW u \in Upload, root[u] # None PROVE Follows(root[u], root[u])
    <3>1. root[u] \in Files!RootDocument  BY <2>1 DEF FilesInv, FilesTypes
    <3> QED  BY <3>1 DEF Follows, Files!RootDocument
  <2>2. \A d \in Command : importJob[d] # None =>
           importJob'[d] # None /\ (importJob[d].state = "ended" => importJob'[d].state = "ended")
    BY <1>1
  <2> QED  BY <2>1, <2>2 DEF Advances, Files!Whole, Files!Remaining
<1>3. ImportBound'  BY <1>1 DEF FilesInv, ImportBound
<1>4. SealedWhole' /\ ExpiredGone'
  BY DEF FilesInv, SealedWhole, ExpiredGone, Files!Whole, Files!Remaining
<1>5. importJob' \in [Command -> Files!ImportJob \cup {None}]  BY DEF FilesInv, FilesTypes
<1> QED  BY <1>2, <1>3, <1>4, <1>5 DEF DocumentsKept, FilesInv, FilesTypes

\* A root that is written: it is whole if it is sealed or bound now, empty if
\* it is let go of, it does not come back once expired, and the import it was
\* bound to has it still or has ended.
LEMMA RootsKept ==
    ASSUME FilesInv, UNCHANGED <<chunk, importJob, delayed>>, NEW u \in Upload,
           NEW new \in Files!RootDocument, root' = [root EXCEPT ![u] = new],
           root[u] # None =>
              /\ Follows(new, root[u])
              /\ root[u].state = "expired" => new.state = "expired"
              /\ root[u].state = "bound" =>
                    \/ new.state = "bound" /\ new.owner = root[u].owner
                    \/ root[u].owner # None /\ importJob[root[u].owner] # None
                       /\ importJob[root[u].owner].state = "ended",
           new.state \in {"sealed", "bound"} => Files!Whole(u),
           new.state = "expired" /\ new.deadline = "none" =>
              \A i \in Files!Remaining(u) : <<u, i>> \in delayed
    PROVE  DocumentsKept
<1>1. root'[u] = new /\ new # None /\ \A v \in Upload : v # u => root'[v] = root[v]
  BY FilesSentinel DEF FilesInv, FilesTypes
<1>2. Advances
  <2>1. ASSUME NEW v \in Upload, root[v] # None
        PROVE  /\ root'[v] # None /\ Follows(root'[v], root[v])
               /\ root[v].state = "expired" => root'[v].state = "expired"
               /\ \A c \in Command : importJob[c] = None /\ root[v].state = "bound" /\ root[v].owner = c =>
                     root'[v].state = "bound" /\ root'[v].owner = c
    <3>1. CASE v = u  BY <1>1, <2>1, <3>1
    <3>2. CASE v # u
      <4>1. root[v] \in Files!RootDocument  BY <2>1 DEF FilesInv, FilesTypes
      <4> QED  BY <1>1, <2>1, <3>2, <4>1 DEF Follows, Files!RootDocument
    <3> QED  BY <3>1, <3>2
  <2> QED  BY <2>1 DEF Advances, Files!Whole, Files!Remaining
<1>3. SealedWhole'
  <2> SUFFICES ASSUME NEW v \in Upload, root'[v] # None, root'[v].state \in {"sealed", "bound"}
               PROVE  Files!Whole(v)
    BY DEF SealedWhole, Files!Whole
  <2> QED  BY <1>1 DEF FilesInv, SealedWhole
<1>4. ExpiredGone'
  <2> SUFFICES ASSUME NEW v \in Upload, root'[v] # None, root'[v].state = "expired",
                      root'[v].deadline = "none"
               PROVE  \A i \in Files!Remaining(v) : <<v, i>> \in delayed
    BY DEF ExpiredGone, Files!Remaining
  <2> QED  BY <1>1 DEF FilesInv, ExpiredGone
<1>5. ImportBound'
  <2> SUFFICES ASSUME NEW c \in Command, importJob[c] # None
               PROVE  /\ importJob[c].state # "ended" =>
                            /\ root'[importJob[c].upload].state = "bound"
                            /\ root'[importJob[c].upload].owner = c /\ importJob[c].deadline = "none"
                      /\ root'[importJob[c].upload] # None
    BY DEF ImportBound
  <2>1. importJob[c].upload \in Upload  BY DEF FilesInv, FilesTypes, Files!ImportJob
  <2> QED  BY <1>1, <2>1 DEF FilesInv, ImportBound
<1>6. root' \in [Upload -> Files!RootDocument \cup {None}]  BY DEF FilesInv, FilesTypes
<1> QED  BY <1>2, <1>3, <1>4, <1>5, <1>6 DEF DocumentsKept, FilesInv, FilesTypes

\* A revision is one more than the one before.
LEMMA ReviseIs ==
    ASSUME FilesInv, NEW u \in Upload, root[u] # None, NEW owner \in Command \cup {None},
           NEW state \in {"uploading", "sealed", "bound", "expired"},
           NEW deadline \in {"none", "ahead", "passed"}, Files!Revise(u, state, owner, deadline)
    PROVE  /\ root[u] \in Files!RootDocument /\ root'[u] \in Files!RootDocument
           /\ root' = [root EXCEPT ![u] = root'[u]]
           /\ root'[u].state = state /\ root'[u].owner = owner /\ root'[u].deadline = deadline
           /\ root'[u].rev = root[u].rev + 1 /\ Follows(root'[u], root[u])
           /\ \A old \in Files!RootDocument : Follows(root[u], old) => Follows(root'[u], old)
<1>1. root[u] \in Files!RootDocument  BY DEF FilesInv, FilesTypes
<1> DEFINE new == [state |-> state, owner |-> owner, deadline |-> deadline, rev |-> root[u].rev + 1]
<1>2. root' = [root EXCEPT ![u] = new] /\ root'[u] = new  BY DEF Files!Revise, FilesInv, FilesTypes
<1>3. new \in Files!RootDocument  BY <1>1 DEF Files!RootDocument
<1>4. /\ new.state = state /\ new.owner = owner /\ new.deadline = deadline
      /\ new.rev = root[u].rev + 1
  OBVIOUS
<1> HIDE DEF new
<1>5. Follows(new, root[u])  BY <1>1, <1>3, <1>4 DEF Follows, Files!RootDocument
<1>6. \A old \in Files!RootDocument : Follows(root[u], old) => Follows(new, old)
  BY <1>1, <1>3, <1>4 DEF Follows, Files!RootDocument
<1> QED  BY <1>1, <1>2, <1>3, <1>4, <1>5, <1>6

\* A chunk is created once, and for a root that had not expired when it was
\* read; one that comes after is on record as delayed.
LEMMA PutChunkSafe ==
    ASSUME FilesInv, NEW s \in Slot, NEW content \in {"right", "wrong"}, Files!PutChunk(s, content)
    PROVE  FilesInv'
<1> DEFINE u == call[s].upload  i == call[s].index
<1>1. /\ call[s].at = content /\ Files!End(s) /\ UNCHANGED <<root, importJob>>
  BY DEF Files!PutChunk, Files!At
<1>2. u \in Upload /\ i \in Files!Index /\ root[u] # None  BY <1>1, Working DEF CallOK
<1>3. CASE UNCHANGED <<chunk, delayed>>  BY <1>1, <1>3, EndsIdle
<1>4. CASE /\ chunk[u][i] = None /\ chunk' = [chunk EXCEPT ![u][i] = content]
           /\ delayed' = IF root[u].state = "expired" THEN delayed \cup {<<u, i>>} ELSE delayed
  <2>1. chunk' \in [Upload -> [Files!Index -> {"right", "wrong", None}]]
    BY <1>2, <1>4 DEF FilesInv, FilesTypes
  <2>2. \A v \in Upload, k \in Files!Index :
           chunk'[v][k] = IF v = u /\ k = i THEN content ELSE chunk[v][k]
    BY <1>2, <1>4 DEF FilesInv, FilesTypes
  <2>3. ASSUME NEW v \in Upload, Files!Whole(v) PROVE Files!Whole(v)'
    BY <1>2, <1>4, <2>2, <2>3, FilesSentinel DEF Files!Whole
  <2>4. ASSUME NEW v \in Upload, root[v].state = "expired",
               \A k \in Files!Remaining(v) : <<v, k>> \in delayed
        PROVE  \A k \in Files!Remaining(v)' : <<v, k>> \in delayed'
    <3> SUFFICES ASSUME NEW k \in Files!Index, chunk'[v][k] # None PROVE <<v, k>> \in delayed'
      BY DEF Files!Remaining
    <3>1. CASE v = u /\ k = i  BY <1>4, <2>4, <3>1
    <3>2. CASE ~(v = u /\ k = i)
      <4>1. chunk[v][k] # None  BY <2>2, <3>2
      <4> QED  BY <1>4, <2>4, <4>1 DEF Files!Remaining
    <3> QED  BY <3>1, <3>2
  <2>5. DocumentsKept  BY <1>1, <2>1, <2>3, <2>4, ChunksKept
  <2> QED  BY <1>1, <2>5, CallEnds
<1> QED  BY <1>1, <1>3, <1>4 DEF Files!PutChunk

\* The cleanup takes chunks only of an expired root.
LEMMA DeleteChunkSafe ==
    ASSUME FilesInv, NEW s \in Slot, NEW i \in Files!Index, Files!DeleteChunk(s, i)
    PROVE  FilesInv'
<1> DEFINE u == call[s].upload
<1>1. /\ call[s].at = "delete" /\ i \in call[s].todo /\ UNCHANGED <<root, importJob, delayed>>
      /\ chunk' = [chunk EXCEPT ![u][i] = None]
  BY DEF Files!DeleteChunk, Files!At
<1>2. /\ u \in Upload /\ root[u] # None /\ root[u].state = "expired" /\ call[s] \in Calls
      /\ call[s].command # None =>
            importJob[call[s].command] # None /\ importJob[call[s].command].state = "ended"
      /\ CallOK(s)
  BY <1>1, Working DEF CallOK
<1>3. chunk' \in [Upload -> [Files!Index -> {"right", "wrong", None}]]
  BY <1>1, <1>2 DEF FilesInv, FilesTypes
<1>4. \A v \in Upload, k \in Files!Index :
         chunk'[v][k] = IF v = u /\ k = i THEN None ELSE chunk[v][k]
  BY <1>1, <1>2 DEF FilesInv, FilesTypes
<1>5. ASSUME NEW v \in Upload, v # u, Files!Whole(v) PROVE Files!Whole(v)'
  BY <1>4, <1>5 DEF Files!Whole
<1>6. \A v \in Upload : Files!Remaining(v)' \subseteq Files!Remaining(v)
  BY <1>4 DEF Files!Remaining
<1>7. DocumentsKept  BY <1>1, <1>2, <1>3, <1>5, <1>6, ChunksKept
<1>8. CASE Files!End(s)  BY <1>7, <1>8, CallEnds
<1>9. CASE call' = [call EXCEPT ![s].todo = @ \ {i}]
  <2> DEFINE new == [call[s] EXCEPT !.todo = call[s].todo \ {i}]
  <2>1. call' = [call EXCEPT ![s] = new] /\ call'[s] = new
    BY <1>2, <1>9 DEF FilesInv, FilesTypes
  <2>2. /\ new \in Calls /\ new.at = "delete" /\ new.upload = u /\ new.command = call[s].command
        /\ new.seen = call[s].seen
    BY <1>1, <1>2 DEF Calls
  <2> HIDE DEF new
  <2>3. Follows(root[u], call[s].seen)  BY <1>1, <1>2 DEF CallOK, Files!Resting
  <2>4. CallOK(s)'  BY <1>1, <1>2, <2>1, <2>2, <2>3 DEF CallOK
  <2> QED  BY <1>7, <2>1, <2>2, <2>4, OneCall
<1> QED  BY <1>8, <1>9 DEF Files!DeleteChunk

\* The root that a conditional write finds is the one that was read, but for
\* its deadline.
LEMMA CurrentIs ==
    ASSUME FilesInv, NEW s \in Slot, call[s].at # "idle", Files!Current(s)
    PROVE  /\ root[call[s].upload].state = call[s].seen.state
           /\ root[call[s].upload].owner = call[s].seen.owner
  BY Working DEF CallOK, Files!Current, Follows

\* A root is sealed over the chunks that assemble() found: no chunk of an
\* upload changes while its root has the revision that was read.
LEMMA SealSafe == ASSUME FilesInv, NEW s \in Slot, Files!Seal(s) PROVE FilesInv'
<1> DEFINE u == call[s].upload
<1>1. call[s].at = "seal" /\ Files!End(s) /\ UNCHANGED <<chunk, importJob, delayed>>
  BY DEF Files!Seal, Files!At
<1>2. CASE UNCHANGED root  BY <1>1, <1>2, EndsIdle
<1>3. CASE Files!Current(s) /\ Files!Revise(u, "sealed", None, root[u].deadline)
  <2>1. u \in Upload /\ root[u] # None /\ root[u] \in Files!RootDocument  BY <1>1, Working
  <2>2. root[u].state = "uploading" /\ Files!Whole(u)
    BY <1>1, <1>3, CurrentIs, Working DEF CallOK, Files!Current
  <2>3. /\ root'[u] \in Files!RootDocument /\ root' = [root EXCEPT ![u] = root'[u]]
        /\ root'[u].state = "sealed" /\ Follows(root'[u], root[u])
    <3>1. root[u].deadline \in {"none", "ahead", "passed"}  BY <2>1 DEF Files!RootDocument
    <3> QED  BY <1>3, <2>1, <3>1, ReviseIs
  <2>4. DocumentsKept  BY <1>1, <2>1, <2>2, <2>3, RootsKept
  <2> QED  BY <1>1, <2>4, CallEnds
<1> QED  BY <1>2, <1>3 DEF Files!Seal

\* An upload is bound when it is still the sealed one that was read.
LEMMA BindSafe == ASSUME FilesInv, NEW s \in Slot, Files!Bind(s) PROVE FilesInv'
<1> DEFINE u == call[s].upload  c == call[s].command
<1>1. call[s].at = "bindWrite" /\ UNCHANGED <<chunk, importJob, delayed>>
  BY DEF Files!Bind, Files!At
<1>2. /\ u \in Upload /\ root[u] # None /\ root[u] \in Files!RootDocument /\ c \in Command
      /\ call[s] \in Calls /\ call[s].seen \in Files!RootDocument /\ Follows(root[u], call[s].seen)
      /\ c # None /\ call[s].seen.state = "sealed" /\ call[s].todo \in SUBSET Files!Index
  BY <1>1, Working DEF CallOK, Calls
<1>3. CASE UNCHANGED root /\ Files!Go(s, "bind")
  <2>1. "bind" \in Request \ {"right", "wrong"}  BY DEF Request
  <2>2. MayMove(s, "bind", call[s].seen)  BY <1>2 DEF MayMove
  <2> QED  BY <1>1, <1>3, <2>1, <2>2, GoesSafe
<1>4. CASE Files!Current(s) /\ Files!Revise(u, "bound", c, "none") /\ Files!Go(s, "admit")
  <2>1. root[u].state = "sealed" /\ Files!Whole(u)
    BY <1>1, <1>2, <1>4, CurrentIs DEF FilesInv, SealedWhole
  <2>2. /\ root'[u] \in Files!RootDocument /\ root' = [root EXCEPT ![u] = root'[u]]
        /\ root'[u].state = "bound" /\ root'[u].owner = c /\ Follows(root'[u], root[u])
        /\ Follows(root'[u], call[s].seen)
    BY <1>2, <1>4, ReviseIs
  <2>3. DocumentsKept  BY <1>1, <1>2, <2>1, <2>2, RootsKept
  <2> DEFINE new == [call[s] EXCEPT !.at = "admit"]
  <2>4. call' = [call EXCEPT ![s] = new] /\ call'[s] = new
    BY <1>2, <1>4 DEF Files!Go, FilesInv, FilesTypes
  <2>5. /\ new \in Calls /\ new.at = "admit" /\ new.upload = u /\ new.command = c
        /\ new.seen = call[s].seen
    BY <1>2 DEF Calls, Request
  <2> HIDE DEF new
  <2>6. root'[u] # None  BY <2>2, FilesSentinel
  <2>7. CallOK(s)'  BY <1>2, <2>2, <2>4, <2>5, <2>6 DEF CallOK
  <2> QED  BY <2>3, <2>4, <2>5, <2>7, OneCall
<1> QED  BY <1>3, <1>4 DEF Files!Bind

\* The job of an import is admitted after the upload is bound to it.
LEMMA AdmitJobSafe == ASSUME FilesInv, NEW s \in Slot, Files!AdmitJob(s) PROVE FilesInv'
<1> DEFINE u == call[s].upload  c == call[s].command
           new == [upload |-> u, state |-> "queued", deadline |-> "none"]
<1>1. call[s].at = "admit" /\ Files!End(s) /\ UNCHANGED <<root, chunk, delayed>>
  BY DEF Files!AdmitJob, Files!At
<1>2. CASE importJob' = importJob  BY <1>1, <1>2, EndsIdle
<1>3. CASE importJob[c] = None /\ importJob' = [importJob EXCEPT ![c] = new]
  <2>1. /\ u \in Upload /\ c \in Command /\ root[u] # None
        /\ root[u].state = "bound" /\ root[u].owner = c
    BY <1>1, <1>3, Working DEF CallOK
  <2>2. /\ new \in Files!ImportJob /\ new.upload = u /\ new.state # "ended" /\ new.deadline = "none"
    BY <2>1 DEF Files!ImportJob
  <2> HIDE DEF new
  <2>3. DocumentsKept  BY <1>1, <1>3, <2>1, <2>2, JobsKept
  <2> QED  BY <1>1, <2>3, CallEnds
<1> QED  BY <1>2, <1>3 DEF Files!AdmitJob

\* What is said of the job of an import that is written.
LEMMA JobWritten ==
    ASSUME FilesInv, NEW c \in Command, importJob[c] # None,
           NEW state \in {"queued", "captured", "ended"}, NEW deadline \in {"none", "ahead", "passed"},
           importJob[c].state = "ended" => state = "ended", state # "ended" => deadline = "none",
           importJob' = [importJob EXCEPT
              ![c] = [upload |-> importJob[c].upload, state |-> state, deadline |-> deadline]],
           UNCHANGED <<root, chunk, delayed>>
    PROVE  DocumentsKept
<1> DEFINE new == [upload |-> importJob[c].upload, state |-> state, deadline |-> deadline]
<1>1. importJob[c] \in Files!ImportJob  BY DEF FilesInv, FilesTypes
<1>2. /\ new \in Files!ImportJob /\ new.upload = importJob[c].upload /\ new.state = state
      /\ new.deadline = deadline
  BY <1>1 DEF Files!ImportJob
<1>3. importJob' = [importJob EXCEPT ![c] = new]  OBVIOUS
<1> HIDE DEF new
<1>4. /\ root[new.upload] # None
      /\ new.state # "ended" => root[new.upload].state = "bound" /\ root[new.upload].owner = c
  BY <1>2 DEF FilesInv, ImportBound
<1> QED  BY <1>2, <1>3, <1>4, JobsKept

\* The import job captures its workbook.
LEMMA CaptureSafe == ASSUME FilesInv, NEW s \in Slot, Files!Capture(s) PROVE FilesInv'
<1> DEFINE c == call[s].command
<1>1. call[s].at = "capture" /\ Files!End(s) /\ UNCHANGED <<root, chunk, delayed>>
  BY DEF Files!Capture, Files!At
<1>2. CASE UNCHANGED importJob  BY <1>1, <1>2, EndsIdle
<1>3. CASE Files!Live(c) /\ importJob' = [importJob EXCEPT ![c].state = "captured"]
  <2>1. c \in Command  BY <1>1, Working DEF CallOK
  <2>2. importJob[c] # None /\ importJob[c].state # "ended" /\ importJob[c] \in Files!ImportJob
    BY <1>3, <2>1 DEF Files!Live, FilesInv, FilesTypes
  <2>3. importJob[c].deadline = "none"  BY <2>1, <2>2 DEF FilesInv, ImportBound
  <2>4. [importJob[c] EXCEPT !.state = "captured"] =
           [upload |-> importJob[c].upload, state |-> "captured", deadline |-> "none"]
    BY <2>2, <2>3 DEF Files!ImportJob
  <2>5. importJob' = [importJob EXCEPT ![c] =
           [upload |-> importJob[c].upload, state |-> "captured", deadline |-> "none"]]
    BY <1>3, <2>4
  <2>6. DocumentsKept  BY <1>1, <2>1, <2>2, <2>5, JobWritten
  <2> QED  BY <1>1, <2>6, CallEnds
<1> QED  BY <1>2, <1>3 DEF Files!Capture

\* A step of no invocation.
LEMMA NoCall == ASSUME FilesInv, DocumentsKept, UNCHANGED call PROVE FilesInv'
<1>1. FilesTypes' /\ Advances  BY DEF FilesInv, FilesTypes, DocumentsKept
<1>2. \A s \in Slot : CallOK(s)'  BY <1>1, CallKept
<1> QED  BY <1>1, <1>2 DEF FilesInv, DocumentsKept

\* An import may end at any time.
LEMMA EndJobSafe == ASSUME FilesInv, NEW c \in Command, Files!EndJob(c) PROVE FilesInv'
<1>1. /\ importJob[c] # None /\ importJob[c].state # "ended" /\ UNCHANGED <<root, chunk, call, delayed>>
      /\ importJob' = [importJob EXCEPT ![c].state = "ended", ![c].deadline = "ahead"]
  BY DEF Files!EndJob, Files!Live
<1>2. importJob[c] \in Files!ImportJob /\ importJob \in [Command -> Files!ImportJob \cup {None}]
  BY <1>1 DEF FilesInv, FilesTypes
<1>3. [importJob[c] EXCEPT !.state = "ended", !.deadline = "ahead"] =
         [upload |-> importJob[c].upload, state |-> "ended", deadline |-> "ahead"]
  <2> DEFINE ended == [importJob[c] EXCEPT !.state = "ended"]
  <2>1. /\ ended = [upload |-> importJob[c].upload, state |-> "ended", deadline |-> importJob[c].deadline]
        /\ importJob[c].upload \in Upload
    BY <1>2 DEF Files!ImportJob
  <2>2. [ended EXCEPT !.deadline = "ahead"] =
           [upload |-> importJob[c].upload, state |-> "ended", deadline |-> "ahead"]
    <3> HIDE DEF ended
    <3> QED  BY <2>1
  <2> QED  BY <2>2
<1>4. importJob' = [importJob EXCEPT ![c] = [importJob[c] EXCEPT !.state = "ended", !.deadline = "ahead"]]
  BY <1>1, <1>2
<1>5. DocumentsKept  BY <1>1, <1>3, <1>4, JobWritten
<1> QED  BY <1>1, <1>5, NoCall

\* A root expires when it is still what the cleanup has read: unbound, or
\* bound to the import that has ended.
LEMMA ExpireSafe == ASSUME FilesInv, NEW s \in Slot, Files!Expire(s) PROVE FilesInv'
<1> DEFINE u == call[s].upload  c == call[s].command
<1>1. call[s].at = "expireWrite" /\ UNCHANGED <<chunk, importJob, delayed>>
  BY DEF Files!Expire, Files!At
<1>2. /\ u \in Upload /\ root[u] # None /\ root[u] \in Files!RootDocument
      /\ call[s] \in Calls /\ c \in Command \cup {None}
      /\ c # None => importJob[c] # None /\ importJob[c].state = "ended"
      /\ \/ call[s].seen.state = "sealed" \/ (c = None /\ call[s].seen.state # "bound")
         \/ (c # None /\ call[s].seen.state = "bound" /\ call[s].seen.owner = c)
  BY <1>1, Working DEF CallOK
<1>3. CASE UNCHANGED root /\ Files!PassBy(s)  BY <1>1, <1>3, PassBySafe
<1>4. CASE /\ Files!Current(s) /\ Files!Revise(u, "expired", root[u].owner, "passed")
           /\ call' = [call EXCEPT ![s].at = "list", ![s].seen = root'[u]]
  <2>1. root[u].state = call[s].seen.state /\ root[u].owner = call[s].seen.owner
    BY <1>1, <1>4, CurrentIs
  <2>2. root[u].owner \in Command \cup {None}  BY <1>2 DEF Files!RootDocument
  <2>3. /\ root'[u] \in Files!RootDocument /\ root' = [root EXCEPT ![u] = root'[u]]
        /\ root'[u].state = "expired" /\ root'[u].deadline = "passed" /\ Follows(root'[u], root[u])
    BY <1>2, <1>4, <2>2, ReviseIs
  <2>4. root[u].state = "bound" => root[u].owner = c /\ c # None  BY <1>2, <2>1
  <2>5. DocumentsKept  BY <1>1, <1>2, <2>3, <2>4, RootsKept
  <2> DEFINE new == [call[s] EXCEPT !.at = "list", !.seen = root'[u]]
  <2>6. call' = [call EXCEPT ![s] = new] /\ call'[s] = new
    BY <1>2, <1>4 DEF FilesInv, FilesTypes
  <2>7. /\ new \in Calls /\ new.at = "list" /\ new.upload = u /\ new.command = c
        /\ new.seen = root'[u]
    BY <1>2, <2>3 DEF Calls, Request
  <2> HIDE DEF new
  <2>8. root'[u] # None /\ Follows(root'[u], root'[u])
    BY <2>3, FilesSentinel DEF Follows, Files!RootDocument
  <2>9. CallOK(s)'  BY <1>1, <1>2, <2>3, <2>6, <2>7, <2>8 DEF CallOK
  <2> QED  BY <2>5, <2>6, <2>7, <2>9, OneCall
<1> QED  BY <1>3, <1>4 DEF Files!Expire

\* The cleanup lets go of an upload of which it has found nothing left.
LEMMA SettleSafe == ASSUME FilesInv, NEW s \in Slot, Files!Settle(s) PROVE FilesInv'
<1> DEFINE u == call[s].upload  c == call[s].command
<1>1. call[s].at = "settle" /\ Files!End(s) /\ UNCHANGED <<chunk, delayed>>
  BY DEF Files!Settle, Files!At
<1>2. /\ u \in Upload /\ root[u] # None /\ root[u] \in Files!RootDocument /\ c \in Command \cup {None}
      /\ c # None => importJob[c] # None /\ importJob[c].state = "ended"
      /\ c = None => root[u].state = "expired" /\ \A i \in Files!Remaining(u) : <<u, i>> \in delayed
  BY <1>1, Working DEF CallOK
<1>3. CASE c # None /\ importJob' = [importJob EXCEPT ![c].deadline = "none"] /\ UNCHANGED root
  <2>1. importJob[c] \in Files!ImportJob  BY <1>2, <1>3 DEF FilesInv, FilesTypes
  <2>2. [importJob[c] EXCEPT !.deadline = "none"] =
           [upload |-> importJob[c].upload, state |-> "ended", deadline |-> "none"]
    BY <1>2, <1>3, <2>1 DEF Files!ImportJob
  <2>3. importJob' = [importJob EXCEPT ![c] =
           [upload |-> importJob[c].upload, state |-> "ended", deadline |-> "none"]]
    BY <1>3, <2>2
  <2>4. DocumentsKept  BY <1>1, <1>2, <1>3, <2>3, JobWritten
  <2> QED  BY <1>1, <2>4, CallEnds
<1>4. CASE UNCHANGED <<root, importJob>>  BY <1>1, <1>4, EndsIdle
<1>5. CASE c = None /\ Files!Revise(u, "expired", root[u].owner, "none") /\ UNCHANGED importJob
  <2>1. root[u].owner \in Command \cup {None}  BY <1>2 DEF Files!RootDocument
  <2>2. /\ root'[u] \in Files!RootDocument /\ root' = [root EXCEPT ![u] = root'[u]]
        /\ root'[u].state = "expired" /\ root'[u].deadline = "none" /\ Follows(root'[u], root[u])
    BY <1>2, <1>5, <2>1, ReviseIs
  <2>3. DocumentsKept  BY <1>1, <1>2, <1>5, <2>2, RootsKept
  <2> QED  BY <1>1, <2>3, CallEnds
<1> QED  BY <1>3, <1>4, <1>5 DEF Files!Settle

\* An upload begins empty.
LEMMA AdmitSafe == ASSUME FilesInv, NEW u \in Upload, Files!Admit(u) PROVE FilesInv'
<1> DEFINE new == [state |-> "uploading", owner |-> None, deadline |-> "ahead", rev |-> 1]
<1>1. /\ root[u] = None /\ root' = [root EXCEPT ![u] = new]
      /\ UNCHANGED <<chunk, importJob, call, delayed>>
  BY DEF Files!Admit, Files!Known
<1>2. new \in Files!RootDocument /\ new.state = "uploading"  BY DEF Files!RootDocument
<1> HIDE DEF new
<1>3. DocumentsKept  BY <1>1, <1>2, RootsKept
<1> QED  BY <1>1, <1>3, NoCall

\* Deadlines pass.
LEMMA FilesTickSafe == FilesInv /\ Files!Tick => FilesInv'
<1> SUFFICES ASSUME FilesInv, Files!Tick PROVE FilesInv'
  OBVIOUS
<1>1. UNCHANGED <<chunk, call, delayed>>  BY DEF Files!Tick
<1>2. ASSUME NEW u \in Upload, root[u] # None, root[u].deadline = "ahead", UNCHANGED importJob,
             root' = [root EXCEPT ![u].deadline = "passed"]
      PROVE  FilesInv'
  <2> DEFINE new == [root[u] EXCEPT !.deadline = "passed"]
  <2>1. root[u] \in Files!RootDocument  BY <1>2 DEF FilesInv, FilesTypes
  <2>2. /\ new \in Files!RootDocument /\ new.state = root[u].state /\ new.owner = root[u].owner
        /\ new.deadline = "passed" /\ new.rev = root[u].rev
    BY <2>1 DEF Files!RootDocument
  <2>3. root' = [root EXCEPT ![u] = new]  BY <1>2
  <2> HIDE DEF new
  <2>4. Follows(new, root[u])  BY <2>1, <2>2 DEF Follows, Files!RootDocument
  <2>5. new.state \in {"sealed", "bound"} => Files!Whole(u)
    BY <1>2, <2>2 DEF FilesInv, SealedWhole
  <2>6. new.deadline # "none"  BY <2>2
  <2>7. new \in Files!RootDocument  BY <2>2
  <2>8. /\ root[u].state = "expired" => new.state = "expired"
        /\ root[u].state = "bound" => new.state = "bound" /\ new.owner = root[u].owner
    BY <2>2
  <2>9. DocumentsKept  BY <1>1, <1>2, <2>3, <2>4, <2>5, <2>6, <2>7, <2>8, RootsKept
  <2> QED  BY <1>1, <2>9, NoCall
<1>3. ASSUME NEW c \in Command, importJob[c] # None, importJob[c].deadline = "ahead", UNCHANGED root,
             importJob' = [importJob EXCEPT ![c].deadline = "passed"]
      PROVE  FilesInv'
  <2>1. importJob[c] \in Files!ImportJob /\ importJob[c].state = "ended"
    BY <1>3 DEF FilesInv, FilesTypes, ImportBound
  <2>2. [importJob[c] EXCEPT !.deadline = "passed"] =
           [upload |-> importJob[c].upload, state |-> "ended", deadline |-> "passed"]
    BY <2>1 DEF Files!ImportJob
  <2>3. importJob' = [importJob EXCEPT ![c] =
           [upload |-> importJob[c].upload, state |-> "ended", deadline |-> "passed"]]
    BY <1>3, <2>2
  <2>4. DocumentsKept  BY <1>1, <1>3, <2>1, <2>3, JobWritten
  <2> QED  BY <1>1, <2>4, NoCall
<1> QED  BY <1>2, <1>3 DEF Files!Tick, Files!Later, Files!Known

-----------------------------------------------------------------------------
(* Uploads: the theorem *)

\* Nothing has been uploaded yet.
LEMMA FilesInitEstablishes == Files!Init => FilesInv
<1> SUFFICES ASSUME Files!Init PROVE FilesInv
  OBVIOUS
<1>1. /\ root = [u \in Upload |-> None] /\ chunk = [u \in Upload |-> [i \in Files!Index |-> None]]
      /\ importJob = [c \in Command |-> None] /\ call = [s \in Slot |-> Files!Resting]
  BY DEF Files!Init
<1>2. FilesTypes  BY <1>1 DEF FilesTypes
<1>3. SealedWhole /\ ImportBound /\ ExpiredGone  BY <1>1 DEF SealedWhole, ImportBound, ExpiredGone
<1>4. \A s \in Slot : CallOK(s)  BY <1>1 DEF CallOK
<1> QED  BY <1>2, <1>3, <1>4 DEF FilesInv

\* Every request to the store, the clock and every invocation that stops keep
\* the invariant of the uploads.
LEMMA FilesNextSafe == FilesInv /\ (Files!Next \/ UNCHANGED fileVars) => FilesInv'
<1> SUFFICES ASSUME FilesInv, Files!Next \/ UNCHANGED fileVars PROVE FilesInv'
  OBVIOUS
<1>1. CASE UNCHANGED fileVars
  <2>1. UNCHANGED <<root, chunk, importJob, delayed>> /\ UNCHANGED call  BY <1>1 DEF fileVars
  <2> QED  BY <2>1, DocumentsStay, NoCall
<1>2. ASSUME NEW s \in Slot, Files!Stop(s) PROVE FilesInv'
  BY <1>2, EndsIdle DEF Files!Stop
<1>3. ASSUME NEW s \in Slot,
             \/ Files!PutChunk(s, "right") \/ Files!PutChunk(s, "wrong") \/ Files!Assemble(s)
             \/ Files!Seal(s) \/ Files!ReadBind(s) \/ Files!Bind(s) \/ Files!AdmitJob(s)
             \/ Files!Capture(s) \/ Files!ReadExpire(s) \/ Files!Expire(s) \/ Files!ListChunks(s)
             \/ Files!Settle(s) \/ \E i \in Files!Index : Files!DeleteChunk(s, i)
      PROVE  FilesInv'
  BY <1>3, PutChunkSafe, AssembleSafe, SealSafe, ReadBindSafe, BindSafe, AdmitJobSafe, CaptureSafe,
     ReadExpireSafe, ExpireSafe, ListChunksSafe, SettleSafe, DeleteChunkSafe
<1> QED
  <2>1. ASSUME NEW s \in Slot,
               \/ \E u \in Upload : Files!BeginSeal(s, u) \/ \E c \in Command : Files!BeginImport(s, u, c)
               \/ \E u \in Upload, i \in Files!Index, content \in {"right", "wrong"} :
                     Files!BeginChunk(s, u, i, content)
               \/ \E c \in Command : Files!BeginWork(s, c)
               \/ Files!BeginCleanup(s)
        PROVE  FilesInv'
    BY <2>1, BeginsSafe
  <2> QED  BY <1>1, <1>2, <1>3, <2>1, FilesTickSafe, AdmitSafe, EndJobSafe DEF Files!Next

\* Of the parts, the uploads start empty and move by their own steps only.
LEMMA FilesPart ==
    /\ PartsInit => Files!Init
    /\ [PartsNext]_<<part, jobVars, cacheVars, fileVars, userVars>> =>
          Files!Next \/ UNCHANGED fileVars
  BY DEF PartsInit, PartsNext

\* An import that has not ended has its whole workbook to itself, and what the
\* cleanup has let go of is gone, but for chunks that were still on their way
\* (uploads.js:7-9, cleanup.js:13-15).
THEOREM WorkbooksAreWholeOrGone == PartsSpec => []WholeOrGone
<1>1. PartsInit => FilesInv  BY FilesPart, FilesInitEstablishes
<1>2. FilesInv /\ [PartsNext]_<<part, jobVars, cacheVars, fileVars, userVars>> => FilesInv'
  BY FilesPart, FilesNextSafe
<1>3. FilesInv => WholeOrGone
  <2> SUFFICES ASSUME FilesInv PROVE WholeOrGone
    OBVIOUS
  <2>1. ASSUME NEW c \in Command, importJob[c] # None, importJob[c].state # "ended"
        PROVE  /\ Files!Whole(importJob[c].upload)
               /\ root[importJob[c].upload].state = "bound" /\ root[importJob[c].upload].owner = c
    <3>1. importJob[c].upload \in Upload  BY <2>1 DEF FilesInv, FilesTypes, Files!ImportJob
    <3> QED  BY <2>1, <3>1 DEF FilesInv, ImportBound, SealedWhole
  <2> QED  BY <2>1 DEF WholeOrGone, Files!WholeOrGone, Files!Live, Files!Known, FilesInv, ExpiredGone
<1> QED  BY <1>1, <1>2, <1>3, PTL DEF PartsSpec
-----------------------------------------------------------------------------
(* Cache jobs: the inductive invariant *)

\* The rows and claims are JobStore's, and so is the proof about them.
CacheStore == INSTANCE JobStoreProof WITH
    row <- cacheRow, claim <- cacheClaim, Job <- CacheJob, Point <- Cache!CachePoint, Start <- Cache!NoPoint,
    Result <- {Cache!NoAnswer}, NoResult <- Cache!NoAnswer, Lease <- CacheLease,
    RetryWait <- CacheWait, Never <- Cache!NotDue

Waiting == {"queued", "retry", "running"}
Writing == {"begin", "apply", "finish"}
NotBefore(p, q) == p = q \/ p = "finish" \/ (p = "apply" /\ q = "begin")

\* Of job j and a plan, in a store with receipts rs, price rows ds and status st:
\* a change has reached its row, and counts as applied for ever,
Settled(j, c, rs, ds) ==
    \/ <<j, "row", c.doc>> \in rs
    \/ c.op = "create" /\ <<j, "restore", c.doc>> \in rs /\ ds[c.doc].rev > 0
\* or it has not, and still can;
CanApply(c, ds) ==
    IF c.op = "create" THEN ds[c.doc].val = None ELSE ds[c.doc].val # None /\ ds[c.doc].rev = c.rev
Begun(j, rs) == <<j, "begin", 0>> \in rs
Published(j, rs) == <<j, "finish", 0>> \in rs
CarriedOut(j, plan, rs, ds) ==
    /\ plan \in Cache!Plan /\ Begun(j, rs) /\ Published(j, rs)
    /\ \A c \in plan.changes : Settled(j, c, rs, ds)
UpdatingBy(j, rev, st) == st.state = "updating" /\ st.job = j /\ st.rev = rev

\* what is in the way of the goal, a complete generation, are the changes that
\* have not reached their rows.
ReachesGoal(plan, goal, ds) ==
    /\ goal \in [1..Cache!Latest -> Cache!Price]
    /\ plan.latest = goal[Cache!Latest]
    /\ goal[Cache!Latest] = Cache!LatestOf([k \in 1..Dates |-> goal[k]])
    /\ \A k \in 1..Cache!Latest : ds[k].val = goal[k] \/ \E c \in plan.changes : c.doc = k
    /\ \A c \in plan.changes : c.val = goal[c.doc]
PlanFits(j, plan, rs, ds) ==
    /\ plan \in Cache!Plan
    /\ \A c, d \in plan.changes : c.doc = d.doc => c = d
    /\ \A c \in plan.changes :
          /\ c.op = "create" => c.val # None
          /\ IF Settled(j, c, rs, ds) THEN ds[c.doc].val = c.val ELSE CanApply(c, ds)
    /\ \E goal : ReachesGoal(plan, goal, ds)

\* A checkpoint before the plan is sealed: what it has scanned is still so.
ScanFits(p, ds) ==
    /\ p.phase \in {"scan", "capture", "compute", "plan"}
    /\ IF p.phase = "scan" THEN Len(p.copies) < Dates ELSE Len(p.copies) = Dates
    /\ \A k \in 1..Len(p.copies) : p.copies[k] = ds[k]

\* A checkpoint after that: how far the plan has come.
CommitFits(j, p, st, rs, ds) ==
    /\ p.phase \in Writing /\ PlanFits(j, p.plan, rs, ds)
    /\ p.phase = "begin" =>
          /\ ~Published(j, rs)
          /\ IF Begun(j, rs) THEN UpdatingBy(j, p.plan.begin + 1, st)
             ELSE st.state = "ready" /\ st.rev = p.plan.begin
    /\ p.phase = "apply" => Begun(j, rs) /\ ~Published(j, rs) /\ UpdatingBy(j, p.rev, st)
    /\ p.phase = "finish" =>
          /\ Begun(j, rs) /\ \A c \in p.plan.changes : Settled(j, c, rs, ds)
          /\ IF Published(j, rs) THEN st.state = "ready" ELSE UpdatingBy(j, p.rev, st)

CacheRowFits(j) == cacheRow[j] # Absent =>
    /\ cacheRow[j].state # "needs-attention"
    /\ cacheRow[j].state \notin Terminal /\ cacheRow[j].point # Cache!NoPoint => lane = j
    /\ cacheRow[j].state \in Waiting => ScanFits(cacheRow[j].point, docs)
    /\ cacheRow[j].state = "committing" => CommitFits(j, cacheRow[j].point, status, receipts, docs)

\* Only a job that has sealed a plan has written to the cache.
Writers == {j \in CacheJob : cacheRow[j] # Absent /\ cacheRow[j].state \in {"committing", "completed"}}
ReceiptsFit == \A j \in CacheJob : \A step, k : <<j, step, k>> \in receipts => j \in Writers
\* A generation is being updated only by the job that will publish it.
StatusFits == status.state = "updating" =>
    /\ status.job \in CacheJob /\ cacheRow[status.job] # Absent
    /\ cacheRow[status.job].state = "committing"

\* A plan in the hands of an invocation, however late, is carried out already
\* or is the one its job is carrying out.
PlanLives(j, p, r, rs, ds) ==
    /\ r # Absent
    /\ \/ /\ r.state = "committing" /\ r.point.plan = p.plan
          /\ NotBefore(r.point.phase, p.phase)
          /\ p.phase # "begin" => r.point.rev = p.rev
       \/ r.state = "completed" /\ CarriedOut(j, p.plan, rs, ds)
LateFits(w) == cacheClaim[w] # Idle /\ cacheClaim[w].point.phase \in Writing =>
    PlanLives(cacheClaim[w].job, cacheClaim[w].point, cacheRow[cacheClaim[w].job], receipts, docs)

\* What the invocation that may write has seen in its phase.
HasSeen(j, p, stage, got, st, rs, ds) ==
    /\ stage # "conflict"
    /\ p.phase = "scan" /\ stage = "ready" => got = ds[Len(p.copies) + 1]
    /\ p.phase = "plan" /\ stage = "status" =>
          st.state = "ready" /\ got = [rev |-> st.rev, latest |-> st.latest]
    /\ p.phase = "plan" /\ stage = "ready" =>
          PlanFits(j, got, rs, ds) /\ st.state = "ready" /\ st.rev = got.begin
    /\ p.phase = "begin" /\ stage = "ready" => Begun(j, rs) /\ got = p.plan.begin + 1
    /\ p.phase = "apply" /\ stage = "work" =>
          \A c \in (IF got = None THEN {} ELSE got) : c \in p.plan.changes /\ Settled(j, c, rs, ds)
    /\ p.phase = "finish" /\ stage = "ready" => Published(j, rs)
SeenFits(w) ==
    /\ cacheClaim[w] = Idle => seen[w] = Cache!Fresh
    /\ cacheClaim[w] # Idle /\ cacheClaim[w].current =>
         /\ seen[w].at # "begin" => lane = cacheClaim[w].job
         /\ HasSeen(cacheClaim[w].job, cacheClaim[w].point, seen[w].at, seen[w].got,
                    status, receipts, docs)

CacheTypes ==
    /\ docs \in [1..Cache!Latest -> Cache!Document]
    /\ status \in [rev : Nat, state : {"ready", "updating"}, job : CacheJob \cup {None},
                   latest : Cache!Price]
    /\ DOMAIN seen = Worker

CacheInv ==
    /\ CacheStore!IInv
    /\ CacheTypes /\ GenerationsComplete /\ ReceiptsFit /\ StatusFits
    /\ \A j \in CacheJob : CacheRowFits(j)
    /\ \A w \in Worker : LateFits(w) /\ SeenFits(w)

-----------------------------------------------------------------------------
(* Cache jobs: the rows and the values *)

CacheStates == Terminal \cup {"running", "committing", "retry"}

\* The constants of the rows are as JobStore's proof assumes.
LEMMA CacheConstants ==
    /\ Cache!NoPoint \in Cache!CachePoint /\ Cache!NoAnswer \in {Cache!NoAnswer}
    /\ CacheLease \in Nat \ {0} /\ CacheWait \in Nat \ {0}
    /\ Cache!NotDue \in Nat /\ Cache!NotDue > CacheLease /\ Cache!NotDue > CacheWait
    /\ Absent \notin CacheStore!Row /\ Idle \notin CacheStore!Claim
    /\ None \notin CacheJob /\ Dates \in Nat \ {0} /\ Cache!Latest = Dates + 1
<1>1. Cache!NoPoint \in Cache!CachePoint
  BY CacheAssumption DEF Cache!NoPoint, Cache!CachePoint, Cache!Phase
<1>2. Absent \notin CacheStore!Row /\ Idle \notin CacheStore!Claim
  BY CacheAssumption DEF Cache!Jobs!Row, Cache!Jobs!Claim, CacheStore!Row, CacheStore!Claim,
     Cache!Jobs!Terminal, Cache!Jobs!Claimable, CacheStore!Terminal, CacheStore!Claimable
<1> QED  BY <1>1, <1>2, CacheAssumption DEF Cache!NotDue, Cache!Latest

\* The operations on rows are JobStore's.
LEMMA CacheSame ==
    /\ Cache!Jobs!Init <=> CacheStore!Init
    /\ \A j \in CacheJob :
          /\ Cache!Jobs!Exists(j) <=> CacheStore!Exists(j)
          /\ Cache!Jobs!Admit(j) <=> CacheStore!Admit(j)
          /\ Cache!Jobs!Cancel(j) <=> CacheStore!Cancel(j)
          /\ Cache!Jobs!ClaimCancelled(j) <=> CacheStore!ClaimCancelled(j)
    /\ \A w \in Worker, j \in CacheJob : Cache!Jobs!ClaimJob(w, j) <=> CacheStore!ClaimJob(w, j)
    /\ \A j \in CacheJob, v \in Worker : Cache!Jobs!Stale(j, v) = CacheStore!Stale(j, v)
    /\ Cache!Jobs!Tick <=> CacheStore!Tick
<1> USE DEF Cache!Jobs!Terminal, CacheStore!Terminal, Cache!Jobs!Claimable, CacheStore!Claimable,
      Cache!Jobs!Exists, CacheStore!Exists, Cache!Jobs!Unfinished, CacheStore!Unfinished,
      Cache!Jobs!Due, CacheStore!Due, Cache!Jobs!Stale, CacheStore!Stale
<1>1. Cache!Jobs!Init <=> CacheStore!Init  BY DEF Cache!Jobs!Init, CacheStore!Init
<1>2. ASSUME NEW j \in CacheJob
      PROVE  /\ Cache!Jobs!Exists(j) <=> CacheStore!Exists(j)
             /\ Cache!Jobs!Admit(j) <=> CacheStore!Admit(j)
             /\ Cache!Jobs!Cancel(j) <=> CacheStore!Cancel(j)
             /\ Cache!Jobs!ClaimCancelled(j) <=> CacheStore!ClaimCancelled(j)
  BY DEF Cache!Jobs!Admit, CacheStore!Admit, Cache!Jobs!Cancel, CacheStore!Cancel,
     Cache!Jobs!Cancellable, CacheStore!Cancellable, Cache!Jobs!ClaimCancelled, CacheStore!ClaimCancelled
<1>3. ASSUME NEW w \in Worker, NEW j \in CacheJob
      PROVE  Cache!Jobs!ClaimJob(w, j) <=> CacheStore!ClaimJob(w, j)
  BY DEF Cache!Jobs!ClaimJob, CacheStore!ClaimJob, Cache!Jobs!ClaimedState, CacheStore!ClaimedState
<1>4. Cache!Jobs!Tick <=> CacheStore!Tick
  BY DEF Cache!Jobs!Tick, CacheStore!Tick, Cache!Jobs!Later, CacheStore!Later, Cache!Jobs!Less,
     CacheStore!Less
<1> QED  BY <1>1, <1>2, <1>3, <1>4

\* A claim whose copy is the same but perhaps stale.
CacheKept(v) ==
    /\ cacheClaim'[v] = Idle <=> cacheClaim[v] = Idle
    /\ cacheClaim[v] # Idle =>
          /\ cacheClaim'[v].job = cacheClaim[v].job /\ cacheClaim'[v].point = cacheClaim[v].point
          /\ cacheClaim'[v].current => cacheClaim[v].current /\ cacheClaim'[v].state = cacheClaim[v].state

\* Making copies stale keeps them.
LEMMA CacheStaleKept ==
    ASSUME CacheStore!IInv, NEW j \in CacheJob, NEW v \in Worker, cacheClaim'[v] = Cache!Jobs!Stale(j, v)
    PROVE  CacheKept(v) /\ (cacheClaim'[v] # Idle /\ cacheClaim'[v].current => cacheClaim[v].job # j)
<1>1. cacheClaim'[v] = CacheStore!Stale(j, v)  BY CacheSame
<1> QED  BY <1>1, CacheConstants, CacheStore!StaleIs DEF CacheStore!StaleIs, CacheKept

\* A checkpoint with which an invocation returns.
SavesCache(w, point, state, wait) ==
    Cache!Jobs!Checkpoint(w, point, state, Cache!NoAnswer, wait, FALSE)

\* What a checkpoint of a cache job does to rows and claims.
LEMMA CacheCheckpoint ==
    ASSUME CacheStore!IInv, NEW w \in Worker, NEW point \in Cache!CachePoint, NEW wait \in 0..CacheWait,
           NEW state \in CacheStates,
           SavesCache(w, point, state, wait)
    PROVE  LET j == cacheClaim[w].job
           IN  /\ CacheStore!IInv'
               /\ cacheClaim[w] # Idle /\ cacheClaim[w].current
               /\ cacheClaim[w].state \in {"running", "committing"}
               /\ j \in CacheJob /\ cacheRow[j] # Absent
               /\ cacheRow[j].state = cacheClaim[w].state /\ cacheRow[j].point = cacheClaim[w].point
               /\ cacheRow'[j] # Absent /\ cacheRow'[j].state = state /\ cacheRow'[j].point = point
               /\ \A i \in CacheJob \ {j} : cacheRow'[i] = cacheRow[i]
               /\ \A v \in Worker \ {w} : CacheKept(v)
               /\ \A v \in Worker \ {w} :
                     cacheClaim'[v] # Idle /\ cacheClaim'[v].current => cacheClaim[v].job # j
               /\ cacheClaim'[w] = Idle
<1>1. PICK stays \in BOOLEAN :
         ~stays /\ Cache!Jobs!Checkpoint(w, point, state, Cache!NoAnswer, wait, stays)
  BY DEF SavesCache
<1>2. CacheStore!Checkpoint(w, point, state, Cache!NoAnswer, wait, stays)
  BY <1>1 DEF Cache!Jobs!Checkpoint, CacheStore!Checkpoint, Cache!Jobs!CanWrite, CacheStore!CanWrite,
     Cache!Jobs!Holds, CacheStore!Holds, Cache!Jobs!DueAfter, CacheStore!DueAfter,
     Cache!Jobs!Released, CacheStore!Released, Cache!Jobs!Stale, CacheStore!Stale,
     Cache!Jobs!Terminal, CacheStore!Terminal
<1>3. state \in CacheStore!Terminal \cup {"running", "committing", "retry"}
      /\ (stays => ~CacheStore!Released(state, wait))
  BY <1>1 DEF CacheStates, Terminal, CacheStore!Terminal
<1>4. CacheStore!IInv'
  BY <1>2, <1>3, CacheConstants, CacheStore!CheckpointSafe DEF CacheStore!CheckpointSafe
<1> DEFINE j == cacheClaim[w].job
<1>5. /\ cacheClaim[w] # Idle /\ cacheClaim[w].current
      /\ cacheClaim[w].state \in {"running", "committing"}
      /\ j \in CacheJob /\ cacheRow[j] # Absent
      /\ cacheRow[j].state = cacheClaim[w].state /\ cacheRow[j].point = cacheClaim[w].point
      /\ cacheRow'[j] # Absent /\ cacheRow'[j].state = state /\ cacheRow'[j].point = point
      /\ \A i \in CacheJob \ {j} : cacheRow'[i] = cacheRow[i]
      /\ \A v \in Worker \ {w} : cacheClaim'[v] = CacheStore!Stale(j, v)
      /\ cacheClaim'[w] = Idle
  BY <1>1, <1>2, <1>3, CacheConstants, CacheStore!CheckpointEffect
  DEF CacheStore!CheckpointEffect, CacheStore!Exists
<1>6. \A v \in Worker \ {w} :
         CacheKept(v) /\ (cacheClaim'[v] # Idle /\ cacheClaim'[v].current => cacheClaim[v].job # j)
  BY <1>5, CacheSame, CacheStaleKept
<1> QED  BY <1>4, <1>5, <1>6

\* The latest price is one of the prices, or there is none.
LEMMA LatestIs ==
    ASSUME NEW prices \in [1..Dates -> Cache!Price]
    PROVE  Cache!LatestOf(prices) \in Cache!Price
<1> DEFINE D == {k \in 1..Dates : prices[k] # None}
<1>1. CASE D = {}  BY <1>1 DEF Cache!LatestOf, Cache!Price
<1>2. CASE D # {}
  <2> DEFINE T == {n \in 0..Dates : \E k \in D : n = Dates - k}
  <2>1. Dates \in Nat  BY CacheConstants
  <2>2. T \subseteq Nat  OBVIOUS
  <2>3. PICK d \in D : TRUE  BY <1>2
  <2>4. Dates - d \in T  BY <2>1, <2>3
  <2>5. T # {}  BY <2>4
  <2> HIDE DEF T
  <2>6. PICK n \in T : \A m \in T : ~(<<m, n>> \in OpToRel(<, Nat))
    BY <2>2, <2>5, NatLessThanWellFounded, WFMin
  <2>7. \A m \in T : m >= n
    <3> SUFFICES ASSUME NEW m \in T PROVE m >= n
      OBVIOUS
    <3>1. m \in Nat /\ n \in Nat  BY <2>2
    <3>2. ~(m < n)
      <4>1. <<m, n>>[1] = m /\ <<m, n>>[2] = n /\ <<m, n>> \in Nat \X Nat  BY <3>1
      <4> QED  BY <2>6, <4>1 DEF OpToRel
    <3> QED  BY <3>1, <3>2
  <2>8. PICK k \in D : n = Dates - k  BY <2>6 DEF T
  <2>9. \A i \in D : k >= i
    <3> SUFFICES ASSUME NEW i \in D PROVE k >= i
      OBVIOUS
    <3>1. Dates - i \in T  BY <2>1 DEF T
    <3> QED  BY <2>1, <2>7, <2>8, <3>1
  <2>10. \E x \in D : \A i \in D : x >= i  BY <2>9
  <2>11. Cache!Max(D) \in D  BY <2>10 DEF Cache!Max
  <2>12. Cache!LatestOf(prices) = prices[Cache!Max(D)]  BY <1>2 DEF Cache!LatestOf
  <2> QED  BY <2>11, <2>12
<1> QED  BY <1>1, <1>2
-----------------------------------------------------------------------------
(* Cache jobs: steps of rows and claims *)

\* A row from the point of view of a late invocation: a plan is not replaced,
\* and is given up only when it has been carried out.
Forward(j, old, new, rs, ds) == old # Absent =>
    /\ new # Absent
    /\ old.state = "completed" => new.state = "completed"
    /\ old.state = "committing" =>
          \/ /\ new.state = "committing" /\ new.point.plan = old.point.plan
             /\ NotBefore(new.point.phase, old.point.phase)
             /\ old.point.phase # "begin" => new.point.rev = old.point.rev
          \/ new.state = "completed" /\ CarriedOut(j, old.point.plan, rs, ds)

\* So late invocations stay harmless.
LEMMA LateKept ==
    ASSUME NEW v \in Worker, LateFits(v), CacheKept(v),
           cacheClaim[v] # Idle =>
              Forward(cacheClaim[v].job, cacheRow[cacheClaim[v].job], cacheRow'[cacheClaim[v].job],
                      receipts', docs'),
           \A j, plan : CarriedOut(j, plan, receipts, docs) => CarriedOut(j, plan, receipts', docs')
    PROVE  LateFits(v)'
<1> SUFFICES ASSUME cacheClaim'[v] # Idle, cacheClaim'[v].point.phase \in Writing
             PROVE  PlanLives(cacheClaim'[v].job, cacheClaim'[v].point, cacheRow'[cacheClaim'[v].job],
                              receipts', docs')
  BY DEF LateFits
<1>1. PICK j, p : j = cacheClaim[v].job /\ p = cacheClaim[v].point  OBVIOUS
<1>2. /\ cacheClaim[v] # Idle /\ cacheClaim'[v].job = j /\ cacheClaim'[v].point = p
      /\ p.phase \in Writing
  BY <1>1 DEF CacheKept
<1>3. PICK r, new : r = cacheRow[j] /\ new = cacheRow'[j]  OBVIOUS
<1>4. PlanLives(j, p, r, receipts, docs) /\ Forward(j, r, new, receipts', docs')
  BY <1>1, <1>2, <1>3 DEF LateFits
<1>5. PlanLives(j, p, new, receipts', docs')
  <2>1. CASE r.state = "completed" /\ CarriedOut(j, p.plan, receipts, docs)
    BY <1>4, <2>1 DEF PlanLives, Forward
  <2>2. CASE /\ r.state = "committing" /\ r.point.plan = p.plan
             /\ NotBefore(r.point.phase, p.phase) /\ (p.phase # "begin" => r.point.rev = p.rev)
    <3>1. CASE new.state = "completed" /\ CarriedOut(j, r.point.plan, receipts', docs')
      BY <1>4, <2>2, <3>1 DEF PlanLives, Forward
    <3>2. CASE /\ new.state = "committing" /\ new.point.plan = r.point.plan
               /\ NotBefore(new.point.phase, r.point.phase)
               /\ r.point.phase # "begin" => new.point.rev = r.point.rev
      <4>1. NotBefore(new.point.phase, p.phase)  BY <2>2, <3>2 DEF NotBefore
      <4>2. p.phase # "begin" => r.point.phase # "begin"  BY <1>2, <2>2 DEF NotBefore
      <4> QED  BY <1>4, <2>2, <3>2, <4>1, <4>2 DEF PlanLives, Forward
    <3> QED  BY <1>4, <2>2, <3>1, <3>2 DEF PlanLives, Forward
  <2> QED  BY <1>4, <2>1, <2>2 DEF PlanLives
<1> QED  BY <1>2, <1>3, <1>5

\* A row whose checkpoint stays, or that is new or cancelled.
RowGoesOn(j) ==
    \/ cacheRow'[j] = cacheRow[j]
    \/ /\ cacheRow[j] = Absent /\ cacheRow'[j] # Absent
       /\ cacheRow'[j].state = "queued" /\ cacheRow'[j].point = Cache!NoPoint
    \/ /\ cacheRow[j] # Absent /\ cacheRow'[j] # Absent /\ cacheRow'[j].point = cacheRow[j].point
       /\ cacheRow'[j].state = cacheRow[j].state \/ {cacheRow[j].state, cacheRow'[j].state} \subseteq Waiting
    \/ /\ cacheRow[j] # Absent /\ cacheRow'[j] # Absent
       /\ cacheRow[j].state \in Waiting /\ cacheRow'[j].state = "cancelled"

\* An invocation that goes on, ends, or has just claimed a job.
CacheResumes(v) ==
    \/ CacheKept(v) /\ seen'[v] = seen[v]
    \/ cacheClaim'[v] = Idle /\ seen'[v] = Cache!Fresh
    \/ LET j == cacheClaim'[v].job
       IN  /\ cacheClaim'[v] # Idle /\ cacheClaim[v] = Idle /\ seen'[v] = seen[v]
           /\ j \in CacheJob /\ cacheRow[j] # Absent /\ cacheClaim'[v].point = cacheRow[j].point
           /\ cacheRow[j].state \notin Terminal

\* What an invocation has seen is as true after a step that leaves the cache.
LEMMA SeenKept ==
    ASSUME NEW v \in Worker, SeenFits(v), CacheKept(v), seen'[v] = seen[v],
           UNCHANGED <<lane, status, docs, receipts>>
    PROVE  SeenFits(v)'
<1>1. cacheClaim'[v] = Idle => seen'[v] = Cache!Fresh  BY DEF SeenFits, CacheKept, Cache!Fresh
<1>2. ASSUME cacheClaim'[v] # Idle, cacheClaim'[v].current
      PROVE  /\ seen'[v].at # "begin" => lane' = cacheClaim'[v].job
             /\ HasSeen(cacheClaim'[v].job, cacheClaim'[v].point, seen'[v].at, seen'[v].got,
                        status', receipts', docs')
  BY <1>2 DEF SeenFits, CacheKept
<1> QED  BY <1>1, <1>2 DEF SeenFits, Cache!Fresh

\* An invocation that begins has seen nothing.
LEMMA FreshSeen ==
    ASSUME NEW j, NEW p, NEW st, NEW rs, NEW ds
    PROVE  HasSeen(j, p, Cache!Fresh.at, Cache!Fresh.got, st, rs, ds) /\ Cache!Fresh.at = "begin"
  BY DEF HasSeen, Cache!Fresh

\* The first checkpoint has scanned nothing.
LEMMA NothingScanned == ASSUME NEW ds PROVE ScanFits(Cache!NoPoint, ds)
  BY CacheConstants DEF ScanFits, Cache!NoPoint

\* Which states are which.
LEMMA States ==
    /\ \A s \in Terminal \cup Claimable : s \in Terminal \/ s \in Waiting \/ s = "committing"
    /\ \A s \in Waiting : s \notin Terminal /\ s # "committing"
    /\ "committing" \notin Terminal /\ {"completed", "cancelled", "needs-attention"} \subseteq Terminal
  BY DEF Terminal, Claimable, Waiting

\* A step that leaves the cache alone, and of each row the state and the
\* checkpoint but for an admission or a cancellation, keeps the invariant.
LEMMA CacheQuiet ==
    ASSUME CacheInv, CacheStore!IInv', UNCHANGED <<lane, status, docs, receipts>>,
           DOMAIN seen' = Worker,
           \A j \in CacheJob : RowGoesOn(j), \A v \in Worker : CacheResumes(v)
    PROVE  CacheInv'
<1>1. CacheTypes' /\ GenerationsComplete'
  BY DEF CacheInv, CacheTypes, GenerationsComplete, Cache!GenerationsComplete
<1>2. ASSUME NEW j \in CacheJob PROVE CacheRowFits(j)'
  <2>1. PICK old, new : old = cacheRow[j] /\ new = cacheRow'[j]  OBVIOUS
  <2>2. CASE new = old  BY <2>1, <2>2 DEF CacheInv, CacheRowFits
  <2>3. CASE old = Absent /\ new # Absent /\ new.state = "queued" /\ new.point = Cache!NoPoint
    BY <2>1, <2>3, NothingScanned, States DEF CacheRowFits
  <2>4. CASE /\ old # Absent /\ new # Absent /\ new.point = old.point
             /\ new.state = old.state \/ {old.state, new.state} \subseteq Waiting
    BY <2>1, <2>4, States DEF CacheInv, CacheRowFits
  <2>5. CASE old # Absent /\ new # Absent /\ old.state \in Waiting /\ new.state = "cancelled"
    BY <2>1, <2>5, States DEF CacheRowFits, Waiting
  <2> QED  BY <2>1, <2>2, <2>3, <2>4, <2>5 DEF RowGoesOn
<1>3. ASSUME NEW j \in CacheJob, NEW rs, NEW ds
      PROVE  Forward(j, cacheRow[j], cacheRow'[j], rs, ds)
  BY States DEF RowGoesOn, Forward, NotBefore, Waiting
<1>4. Writers \subseteq Writers'
  BY States DEF Writers, RowGoesOn, Waiting
<1>5. ReceiptsFit'  BY <1>4 DEF CacheInv, ReceiptsFit
<1>6. StatusFits'
  BY States DEF CacheInv, StatusFits, RowGoesOn
<1>7. ASSUME NEW v \in Worker PROVE LateFits(v)' /\ SeenFits(v)'
  <2>1. CASE CacheKept(v) /\ seen'[v] = seen[v]
    <3>1. cacheClaim[v] # Idle => cacheClaim[v].job \in CacheJob
      BY DEF CacheInv, CacheStore!IInv, CacheStore!TypeOK, CacheStore!Claim
    <3> QED  BY <1>3, <2>1, <3>1, LateKept, SeenKept DEF CacheInv
  <2>2. CASE cacheClaim'[v] = Idle /\ seen'[v] = Cache!Fresh
    BY <2>2 DEF LateFits, SeenFits
  <2>3. ASSUME cacheClaim'[v] # Idle, cacheClaim[v] = Idle, seen'[v] = seen[v],
               NEW j \in CacheJob, j = cacheClaim'[v].job, cacheRow[j] # Absent,
               cacheClaim'[v].point = cacheRow[j].point, cacheRow[j].state \notin Terminal
        PROVE  LateFits(v)' /\ SeenFits(v)'
    <3>1. seen'[v] = Cache!Fresh  BY <2>3 DEF CacheInv, SeenFits
    <3>2. SeenFits(v)'  BY <3>1, <2>3, FreshSeen DEF SeenFits
    <3>3. ASSUME cacheRow[j].point.phase \in Writing PROVE cacheRow[j].state = "committing"
      <4>1. cacheRow[j].state \in Terminal \cup Claimable
        BY <2>3 DEF CacheInv, CacheStore!IInv, CacheStore!TypeOK, CacheStore!Row,
           CacheStore!Terminal, CacheStore!Claimable, Terminal, Claimable
      <4>2. cacheRow[j].state \in Waiting => ~(cacheRow[j].point.phase \in Writing)
        BY <2>3 DEF CacheInv, CacheRowFits, ScanFits, Writing
      <4> QED  BY <2>3, <3>3, <4>1, <4>2, States
    <3>4. LateFits(v)'
      <4> SUFFICES ASSUME cacheRow[j].point.phase \in Writing
                   PROVE  PlanLives(j, cacheRow[j].point, cacheRow'[j], receipts', docs')
        BY <2>3 DEF LateFits
      <4>1. cacheRow'[j] # Absent /\ cacheRow'[j].state = "committing"
            /\ cacheRow'[j].point = cacheRow[j].point
        BY <2>3, <3>3, States DEF RowGoesOn
      <4> QED  BY <4>1 DEF PlanLives, NotBefore
    <3> QED  BY <3>2, <3>4
  <2> QED  BY <2>1, <2>2, <2>3 DEF CacheResumes
<1> QED  BY <1>1, <1>2, <1>5, <1>6, <1>7 DEF CacheInv

\* A write of an existing row makes the copies of it stale, and nothing else.
LEMMA CacheStaleResumes ==
    ASSUME CacheInv, NEW j \in CacheJob, NEW v \in Worker, cacheClaim'[v] = Cache!Jobs!Stale(j, v),
           seen'[v] = seen[v]
    PROVE  CacheResumes(v)
  BY CacheStaleKept DEF CacheResumes, CacheInv

\* admit()
LEMMA CacheAdmitSafe == ASSUME CacheInv, NEW j \in CacheJob, Cache!Admit(j) PROVE CacheInv'
<1> DEFINE new == [state |-> "queued", point |-> Cache!NoPoint, result |-> Cache!NoAnswer,
                   cancelRequested |-> FALSE, due |-> 0, lease |-> 0]
<1>1. CacheStore!IInv'
  BY CacheSame, CacheConstants, CacheStore!AdmitSafe DEF CacheStore!AdmitSafe, CacheInv, Cache!Admit
<1>2. /\ cacheRow' = [cacheRow EXCEPT ![j] = new] /\ cacheClaim' = cacheClaim
      /\ cacheRow[j] = Absent /\ UNCHANGED <<lane, status, docs, receipts, seen>>
  BY DEF Cache!Admit, Cache!Rows, Cache!cache, Cache!Jobs!Admit, Cache!Jobs!Exists
<1>3. new \in CacheStore!Row
  BY CacheConstants DEF CacheStore!Row, CacheStore!Claimable, CacheStore!Terminal
<1>4. new # Absent /\ new.state = "queued" /\ new.point = Cache!NoPoint  BY <1>3, CacheConstants
<1> HIDE DEF new
<1>5. DOMAIN cacheRow = CacheJob  BY DEF CacheInv, CacheStore!IInv, CacheStore!TypeOK
<1>6. \A i \in CacheJob : RowGoesOn(i)  BY <1>2, <1>4, <1>5 DEF RowGoesOn
<1>7. \A v \in Worker : CacheResumes(v)  BY <1>2 DEF CacheResumes, CacheKept
<1> QED  BY <1>1, <1>2, <1>6, <1>7, CacheQuiet DEF CacheInv, CacheTypes

\* The states of a row that exists, when it is neither over nor publishing.
LEMMA WaitingRow ==
    ASSUME CacheInv, NEW j \in CacheJob, cacheRow[j] # Absent
    PROVE  /\ cacheRow[j] \in CacheStore!Row
           /\ cacheRow[j].state \in Terminal \cup Claimable
           /\ cacheRow[j].state \notin Terminal /\ cacheRow[j].state # "committing" =>
                 cacheRow[j].state \in Waiting
<1>1. cacheRow[j] \in CacheStore!Row
  BY DEF CacheInv, CacheStore!IInv, CacheStore!TypeOK
<1> QED  BY <1>1, States DEF CacheStore!Row, CacheStore!Terminal, CacheStore!Claimable, Terminal, Claimable

\* cancel(): a publishing job and one that is over are left alone.
LEMMA CacheCancelSafe ==
    ASSUME CacheInv, NEW j \in CacheJob, Cache!Jobs!Cancel(j),
           UNCHANGED <<lane, status, docs, receipts, seen>>
    PROVE  CacheInv'
<1>1. CacheStore!IInv'
  BY CacheSame, CacheConstants, CacheStore!CancelSafe DEF CacheStore!CancelSafe, CacheInv
<1>2. /\ cacheRow[j] # Absent /\ cacheRow[j].state \notin Terminal /\ cacheRow[j].state # "committing"
      /\ \A v \in Worker : cacheClaim'[v] = Cache!Jobs!Stale(j, v)
  BY DEF Cache!Jobs!Cancel, Cache!Jobs!Cancellable, Cache!Jobs!Unfinished, Cache!Jobs!Exists,
     Cache!Jobs!Terminal, Terminal
<1>3. cacheRow[j] \in CacheStore!Row /\ cacheRow[j].state \in Waiting  BY <1>2, WaitingRow
<1>4. DOMAIN cacheRow = CacheJob  BY DEF CacheInv, CacheStore!IInv, CacheStore!TypeOK
<1>5. PICK new :
         /\ cacheRow' = [cacheRow EXCEPT ![j] = new]
         /\ new = [cacheRow[j] EXCEPT !.cancelRequested = TRUE, !.due = cacheRow[j].lease] \/
            new = [cacheRow[j] EXCEPT !.cancelRequested = TRUE, !.state = "cancelled",
                                      !.due = Cache!NotDue]
  BY ZenonT(30) DEF Cache!Jobs!Cancel
<1>6. new.point = cacheRow[j].point /\ new.state \in {cacheRow[j].state, "cancelled"}
  BY <1>3, <1>5 DEF CacheStore!Row
<1>7. new # Absent
  <2>1. /\ cacheRow[j].lease \in 0..Cache!NotDue /\ Cache!NotDue \in 0..Cache!NotDue
        /\ "cancelled" \in CacheStore!Terminal \cup CacheStore!Claimable
    BY <1>3, CacheConstants DEF CacheStore!Row, CacheStore!Terminal
  <2>2. new \in CacheStore!Row  BY <1>3, <1>5, <2>1 DEF CacheStore!Row
  <2> QED  BY <2>2, CacheConstants
<1>8. cacheRow'[j] = new /\ \A i \in CacheJob \ {j} : cacheRow'[i] = cacheRow[i]
  BY <1>4, <1>5
<1>9. \A i \in CacheJob : RowGoesOn(i)  BY <1>2, <1>3, <1>6, <1>7, <1>8 DEF RowGoesOn
<1>10. \A v \in Worker : CacheResumes(v)  BY <1>2, CacheStaleResumes
<1> QED  BY <1>1, <1>9, <1>10, CacheQuiet DEF CacheInv, CacheTypes

\* coalesceAutomatic(): it is a cancellation of an unstarted job.
LEMMA CacheSupersedeSafe == ASSUME CacheInv, NEW j \in CacheJob, Cache!Supersede(j) PROVE CacheInv'
<1>1. /\ cacheRow[j] # Absent /\ cacheRow[j].state = "queued"
      /\ UNCHANGED <<lane, status, docs, receipts, seen>>
  BY DEF Cache!Supersede, Cache!Rows, Cache!cache, Cache!Jobs!Exists
<1>2. Cache!Jobs!Cancellable(j)
  BY <1>1 DEF Cache!Jobs!Cancellable, Cache!Jobs!Unfinished, Cache!Jobs!Exists, Cache!Jobs!Terminal
<1>3. cacheRow' = [cacheRow EXCEPT ![j].cancelRequested = TRUE, ![j].state = "cancelled",
                                   ![j].due = Cache!NotDue]
  <2>1. cacheRow[j] \in CacheStore!Row  BY <1>1, WaitingRow
  <2>2. [cacheRow[j] EXCEPT !.state = "cancelled", !.cancelRequested = TRUE, !.due = Cache!NotDue]
        = [cacheRow[j] EXCEPT !.cancelRequested = TRUE, !.state = "cancelled", !.due = Cache!NotDue]
    BY <2>1 DEF CacheStore!Row
  <2>3. DOMAIN cacheRow = CacheJob  BY DEF CacheInv, CacheStore!IInv, CacheStore!TypeOK
  <2>4. cacheRow' = [cacheRow EXCEPT ![j] = [cacheRow[j] EXCEPT
           !.state = "cancelled", !.cancelRequested = TRUE, !.due = Cache!NotDue]]
    BY <2>3 DEF Cache!Supersede
  <2> QED  BY <2>2, <2>3, <2>4
<1>4. Cache!Jobs!Cancel(j)
  BY <1>1, <1>2, <1>3 DEF Cache!Supersede, Cache!Jobs!Cancel
<1> QED  BY <1>1, <1>4, CacheCancelSafe

\* claim(), of a job to be cancelled.
LEMMA CacheClaimCancelledSafe ==
    ASSUME CacheInv, NEW j \in CacheJob, Cache!ClaimCancelled(j) PROVE CacheInv'
<1>1. CacheStore!IInv'
  BY CacheSame, CacheConstants, CacheStore!ClaimCancelledSafe
  DEF CacheStore!ClaimCancelledSafe, CacheInv, Cache!ClaimCancelled
<1> DEFINE new == [cacheRow[j] EXCEPT !.state = "cancelled", !.due = Cache!NotDue]
<1>2. /\ cacheRow[j] # Absent /\ cacheRow[j].state \notin Terminal /\ cacheRow[j].state # "committing"
      /\ \A v \in Worker : cacheClaim'[v] = Cache!Jobs!Stale(j, v)
      /\ UNCHANGED <<lane, status, docs, receipts, seen>>
  BY DEF Cache!ClaimCancelled, Cache!Rows, Cache!cache, Cache!Jobs!ClaimCancelled, Cache!Jobs!Due,
     Cache!Jobs!Unfinished, Cache!Jobs!Exists, Cache!Jobs!Terminal, Terminal
<1>3. cacheRow[j] \in CacheStore!Row /\ cacheRow[j].state \in Waiting  BY <1>2, WaitingRow
<1>4. new # Absent /\ new.state = "cancelled"
  <2>1. /\ Cache!NotDue \in 0..Cache!NotDue
        /\ "cancelled" \in CacheStore!Terminal \cup CacheStore!Claimable
    BY CacheConstants DEF CacheStore!Terminal
  <2>2. new \in CacheStore!Row  BY <1>3, <2>1 DEF CacheStore!Row
  <2> QED  BY <1>3, <2>2, CacheConstants DEF CacheStore!Row
<1>5. DOMAIN cacheRow = CacheJob  BY DEF CacheInv, CacheStore!IInv, CacheStore!TypeOK
<1>6. cacheRow' = [cacheRow EXCEPT ![j] = new]
  BY <1>5 DEF Cache!ClaimCancelled, Cache!Jobs!ClaimCancelled
<1> HIDE DEF new
<1>7. \A i \in CacheJob : RowGoesOn(i)  BY <1>2, <1>3, <1>4, <1>5, <1>6 DEF RowGoesOn
<1>8. \A v \in Worker : CacheResumes(v)  BY <1>2, CacheStaleResumes
<1> QED  BY <1>1, <1>2, <1>7, <1>8, CacheQuiet DEF CacheInv, CacheTypes

\* claim(): the new worker goes on from the stored checkpoint.
LEMMA CacheClaimSafe ==
    ASSUME CacheInv, NEW w \in Worker, NEW j \in CacheJob, Cache!Jobs!ClaimJob(w, j),
           UNCHANGED <<lane, status, docs, receipts, seen>>
    PROVE  CacheInv'
<1>1. CacheStore!IInv'
  BY CacheSame, CacheConstants, CacheStore!ClaimJobSafe DEF CacheStore!ClaimJobSafe, CacheInv
<1>2. PICK s : s = Cache!Jobs!ClaimedState(j)  OBVIOUS
<1> DEFINE new == [cacheRow[j] EXCEPT !.state = s, !.due = CacheLease, !.lease = CacheLease]
           copy == [job |-> j, state |-> s, point |-> cacheRow[j].point, current |-> TRUE]
<1>3. /\ cacheRow[j] # Absent /\ cacheRow[j].state \notin Terminal /\ cacheClaim[w] = Idle
      /\ cacheClaim' = [v \in Worker |-> IF v = w THEN copy ELSE Cache!Jobs!Stale(j, v)]
  BY <1>2 DEF Cache!Jobs!ClaimJob, Cache!Jobs!Due, Cache!Jobs!Unfinished, Cache!Jobs!Exists,
     Cache!Jobs!Terminal, Terminal
<1>4. /\ s \in {"running", "committing"}
      /\ cacheRow[j].state = "committing" <=> s = "committing"
  BY <1>2 DEF Cache!Jobs!ClaimedState
<1>5. cacheRow[j] \in CacheStore!Row  BY <1>3, WaitingRow
<1>6. new # Absent /\ new.state = s /\ new.point = cacheRow[j].point
  <2>1. /\ CacheLease \in 0..Cache!NotDue /\ CacheLease \in 0..CacheLease
        /\ s \in CacheStore!Terminal \cup CacheStore!Claimable
    BY <1>4, CacheConstants DEF CacheStore!Claimable
  <2>2. new \in CacheStore!Row  BY <1>5, <2>1 DEF CacheStore!Row
  <2> QED  BY <1>5, <2>2, CacheConstants DEF CacheStore!Row
<1>7. copy # Idle
  <2>1. copy \in CacheStore!Claim  BY <1>4, <1>5 DEF CacheStore!Claim, CacheStore!Row
  <2> QED  BY <2>1, CacheConstants
<1>8. copy.job = j /\ copy.point = cacheRow[j].point  OBVIOUS
<1>9. DOMAIN cacheRow = CacheJob  BY DEF CacheInv, CacheStore!IInv, CacheStore!TypeOK
<1>10. cacheRow' = [cacheRow EXCEPT ![j] = new]  BY <1>2, <1>9 DEF Cache!Jobs!ClaimJob
<1> HIDE DEF new, copy
<1>11. \A i \in CacheJob : RowGoesOn(i)
  <2>1. cacheRow[j].state = s \/ {cacheRow[j].state, s} \subseteq Waiting
    <3>1. s = "running" => s \in Waiting  BY DEF Waiting
    <3> QED  BY <1>3, <1>4, <3>1, WaitingRow
  <2> QED  BY <1>3, <1>6, <1>9, <1>10, <2>1 DEF RowGoesOn
<1>12. ASSUME NEW v \in Worker PROVE CacheResumes(v)
  <2>1. CASE v = w  BY <2>1, <1>3, <1>7, <1>8 DEF CacheResumes
  <2>2. CASE v # w  BY <2>2, <1>3, CacheStaleResumes
  <2> QED  BY <2>1, <2>2
<1> QED  BY <1>1, <1>11, <1>12, CacheQuiet DEF CacheInv, CacheTypes

\* An invocation ends without a write.
LEMMA CacheLeaveSafe ==
    ASSUME CacheInv, NEW w \in Worker, Cache!Crash(w) \/ Cache!Superseded(w)
    PROVE  CacheInv'
<1>1. /\ cacheRow' = cacheRow /\ cacheClaim' = [cacheClaim EXCEPT ![w] = Idle]
      /\ seen' = [seen EXCEPT ![w] = Cache!Fresh] /\ cacheClaim[w] # Idle
      /\ UNCHANGED <<lane, status, docs, receipts>>
  BY DEF Cache!Crash, Cache!Superseded, Cache!Jobs!Leave, Cache!Return, Cache!Elsewhere, Cache!cache
<1>2. CacheStore!IInv'
  BY <1>1, CacheConstants, CacheStore!LeaveSafe DEF CacheStore!LeaveSafe, CacheInv
<1>3. \A i \in CacheJob : RowGoesOn(i)  BY <1>1 DEF RowGoesOn
<1>4. \A v \in Worker : CacheResumes(v)
  BY <1>1 DEF CacheResumes, CacheKept, CacheInv, CacheTypes, CacheStore!IInv, CacheStore!TypeOK
<1> QED  BY <1>1, <1>2, <1>3, <1>4, CacheQuiet DEF CacheInv, CacheTypes

\* Time that passes keeps it.
LEMMA CacheTickSafe == ASSUME CacheInv, Cache!Tick PROVE CacheInv'
<1>1. CacheStore!IInv'
  BY CacheSame, CacheConstants, CacheStore!TickSafe DEF CacheStore!TickSafe, CacheInv, Cache!Tick
<1>2. cacheRow' = [j \in CacheJob |-> Cache!Jobs!Later(cacheRow[j])] /\ cacheClaim' = cacheClaim
      /\ UNCHANGED <<lane, status, docs, receipts, seen>>
  BY DEF Cache!Tick, Cache!Jobs!Tick, Cache!cache
<1>3. ASSUME NEW j \in CacheJob PROVE RowGoesOn(j)
  <2>1. CASE cacheRow[j] = Absent  BY <1>2, <2>1 DEF RowGoesOn, Cache!Jobs!Later
  <2>2. CASE cacheRow[j] # Absent
    <3>1. cacheRow[j] \in CacheStore!Row  BY <2>2, WaitingRow
    <3>2. cacheRow'[j] = [cacheRow[j] EXCEPT !.due = Cache!Jobs!Less(@), !.lease = Cache!Jobs!Less(@)]
      BY <1>2, <2>2 DEF Cache!Jobs!Later
    <3>3. cacheRow[j].due \in 0..Cache!NotDue /\ cacheRow[j].lease \in 0..CacheLease
      BY <3>1 DEF CacheStore!Row
    <3>4. /\ Cache!Jobs!Less(cacheRow[j].due) \in 0..Cache!NotDue
          /\ Cache!Jobs!Less(cacheRow[j].lease) \in 0..CacheLease
      BY <3>3, CacheConstants DEF Cache!Jobs!Less
    <3>5. cacheRow'[j] \in CacheStore!Row  BY <3>1, <3>2, <3>4 DEF CacheStore!Row
    <3>6. cacheRow'[j].point = cacheRow[j].point /\ cacheRow'[j].state = cacheRow[j].state
      BY <3>1, <3>2 DEF CacheStore!Row
    <3> QED  BY <2>2, <3>5, <3>6, CacheConstants DEF RowGoesOn
  <2> QED  BY <2>1, <2>2
<1>4. \A v \in Worker : CacheResumes(v)  BY <1>2 DEF CacheResumes, CacheKept
<1> QED  BY <1>1, <1>2, <1>3, <1>4, CacheQuiet DEF CacheInv, CacheTypes

\* What the dispatcher has found runnable is not part of it.
LEMMA CacheStutterSafe ==
    ASSUME CacheInv, UNCHANGED <<cacheRow, cacheClaim, lane, status, docs, receipts, seen>>
    PROVE  CacheInv'
<1>1. CacheStore!IInv'
  BY DEF CacheInv, CacheStore!IInv, CacheStore!TypeOK, CacheStore!OneWriter, CacheStore!Holds,
     CacheStore!Exists
<1>2. \A i \in CacheJob : RowGoesOn(i)  BY DEF RowGoesOn
<1>3. \A v \in Worker : CacheResumes(v)  BY DEF CacheResumes, CacheKept
<1> QED  BY <1>1, <1>2, <1>3, CacheQuiet DEF CacheInv, CacheTypes

-----------------------------------------------------------------------------
(* Cache jobs: checkpoints *)

\* A checkpoint that may follow the one its worker holds.
MayFollow(j, old, p, state, new, st, rs, ds) ==
    \/ state = "retry" /\ old = "running" /\ ScanFits(new, ds)
    \/ /\ state = "committing" /\ CommitFits(j, new, st, rs, ds)
       /\ old = "committing" =>
             /\ new.plan = p.plan /\ NotBefore(new.phase, p.phase)
             /\ p.phase # "begin" => new.rev = p.rev
    \/ /\ state = "completed"
       /\ old = "committing" => CarriedOut(j, p.plan, rs, ds) /\ st.state = "ready"

\* Such a checkpoint keeps the invariant.
LEMMA CacheSaveSafe ==
    ASSUME CacheInv, NEW w \in Worker, NEW point \in Cache!CachePoint, NEW wait \in 0..CacheWait,
           NEW state \in CacheStates,
           SavesCache(w, point, state, wait),
           seen' = [seen EXCEPT ![w] = Cache!Fresh], UNCHANGED <<lane, status, docs, receipts>>,
           state \notin Terminal /\ point # Cache!NoPoint => lane = cacheClaim[w].job,
           MayFollow(cacheClaim[w].job, cacheClaim[w].state, cacheClaim[w].point, state, point,
                   status, receipts, docs)
    PROVE  CacheInv'
<1>1. PICK j : j = cacheClaim[w].job  OBVIOUS
<1>2. /\ CacheStore!IInv'
      /\ cacheClaim[w] # Idle /\ cacheClaim[w].current
      /\ cacheClaim[w].state \in {"running", "committing"}
      /\ j \in CacheJob /\ cacheRow[j] # Absent
      /\ cacheRow[j].state = cacheClaim[w].state /\ cacheRow[j].point = cacheClaim[w].point
      /\ cacheRow'[j] # Absent /\ cacheRow'[j].state = state /\ cacheRow'[j].point = point
      /\ \A i \in CacheJob \ {j} : cacheRow'[i] = cacheRow[i]
      /\ \A v \in Worker \ {w} : CacheKept(v)
      /\ cacheClaim'[w] = Idle
  <2>1. CacheStore!IInv  BY DEF CacheInv
  <2> HIDE DEF CacheInv
  <2> QED  BY <1>1, <2>1, CacheCheckpoint
<1>3. PICK old, p : old = cacheClaim[w].state /\ p = cacheClaim[w].point  OBVIOUS
<1>4. MayFollow(j, old, p, state, point, status, receipts, docs)  BY <1>1, <1>3
<1>5. CacheTypes' /\ GenerationsComplete'
  BY DEF CacheInv, CacheTypes, GenerationsComplete, Cache!GenerationsComplete
<1>6. CacheRowFits(j)'
  <2>1. "committing" \notin Terminal /\ "retry" \notin Terminal /\ "completed" \in Terminal
        /\ "committing" \notin Waiting /\ "completed" \notin Waiting
    BY DEF Terminal, Waiting
  <2>2. state # "needs-attention"  BY <1>4 DEF MayFollow
  <2>3. state \in Waiting => ScanFits(point, docs)  BY <1>4, <2>1 DEF MayFollow
  <2>4. state = "committing" => CommitFits(j, point, status, receipts, docs)
    BY <1>4 DEF MayFollow
  <2> QED  BY <1>1, <1>2, <2>1, <2>2, <2>3, <2>4 DEF CacheRowFits
<1>7. ASSUME NEW i \in CacheJob \ {j} PROVE CacheRowFits(i)'
  BY <1>2, <1>7 DEF CacheInv, CacheRowFits
<1>8. ReceiptsFit'
  <2>1. Writers \subseteq Writers'  BY <1>2, <1>3, <1>4 DEF Writers, MayFollow
  <2> QED  BY <2>1 DEF CacheInv, ReceiptsFit
<1>9. StatusFits'
  BY <1>2, <1>3, <1>4 DEF CacheInv, StatusFits, MayFollow
<1>10. ASSUME NEW i \in CacheJob PROVE Forward(i, cacheRow[i], cacheRow'[i], receipts', docs')
  <2>1. CASE i = j  BY <1>2, <1>3, <1>4, <2>1 DEF Forward, MayFollow
  <2>2. CASE i # j  BY <1>2, <2>2 DEF Forward, NotBefore
  <2> QED  BY <2>1, <2>2
<1>11. ASSUME NEW v \in Worker PROVE LateFits(v)' /\ SeenFits(v)'
  <2>1. CASE v = w  BY <1>2, <2>1 DEF LateFits, SeenFits, CacheInv, CacheTypes
  <2>2. CASE v # w
    <3>1. CacheKept(v) /\ seen'[v] = seen[v]  BY <1>2, <2>2
    <3>2. cacheClaim[v] # Idle => cacheClaim[v].job \in CacheJob
      BY DEF CacheInv, CacheStore!IInv, CacheStore!TypeOK, CacheStore!Claim
    <3> QED  BY <1>10, <3>1, <3>2, LateKept, SeenKept DEF CacheInv
  <2> QED  BY <2>1, <2>2
<1> QED  BY <1>2, <1>5, <1>6, <1>7, <1>8, <1>9, <1>11 DEF CacheInv, CacheTypes

\* Whoever writes has a current claim.
LEMMA SaverHolds ==
    ASSUME NEW w, NEW point, NEW state, NEW wait, SavesCache(w, point, state, wait)
    PROVE  cacheClaim[w] # Idle /\ cacheClaim[w].current
  BY DEF SavesCache, Cache!Jobs!Checkpoint, Cache!Jobs!CanWrite, Cache!Jobs!Holds

\* What the holder of a current claim can rely on: before the plan it may only
\* have scanned, with the plan it carries it out, and the lane is its own as
\* soon as it has done anything.
LEMMA HolderKnows ==
    ASSUME CacheInv, NEW w \in Worker, cacheClaim[w] # Idle, cacheClaim[w].current,
           NEW j, j = cacheClaim[w].job, NEW p, p = cacheClaim[w].point
    PROVE  /\ j \in CacheJob /\ p \in Cache!CachePoint
           /\ cacheRow[j] # Absent /\ cacheRow[j].state = cacheClaim[w].state /\ cacheRow[j].point = p
           /\ \/ /\ cacheClaim[w].state = "running" /\ ScanFits(p, docs)
                 /\ \A step, k : <<j, step, k>> \notin receipts
              \/ cacheClaim[w].state = "committing" /\ CommitFits(j, p, status, receipts, docs)
           /\ p # Cache!NoPoint \/ seen[w].at # "begin" => lane = j
           /\ HasSeen(j, p, seen[w].at, seen[w].got, status, receipts, docs)
<1>1. cacheClaim[w] \in CacheStore!Claim
  BY DEF CacheInv, CacheStore!IInv, CacheStore!TypeOK
<1>2. /\ j \in CacheJob /\ p \in Cache!CachePoint /\ cacheClaim[w].state \in {"running", "committing"}
  BY <1>1 DEF CacheStore!Claim
<1>3. cacheRow[j] # Absent /\ cacheRow[j].state = cacheClaim[w].state /\ cacheRow[j].point = p
  BY DEF CacheInv, CacheStore!IInv, CacheStore!OneWriter, CacheStore!Holds
<1>4. /\ cacheRow[j].state = "running" => ScanFits(p, docs)
      /\ cacheRow[j].state = "committing" => CommitFits(j, p, status, receipts, docs)
      /\ p # Cache!NoPoint => lane = j
  <2>1. "running" \in Waiting /\ "running" \notin Terminal /\ "committing" \notin Terminal
    BY DEF Waiting, Terminal
  <2> QED  BY <1>2, <1>3, <2>1 DEF CacheInv, CacheRowFits
<1>5. cacheRow[j].state = "running" => \A step, k : <<j, step, k>> \notin receipts
  BY <1>2 DEF CacheInv, ReceiptsFit, Writers
<1>6. /\ seen[w].at # "begin" => lane = j
      /\ HasSeen(j, p, seen[w].at, seen[w].got, status, receipts, docs)
  BY DEF CacheInv, SeenFits
<1> QED  BY <1>2, <1>3, <1>4, <1>5, <1>6

\* One page more of the scan.
LEMMA SavePageSafe == ASSUME CacheInv, NEW w \in Worker, Cache!SavePage(w) PROVE CacheInv'
<1>1. PICK j, p : j = cacheClaim[w].job /\ p = cacheClaim[w].point  OBVIOUS
<1> DEFINE copies == Append(p.copies, seen[w].got)
           phase == IF Len(copies) < Dates THEN "scan" ELSE Cache!AfterScan(j)
           new == [p EXCEPT !.copies = copies, !.phase = phase]
<1>2. /\ SavesCache(w, new, "retry", 1) /\ p.phase = "scan" /\ seen[w].at = "ready"
      /\ UNCHANGED <<lane, status, docs, receipts>> /\ seen' = [seen EXCEPT ![w] = Cache!Fresh]
  BY <1>1 DEF Cache!SavePage, Cache!Save, SavesCache, Cache!In, Cache!At, Cache!Saved, Cache!JobOf,
     Cache!Return, Cache!Elsewhere, Cache!cache
<1>3. /\ p \in Cache!CachePoint /\ cacheClaim[w].state = "running" /\ ScanFits(p, docs) /\ lane = j
      /\ seen[w].got = docs[Len(p.copies) + 1]
  BY <1>1, <1>2, SaverHolds, HolderKnows DEF CommitFits, Writing, HasSeen
<1>4. p.copies \in Seq(Cache!Document) /\ Len(p.copies) \in Nat /\ Len(p.copies) < Dates
  BY <1>2, <1>3 DEF ScanFits, Cache!CachePoint
<1>5. /\ seen[w].got \in Cache!Document /\ copies \in Seq(Cache!Document)
      /\ Len(copies) = Len(p.copies) + 1
      /\ \A k \in 1..Len(copies) : copies[k] = docs[k]
  <2>1. seen[w].got \in Cache!Document
    BY <1>3, <1>4, CacheConstants DEF CacheInv, CacheTypes
  <2> QED  BY <1>3, <1>4, <2>1 DEF ScanFits
<1>6. phase \in {"scan", "capture", "compute", "plan"} /\ (phase # "scan" => ~(Len(copies) < Dates))
      /\ (phase = "scan" => Len(copies) < Dates)
  BY DEF Cache!AfterScan
<1> HIDE DEF copies, phase
<1>7. /\ new \in Cache!CachePoint /\ new.phase = phase /\ new.copies = copies
  BY <1>3, <1>5, <1>6 DEF Cache!CachePoint, Cache!Phase
<1>8. ScanFits(new, docs)
  BY <1>4, <1>5, <1>6, <1>7, CacheConstants DEF ScanFits
<1> HIDE DEF new
<1>9. MayFollow(j, cacheClaim[w].state, p, "retry", new, status, receipts, docs)
  BY <1>3, <1>8 DEF MayFollow
<1>10. 1 \in 0..CacheWait /\ "retry" \in CacheStates  BY CacheConstants DEF CacheStates
<1> QED  BY <1>1, <1>2, <1>3, <1>7, <1>9, <1>10, CacheSaveSafe

\* The bars of the provider.
LEMMA SaveBarsSafe == ASSUME CacheInv, NEW w \in Worker, Cache!SaveBars(w) PROVE CacheInv'
<1>1. PICK j, p : j = cacheClaim[w].job /\ p = cacheClaim[w].point  OBVIOUS
<1>2. PICK bars \in Bars : SavesCache(w, [p EXCEPT !.bars = bars, !.phase = "plan"], "retry", 1)
  BY <1>1 DEF Cache!SaveBars, Cache!Save, SavesCache, Cache!Saved
<1> DEFINE new == [p EXCEPT !.bars = bars, !.phase = "plan"]
<1>3. /\ p.phase = "capture" /\ seen[w].at = "work"
      /\ UNCHANGED <<lane, status, docs, receipts>> /\ seen' = [seen EXCEPT ![w] = Cache!Fresh]
  BY <1>1 DEF Cache!SaveBars, Cache!In, Cache!At, Cache!Saved, Cache!Return, Cache!Elsewhere, Cache!cache
<1>4. p \in Cache!CachePoint /\ cacheClaim[w].state = "running" /\ ScanFits(p, docs) /\ lane = j
  BY <1>1, <1>2, <1>3, SaverHolds, HolderKnows DEF CommitFits, Writing
<1>5. bars \subseteq 1..Dates  BY CacheAssumption
<1>6. new \in Cache!CachePoint /\ new.phase = "plan" /\ new.copies = p.copies
  BY <1>4, <1>5 DEF Cache!CachePoint, Cache!Phase
<1>7. ScanFits(new, docs)  BY <1>3, <1>4, <1>6 DEF ScanFits
<1> HIDE DEF new
<1>8. MayFollow(j, cacheClaim[w].state, p, "retry", new, status, receipts, docs)
  BY <1>4, <1>7 DEF MayFollow
<1>9. 1 \in 0..CacheWait /\ "retry" \in CacheStates  BY CacheConstants DEF CacheStates
<1>10. SavesCache(w, new, "retry", 1)  BY <1>2 DEF new
<1> QED  BY <1>1, <1>3, <1>4, <1>6, <1>8, <1>9, <1>10, CacheSaveSafe

\* A report ends its job, and has written nothing.
LEMMA ReportSafe == ASSUME CacheInv, NEW w \in Worker, Cache!Report(w) PROVE CacheInv'
<1>1. PICK j, p : j = cacheClaim[w].job /\ p = cacheClaim[w].point  OBVIOUS
<1>2. /\ SavesCache(w, Cache!NoPoint, "completed", 0) /\ p.phase = "compute" /\ seen[w].at = "work"
      /\ UNCHANGED <<lane, status, docs, receipts>> /\ seen' = [seen EXCEPT ![w] = Cache!Fresh]
  BY <1>1 DEF Cache!Report, Cache!Complete, SavesCache, Cache!In, Cache!At, Cache!Saved,
     Cache!Return, Cache!Elsewhere, Cache!cache
<1>3. cacheClaim[w].state = "running" /\ lane = j
  BY <1>1, <1>2, SaverHolds, HolderKnows DEF CommitFits, Writing
<1>4. MayFollow(j, cacheClaim[w].state, p, "completed", Cache!NoPoint, status, receipts, docs)
  BY <1>3 DEF MayFollow
<1>5. 0 \in 0..CacheWait /\ "completed" \in CacheStates
  BY CacheConstants DEF CacheStates, Terminal
<1> QED  BY <1>1, <1>2, <1>3, <1>4, <1>5, CacheConstants, CacheSaveSafe

\* The sealed plan: from here on the job cannot be cancelled.
LEMMA SavePlanSafe == ASSUME CacheInv, NEW w \in Worker, Cache!SavePlan(w) PROVE CacheInv'
<1>1. PICK j, p : j = cacheClaim[w].job /\ p = cacheClaim[w].point  OBVIOUS
<1>2. PICK plan : plan = seen[w].got  OBVIOUS
<1> DEFINE new == [Cache!NoPoint EXCEPT !.phase = "begin", !.plan = plan]
<1>3. /\ SavesCache(w, new, "committing", 1) /\ p.phase = "plan" /\ seen[w].at = "ready"
      /\ UNCHANGED <<lane, status, docs, receipts>> /\ seen' = [seen EXCEPT ![w] = Cache!Fresh]
  BY <1>1, <1>2 DEF Cache!SavePlan, Cache!SaveCommitting, SavesCache, Cache!In, Cache!At, Cache!Saved,
     Cache!Return, Cache!Elsewhere, Cache!cache
<1>4. /\ cacheClaim[w].state = "running" /\ lane = j
      /\ \A step, k : <<j, step, k>> \notin receipts
      /\ PlanFits(j, plan, receipts, docs) /\ status.state = "ready" /\ status.rev = plan.begin
  BY <1>1, <1>2, <1>3, SaverHolds, HolderKnows DEF CommitFits, Writing, HasSeen
<1>5. plan \in Cache!Plan  BY <1>4 DEF PlanFits
<1>6. new \in Cache!CachePoint /\ new.phase = "begin" /\ new.plan = plan
  BY <1>5, CacheConstants DEF Cache!CachePoint, Cache!Phase, Cache!NoPoint
<1> HIDE DEF new
<1>7. CommitFits(j, new, status, receipts, docs)
  BY <1>4, <1>6 DEF CommitFits, Writing, Begun, Published
<1>8. MayFollow(j, cacheClaim[w].state, p, "committing", new, status, receipts, docs)
  BY <1>4, <1>7 DEF MayFollow
<1>9. 1 \in 0..CacheWait /\ "committing" \in CacheStates  BY CacheConstants DEF CacheStates
<1> QED  BY <1>1, <1>3, <1>4, <1>6, <1>8, <1>9, CacheSaveSafe

\* The plan begun.
LEMMA SaveBegunSafe == ASSUME CacheInv, NEW w \in Worker, Cache!SaveBegun(w) PROVE CacheInv'
<1>1. PICK j, p : j = cacheClaim[w].job /\ p = cacheClaim[w].point  OBVIOUS
<1>2. PICK rev : rev = seen[w].got  OBVIOUS
<1> DEFINE new == [p EXCEPT !.phase = "apply", !.rev = rev]
<1>3. /\ SavesCache(w, new, "committing", 1) /\ p.phase = "begin" /\ seen[w].at = "ready"
      /\ UNCHANGED <<lane, status, docs, receipts>> /\ seen' = [seen EXCEPT ![w] = Cache!Fresh]
  BY <1>1, <1>2 DEF Cache!SaveBegun, Cache!SaveCommitting, SavesCache, Cache!In, Cache!At, Cache!Saved,
     Cache!Return, Cache!Elsewhere, Cache!cache
<1>4. /\ p \in Cache!CachePoint /\ cacheClaim[w].state = "committing" /\ lane = j
      /\ CommitFits(j, p, status, receipts, docs)
      /\ Begun(j, receipts) /\ rev = p.plan.begin + 1
  BY <1>1, <1>2, <1>3, SaverHolds, HolderKnows DEF ScanFits, HasSeen
<1>5. p.plan \in Cache!Plan /\ rev \in Nat
  BY <1>4 DEF CommitFits, PlanFits, Cache!Plan
<1>6. new \in Cache!CachePoint /\ new.phase = "apply" /\ new.plan = p.plan /\ new.rev = rev
  BY <1>4, <1>5 DEF Cache!CachePoint, Cache!Phase
<1> HIDE DEF new
<1>7. CommitFits(j, new, status, receipts, docs)
  BY <1>3, <1>4, <1>6 DEF CommitFits, Writing
<1>8. MayFollow(j, cacheClaim[w].state, p, "committing", new, status, receipts, docs)
  BY <1>3, <1>6, <1>7 DEF MayFollow, NotBefore
<1>9. 1 \in 0..CacheWait /\ "committing" \in CacheStates  BY CacheConstants DEF CacheStates
<1> QED  BY <1>1, <1>3, <1>4, <1>6, <1>8, <1>9, CacheSaveSafe

\* The plan applied: every change of the batch has reached its row.
LEMMA SaveAppliedSafe == ASSUME CacheInv, NEW w \in Worker, Cache!SaveApplied(w) PROVE CacheInv'
<1>1. PICK j, p : j = cacheClaim[w].job /\ p = cacheClaim[w].point  OBVIOUS
<1> DEFINE new == [p EXCEPT !.phase = "finish"]
<1>2. /\ SavesCache(w, new, "committing", 1) /\ p.phase = "apply" /\ seen[w].at = "work"
      /\ (IF seen[w].got = None THEN {} ELSE seen[w].got) = p.plan.changes
      /\ UNCHANGED <<lane, status, docs, receipts>> /\ seen' = [seen EXCEPT ![w] = Cache!Fresh]
  BY <1>1 DEF Cache!SaveApplied, Cache!SaveCommitting, SavesCache, Cache!In, Cache!At, Cache!Saved,
     Cache!BatchDone, Cache!Applied, Cache!Return, Cache!Elsewhere, Cache!cache
<1>3. /\ p \in Cache!CachePoint /\ cacheClaim[w].state = "committing" /\ lane = j
      /\ CommitFits(j, p, status, receipts, docs)
      /\ \A c \in p.plan.changes : Settled(j, c, receipts, docs)
  <2>1. HasSeen(j, p, seen[w].at, seen[w].got, status, receipts, docs)
    BY <1>1, <1>2, SaverHolds, HolderKnows
  <2>2. \A c \in p.plan.changes : Settled(j, c, receipts, docs)  BY <1>2, <2>1 DEF HasSeen
  <2> QED  BY <1>1, <1>2, <2>2, SaverHolds, HolderKnows DEF ScanFits
<1>4. new \in Cache!CachePoint /\ new.phase = "finish" /\ new.plan = p.plan /\ new.rev = p.rev
  BY <1>3 DEF Cache!CachePoint, Cache!Phase
<1> HIDE DEF new
<1>5. CommitFits(j, new, status, receipts, docs)
  BY <1>2, <1>3, <1>4 DEF CommitFits, Writing
<1>6. MayFollow(j, cacheClaim[w].state, p, "committing", new, status, receipts, docs)
  BY <1>3, <1>4, <1>5 DEF MayFollow, NotBefore
<1>7. 1 \in 0..CacheWait /\ "committing" \in CacheStates  BY CacheConstants DEF CacheStates
<1> QED  BY <1>1, <1>2, <1>3, <1>4, <1>6, <1>7, CacheSaveSafe

\* The plan carried out: its generation is published.
LEMMA SaveFinishedSafe == ASSUME CacheInv, NEW w \in Worker, Cache!SaveFinished(w) PROVE CacheInv'
<1>1. PICK j, p : j = cacheClaim[w].job /\ p = cacheClaim[w].point  OBVIOUS
<1>2. /\ SavesCache(w, Cache!NoPoint, "completed", 0) /\ p.phase = "finish" /\ seen[w].at = "ready"
      /\ UNCHANGED <<lane, status, docs, receipts>> /\ seen' = [seen EXCEPT ![w] = Cache!Fresh]
  BY <1>1 DEF Cache!SaveFinished, Cache!Complete, SavesCache, Cache!In, Cache!At, Cache!Saved,
     Cache!Return, Cache!Elsewhere, Cache!cache
<1>3. /\ CommitFits(j, p, status, receipts, docs) /\ Published(j, receipts) /\ lane = j
  BY <1>1, <1>2, SaverHolds, HolderKnows DEF ScanFits, HasSeen
<1>4. CarriedOut(j, p.plan, receipts, docs) /\ status.state = "ready"
  BY <1>2, <1>3 DEF CommitFits, PlanFits, CarriedOut
<1>5. MayFollow(j, cacheClaim[w].state, p, "completed", Cache!NoPoint, status, receipts, docs)
  BY <1>4 DEF MayFollow
<1>6. 0 \in 0..CacheWait /\ "completed" \in CacheStates
  BY CacheConstants DEF CacheStates, Terminal
<1> QED  BY <1>1, <1>2, <1>3, <1>5, <1>6, CacheConstants, CacheSaveSafe

\* The same checkpoint once more, for a later try.
LEMMA SaveAgainSafe ==
    ASSUME CacheInv, NEW w \in Worker,
           NEW state, state = IF cacheClaim[w].state = "committing" THEN "committing" ELSE "retry",
           SavesCache(w, cacheClaim[w].point, state, CacheWait),
           seen' = [seen EXCEPT ![w] = Cache!Fresh], UNCHANGED <<lane, status, docs, receipts>>
    PROVE  CacheInv'
<1>1. PICK j, p : j = cacheClaim[w].job /\ p = cacheClaim[w].point  OBVIOUS
<1>2. /\ p \in Cache!CachePoint /\ (p # Cache!NoPoint => lane = j)
      /\ \/ cacheClaim[w].state = "running" /\ ScanFits(p, docs)
         \/ cacheClaim[w].state = "committing" /\ CommitFits(j, p, status, receipts, docs)
  BY <1>1, SaverHolds, HolderKnows
<1>3. MayFollow(j, cacheClaim[w].state, p, state, p, status, receipts, docs)
  BY <1>2 DEF MayFollow, NotBefore
<1>4. CacheWait \in 0..CacheWait /\ state \in CacheStates  BY CacheConstants DEF CacheStates
<1> QED  BY <1>1, <1>2, <1>3, <1>4, CacheSaveSafe

\* A phase that failed is tried again from the same checkpoint.
LEMMA CachePhaseFailsSafe == ASSUME CacheInv, NEW w \in Worker, Cache!PhaseFails(w) PROVE CacheInv'
<1>1. PICK state : state = IF cacheClaim[w].state = "committing" THEN "committing" ELSE "retry"
  OBVIOUS
<1>2. /\ SavesCache(w, cacheClaim[w].point, state, CacheWait)
      /\ UNCHANGED <<lane, status, docs, receipts>> /\ seen' = [seen EXCEPT ![w] = Cache!Fresh]
  BY <1>1 DEF Cache!PhaseFails, SavesCache, Cache!Saved, Cache!Return, Cache!cache
<1> QED  BY <1>1, <1>2, SaveAgainSafe

\* The holder of a current claim meets no conflict.
LEMMA SaveConflictSafe == ASSUME CacheInv, NEW w \in Worker, Cache!SaveConflict(w) PROVE CacheInv'
<1>1. cacheClaim[w] # Idle /\ cacheClaim[w].current /\ seen[w].at = "conflict"
  BY DEF Cache!SaveConflict, Cache!At, Cache!Jobs!Checkpoint, Cache!Jobs!CanWrite, Cache!Jobs!Holds
<1> QED  BY <1>1, HolderKnows DEF HasSeen

-----------------------------------------------------------------------------
(* Cache jobs: the lane, the pages and the plan *)

\* A lane that is taken over was free, or belonged to a job that is over.
LEMMA LaneKept ==
    ASSUME CacheInv, NEW j, lane' = lane \/ (lane' = j /\ Cache!LaneFree(j)),
           NEW i \in CacheJob, lane = i, cacheRow[i] # Absent, cacheRow[i].state \notin Terminal
    PROVE  lane' = i
  BY CacheConstants DEF Cache!LaneFree, Cache!LaneOver, Terminal

\* A step in which an invocation only reads, or takes the lane.
LEMMA CacheSees ==
    ASSUME CacheInv, NEW w \in Worker, NEW x, NEW j, j = cacheClaim[w].job, cacheClaim[w] # Idle,
           UNCHANGED <<cacheRow, cacheClaim, status, docs, receipts>>,
           seen' = [seen EXCEPT ![w] = x], lane' = lane \/ (lane' = j /\ Cache!LaneFree(j)),
           cacheClaim[w].current =>
              /\ x.at # "begin" => lane' = j
              /\ HasSeen(j, cacheClaim[w].point, x.at, x.got, status, receipts, docs)
    PROVE  CacheInv'
<1>1. CacheStore!IInv'
  BY DEF CacheInv, CacheStore!IInv, CacheStore!TypeOK, CacheStore!OneWriter, CacheStore!Holds,
     CacheStore!Exists
<1>2. CacheTypes' /\ GenerationsComplete' /\ ReceiptsFit' /\ StatusFits'
  BY DEF CacheInv, CacheTypes, GenerationsComplete, Cache!GenerationsComplete, ReceiptsFit, Writers,
     StatusFits
<1>3. ASSUME NEW i \in CacheJob PROVE CacheRowFits(i)'
  <2>1. CacheRowFits(i)  BY DEF CacheInv
  <2>2. cacheRow[i] # Absent /\ cacheRow[i].state \notin Terminal /\ cacheRow[i].point # Cache!NoPoint
           => lane' = i
    <3>1. cacheRow[i] # Absent /\ cacheRow[i].state \notin Terminal
             /\ cacheRow[i].point # Cache!NoPoint => lane = i
      BY <2>1 DEF CacheRowFits
    <3> QED  BY <3>1, LaneKept
  <2> QED  BY <2>1, <2>2 DEF CacheRowFits
<1>4. ASSUME NEW v \in Worker PROVE LateFits(v)' /\ SeenFits(v)'
  <2>1. LateFits(v)'  BY DEF CacheInv, LateFits
  <2>2. CASE v = w  BY <2>1, <2>2 DEF CacheInv, CacheTypes, SeenFits
  <2>3. CASE v # w
    <3>1. seen'[v] = seen[v] /\ SeenFits(v)  BY <2>3 DEF CacheInv
    <3>2. ASSUME cacheClaim[v] # Idle, cacheClaim[v].current, seen[v].at # "begin"
          PROVE  lane' = cacheClaim[v].job
      <4>1. PICK i : i = cacheClaim[v].job  OBVIOUS
      <4>2. /\ i \in CacheJob /\ cacheRow[i] # Absent /\ lane = i
            /\ cacheRow[i].state \in {"running", "committing"}
        BY <3>2, <4>1, HolderKnows
      <4>3. cacheRow[i].state \notin Terminal  BY <4>2 DEF Terminal
      <4> QED  BY <4>1, <4>2, <4>3, LaneKept
    <3> QED  BY <2>1, <3>1, <3>2 DEF SeenFits
  <2> QED  BY <2>2, <2>3
<1> QED  BY <1>1, <1>2, <1>3, <1>4 DEF CacheInv

\* The lane first.
LEMMA AcquireSafe == ASSUME CacheInv, NEW w \in Worker, Cache!Acquire(w) PROVE CacheInv'
<1>1. PICK j, p : j = cacheClaim[w].job /\ p = cacheClaim[w].point  OBVIOUS
<1>2. cacheClaim[w] # Idle /\ UNCHANGED <<status, docs, receipts>>
  BY DEF Cache!Acquire, Cache!At, Cache!cache
<1>3. CASE Cache!LaneFree(j)
  <2>1. PICK x : x = [at |-> "work", got |-> None]  OBVIOUS
  <2>2. lane' = j /\ seen' = [seen EXCEPT ![w] = x] /\ UNCHANGED <<cacheRow, cacheClaim>>
    BY <1>1, <1>3, <2>1 DEF Cache!Acquire, Cache!JobOf, Cache!Got
  <2>3. HasSeen(j, p, x.at, x.got, status, receipts, docs)  BY <2>1 DEF HasSeen
  <2> QED  BY <1>1, <1>2, <1>3, <2>2, <2>3, CacheSees
<1>4. CASE ~Cache!LaneFree(j)
  <2>1. /\ SavesCache(w, p, "retry", CacheWait) /\ lane' = lane
        /\ seen' = [seen EXCEPT ![w] = Cache!Fresh]
    BY <1>1, <1>4 DEF Cache!Acquire, Cache!JobOf, Cache!Saved, Cache!Return, SavesCache
  <2>2. cacheClaim[w].state # "committing"
    <3> SUFFICES ASSUME cacheClaim[w].state = "committing" PROVE FALSE
      OBVIOUS
    <3>1. p.phase \in Writing /\ (p # Cache!NoPoint => lane = j)
      BY <1>1, <2>1, SaverHolds, HolderKnows DEF CommitFits
    <3>2. p # Cache!NoPoint  BY <3>1 DEF Writing, Cache!NoPoint
    <3> QED  BY <1>4, <3>1, <3>2 DEF Cache!LaneFree
  <2> QED  BY <1>1, <1>2, <2>1, <2>2, SaveAgainSafe
<1> QED  BY <1>3, <1>4

\* The page read is the page there is: no job but the owner of the lane writes.
LEMMA ReadPageSafe == ASSUME CacheInv, NEW w \in Worker, Cache!ReadPage(w) PROVE CacheInv'
<1>1. PICK j, p : j = cacheClaim[w].job /\ p = cacheClaim[w].point  OBVIOUS
<1>2. PICK x : x = [at |-> "ready", got |-> docs[Len(p.copies) + 1]]  OBVIOUS
<1>3. /\ cacheClaim[w] # Idle /\ p.phase = "scan" /\ seen[w].at = "work"
      /\ UNCHANGED <<cacheRow, cacheClaim, lane, status, docs, receipts>>
      /\ seen' = [seen EXCEPT ![w] = x]
  BY <1>1, <1>2 DEF Cache!ReadPage, Cache!In, Cache!At, Cache!Saved, Cache!Got, Cache!Elsewhere, Cache!cache
<1>4. HasSeen(j, p, x.at, x.got, status, receipts, docs)  BY <1>2, <1>3 DEF HasSeen
<1>5. cacheClaim[w].current => lane = j  BY <1>1, <1>3, HolderKnows
<1> QED  BY <1>1, <1>3, <1>4, <1>5, CacheSees

\* A change of a document by its revision, which takes it to a value.
LEMMA ChangeIs ==
    ASSUME NEW k \in 1..Cache!Latest, NEW d \in Cache!Document, NEW val \in Cache!Price,
           val = None => d.val # None
    PROVE  LET c == Cache!Change(k, d, val)
           IN  /\ c \in Cache!Mutation /\ c.doc = k /\ c.val = val
               /\ c.op = "create" => c.val # None
               /\ IF c.op = "create" THEN d.val = None ELSE d.val # None /\ d.rev = c.rev
<1>1. d.rev \in Nat /\ d.val \in Cache!Price  BY DEF Cache!Document
<1>2. CASE val = None  BY <1>1, <1>2 DEF Cache!Change, Cache!Mutation
<1>3. CASE val # None /\ d.val # None  BY <1>1, <1>3 DEF Cache!Change, Cache!Mutation, Cache!Live
<1>4. CASE val # None /\ d.val = None  BY <1>1, <1>4 DEF Cache!Change, Cache!Mutation, Cache!Live
<1> QED  BY <1>2, <1>3, <1>4

\* The plan of a scan that is still true takes the cache to a complete
\* generation, and each of its changes can be made.
LEMMA PlanForFits ==
    ASSUME CacheInv, NEW j \in CacheJob, NEW p \in Cache!CachePoint, p.phase = "plan", ScanFits(p, docs),
           \A step, k : <<j, step, k>> \notin receipts
    PROVE  /\ PlanFits(j, Cache!PlanFor(j, p, Cache!Current), receipts, docs)
           /\ Cache!PlanFor(j, p, Cache!Current).begin = status.rev
<1>1. /\ Dates \in Nat \ {0} /\ Cache!Latest = Dates + 1 /\ j # None
      /\ docs \in [1..Cache!Latest -> Cache!Document] /\ status.rev \in Nat /\ status.latest \in Cache!Price
      /\ p.bars \subseteq 1..Dates /\ \A k \in 1..Dates : p.copies[k] = docs[k]
  BY CacheConstants DEF CacheInv, CacheTypes, ScanFits, Cache!CachePoint
<1>2. \A k \in 1..Cache!Latest : docs[k] \in Cache!Document /\ docs[k].val \in Cache!Price
  BY <1>1 DEF Cache!Document
<1>3. \A k \in 1..Dates : k \in 1..Cache!Latest /\ k # Cache!Latest  BY <1>1
<1>4. Cache!Latest \in 1..Cache!Latest  BY <1>1
<1>5. PICK after :
         after = [k \in 1..Dates |-> IF Kind[j] = "clear" THEN None
                                     ELSE IF k \in p.bars THEN j ELSE p.copies[k].val]
  OBVIOUS
<1>6. after \in [1..Dates -> Cache!Price]
  BY <1>1, <1>2, <1>3, <1>5 DEF Cache!Price
<1>7. PICK last : last = Cache!LatestOf(after)  OBVIOUS
<1>8. last \in Cache!Price  BY <1>6, <1>7, LatestIs
<1>9. PICK goal : goal = [k \in 1..Cache!Latest |-> IF k = Cache!Latest THEN last ELSE after[k]]
  OBVIOUS
<1>10. /\ goal \in [1..Cache!Latest -> Cache!Price] /\ goal[Cache!Latest] = last
       /\ \A k \in 1..Dates : goal[k] = after[k]
  BY <1>1, <1>3, <1>4, <1>6, <1>8, <1>9
<1>11. [k \in 1..Dates |-> goal[k]] = after  BY <1>6, <1>10
<1> DEFINE dates == {k \in 1..Dates : IF Kind[j] = "clear" THEN Cache!Live(p.copies[k]) ELSE k \in p.bars}
           mirrored == IF docs[Cache!Latest].val = last THEN {} ELSE {Cache!Latest}
<1>12. PICK D : D = dates \cup mirrored  OBVIOUS
<1>13. D \subseteq 1..Cache!Latest  BY <1>3, <1>4, <1>12
<1>14. ASSUME NEW k \in D, goal[k] = None PROVE docs[k].val # None
  <2>1. CASE k = Cache!Latest  BY <1>3, <1>10, <1>12, <1>14, <2>1
  <2>2. CASE k # Cache!Latest  BY <1>1, <1>5, <1>10, <1>12, <1>14, <2>2 DEF Cache!Live
  <2> QED  BY <2>1, <2>2
<1>15. ASSUME NEW k \in 1..Cache!Latest, k \notin D PROVE docs[k].val = goal[k]
  <2>1. CASE k = Cache!Latest  BY <1>10, <1>12, <1>15, <2>1
  <2>2. CASE k # Cache!Latest
    <3>1. k \in 1..Dates  BY <1>1, <2>2
    <3> QED  BY <1>1, <1>5, <1>10, <1>12, <1>15, <3>1 DEF Cache!Live
  <2> QED  BY <2>1, <2>2
<1>16. PICK plan : plan = Cache!PlanFor(j, p, Cache!Current)  OBVIOUS
<1> DEFINE change(k) == IF k = Cache!Latest THEN Cache!Change(k, docs[k], last)
                        ELSE Cache!Change(k, p.copies[k], after[k])
           before == IF status.rev > 0 THEN status.latest
                     ELSE Cache!LatestOf([k \in 1..Dates |-> p.copies[k].val])
<1>17. plan = [changes |-> {change(k) : k \in D}, begin |-> status.rev, latest |-> last, before |-> before]
  BY <1>5, <1>7, <1>12, <1>16 DEF Cache!PlanFor, Cache!Current
<1>18. \A k \in D : change(k) = Cache!Change(k, docs[k], goal[k])
  BY <1>1, <1>10, <1>13
<1>19. before \in Cache!Price
  <2>1. [k \in 1..Dates |-> p.copies[k].val] \in [1..Dates -> Cache!Price]  BY <1>1, <1>2, <1>3
  <2> QED  BY <1>1, <2>1, LatestIs
<1> HIDE DEF change, before, dates, mirrored
<1>20. /\ plan.changes = {change(k) : k \in D} /\ plan.begin = status.rev
       /\ plan.latest = last /\ plan.before = before
  BY <1>17
<1>21. ASSUME NEW k \in D
       PROVE  /\ change(k) \in Cache!Mutation /\ change(k).doc = k /\ change(k).val = goal[k]
              /\ change(k).op = "create" => change(k).val # None
              /\ CanApply(change(k), docs)
  BY <1>2, <1>10, <1>13, <1>14, <1>18, ChangeIs DEF CanApply
<1>22. plan \in Cache!Plan
  <2>1. plan.changes \subseteq Cache!Mutation  BY <1>20, <1>21
  <2> QED  BY <1>1, <1>8, <1>17, <1>19, <1>20, <2>1 DEF Cache!Plan
<1>23. \A c, d \in plan.changes : c.doc = d.doc => c = d  BY <1>20, <1>21
<1>24. \A c \in plan.changes : (c.op = "create" => c.val # None) /\ CanApply(c, docs)
  BY <1>20, <1>21
<1>25. \A c : ~Settled(j, c, receipts, docs)  BY DEF Settled
<1>26. ReachesGoal(plan, goal, docs)
  <2>1. \A c \in plan.changes : c.val = goal[c.doc]  BY <1>20, <1>21
  <2>2. \A k \in 1..Cache!Latest : docs[k].val = goal[k] \/ \E c \in plan.changes : c.doc = k
    BY <1>15, <1>20, <1>21
  <2> QED  BY <1>7, <1>10, <1>11, <1>20, <2>1, <2>2 DEF ReachesGoal
<1> QED  BY <1>16, <1>20, <1>22, <1>23, <1>24, <1>25, <1>26 DEF PlanFits

\* The plan is made when no generation is under way: whoever publishes one
\* owns the lane.
LEMMA ReadStatusSafe == ASSUME CacheInv, NEW w \in Worker, Cache!ReadStatus(w) PROVE CacheInv'
<1>1. PICK j, p : j = cacheClaim[w].job /\ p = cacheClaim[w].point  OBVIOUS
<1>2. PICK x : x = IF status.state = "ready" THEN [at |-> "status", got |-> Cache!Current]
                   ELSE [at |-> "conflict", got |-> None]
  OBVIOUS
<1>3. /\ cacheClaim[w] # Idle /\ p.phase = "plan" /\ seen[w].at = "work"
      /\ UNCHANGED <<cacheRow, cacheClaim, lane, status, docs, receipts>>
      /\ seen' = [seen EXCEPT ![w] = x]
  BY <1>1, <1>2 DEF Cache!ReadStatus, Cache!In, Cache!At, Cache!Saved, Cache!JobOf, Cache!Got,
     Cache!Elsewhere, Cache!cache
<1>4. ASSUME cacheClaim[w].current
      PROVE  lane = j /\ HasSeen(j, p, x.at, x.got, status, receipts, docs)
  <2>1. /\ j \in CacheJob /\ p \in Cache!CachePoint /\ cacheClaim[w].state = "running"
        /\ ScanFits(p, docs) /\ lane = j /\ \A step, k : <<j, step, k>> \notin receipts
        /\ cacheRow[j] # Absent /\ cacheRow[j].state = "running"
    BY <1>1, <1>3, <1>4, HolderKnows DEF CommitFits, Writing
  <2>2. status.state = "ready"
    <3> SUFFICES ASSUME status.state # "ready" PROVE FALSE
      OBVIOUS
    <3>1. PICK i : i = status.job  OBVIOUS
    <3>2. i \in CacheJob /\ cacheRow[i] # Absent /\ cacheRow[i].state = "committing"
      BY <3>1 DEF CacheInv, CacheTypes, StatusFits
    <3>3. cacheRow[i].state \notin Terminal /\ cacheRow[i].point # Cache!NoPoint
      BY <3>2 DEF Terminal, CacheInv, CacheRowFits, CommitFits, Writing, Cache!NoPoint
    <3>4. lane = i  BY <3>2, <3>3 DEF CacheInv, CacheRowFits
    <3> QED  BY <2>1, <3>2, <3>4
  <2>3. x.at = "status" /\ x.got = [rev |-> status.rev, latest |-> status.latest]
    BY <1>2, <2>2 DEF Cache!Current
  <2> QED  BY <1>3, <2>1, <2>2, <2>3 DEF HasSeen
<1> QED  BY <1>1, <1>3, <1>4, CacheSees

\* Nor has one begun when the mirror is read: the status read before still
\* stands.
LEMMA ReadMirrorSafe == ASSUME CacheInv, NEW w \in Worker, Cache!ReadMirror(w) PROVE CacheInv'
<1>1. PICK j, p : j = cacheClaim[w].job /\ p = cacheClaim[w].point  OBVIOUS
<1>2. PICK x : x = [at |-> "ready", got |-> Cache!PlanFor(j, p, seen[w].got)]  OBVIOUS
<1>3. /\ cacheClaim[w] # Idle /\ p.phase = "plan" /\ seen[w].at = "status"
      /\ UNCHANGED <<cacheRow, cacheClaim, lane, status, docs, receipts>>
      /\ seen' = [seen EXCEPT ![w] = x]
  BY <1>1, <1>2 DEF Cache!ReadMirror, Cache!In, Cache!At, Cache!Saved, Cache!JobOf, Cache!Got,
     Cache!Elsewhere, Cache!cache
<1>4. ASSUME cacheClaim[w].current
      PROVE  lane = j /\ HasSeen(j, p, x.at, x.got, status, receipts, docs)
  <2>1. /\ j \in CacheJob /\ p \in Cache!CachePoint /\ cacheClaim[w].state = "running"
        /\ ScanFits(p, docs) /\ lane = j /\ \A step, k : <<j, step, k>> \notin receipts
        /\ cacheRow[j] # Absent /\ cacheRow[j].state = "running"
        /\ HasSeen(j, p, seen[w].at, seen[w].got, status, receipts, docs)
    BY <1>1, <1>3, <1>4, HolderKnows DEF CommitFits, Writing
  <2>2. status.state = "ready" /\ seen[w].got = Cache!Current
    BY <1>3, <2>1 DEF HasSeen, Cache!Current
  <2>3. /\ PlanFits(j, Cache!PlanFor(j, p, Cache!Current), receipts, docs)
        /\ Cache!PlanFor(j, p, Cache!Current).begin = status.rev
    BY <1>3, <2>1, PlanForFits
  <2>4. x.at = "ready" /\ x.got = Cache!PlanFor(j, p, Cache!Current)  BY <1>2, <2>2
  <2> QED  BY <1>3, <2>1, <2>2, <2>3, <2>4 DEF HasSeen
<1> QED  BY <1>1, <1>3, <1>4, CacheSees

-----------------------------------------------------------------------------
(* Cache jobs: the mutations *)

\* Only the job that is carrying out its plan changes the cache, so its lane
\* is its own, and no other job has scanned anything or is carrying out one.
LEMMA OneCommits ==
    ASSUME CacheInv, NEW j \in CacheJob, cacheRow[j] # Absent, cacheRow[j].state = "committing"
    PROVE  /\ lane = j
           /\ \A i \in CacheJob \ {j} : cacheRow[i] # Absent =>
                 /\ cacheRow[i].state # "committing"
                 /\ cacheRow[i].state \notin Terminal => cacheRow[i].point = Cache!NoPoint
           /\ \A v \in Worker : cacheClaim[v] # Idle /\ cacheClaim[v].current
                 /\ cacheClaim[v].job # j => seen[v].at = "begin"
<1>1. \A i \in CacheJob : cacheRow[i] # Absent /\ cacheRow[i].state = "committing" =>
         cacheRow[i].state \notin Terminal /\ cacheRow[i].point # Cache!NoPoint
  BY DEF Terminal, CacheInv, CacheRowFits, CommitFits, Writing, Cache!NoPoint
<1>2. \A i \in CacheJob : cacheRow[i] # Absent /\ cacheRow[i].state \notin Terminal
         /\ cacheRow[i].point # Cache!NoPoint => lane = i
  BY DEF CacheInv, CacheRowFits
<1>3. lane = j  BY <1>1, <1>2
<1>4. \A v \in Worker : cacheClaim[v] # Idle /\ cacheClaim[v].current /\ seen[v].at # "begin" =>
         lane = cacheClaim[v].job
  BY DEF CacheInv, SeenFits
<1> QED  BY <1>1, <1>2, <1>3, <1>4

\* What such a step leaves true.
LEMMA CacheWrites ==
    ASSUME CacheInv, NEW w \in Worker, NEW x, NEW j \in CacheJob, j = cacheClaim[w].job,
           cacheClaim[w] # Idle, cacheRow[j] # Absent, cacheRow[j].state = "committing",
           UNCHANGED <<cacheRow, cacheClaim, lane>>, seen' = [seen EXCEPT ![w] = x],
           CacheTypes', GenerationsComplete', status'.state = "updating" => status'.job = j,
           receipts \subseteq receipts',
           \A r \in receipts' : r \in receipts \/ \E step, k : r = <<j, step, k>>,
           \A i, plan : CarriedOut(i, plan, receipts, docs) => CarriedOut(i, plan, receipts', docs'),
           CommitFits(j, cacheRow[j].point, status', receipts', docs'),
           cacheClaim[w].current =>
              HasSeen(j, cacheClaim[w].point, x.at, x.got, status', receipts', docs'),
           \A c \in cacheRow[j].point.plan.changes :
              Settled(j, c, receipts, docs) => Settled(j, c, receipts', docs')
    PROVE  CacheInv'
<1>1. CacheStore!IInv'
  BY DEF CacheInv, CacheStore!IInv, CacheStore!TypeOK, CacheStore!OneWriter, CacheStore!Holds,
     CacheStore!Exists
<1>2. StatusFits'  BY DEF StatusFits
<1>3. ReceiptsFit'
  <2> SUFFICES ASSUME NEW i \in CacheJob, NEW step, NEW k, <<i, step, k>> \in receipts' PROVE i \in Writers'
    BY DEF ReceiptsFit
  <2>1. CASE <<i, step, k>> \in receipts  BY <2>1 DEF CacheInv, ReceiptsFit, Writers
  <2>2. CASE i = j  BY <2>2 DEF Writers
  <2> QED  BY <2>1, <2>2
<1>4. ASSUME NEW i \in CacheJob PROVE CacheRowFits(i)'
  <2>1. CacheRowFits(i)  BY DEF CacheInv
  <2>2. CASE i = j  BY <2>1, <2>2 DEF CacheRowFits, Waiting
  <2>3. CASE i # j
    <3>1. cacheRow[i] # Absent => /\ cacheRow[i].state # "committing"
                                  /\ cacheRow[i].state \notin Terminal => cacheRow[i].point = Cache!NoPoint
      BY <2>3, OneCommits
    <3>2. cacheRow[i] # Absent /\ cacheRow[i].state \in Waiting => ScanFits(cacheRow[i].point, docs')
      BY <3>1, NothingScanned, States
    <3> QED  BY <2>1, <3>1, <3>2 DEF CacheRowFits
  <2> QED  BY <2>2, <2>3
<1>5. ASSUME NEW v \in Worker PROVE LateFits(v)'
  BY DEF CacheInv, LateFits, PlanLives
<1>6. ASSUME NEW v \in Worker PROVE SeenFits(v)'
  <2>1. SeenFits(v)  BY DEF CacheInv
  <2>2. CASE v = w  BY <2>1, <2>2, OneCommits DEF CacheInv, CacheTypes, SeenFits
  <2>3. CASE v # w
    <3>1. seen'[v] = seen[v]  BY <2>3 DEF CacheInv, CacheTypes
    <3>2. ASSUME cacheClaim[v] # Idle, cacheClaim[v].current
          PROVE  HasSeen(cacheClaim[v].job, cacheClaim[v].point, seen[v].at, seen[v].got,
                         status', receipts', docs')
      <4>1. CASE cacheClaim[v].job = j
        <5>1. PICK p, stage, got : p = cacheClaim[v].point /\ stage = seen[v].at /\ got = seen[v].got
          OBVIOUS
        <5>2. /\ HasSeen(j, p, stage, got, status, receipts, docs) /\ cacheRow[j].point = p
              /\ p.phase \in Writing
          <6>1. cacheRow[j].state # "running"  OBVIOUS
          <6>2. /\ HasSeen(j, p, stage, got, status, receipts, docs) /\ cacheRow[j].point = p
                /\ cacheRow[j].state = cacheClaim[v].state
                /\ \/ cacheClaim[v].state = "running"
                   \/ CommitFits(j, p, status, receipts, docs)
            BY <3>2, <4>1, <5>1, HolderKnows
          <6> QED  BY <6>1, <6>2 DEF CommitFits
        <5>3. HasSeen(j, p, stage, got, status', receipts', docs')
          BY <5>2 DEF HasSeen, Writing, Begun, Published
        <5> QED  BY <4>1, <5>1, <5>3
      <4>2. CASE cacheClaim[v].job # j
        <5>1. seen[v].at = "begin"  BY <3>2, <4>2, OneCommits
        <5> QED  BY <5>1 DEF HasSeen
      <4> QED  BY <4>1, <4>2
    <3> QED  BY <2>1, <3>1, <3>2 DEF SeenFits
  <2> QED  BY <2>2, <2>3
<1> QED  BY <1>1, <1>2, <1>3, <1>4, <1>5, <1>6 DEF CacheInv

\* What an invocation in a phase that writes knows of its job, however late it is.
LEMMA LateKnows ==
    ASSUME CacheInv, NEW w \in Worker, cacheClaim[w] # Idle,
           NEW j, j = cacheClaim[w].job, NEW p, p = cacheClaim[w].point, p.phase \in Writing,
           ~CarriedOut(j, p.plan, receipts, docs)
    PROVE  /\ j \in CacheJob /\ cacheRow[j] # Absent /\ cacheRow[j].state = "committing"
           /\ cacheRow[j].point.plan = p.plan /\ NotBefore(cacheRow[j].point.phase, p.phase)
           /\ p.phase # "begin" => cacheRow[j].point.rev = p.rev
           /\ CommitFits(j, cacheRow[j].point, status, receipts, docs)
<1>1. j \in CacheJob
  BY DEF CacheInv, CacheStore!IInv, CacheStore!TypeOK, CacheStore!Claim
<1>2. PlanLives(j, p, cacheRow[j], receipts, docs)  BY DEF CacheInv, LateFits
<1>3. /\ cacheRow[j] # Absent /\ cacheRow[j].state = "committing"
      /\ cacheRow[j].point.plan = p.plan /\ NotBefore(cacheRow[j].point.phase, p.phase)
      /\ p.phase # "begin" => cacheRow[j].point.rev = p.rev
  BY <1>2 DEF PlanLives
<1> QED  BY <1>1, <1>3 DEF CacheInv, CacheRowFits

\* Receipts of other kinds do not make a change count as applied.
LEMMA OtherReceipt ==
    ASSUME NEW j, NEW step \in {"begin", "finish"}, NEW rs, NEW ds, NEW i, NEW c
    PROVE  Settled(i, c, rs \cup {<<j, step, 0>>}, ds) <=> Settled(i, c, rs, ds)
  BY DEF Settled

\* Begin: the cache is marked as updating by the one job that carries out its plan.
LEMMA BeginSafe == ASSUME CacheInv, NEW w \in Worker, Cache!Begin(w) PROVE CacheInv'
<1>1. PICK j, p : j = cacheClaim[w].job /\ p = cacheClaim[w].point  OBVIOUS
<1>2. PICK receipt, new, next :
         /\ receipt = <<j, "begin", 0>> /\ next = p.plan.begin + 1
         /\ new = [rev |-> p.plan.begin + 1, state |-> "updating", job |-> j, latest |-> p.plan.before]
  OBVIOUS
<1>3. /\ cacheClaim[w] # Idle /\ p.phase = "begin" /\ seen[w].at = "work"
      /\ UNCHANGED <<cacheRow, cacheClaim, lane, docs>>
  BY <1>1 DEF Cache!Begin, Cache!In, Cache!At, Cache!Saved
<1>4. cacheClaim[w].current => lane = j /\ CommitFits(j, p, status, receipts, docs)
  BY <1>1, <1>3, HolderKnows DEF ScanFits
<1>5. CASE receipt \in receipts \/ status = new
  <2>1. PICK x : x = [at |-> "ready", got |-> next]  OBVIOUS
  <2>2. seen' = [seen EXCEPT ![w] = x] /\ UNCHANGED <<status, receipts>>
    BY <1>1, <1>2, <1>5, <2>1 DEF Cache!Begin, Cache!Saved, Cache!JobOf, Cache!Got
  <2>3. cacheClaim[w].current => HasSeen(j, p, x.at, x.got, status, receipts, docs)
    BY <1>2, <1>3, <1>4, <1>5, <2>1 DEF HasSeen, CommitFits, Begun
  <2> QED  BY <1>1, <1>3, <1>4, <2>2, <2>3, CacheSees
<1>6. CASE receipt \notin receipts /\ status # new /\ status.rev # p.plan.begin
  <2>1. PICK x : x = [at |-> "conflict", got |-> None]  OBVIOUS
  <2>2. seen' = [seen EXCEPT ![w] = x] /\ UNCHANGED <<status, receipts>>
    BY <1>1, <1>2, <1>6, <2>1 DEF Cache!Begin, Cache!Saved, Cache!JobOf, Cache!Got
  <2>3. ~cacheClaim[w].current  BY <1>2, <1>3, <1>4, <1>6 DEF CommitFits, Begun
  <2> QED  BY <1>1, <1>3, <2>2, <2>3, CacheSees
<1>7. CASE receipt \notin receipts /\ status # new /\ status.rev = p.plan.begin
  <2>1. PICK x : x = [at |-> "ready", got |-> next]  OBVIOUS
  <2>2. /\ seen' = [seen EXCEPT ![w] = x] /\ status' = new /\ receipts' = receipts \cup {receipt}
    BY <1>1, <1>2, <1>7, <2>1 DEF Cache!Begin, Cache!Saved, Cache!JobOf, Cache!Got
  <2>3. /\ j \in CacheJob /\ cacheRow[j] # Absent /\ cacheRow[j].state = "committing"
        /\ cacheRow[j].point.plan = p.plan
        /\ CommitFits(j, cacheRow[j].point, status, receipts, docs)
    BY <1>1, <1>2, <1>3, <1>7, LateKnows DEF CarriedOut, Begun, Writing
  <2>4. PICK q : q = cacheRow[j].point  OBVIOUS
  <2>5. q.phase = "begin" /\ ~Begun(j, receipts) /\ ~Published(j, receipts)
        /\ PlanFits(j, p.plan, receipts, docs) /\ q.plan = p.plan
    BY <1>2, <1>7, <2>3, <2>4 DEF CommitFits, Begun, Writing
  <2>6. \A i, c : Settled(i, c, receipts', docs) <=> Settled(i, c, receipts, docs)
    BY <1>2, <2>2, OtherReceipt
  <2>7. PlanFits(j, p.plan, receipts', docs)  BY <2>5, <2>6 DEF PlanFits
  <2>8. CommitFits(j, q, status', receipts', docs')
    <3>1. /\ Begun(j, receipts') /\ ~Published(j, receipts')
      BY <1>2, <2>2, <2>5 DEF Begun, Published
    <3>2. UpdatingBy(j, q.plan.begin + 1, status')  BY <1>2, <2>2, <2>5 DEF UpdatingBy
    <3> QED  BY <1>3, <2>5, <2>7, <3>1, <3>2 DEF CommitFits, Writing
  <2>9. CacheTypes' /\ GenerationsComplete'
    <3>1. p.plan \in Cache!Plan  BY <2>5 DEF PlanFits
    <3>2. p.plan.begin + 1 \in Nat /\ p.plan.before \in Cache!Price  BY <3>1 DEF Cache!Plan
    <3>3. new \in [rev : Nat, state : {"ready", "updating"}, job : CacheJob \cup {None},
                   latest : Cache!Price]
      BY <1>2, <2>3, <3>2
    <3>4. new.state # "ready"  BY <1>2
    <3> QED  BY <1>3, <2>2, <3>3, <3>4 DEF CacheInv, CacheTypes, GenerationsComplete,
             Cache!GenerationsComplete
  <2>10. status'.job = j  BY <1>2, <2>2
  <2>11. HasSeen(j, p, x.at, x.got, status', receipts', docs')
    BY <1>2, <1>3, <2>1, <2>2 DEF HasSeen, Begun
  <2>12. /\ receipts \subseteq receipts'
         /\ \A r \in receipts' : r \in receipts \/ \E step, k : r = <<j, step, k>>
    BY <1>2, <2>2
  <2>13. \A i, plan : CarriedOut(i, plan, receipts, docs) => CarriedOut(i, plan, receipts', docs')
    BY <1>3, <2>6, <2>12 DEF CarriedOut, Begun, Published
  <2>14. \A c \in cacheRow[j].point.plan.changes :
            Settled(j, c, receipts, docs) => Settled(j, c, receipts', docs')
    BY <1>3, <2>6
  <2> QED
    BY <1>1, <1>3, <2>2, <2>3, <2>4, <2>8, <2>9, <2>10, <2>11, <2>12, <2>13, <2>14, CacheWrites
<1> QED  BY <1>5, <1>6, <1>7

\* A plan all of whose changes have reached their rows has made the generation
\* complete.
LEMMA AllSettledComplete ==
    ASSUME NEW j, NEW plan, NEW rs, NEW ds \in [1..Cache!Latest -> Cache!Document],
           PlanFits(j, plan, rs, ds), \A c \in plan.changes : Settled(j, c, rs, ds)
    PROVE  /\ ds[Cache!Latest].val = Cache!LatestOf([k \in 1..Dates |-> ds[k].val])
           /\ plan.latest = ds[Cache!Latest].val
<1>1. PICK goal : ReachesGoal(plan, goal, ds)  BY DEF PlanFits
<1>2. \A c \in plan.changes : ds[c.doc].val = goal[c.doc]  BY <1>1 DEF PlanFits, ReachesGoal
<1>3. \A k \in 1..Cache!Latest : ds[k].val = goal[k]  BY <1>1, <1>2 DEF ReachesGoal
<1>4. /\ Cache!Latest \in 1..Cache!Latest /\ \A k \in 1..Dates : k \in 1..Cache!Latest
  BY CacheConstants
<1>5. [k \in 1..Dates |-> ds[k].val] = [k \in 1..Dates |-> goal[k]]  BY <1>3, <1>4
<1> QED  BY <1>1, <1>3, <1>4, <1>5 DEF ReachesGoal

\* Finish: the generation is published once, and complete.
LEMMA FinishSafe == ASSUME CacheInv, NEW w \in Worker, Cache!Finish(w) PROVE CacheInv'
<1>1. PICK j, p : j = cacheClaim[w].job /\ p = cacheClaim[w].point  OBVIOUS
<1>2. PICK receipt, new :
         /\ receipt = <<j, "finish", 0>>
         /\ new = [rev |-> status.rev + 1, state |-> "ready", job |-> None, latest |-> p.plan.latest]
  OBVIOUS
<1>3. /\ cacheClaim[w] # Idle /\ p.phase = "finish" /\ seen[w].at = "work"
      /\ UNCHANGED <<cacheRow, cacheClaim, lane, docs>>
  BY <1>1 DEF Cache!Finish, Cache!In, Cache!At, Cache!Saved
<1>4. cacheClaim[w].current => lane = j /\ CommitFits(j, p, status, receipts, docs)
  BY <1>1, <1>3, HolderKnows DEF ScanFits
<1>5. CASE receipt \in receipts
  <2>1. PICK x : x = [at |-> "ready", got |-> None]  OBVIOUS
  <2>2. seen' = [seen EXCEPT ![w] = x] /\ UNCHANGED <<status, receipts>>
    BY <1>1, <1>2, <1>5, <2>1 DEF Cache!Finish, Cache!JobOf, Cache!Got
  <2>3. HasSeen(j, p, x.at, x.got, status, receipts, docs)
    BY <1>2, <1>3, <1>5, <2>1 DEF HasSeen, Published
  <2> QED  BY <1>1, <1>3, <1>4, <2>2, <2>3, CacheSees
<1>6. CASE receipt \notin receipts /\ status.rev # p.rev
  <2>1. PICK x : x = [at |-> "conflict", got |-> None]  OBVIOUS
  <2>2. seen' = [seen EXCEPT ![w] = x] /\ UNCHANGED <<status, receipts>>
    BY <1>1, <1>2, <1>6, <2>1 DEF Cache!Finish, Cache!Saved, Cache!JobOf, Cache!Got
  <2>3. ~cacheClaim[w].current  BY <1>2, <1>3, <1>4, <1>6 DEF CommitFits, Published, UpdatingBy
  <2> QED  BY <1>1, <1>3, <2>2, <2>3, CacheSees
<1>7. CASE receipt \notin receipts /\ status.rev = p.rev
  <2>1. PICK x : x = [at |-> "ready", got |-> None]  OBVIOUS
  <2>2. /\ seen' = [seen EXCEPT ![w] = x] /\ status' = new /\ receipts' = receipts \cup {receipt}
    BY <1>1, <1>2, <1>7, <2>1 DEF Cache!Finish, Cache!Saved, Cache!JobOf, Cache!Got
  <2>3. /\ j \in CacheJob /\ cacheRow[j] # Absent /\ cacheRow[j].state = "committing"
        /\ cacheRow[j].point.plan = p.plan /\ NotBefore(cacheRow[j].point.phase, "finish")
        /\ CommitFits(j, cacheRow[j].point, status, receipts, docs)
    BY <1>1, <1>2, <1>3, <1>7, LateKnows DEF CarriedOut, Published, Writing
  <2>4. PICK q : q = cacheRow[j].point  OBVIOUS
  <2>5. /\ q.phase = "finish" /\ Begun(j, receipts) /\ q.plan = p.plan
        /\ \A c \in p.plan.changes : Settled(j, c, receipts, docs)
        /\ PlanFits(j, p.plan, receipts, docs)
    BY <2>3, <2>4 DEF CommitFits, NotBefore
  <2>6. \A i, c : Settled(i, c, receipts', docs) <=> Settled(i, c, receipts, docs)
    BY <1>2, <2>2, OtherReceipt
  <2>7. PlanFits(j, p.plan, receipts', docs)  BY <2>5, <2>6 DEF PlanFits
  <2>8. CommitFits(j, q, status', receipts', docs')
    <3>1. Begun(j, receipts') /\ Published(j, receipts')
      BY <1>2, <2>2, <2>5 DEF Begun, Published
    <3>2. status'.state = "ready"  BY <1>2, <2>2
    <3> QED  BY <1>3, <2>5, <2>6, <2>7, <3>1, <3>2 DEF CommitFits, Writing
  <2>9. CacheTypes'
    <3>1. p.plan.latest \in Cache!Price  BY <2>5 DEF PlanFits, Cache!Plan
    <3>2. status.rev + 1 \in Nat  BY DEF CacheInv, CacheTypes
    <3>3. new \in [rev : Nat, state : {"ready", "updating"}, job : CacheJob \cup {None},
                   latest : Cache!Price]
      BY <1>2, <3>1, <3>2
    <3> QED  BY <1>3, <2>2, <3>3 DEF CacheInv, CacheTypes
  <2>10. GenerationsComplete'
    <3>1. /\ docs[Cache!Latest].val = Cache!LatestOf([k \in 1..Dates |-> docs[k].val])
          /\ p.plan.latest = docs[Cache!Latest].val
      BY <2>5, AllSettledComplete DEF CacheInv, CacheTypes
    <3>2. status'.latest = p.plan.latest  BY <1>2, <2>2
    <3> QED  BY <1>3, <3>1, <3>2 DEF GenerationsComplete, Cache!GenerationsComplete
  <2>11. status'.state # "updating"  BY <1>2, <2>2
  <2>12. HasSeen(j, p, x.at, x.got, status', receipts', docs')
    BY <1>2, <1>3, <2>1, <2>2 DEF HasSeen, Published
  <2>13. /\ receipts \subseteq receipts'
         /\ \A r \in receipts' : r \in receipts \/ \E step, k : r = <<j, step, k>>
    BY <1>2, <2>2
  <2>14. \A i, plan : CarriedOut(i, plan, receipts, docs) => CarriedOut(i, plan, receipts', docs')
    BY <1>3, <2>6, <2>13 DEF CarriedOut, Begun, Published
  <2>15. \A c \in cacheRow[j].point.plan.changes :
            Settled(j, c, receipts, docs) => Settled(j, c, receipts', docs')
    BY <1>3, <2>6
  <2> QED
    BY <1>1, <1>3, <2>2, <2>3, <2>4, <2>8, <2>9, <2>10, <2>11, <2>12, <2>13, <2>14, <2>15, CacheWrites
<1> QED  BY <1>5, <1>6, <1>7

\* What the store makes of a change, by what it has of it already.
LEMMA ChangeOutcome ==
    ASSUME NEW j, NEW c
    PROVE  /\ Cache!Applies(c) <=> CanApply(c, docs)
           /\ Cache!Replayed(j, c) => Settled(j, c, receipts, docs)
           /\ Settled(j, c, receipts, docs) /\ Cache!Applies(c) => Cache!Replayed(j, c)
           /\ Settled(j, c, receipts, docs) /\ ~Cache!Replayed(j, c) =>
                 c.op = "create" /\ docs[c.doc].val # None
           /\ Cache!Same(c) => c.op = "create" /\ docs[c.doc].val = c.val
           /\ c.op = "create" /\ docs[c.doc].val = c.val => Cache!Same(c)
           /\ Cache!Receipt(j, c) = <<j, "row", c.doc>> \/
              (c.op = "create" /\ Cache!Receipt(j, c) = <<j, "restore", c.doc>>)
  BY DEF Cache!Applies, CanApply, Cache!Live, Cache!Replayed, Cache!Receipt, Settled, Cache!Same

\* A change has been written, with one of its receipts.
ReceiptOf(j, c, receipt) ==
    receipt = <<j, "row", c.doc>> \/ (c.op = "create" /\ receipt = <<j, "restore", c.doc>>)
Written(j, c, rs, ds, rs2, ds2) ==
    /\ ds2 = [ds EXCEPT ![c.doc] = [rev |-> ds[c.doc].rev + 1, val |-> c.val]]
    /\ \E receipt : ReceiptOf(j, c, receipt) /\ rs2 = rs \cup {receipt}

\* One change applied: it is settled for ever, and the others are as they were.
LEMMA ChangeApplied ==
    ASSUME NEW j, NEW plan, NEW rs, NEW ds \in [1..Cache!Latest -> Cache!Document],
           PlanFits(j, plan, rs, ds), NEW c \in plan.changes,
           NEW rs2, NEW ds2, Written(j, c, rs, ds, rs2, ds2)
    PROVE  /\ PlanFits(j, plan, rs2, ds2) /\ Settled(j, c, rs2, ds2)
           /\ ds2 \in [1..Cache!Latest -> Cache!Document]
           /\ \A i, d : d.doc \in 1..Cache!Latest /\ Settled(i, d, rs, ds) => Settled(i, d, rs2, ds2)
<1>0. PICK receipt : ReceiptOf(j, c, receipt) /\ rs2 = rs \cup {receipt}  BY DEF Written
<1>1. plan \in Cache!Plan /\ \A d \in plan.changes : d \in Cache!Mutation
  BY DEF PlanFits, Cache!Plan
<1>2. \A d \in plan.changes : d.doc \in 1..Cache!Latest /\ d.val \in Cache!Price
  BY <1>1 DEF Cache!Mutation
<1>3. PICK k, val : k = c.doc /\ val = c.val  OBVIOUS
<1>4. k \in 1..Cache!Latest /\ val \in Cache!Price  BY <1>2, <1>3
<1>5. \A i \in 1..Cache!Latest : ds[i].rev \in Nat  BY DEF Cache!Document
<1>6. /\ ds2 \in [1..Cache!Latest -> Cache!Document]
      /\ ds2[k].rev = ds[k].rev + 1 /\ ds2[k].val = val
      /\ \A i \in 1..Cache!Latest : i # k => ds2[i] = ds[i]
  <2>1. [rev |-> ds[k].rev + 1, val |-> val] \in Cache!Document
    BY <1>4, <1>5 DEF Cache!Document
  <2> QED  BY <1>3, <1>4, <2>1 DEF Written
<1>7. \A i \in 1..Cache!Latest : ds[i].rev > 0 => ds2[i].rev > 0
  <2>1. ds2[k].rev > 0  BY <1>4, <1>5, <1>6
  <2> QED  BY <1>6, <2>1
<1>8. \A i, d : d.doc \in 1..Cache!Latest /\ Settled(i, d, rs, ds) => Settled(i, d, rs2, ds2)
  BY <1>0, <1>7 DEF Settled
<1>9. Settled(j, c, rs2, ds2)
  <2>1. ds2[c.doc].rev > 0  BY <1>3, <1>4, <1>5, <1>6
  <2> QED  BY <1>0, <2>1 DEF Settled, ReceiptOf
<1>10. ASSUME NEW d \in plan.changes, d # c
       PROVE  /\ d.doc \in 1..Cache!Latest /\ ds2[d.doc] = ds[d.doc]
              /\ Settled(j, d, rs2, ds2) <=> Settled(j, d, rs, ds)
  <2>1. d.doc \in 1..Cache!Latest /\ d.doc # k  BY <1>2, <1>3, <1>10 DEF PlanFits
  <2>2. ds2[d.doc] = ds[d.doc]  BY <1>6, <2>1
  <2>3. /\ <<j, "row", d.doc>> \in rs2 <=> <<j, "row", d.doc>> \in rs
        /\ <<j, "restore", d.doc>> \in rs2 <=> <<j, "restore", d.doc>> \in rs
    BY <1>0, <1>3, <2>1 DEF ReceiptOf
  <2> QED  BY <2>1, <2>2, <2>3 DEF Settled
<1>11. ASSUME NEW d \in plan.changes
       PROVE  IF Settled(j, d, rs2, ds2) THEN ds2[d.doc].val = d.val ELSE CanApply(d, ds2)
  <2>1. CASE d = c  BY <1>3, <1>6, <1>9, <2>1
  <2>2. CASE d # c  BY <1>10, <2>2 DEF PlanFits, CanApply
  <2> QED  BY <2>1, <2>2
<1>12. \E goal : ReachesGoal(plan, goal, ds2)
  <2>1. PICK goal : ReachesGoal(plan, goal, ds)  BY DEF PlanFits
  <2>2. \A i \in 1..Cache!Latest : ds2[i].val = goal[i] \/ \E d \in plan.changes : d.doc = i
    BY <1>3, <1>6, <2>1 DEF ReachesGoal
  <2>3. ReachesGoal(plan, goal, ds2)  BY <2>1, <2>2 DEF ReachesGoal
  <2> QED  BY <2>3
<1>13. /\ \A d, e \in plan.changes : d.doc = e.doc => d = e
       /\ \A d \in plan.changes : d.op = "create" => d.val # None
  BY DEF PlanFits
<1> QED  BY <1>1, <1>6, <1>8, <1>9, <1>11, <1>12, <1>13 DEF PlanFits

\* Apply: a change is made once, and by nobody after its plan has been carried out.
LEMMA ApplyChangeSafe == ASSUME CacheInv, NEW w \in Worker, Cache!ApplyChange(w) PROVE CacheInv'
<1>1. PICK j, p : j = cacheClaim[w].job /\ p = cacheClaim[w].point  OBVIOUS
<1>2. PICK before : before = IF seen[w].got = None THEN {} ELSE seen[w].got  OBVIOUS
<1>3. PICK c \in p.plan.changes \ before :
        \/ /\ Cache!Replayed(j, c) \/ (Cache!Same(c) /\ ~Cache!Applies(c))
           /\ seen' = [seen EXCEPT ![w] = [at |-> "work", got |-> before \cup {c}]]
           /\ UNCHANGED <<docs, receipts>>
        \/ /\ ~Cache!Replayed(j, c) /\ Cache!Applies(c)
           /\ docs' = [docs EXCEPT ![c.doc] = [rev |-> @.rev + 1, val |-> c.val]]
           /\ receipts' = receipts \cup {Cache!Receipt(j, c)}
           /\ seen' = [seen EXCEPT ![w] = [at |-> "work", got |-> before \cup {c}]]
        \/ /\ ~Cache!Replayed(j, c) /\ ~Cache!Same(c) /\ ~Cache!Applies(c)
           /\ seen' = [seen EXCEPT ![w] = [at |-> "conflict", got |-> None]]
           /\ UNCHANGED <<docs, receipts>>
  BY <1>1, <1>2 DEF Cache!ApplyChange, Cache!Saved, Cache!JobOf, Cache!Applied, Cache!Got
<1>4. /\ cacheClaim[w] # Idle /\ p.phase = "apply" /\ seen[w].at = "work"
      /\ UNCHANGED <<cacheRow, cacheClaim, lane, status>>
  BY <1>1 DEF Cache!ApplyChange, Cache!In, Cache!At, Cache!Saved
<1>5. cacheClaim[w].current =>
         /\ lane = j /\ CommitFits(j, p, status, receipts, docs)
         /\ \A d \in before : d \in p.plan.changes /\ Settled(j, d, receipts, docs)
  BY <1>1, <1>2, <1>4, HolderKnows DEF ScanFits, HasSeen
<1>6. cacheClaim[w].current =>
         IF Settled(j, c, receipts, docs) THEN docs[c.doc].val = c.val ELSE CanApply(c, docs)
  BY <1>3, <1>5 DEF CommitFits, PlanFits
<1>7. PICK x : x = [at |-> "work", got |-> before \cup {c}]  OBVIOUS
<1>8. \A st, rs, ds : (\A d \in before \cup {c} : d \in p.plan.changes /\ Settled(j, d, rs, ds)) =>
         HasSeen(j, p, x.at, x.got, st, rs, ds)
  BY <1>4, <1>7 DEF HasSeen
<1>9. CASE /\ Cache!Replayed(j, c) \/ (Cache!Same(c) /\ ~Cache!Applies(c))
           /\ seen' = [seen EXCEPT ![w] = x] /\ UNCHANGED <<docs, receipts>>
  <2>1. cacheClaim[w].current => Settled(j, c, receipts, docs)
    BY <1>6, <1>9, ChangeOutcome
  <2>2. cacheClaim[w].current => HasSeen(j, p, x.at, x.got, status, receipts, docs)
    BY <1>3, <1>5, <1>8, <2>1
  <2> QED  BY <1>1, <1>4, <1>5, <1>9, <2>2, CacheSees
<1>10. CASE /\ ~Cache!Replayed(j, c) /\ ~Cache!Same(c) /\ ~Cache!Applies(c)
            /\ seen' = [seen EXCEPT ![w] = [at |-> "conflict", got |-> None]]
            /\ UNCHANGED <<docs, receipts>>
  <2>1. ~cacheClaim[w].current  BY <1>6, <1>10, ChangeOutcome
  <2>2. PICK y : y = [at |-> "conflict", got |-> None]  OBVIOUS
  <2> QED  BY <1>1, <1>4, <1>10, <2>1, <2>2, CacheSees
<1>11. CASE /\ ~Cache!Replayed(j, c) /\ Cache!Applies(c)
            /\ docs' = [docs EXCEPT ![c.doc] = [rev |-> @.rev + 1, val |-> c.val]]
            /\ receipts' = receipts \cup {Cache!Receipt(j, c)}
            /\ seen' = [seen EXCEPT ![w] = x]
  <2>1. ~Settled(j, c, receipts, docs)  BY <1>11, ChangeOutcome
  <2>2. /\ j \in CacheJob /\ cacheRow[j] # Absent /\ cacheRow[j].state = "committing"
        /\ cacheRow[j].point.plan = p.plan /\ NotBefore(cacheRow[j].point.phase, "apply")
        /\ cacheRow[j].point.rev = p.rev
        /\ CommitFits(j, cacheRow[j].point, status, receipts, docs)
    BY <1>1, <1>3, <1>4, <2>1, LateKnows DEF CarriedOut, Writing
  <2>3. PICK q : q = cacheRow[j].point  OBVIOUS
  <2>4. /\ q.phase = "apply" /\ q.plan = p.plan /\ PlanFits(j, p.plan, receipts, docs)
        /\ Begun(j, receipts) /\ ~Published(j, receipts) /\ UpdatingBy(j, q.rev, status)
    BY <1>3, <2>1, <2>2, <2>3 DEF CommitFits, NotBefore
  <2>5. docs \in [1..Cache!Latest -> Cache!Document]  BY DEF CacheInv, CacheTypes
  <2>6. PICK receipt : receipt = Cache!Receipt(j, c) /\ ReceiptOf(j, c, receipt)
    BY ChangeOutcome DEF ReceiptOf
  <2>7. PICK rs, ds : rs = receipts' /\ ds = docs'  OBVIOUS
  <2>8. Written(j, c, receipts, docs, rs, ds) /\ rs = receipts \cup {receipt}
    BY <1>11, <2>6, <2>7 DEF Written
  <2>9. /\ PlanFits(j, p.plan, rs, ds) /\ Settled(j, c, rs, ds)
        /\ ds \in [1..Cache!Latest -> Cache!Document]
        /\ \A i, d : d.doc \in 1..Cache!Latest /\ Settled(i, d, receipts, docs) => Settled(i, d, rs, ds)
    <3>1. PICK plan, rs0, ds0 : plan = p.plan /\ rs0 = receipts /\ ds0 = docs  OBVIOUS
    <3>2. /\ ds0 \in [1..Cache!Latest -> Cache!Document] /\ PlanFits(j, plan, rs0, ds0)
          /\ c \in plan.changes
      BY <1>3, <2>4, <2>5, <3>1
    <3>3. Written(j, c, rs0, ds0, rs, ds)  BY <2>8, <3>1
    <3>4. /\ PlanFits(j, plan, rs, ds) /\ Settled(j, c, rs, ds)
          /\ ds \in [1..Cache!Latest -> Cache!Document]
          /\ \A i, d : d.doc \in 1..Cache!Latest /\ Settled(i, d, rs0, ds0) => Settled(i, d, rs, ds)
      BY <3>2, <3>3, ChangeApplied
    <3> QED  BY <3>1, <3>4
  <2>10. /\ receipts \subseteq rs
         /\ \A r \in rs : r \in receipts \/ \E step, k : r = <<j, step, k>>
         /\ ~Published(j, rs)
    BY <2>4, <2>6, <2>8 DEF Published, ReceiptOf
  <2>11. \A plan \in Cache!Plan : \A d \in plan.changes : d.doc \in 1..Cache!Latest
    BY DEF Cache!Plan, Cache!Mutation
  <2>12. \A i, plan : CarriedOut(i, plan, receipts, docs) => CarriedOut(i, plan, rs, ds)
    BY <2>9, <2>10, <2>11 DEF CarriedOut, Begun, Published
  <2>13. p.plan \in Cache!Plan  BY <2>4 DEF PlanFits
  <2>14. CommitFits(j, q, status, rs, ds)
    BY <2>4, <2>9, <2>10 DEF CommitFits, Writing, Begun
  <2>15. /\ CacheTypes' /\ GenerationsComplete' /\ status.job = j
    BY <1>4, <1>11, <2>4, <2>7, <2>9
    DEF CacheInv, CacheTypes, GenerationsComplete, Cache!GenerationsComplete, UpdatingBy
  <2>16. \A d \in p.plan.changes : Settled(j, d, receipts, docs) => Settled(j, d, rs, ds)
    BY <2>9, <2>11, <2>13
  <2>17. cacheClaim[w].current => HasSeen(j, p, x.at, x.got, status, rs, ds)
    BY <1>3, <1>5, <1>8, <2>9, <2>16
  <2> QED
    BY <1>1, <1>4, <1>11, <2>2, <2>3, <2>7, <2>10, <2>12, <2>14, <2>15, <2>16, <2>17, CacheWrites
<1> QED  BY <1>3, <1>7, <1>9, <1>10, <1>11

-----------------------------------------------------------------------------
(* Cache jobs: the theorems *)

\* The first generation is one price and its mirror.
LEMMA CacheInitEstablishes == Cache!Init => CacheInv
<1> SUFFICES ASSUME Cache!Init PROVE CacheInv
  OBVIOUS
<1>1. /\ CacheStore!IInv
      /\ \A j \in CacheJob : cacheRow[j] = Absent
      /\ \A w \in Worker : cacheClaim[w] = Idle
  <2>1. CacheStore!Init  BY CacheSame DEF Cache!Init
  <2> QED  BY <2>1, CacheConstants, CacheStore!InitEstablishes
           DEF CacheStore!InitEstablishes, CacheStore!Init
<1>2. /\ docs = [k \in 1..Cache!Latest |-> IF k \in {1, Cache!Latest} THEN [rev |-> 1, val |-> "old"]
                                           ELSE Cache!Missing]
      /\ status = [rev |-> 0, state |-> "ready", job |-> None, latest |-> None]
      /\ seen = [w \in Worker |-> Cache!Fresh] /\ receipts = {}
  BY DEF Cache!Init
<1>3. Dates \in Nat \ {0} /\ Cache!Latest = Dates + 1 /\ "old" # None
  BY CacheConstants, CacheAssumption
<1>4. CacheTypes
  <2>1. [rev |-> 1, val |-> "old"] \in Cache!Document /\ Cache!Missing \in Cache!Document
    BY DEF Cache!Document, Cache!Price, Cache!Missing
  <2>2. status \in [rev : Nat, state : {"ready", "updating"}, job : CacheJob \cup {None},
                    latest : Cache!Price]
    BY <1>2 DEF Cache!Price
  <2> QED  BY <1>2, <2>1, <2>2 DEF CacheTypes
<1>5. GenerationsComplete
  <2>1. /\ docs[Cache!Latest].val = "old" /\ 1 \in 1..Dates /\ docs[1].val = "old"
        /\ \A k \in 1..Dates : k # 1 => docs[k].val = None
    BY <1>2, <1>3 DEF Cache!Missing
  <2>2. PICK prices : prices = [k \in 1..Dates |-> docs[k].val]  OBVIOUS
  <2>3. {k \in 1..Dates : prices[k] # None} = {1}  BY <1>3, <2>1, <2>2
  <2>4. Cache!Max({1}) = 1  BY DEF Cache!Max
  <2>5. Cache!LatestOf(prices) = prices[1]  BY <2>3, <2>4 DEF Cache!LatestOf
  <2> QED  BY <1>2, <2>1, <2>2, <2>5 DEF GenerationsComplete, Cache!GenerationsComplete
<1>6. ReceiptsFit /\ StatusFits /\ \A j \in CacheJob : CacheRowFits(j)
  BY <1>1, <1>2 DEF ReceiptsFit, StatusFits, CacheRowFits
<1>7. \A w \in Worker : LateFits(w) /\ SeenFits(w)
  BY <1>1, <1>2 DEF LateFits, SeenFits
<1> QED  BY <1>1, <1>4, <1>5, <1>6, <1>7 DEF CacheInv

\* Every step of the lane keeps the invariant.
LEMMA CacheNextSafe == CacheInv /\ (Cache!Next \/ UNCHANGED cacheVars) => CacheInv'
<1> SUFFICES ASSUME CacheInv, Cache!Next \/ UNCHANGED cacheVars PROVE CacheInv'
  OBVIOUS
<1>1. ASSUME NEW j \in CacheJob,
             \/ Cache!Admit(j) \/ Cache!Supersede(j) \/ Cache!ClaimCancelled(j)
             \/ Cache!Cancel(j) \/ Cache!Choose(j)
      PROVE  CacheInv'
  <2>1. CASE Cache!Cancel(j)
    BY <2>1, CacheCancelSafe DEF Cache!Cancel, Cache!Rows, Cache!cache
  <2>2. CASE Cache!Choose(j)
    BY <2>2, CacheStutterSafe DEF Cache!Choose, Cache!cache
  <2> QED  BY <1>1, <2>1, <2>2, CacheAdmitSafe, CacheSupersedeSafe, CacheClaimCancelledSafe
<1>2. ASSUME NEW w \in Worker, NEW j \in CacheJob, Cache!ClaimJob(w, j) PROVE CacheInv'
  <2>1. UNCHANGED <<lane, status, docs, receipts, seen>>
        /\ (Cache!Jobs!ClaimJob(w, j) \/ UNCHANGED <<cacheRow, cacheClaim>>)
    BY <1>2 DEF Cache!ClaimJob, Cache!cache
  <2> QED  BY <2>1, CacheClaimSafe, CacheStutterSafe
<1>3. ASSUME NEW w \in Worker, Cache!Phases(w) \/ Cache!PhaseFails(w) \/ Cache!Crash(w)
      PROVE  CacheInv'
  BY <1>3, AcquireSafe, ReadPageSafe, SavePageSafe, SaveBarsSafe, ReportSafe, ReadStatusSafe, ReadMirrorSafe,
     SavePlanSafe, BeginSafe, SaveBegunSafe, ApplyChangeSafe, SaveAppliedSafe, FinishSafe,
     SaveFinishedSafe, SaveConflictSafe, CachePhaseFailsSafe, CacheLeaveSafe
  DEF Cache!Phases
<1>4. CASE Cache!AllSettled \/ UNCHANGED cacheVars
  BY <1>4, CacheStutterSafe DEF Cache!AllSettled, Cache!vars, Cache!cache, cacheVars
<1> QED  BY <1>1, <1>2, <1>3, <1>4, CacheTickSafe DEF Cache!Next, Cache!System

\* The cache lane as one of the parts.
LEMMA CachePart ==
    /\ PartsInit => Cache!Init
    /\ [PartsNext]_<<part, jobVars, cacheVars, fileVars, userVars>> =>
          Cache!Next \/ UNCHANGED cacheVars
  BY DEF PartsInit, PartsNext

\* The invariant of the cache lane holds, for any jobs, workers, dates and bars,
\* any number of stopped isolates, failed calls and stalled workers
\* (cache-maintenance.js:38-101, coordination.js:27-40, worker.js:130-145).
THEOREM CacheInvariance == PartsSpec => []CacheInv
<1>1. PartsInit => CacheInv  BY CachePart, CacheInitEstablishes
<1>2. CacheInv /\ [PartsNext]_<<part, jobVars, cacheVars, fileVars, userVars>> => CacheInv'
  BY CachePart, CacheNextSafe
<1> QED  BY <1>1, <1>2, PTL DEF PartsSpec

\* What a job has scanned of the price history is still so when its plan is
\* made, several invocations later (cache-maintenance.js:7-18, 38-62).
THEOREM ScansStayTrue == PartsSpec => []ScanStaysTrue
<1>1. CacheInv => ScanStaysTrue
  <2> SUFFICES ASSUME CacheInv, NEW j \in CacheJob, Cache!Jobs!Unfinished(j),
                      cacheRow[j].state # "committing",
                      NEW k \in DOMAIN cacheRow[j].point.copies
               PROVE  cacheRow[j].point.copies[k] = docs[k]
    BY DEF ScanStaysTrue, Cache!ScanStaysTrue
  <2>1. cacheRow[j] # Absent /\ cacheRow[j].state \notin Terminal
    BY DEF Cache!Jobs!Unfinished, Cache!Jobs!Exists, Cache!Jobs!Terminal, Terminal
  <2>2. cacheRow[j].state \in Waiting /\ cacheRow[j] \in CacheStore!Row  BY <2>1, WaitingRow
  <2>3. ScanFits(cacheRow[j].point, docs)  BY <2>1, <2>2 DEF CacheInv, CacheRowFits
  <2>4. cacheRow[j].point.copies \in Seq(Cache!Document)
    BY <2>2 DEF CacheStore!Row, Cache!CachePoint
  <2> QED  BY <2>3, <2>4 DEF ScanFits
<1> QED  BY <1>1, CacheInvariance, PTL

\* A published generation is complete and one of a kind, whatever stopped, was
\* repeated or came late (cache-maintenance.js:64-77, 91-101).
THEOREM PublishedGenerationsAreComplete == PartsSpec => []GenerationsComplete
<1>1. CacheInv => GenerationsComplete  BY DEF CacheInv
<1> QED  BY <1>1, CacheInvariance, PTL

\* Jobs that take turns in the lane never find the cache changed by another, so
\* none needs an administrator (coordination.js:27-40, worker.js:140-143).
THEOREM NothingNeedsReconciling == PartsSpec => []NothingToReconcile
<1>1. CacheInv => NothingToReconcile
  BY DEF CacheInv, CacheRowFits, NothingToReconcile, Cache!NothingToReconcile, Cache!Jobs!Exists
<1> QED  BY <1>1, CacheInvariance, PTL
=============================================================================
