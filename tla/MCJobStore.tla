------------------------------ MODULE MCJobStore ------------------------------
(***************************************************************************)
(* Four parts, one of which the initial state picks.                       *)
(*                                                                         *)
(* "rows": two jobs of JobStore, two overlapping workers, leases of two    *)
(* ticks; the workers write whatever a checkpoint lets them.               *)
(*                                                                         *)
(* "cache": two of four cache jobs at a time, a price history of two dates *)
(* and its mirror; of two automatic fetches the newer replaces the older.  *)
(*                                                                         *)
(* "uploads": one workbook of two chunks that two commands would import,   *)
(* two invocations at a time.                                              *)
(*                                                                         *)
(* "registration": the one job that registers the broker user.             *)
(***************************************************************************)
EXTENDS JobStore, TLC

CONSTANTS
    j1, j2, w1, w2, None,
    CacheJob, Kind, Supersedes, Dates, Bars, Loads, CacheLease, CacheWait, MaxFaults,  \* CacheJobs
    Upload, Command, Chunks, Slot   \* Uploads

VARIABLES part, cacheRow, cacheClaim, lane, status, docs, receipts, chosen, seen, faults,
          root, chunk, created, importJob, call, delayed,
          registerRow, registerClaim, at, registered, answer

fileVars == <<root, chunk, created, importJob, call, delayed>>
cacheVars == <<cacheRow, cacheClaim, lane, status, docs, receipts, chosen, seen, faults>>

MCKind == [clear |-> "clear", fill |-> "fill", new |-> "fill", report |-> "report"]
MCSupersedes == {<<"new", "fill">>}

Cache == INSTANCE CacheJobs WITH
    row <- cacheRow, claim <- cacheClaim, Job <- CacheJob, Lease <- CacheLease, RetryWait <- CacheWait
ASSUME CacheAssumption ==
    /\ Dates \in Nat \ {0} /\ Bars \subseteq SUBSET (1..Dates)
    /\ CacheLease \in Nat \ {0} /\ CacheWait \in Nat \ {0}
    /\ None \notin {"old"} \cup CacheJob
    /\ Absent \notin Cache!Jobs!Row /\ Idle \notin Cache!Jobs!Claim

Files == INSTANCE Uploads WITH job <- importJob
ASSUME FilesAssumption ==
    None \notin Command \cup {"right", "wrong"} \cup Files!RootDocument \cup Files!ImportJob

userVars == <<registerRow, registerClaim, at, registered, answer>>
User == INSTANCE Registration WITH row <- registerRow, claim <- registerClaim
ASSUME UserAssumption == Absent \notin User!Jobs!Row /\ Idle \notin User!Jobs!Claim

PartsInit == part \in {"rows", "cache", "uploads", "registration"}
             /\ Init /\ Cache!Init /\ Files!Init /\ User!Init
PartsNext ==
    \/ part = "rows" /\ Next /\ UNCHANGED <<part, cacheVars, fileVars, userVars>>
    \/ part = "cache" /\ Cache!Next /\ UNCHANGED <<part, jobVars, fileVars, userVars>>
    \/ part = "uploads" /\ Files!Next /\ UNCHANGED <<part, jobVars, cacheVars, userVars>>
    \/ part = "registration" /\ User!Next /\ UNCHANGED <<part, jobVars, cacheVars, fileVars>>
PartsSpec ==
    /\ PartsInit /\ [][PartsNext]_<<part, jobVars, cacheVars, fileVars, userVars>>
    /\ WF_cacheVars(part = "cache" /\ Cache!System)

ScanStaysTrue == Cache!ScanStaysTrue
GenerationsComplete == Cache!GenerationsComplete
NothingToReconcile == Cache!NothingToReconcile

\* An import keeps its workbook, and an expired one leaves nothing (Uploads).
WholeOrGone == Files!WholeOrGone

\* The provider registers one user, and its secret is not lost in silence (Registration).
RegisteredOnce == User!RegisteredOnce

\* No cache job waits for ever behind its lane.
CacheJobsEnd == Cache!CacheJobsEnd
=============================================================================
