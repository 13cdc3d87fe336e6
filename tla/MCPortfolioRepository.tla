------------------------ MODULE MCPortfolioRepository ------------------------
(***************************************************************************)
(* The two ways into the journal, one of which the initial state picks.    *)
(*                                                                         *)
(* "requests": one command sent twice within a second (the resend prepares *)
(* the very same record), two other commands, which is what it takes for   *)
(* MaxAttempts = 2 to run out, and a request that reuses the identity of a *)
(* command of the initial history with another input.                      *)
(*                                                                         *)
(* "jobs": a command that a request and a job carry, admitted when the     *)
(* request ran out of time, by two workers beside another request.         *)
(***************************************************************************)
EXTENDS PortfolioRepository, TLC

CONSTANTS first, resend, second, third, reuse, c0, c1, c2, c3, w1, w2, Absent, Idle

VARIABLES part, row, claim, published, staged, finalized, seen, faults

jobVars == <<row, claim, published, staged, finalized, seen, faults>>

MCRequest == {first, resend, second, third, reuse}
MCIdOf == [r \in MCRequest |->
    CASE r = second -> c2 [] r = third -> c3 [] r = reuse -> c0 [] OTHER -> c1]
MCHashOf == [r \in MCRequest |-> IF r = reuse THEN "x" ELSE "h"]
MCStampOf == [r \in MCRequest |-> 1]
MCInitialHead == <<[id |-> c0, hash |-> "h", stamp |-> 0]>>

Routes == INSTANCE PublishingJobs WITH
    head <- published, stored <- staged,
    Job <- {"cmd"}, Import <- {}, Twin <- {"cmd"}, Other <- {"old", "other"},
    InitialHead <- <<[id |-> "old", hash |-> "own", by |-> "api"]>>, Worker <- {w1, w2},
    PageSize <- 4, Batches <- 1, Lease <- 1, RetryWait <- 1, MaxFaults <- 3

\* The two requests of c1 are alike, and the workers.
Alike == Permutations({first, resend}) \cup Permutations({w1, w2})

JournalInit == part \in {"requests", "jobs"} /\ Init /\ Routes!Init
JournalNext ==
    \/ part = "requests" /\ Next /\ UNCHANGED <<part, jobVars>>
    \/ part = "jobs" /\ Routes!Next /\ UNCHANGED <<part, vars>>
JournalSpec == JournalInit /\ [][JournalNext]_<<part, vars, jobVars>>

\* The requests and jobs that carry one command move the journal as CommandLedger
\* says: once, whichever route comes first, and with its version as the answer
\* of each (PublishingJobs).
RoutesImplementLedger == Routes!ImplementsLedger
=============================================================================
