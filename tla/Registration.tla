----------------------------- MODULE Registration -----------------------------
(***************************************************************************)
(* The registration of a broker user (jobs/worker.js, api/broker.js): all  *)
(* requests share one job.  The provider registers anew at every call and  *)
(* answers with a secret that is shown once, so a marker is saved before   *)
(* the call and the answer after it, each in a request of its own; an      *)
(* invocation may stop, stall past its lease or get no answer in between.  *)
(* What follows, the publication of the user, is PublishingJobs' and one   *)
(* step here; a household that has a user already never comes here.        *)
(***************************************************************************)
EXTENDS Naturals

CONSTANTS Worker, Lease, RetryWait, Absent, Idle

VARIABLES
    row, claim,     \* JobStore
    at,             \* per worker: how far the phase is
    registered,     \* users the provider has registered
    answer          \* the artifact "registration-response" is stored

registrationVars == <<row, claim, at, registered, answer>>

Shared == "snaptrade_registration_v1"
NoAnswer == 0
NotDue == Lease + RetryWait + 1

Jobs == INSTANCE JobStore WITH
    Job <- {Shared}, Point <- {"start", "register_pending", "history"}, Start <- "start",
    Result <- {NoAnswer}, NoResult <- NoAnswer, Never <- NotDue

Works(w, step) == claim[w] # Idle /\ at[w] = step
Goes(w, step) == at' = [at EXCEPT ![w] = step]
Returns(w) == Goes(w, "begin")
Outside == UNCHANGED <<registered, answer>>
Saved(w) == claim[w].point

Init == /\ Jobs!Init
        /\ at = [w \in Worker |-> "begin"]
        /\ registered = 0 /\ answer = FALSE

-----------------------------------------------------------------------------
(* Requests and the dispatcher *)

Request == Jobs!Admit(Shared) /\ UNCHANGED at /\ Outside
Cancel == Jobs!Cancel(Shared) /\ UNCHANGED at /\ Outside
ClaimCancelled == Jobs!ClaimCancelled(Shared) /\ UNCHANGED at /\ Outside
ClaimJob(w) == Jobs!ClaimJob(w, Shared) /\ UNCHANGED at /\ Outside
Tick == Jobs!Tick /\ UNCHANGED at /\ Outside

-----------------------------------------------------------------------------
(* One phase of the job *)

\* Mutant: a continuation that finds no answer calls the provider again.
NextRepeating(w) == IF answer THEN "advance" ELSE IF Saved(w) = "start" THEN "mark" ELSE "call"

\* An answer that is stored is used; the marker without one is a lost call.
NextStep(w) == IF answer THEN "advance" ELSE IF Saved(w) = "start" THEN "mark" ELSE "give up"

Look(w) == /\ Works(w, "begin") /\ Saved(w) # "history"
           /\ Goes(w, NextStep(w)) /\ UNCHANGED <<row, claim>> /\ Outside

Mark(w) == /\ Works(w, "mark") /\ Goes(w, "call")
           /\ Jobs!Checkpoint(w, "register_pending", "committing", NoAnswer, 0, TRUE) /\ Outside

\* The call may fail before or after the provider has registered the user.
Call(w) == /\ Works(w, "call")
           /\ \/ registered' = registered + 1 /\ (Goes(w, "save") \/ Goes(w, "look again"))
              \/ UNCHANGED registered /\ Goes(w, "look again")
           /\ UNCHANGED <<row, claim, answer>>

Save(w) == /\ Works(w, "save") /\ (Goes(w, "advance") \/ Goes(w, "look again"))
           /\ answer' \in {answer, TRUE} /\ (at'[w] = "advance" => answer')
           /\ UNCHANGED <<row, claim, registered>>

LookAgain(w) == /\ Works(w, "look again")
                /\ Goes(w, IF answer THEN "advance" ELSE "give up")
                /\ UNCHANGED <<row, claim>> /\ Outside

GiveUp(w) == /\ Works(w, "give up") /\ Returns(w)
             /\ Jobs!Checkpoint(w, Saved(w), "needs-attention", NoAnswer, 0, FALSE) /\ Outside

\* advance() and a failed phase wait in the state the claim has.
Waiting(w) == IF claim[w].state = "committing" THEN "committing" ELSE "retry"
Advance(w) == /\ Works(w, "advance") /\ Returns(w)
              /\ Jobs!Checkpoint(w, "history", Waiting(w), NoAnswer, 1, FALSE) /\ Outside

Fail(w) == /\ at[w] \in {"begin", "mark"} /\ claim[w] # Idle /\ Returns(w)
           /\ Jobs!Checkpoint(w, Saved(w), Waiting(w), NoAnswer, RetryWait, FALSE) /\ Outside

Publish(w) == /\ Works(w, "begin") /\ Saved(w) = "history" /\ Returns(w)
              /\ Jobs!Checkpoint(w, "start", "completed", NoAnswer, 0, FALSE) /\ Outside

\* The isolate stops, or its checkpoint is refused.
Leave(w) == Jobs!Leave(w) /\ Returns(w) /\ Outside

Next ==
    \/ Request \/ Cancel \/ ClaimCancelled \/ Tick
    \/ \E w \in Worker :
          \/ ClaimJob(w) \/ Look(w) \/ Mark(w) \/ Call(w) \/ Save(w) \/ LookAgain(w)
          \/ GiveUp(w) \/ Advance(w) \/ Fail(w) \/ Publish(w) \/ Leave(w)
    \/ Jobs!AllFinished /\ UNCHANGED <<at, registered, answer>>

Spec == Init /\ [][Next]_registrationVars

-----------------------------------------------------------------------------
\* However often the registration is requested, cancelled, stopped and taken
\* over, the provider registers one user at most; a job that is completed has
\* stored that user's secret, and one that ended without it, though the
\* provider may have registered, says so (worker.js:34-48).
RegisteredOnce ==
    /\ registered <= 1
    /\ Jobs!Exists(Shared) =>
          /\ row[Shared].state = "completed" => registered = 1 /\ answer
          /\ row[Shared].state \in {"failed", "cancelled"} => registered = 0
=============================================================================
