--------------------------- MODULE MCPublishingJobs ---------------------------
(***************************************************************************)
(* Small instances: one job at a time, an import or a command that an API  *)
(* invocation carries too, API invocations that move the head under it,    *)
(* and two workers that may hold the job one after the other.              *)
(***************************************************************************)
EXTENDS PublishingJobs, TLC

CONSTANTS w1, w2

MCInitialHead == <<[id |-> "old", hash |-> "own", by |-> "api"]>>

\* All jobs but one were cancelled while they were queued.
CalledOff == [state |-> "cancelled", point |-> Start, result |-> NoResult,
              cancelRequested |-> TRUE, due |-> Never, lease |-> 0]
OneJobInit ==
    /\ \E one \in Job : row = [j \in Job |-> IF j = one THEN Absent ELSE CalledOff]
    /\ claim = [w \in Worker |-> Idle] /\ seen = [w \in Worker |-> Fresh]
    /\ head = InitialHead /\ stored = {} /\ finalized = {} /\ faults = 0

OneJobSpec == OneJobInit /\ [][Next]_vars /\ Fairness
=============================================================================
