------------------------- MODULE PortfolioRepository -------------------------
(***************************************************************************)
(* PortfolioRepository.execute (shared/repository.js) run by concurrent    *)
(* requests against one document store.  The portfolio is one mutable head *)
(* document over immutable, content-addressed documents: a command record  *)
(* names its predecessor by hash, so the hash of a record stands for the   *)
(* whole chain behind it and is modelled as that sequence of entries.  The *)
(* head, the record it names and its sequence number are then one value,   *)
(* the chain; a head revision is never reused and is compared for equality *)
(* only, and as every head write adds a record, it too is the chain.       *)
(*                                                                         *)
(* A request that dies, runs out of its time budget or loses the answer of *)
(* the store is resent by its client under the same identity: that resend  *)
(* is another member of Request.                                           *)
(***************************************************************************)
EXTENDS Naturals, Sequences

CONSTANTS
    Id, Hash, Stamp,          \* command identities, request hashes, command times
    Request,                  \* invocations of execute
    IdOf, HashOf, StampOf,    \* what each invocation was called with
    InitialHead,              \* the chain published before the first request
    MaxAttempts               \* 4 in the code

Entry == [id : Id, hash : Hash, stamp : Stamp]
Unique(chain) == \A i, j \in 1..Len(chain) : chain[i].id = chain[j].id => i = j

ASSUME RequestAssumption ==
    /\ IdOf \in [Request -> Id]
    /\ HashOf \in [Request -> Hash]
    /\ StampOf \in [Request -> Stamp]
ASSUME InitialHeadAssumption ==
    InitialHead \in Seq(Entry) /\ Len(InitialHead) > 0 /\ Unique(InitialHead)
ASSUME MaxAttemptsAssumption == MaxAttempts \in Nat \ {0}

VARIABLES
    head,       \* the chain named by the document portfolio_heads/portfolio
    stored,     \* immutable documents: <<kind, chain they belong to>>
    receipts,   \* chains whose publication the store remembers by mutationId
    pc, pinned, attempt, reply,   \* per request: program point and locals
    begun       \* auxiliary: length of the chain a request first pinned

vars == <<head, stored, receipts, pc, pinned, attempt, reply, begun>>

\* "content" stands for the partitions and, written after them, the manifests
\* of both visibilities: readers start at the head, so their order is not seen.
Kind == {"content", "command"}
Point == {"head", "replay", "content", "command", "publish", "done"}
Reply == [status : {"none", "ok", "reused", "busy", "unavailable"}, version : Nat]
NoReply == [status |-> "none", version |-> 0]
Failed(status) == [status |-> status, version |-> 0]
Accepted(version) == [status |-> "ok", version |-> version]

\* Mutant: the walk stops before the oldest record.
RecordsOfButOldest(chain, id) == {k \in 2..Len(chain) : chain[k].id = id}

\* The records of a chain that carry an identity: historyPage walks them all.
RecordsOf(chain, id) == {k \in 1..Len(chain) : chain[k].id = id}

\* The domain's "prepare": a function of the pinned head and the request only.
Prepared(r) ==
    Append(pinned[r], [id |-> IdOf[r], hash |-> HashOf[r], stamp |-> StampOf[r]])

\* Mutant: the head is written unconditionally.
HeadOutcomeBlind(plan, expected) == IF plan \in receipts THEN "replayed" ELSE "applied"

\* The store's conditional write of the head, with its mutation receipts.
HeadOutcome(plan, expected) ==
    IF plan \in receipts THEN "replayed"
    ELSE IF expected = head THEN "applied" ELSE "conflict"

\* Mutants: the loop of execute() has no bound, or ends one attempt early.
MayRetryAlways(r) == TRUE
MayRetryLess(r) == attempt[r] + 2 < MaxAttempts

MayRetry(r) == attempt[r] + 1 < MaxAttempts

TypeOK ==
    /\ head \in Seq(Entry)
    /\ stored \subseteq Kind \X Seq(Entry)
    /\ receipts \subseteq Seq(Entry)
    /\ pc \in [Request -> Point]
    /\ pinned \in [Request -> Seq(Entry)]
    /\ attempt \in [Request -> 0..(MaxAttempts - 1)]
    /\ reply \in [Request -> Reply]
    /\ begun \in [Request -> Nat]

Init ==
    /\ head = InitialHead
    /\ stored = {<<kind, SubSeq(InitialHead, 1, n)>> : kind \in Kind, n \in 1..Len(InitialHead)}
    /\ receipts = {}
    /\ pc = [r \in Request |-> "head"]
    /\ pinned = [r \in Request |-> <<>>]
    /\ attempt = [r \in Request |-> 0]
    /\ reply = [r \in Request |-> NoReply]
    /\ begun = [r \in Request |-> 0]

\* The invocation returns, its locals are gone.
Finish(r, answer) ==
    /\ pc' = [pc EXCEPT ![r] = "done"]
    /\ pinned' = [pinned EXCEPT ![r] = <<>>]
    /\ attempt' = [attempt EXCEPT ![r] = 0]
    /\ reply' = [reply EXCEPT ![r] = answer]

\* head(): every attempt pins the head it works against.
ReadHead(r) ==
    /\ pc[r] = "head"
    /\ pinned' = [pinned EXCEPT ![r] = head]
    /\ begun' = [begun EXCEPT ![r] = IF attempt[r] = 0 THEN Len(head) ELSE @]
    /\ pc' = [pc EXCEPT ![r] = "replay"]
    /\ UNCHANGED <<head, stored, receipts, attempt, reply>>

\* Mutant: a known identity is answered whatever its input.
ReplayAnswerAnyInput(r, k) == Accepted(k)

ReplayAnswer(r, k) ==
    IF pinned[r][k].hash = HashOf[r] THEN Accepted(k) ELSE Failed("reused")

\* replay(): the pinned history is immutable, so when it is read is immaterial.
Replay(r) ==
    /\ pc[r] = "replay"
    /\ \/ /\ RecordsOf(pinned[r], IdOf[r]) = {}
          /\ pc' = [pc EXCEPT ![r] = "content"]
          /\ UNCHANGED <<pinned, attempt, reply>>
       \/ \E k \in RecordsOf(pinned[r], IdOf[r]) :
            Finish(r, ReplayAnswer(r, k))
    /\ UNCHANGED <<head, stored, receipts, begun>>

\* stage(): create-only; a document that exists already must be the same one.
Stage(r, kind, next) ==
    /\ pc[r] = kind
    /\ stored' = stored \cup {<<kind, Prepared(r)>>}
    /\ pc' = [pc EXCEPT ![r] = next]
    /\ UNCHANGED <<head, receipts, pinned, attempt, reply, begun>>

\* Mutant: publish() stages the command record only if it is all there is.
StageContentOnly(r) ==
    \/ Stage(r, "content", "publish")
    \/ Stage(r, "command", "publish")

StageContent(r) ==
    \/ Stage(r, "content", "command")
    \/ Stage(r, "command", "publish")

\* What the store does with publishHead's mutation.
WriteHead(r) ==
    IF HeadOutcome(Prepared(r), pinned[r]) = "applied"
    THEN head' = Prepared(r) /\ receipts' = receipts \cup {Prepared(r)}
    ELSE UNCHANGED <<head, receipts>>

\* publishHead() and the end of the loop of execute().
PublishHead(r) ==
    /\ pc[r] = "publish"
    /\ WriteHead(r)
    /\ \/ /\ HeadOutcome(Prepared(r), pinned[r]) # "conflict"
          /\ Finish(r, Accepted(Len(Prepared(r))))
       \/ /\ HeadOutcome(Prepared(r), pinned[r]) = "conflict"
          /\ MayRetry(r)
          /\ attempt' = [attempt EXCEPT ![r] = @ + 1]
          /\ pc' = [pc EXCEPT ![r] = "head"]
          /\ UNCHANGED <<pinned, reply>>
       \/ /\ HeadOutcome(Prepared(r), pinned[r]) = "conflict"
          /\ ~MayRetry(r)
          /\ Finish(r, Failed("busy"))
    /\ UNCHANGED <<stored, begun>>

\* The mutation reaches the store, its response does not reach the request.
LoseResponse(r) ==
    /\ pc[r] = "publish"
    /\ WriteHead(r)
    /\ Finish(r, Failed("unavailable"))
    /\ UNCHANGED <<stored, begun>>

\* budget() throws, a read or a staging write fails, or the isolate is stopped.
GiveUp(r) ==
    /\ pc[r] # "done"
    /\ Finish(r, Failed("unavailable"))
    /\ UNCHANGED <<head, stored, receipts, begun>>

RequestStep(r) ==
    \/ ReadHead(r)
    \/ Replay(r)
    \/ StageContent(r)
    \/ PublishHead(r)
    \/ LoseResponse(r)
    \/ GiveUp(r)

\* Every request has returned: nothing is left to do.
AllDone == (\A r \in Request : pc[r] = "done") /\ UNCHANGED vars

Next == (\E r \in Request : RequestStep(r)) \/ AllDone

Spec == Init /\ [][Next]_vars

-----------------------------------------------------------------------------
\* An identity is in the published chain at most once, however many requests
\* carry it and wherever they stopped (repository.js:138-142, 163-182).
CommandsAppliedOnce == Unique(head)

\* Everything the head makes reachable is already durable: its own partitions
\* and manifests and the records of the whole history (repository.js:143-162).
HeadContentDurable ==
    /\ \A kind \in Kind : <<kind, head>> \in stored
    /\ \A n \in 1..Len(head) : <<"command", SubSeq(head, 1, n)>> \in stored

\* A version given to a caller is the one at which its own request, not
\* another one of the same identity, entered the published chain; it never
\* stops being so (repository.js:133, 168-169).
AnswersAreCommitted ==
    \A r \in Request : reply[r].status = "ok" =>
        LET v == reply[r].version
        IN  v \in 1..Len(head) /\ head[v].id = IdOf[r] /\ head[v].hash = HashOf[r]

\* "Concurrent portfolio update" (repository.js:181) is said only to a request
\* that as many other commands overtook as it made attempts.
BusyMeansOvertaken ==
    \A r \in Request : reply[r].status = "busy" => Len(head) >= begun[r] + MaxAttempts

\* Refinement: the head's chain is the journal, the replies its answers.
Answers ==
    {[id |-> IdOf[r], hash |-> HashOf[r], version |-> reply[r].version] :
        r \in {q \in Request : reply[q].status = "ok"}}

Ledger == INSTANCE CommandLedger
            WITH Initial <- InitialHead, ledger <- head, answers <- Answers

\* Every behaviour of the requests is one of the abstract journal.
ImplementsLedger == Ledger!LedgerSpec
=============================================================================
