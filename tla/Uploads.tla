------------------------------- MODULE Uploads --------------------------------
(***************************************************************************)
(* Workbook uploads (shared/uploads.js): chunks are created once, the root *)
(* is sealed over the complete set, bound to one import, and expires after *)
(* seven days or after its import; jobs/cleanup.js then deletes the        *)
(* chunks.  Every step is one request to the store; a conditional write    *)
(* holds for the revision the same invocation has read.  Deadlines pass at *)
(* any moment, also between two requests of an invocation.  The chunks of  *)
(* one assemble() are read together: what could change in between also     *)
(* changes the root, whose revision every write after it is held to.       *)
(***************************************************************************)
EXTENDS Naturals

CONSTANTS
    Upload, Command,    \* uploads and the import commands that may name them
    Chunks,             \* chunks of an upload
    Slot,               \* invocations at work at a time
    None

VARIABLES
    root,       \* per upload: its root document
    chunk,      \* per upload and index: what is stored, "right" if the digests agree
    created,    \* chunks the store has a receipt for: a repeated creation is answered from it
    job,        \* per command: its import job
    call,       \* per slot: the invocation at work
    delayed     \* chunks created after their root had expired

uploadVars == <<root, chunk, created, job, call, delayed>>

Index == 1..Chunks
RootDocument == [state : {"uploading", "sealed", "bound", "expired"}, owner : Command \cup {None},
                 deadline : {"none", "ahead", "passed"}, rev : Nat]
ImportJob == [upload : Upload, state : {"queued", "captured", "ended"},
              deadline : {"none", "ahead", "passed"}]
Resting == [at |-> "idle"]
Call(at, u, c, i, seen) == [at |-> at, upload |-> u, command |-> c, index |-> i, seen |-> seen, todo |-> {}]
At(s, step) == call[s].at = step
Go(s, step) == call' = [call EXCEPT ![s].at = step]
End(s) == call' = [call EXCEPT ![s] = Resting]
Enters(s, step, u, c, i) == At(s, "idle") /\ call' = [call EXCEPT ![s] = Call(step, u, c, i, root[u])]

Init ==
    /\ root = [u \in Upload |-> None]
    /\ chunk = [u \in Upload |-> [i \in Index |-> None]]
    /\ created = {} /\ delayed = {}
    /\ job = [c \in Command |-> None]
    /\ call = [s \in Slot |-> Resting]

Known(u) == root[u] # None
Passed(d) == d.deadline = "passed"
Current(s) == root[call[s].upload].rev = call[s].seen.rev
Revise(u, state, owner, deadline) ==
    root' = [root EXCEPT ![u] = [state |-> state, owner |-> owner, deadline |-> deadline, rev |-> @.rev + 1]]

-----------------------------------------------------------------------------
(* uploads.js, from the routes of api/handler.js *)

Admit(u) == /\ ~Known(u)
            /\ root' = [root EXCEPT ![u] = [state |-> "uploading", owner |-> None, deadline |-> "ahead", rev |-> 1]]
            /\ UNCHANGED <<chunk, created, job, call, delayed>>

BeginChunk(s, u, i, content) ==
    /\ Known(u) /\ root[u].state # "expired"
    /\ Enters(s, content, u, None, i)
    /\ UNCHANGED <<root, chunk, created, job, delayed>>

PutChunk(s, content) ==
    LET u == call[s].upload  i == call[s].index
        new == chunk[u][i] = None /\ call[s].seen.state = "uploading" /\ <<u, i>> \notin created
    IN  /\ At(s, content) /\ End(s)
        /\ IF new THEN /\ chunk' = [chunk EXCEPT ![u][i] = content]
                       /\ created' = created \cup {<<u, i>>}
                       /\ delayed' = IF root[u].state = "expired" THEN delayed \cup {<<u, i>>} ELSE delayed
                  ELSE UNCHANGED <<chunk, created, delayed>>
        /\ UNCHANGED <<root, job>>

BeginSeal(s, u) == /\ Known(u) /\ root[u].state # "expired"
                   /\ Enters(s, "assemble", u, None, 1)
                   /\ UNCHANGED <<root, chunk, created, job, delayed>>

Whole(u) == \A i \in Index : chunk[u][i] = "right"

Assemble(s) ==
    /\ At(s, "assemble")
    /\ IF Whole(call[s].upload) /\ call[s].seen.state = "uploading" THEN Go(s, "seal") ELSE End(s)
    /\ UNCHANGED <<root, chunk, created, job, delayed>>

Seal(s) ==
    /\ At(s, "seal") /\ End(s)
    /\ IF Current(s) THEN Revise(call[s].upload, "sealed", None, root[call[s].upload].deadline) ELSE UNCHANGED root
    /\ UNCHANGED <<chunk, created, job, delayed>>

\* The import route: an upload belongs to one import, whose job comes after.
BeginImport(s, u, c) ==
    /\ job[c] = None /\ Known(u) /\ Enters(s, "bind", u, c, 1)
    /\ UNCHANGED <<root, chunk, created, job, delayed>>

ReadBind(s) ==
    LET r == root[call[s].upload]
    IN  /\ At(s, "bind")
        /\ IF r.state = "bound" /\ r.owner = call[s].command THEN Go(s, "admit")
           ELSE IF r.state = "sealed" THEN call' = [call EXCEPT ![s].at = "bindWrite", ![s].seen = r]
           ELSE End(s)
        /\ UNCHANGED <<root, chunk, created, job, delayed>>

Bind(s) ==
    /\ At(s, "bindWrite")
    /\ IF Current(s) THEN Revise(call[s].upload, "bound", call[s].command, "none") /\ Go(s, "admit")
                     ELSE UNCHANGED root /\ Go(s, "bind")
    /\ UNCHANGED <<chunk, created, job, delayed>>

AdmitJob(s) ==
    /\ At(s, "admit") /\ End(s)
    /\ LET c == call[s].command
           new == [upload |-> call[s].upload, state |-> "queued", deadline |-> "none"]
       IN  job' = IF job[c] = None THEN [job EXCEPT ![c] = new] ELSE job
    /\ UNCHANGED <<root, chunk, created, delayed>>

-----------------------------------------------------------------------------
(* The import job: jobs.js and worker.js keep it; it may end at any point *)

Live(c) == job[c] # None /\ job[c].state # "ended"

BeginWork(s, c) == /\ Live(c) /\ job[c].state = "queued"
                   /\ Enters(s, "capture", job[c].upload, c, 1)
                   /\ UNCHANGED <<root, chunk, created, job, delayed>>

\* Otherwise the phase fails and is tried again.
Capture(s) ==
    LET c == call[s].command
    IN  /\ At(s, "capture") /\ End(s)
        /\ IF Whole(call[s].upload) /\ call[s].seen.state \in {"sealed", "bound"} /\ Live(c)
           THEN job' = [job EXCEPT ![c].state = "captured"] ELSE UNCHANGED job
        /\ UNCHANGED <<root, chunk, created, delayed>>

EndJob(c) == /\ Live(c) /\ job' = [job EXCEPT ![c].state = "ended", ![c].deadline = "ahead"]
             /\ UNCHANGED <<root, chunk, created, call, delayed>>

-----------------------------------------------------------------------------
(* cleanup.js: ended imports first, then uploads nobody imported *)

DueJobs == {c \in Command : job[c] # None /\ Passed(job[c])}
DueUploads == {u \in Upload : Known(u) /\ Passed(root[u])}

BeginCleanup(s) ==
    /\ \/ \E c \in DueJobs : Enters(s, "expire", job[c].upload, c, 1)
       \/ DueJobs = {} /\ \E u \in DueUploads : Enters(s, "expire", u, None, 1)
    /\ UNCHANGED <<root, chunk, created, job, delayed>>

\* What a cleanup of a job does when the upload is not its own.
PassBy(s) == IF call[s].command = None THEN End(s) ELSE Go(s, "settle")

MayExpire(s, r) == IF call[s].command = None THEN r.state # "bound" /\ Passed(r)
                   ELSE r.state = "sealed" \/ (r.state = "bound" /\ r.owner = call[s].command)

ReadExpire(s) ==
    LET r == root[call[s].upload]
    IN  /\ At(s, "expire")
        /\ IF r.state = "expired" THEN call' = [call EXCEPT ![s].at = "list", ![s].seen = r]
           ELSE IF MayExpire(s, r) THEN call' = [call EXCEPT ![s].at = "expireWrite", ![s].seen = r]
           ELSE PassBy(s)
        /\ UNCHANGED <<root, chunk, created, job, delayed>>

\* Mutant: the root expires whatever has become of it since it was read.
ExpireAnyway(s) ==
    LET u == call[s].upload
    IN  /\ At(s, "expireWrite") /\ Revise(u, "expired", call[s].seen.owner, "passed")
        /\ call' = [call EXCEPT ![s].at = "list", ![s].seen = root'[u]]
        /\ UNCHANGED <<chunk, created, job, delayed>>

Expire(s) ==
    LET u == call[s].upload
    IN  /\ At(s, "expireWrite")
        /\ IF Current(s) THEN /\ Revise(u, "expired", root[u].owner, "passed")
                              /\ call' = [call EXCEPT ![s].at = "list", ![s].seen = root'[u]]
                         ELSE UNCHANGED root /\ PassBy(s)
        /\ UNCHANGED <<chunk, created, job, delayed>>

Remaining(u) == {i \in Index : chunk[u][i] # None}

ListChunks(s) ==
    /\ At(s, "list")
    /\ LET left == Remaining(call[s].upload)
       IN  IF left = {} THEN Go(s, "settle")
           ELSE call' = [call EXCEPT ![s].at = "delete", ![s].todo = left]
    /\ UNCHANGED <<root, chunk, created, job, delayed>>

\* A pass that deletes ends here; the next one finds nothing and settles.
DeleteChunk(s, i) ==
    /\ At(s, "delete") /\ i \in call[s].todo
    /\ chunk' = [chunk EXCEPT ![call[s].upload][i] = None]
    /\ IF call[s].todo = {i} THEN End(s) ELSE call' = [call EXCEPT ![s].todo = @ \ {i}]
    /\ UNCHANGED <<root, created, job, delayed>>

Settle(s) ==
    /\ At(s, "settle") /\ End(s)
    /\ LET c == call[s].command  u == call[s].upload
       IN  IF c # None THEN job' = [job EXCEPT ![c].deadline = "none"] /\ UNCHANGED root
           ELSE /\ IF Current(s) THEN Revise(u, "expired", root[u].owner, "none") ELSE UNCHANGED root
                /\ UNCHANGED job
    /\ UNCHANGED <<chunk, created, delayed>>

-----------------------------------------------------------------------------
(* The clock, and invocations that are stopped or get no answer *)

Later ==
    \/ \E u \in Upload : /\ Known(u) /\ root[u].deadline = "ahead"
                         /\ root' = [root EXCEPT ![u].deadline = "passed"] /\ UNCHANGED job
    \/ \E c \in Command : /\ job[c] # None /\ job[c].deadline = "ahead"
                          /\ job' = [job EXCEPT ![c].deadline = "passed"] /\ UNCHANGED root

Tick == Later /\ UNCHANGED <<chunk, created, call, delayed>>
Stop(s) == ~At(s, "idle") /\ End(s) /\ UNCHANGED <<root, chunk, created, job, delayed>>

Next ==
    \/ Tick \/ \E u \in Upload : Admit(u) \/ \E c \in Command : EndJob(c)
    \/ \E s \in Slot :
          \/ \E u \in Upload : BeginSeal(s, u) \/ \E c \in Command : BeginImport(s, u, c)
          \/ \E u \in Upload, i \in Index, content \in {"right", "wrong"} : BeginChunk(s, u, i, content)
          \/ PutChunk(s, "right") \/ PutChunk(s, "wrong") \/ Assemble(s) \/ Seal(s)
          \/ ReadBind(s) \/ Bind(s) \/ AdmitJob(s)
          \/ \E c \in Command : BeginWork(s, c)
          \/ Capture(s) \/ BeginCleanup(s) \/ ReadExpire(s) \/ Expire(s) \/ ListChunks(s)
          \/ \E i \in Index : DeleteChunk(s, i)
          \/ Settle(s) \/ Stop(s)

Spec == Init /\ [][Next]_uploadVars

-----------------------------------------------------------------------------
(* Properties *)

\* An import that has not ended has its whole, unchanged workbook and shares
\* it with no other import, whatever else was uploading, sealing, importing
\* or expiring at the same time; and once the cleanup has let go of an upload
\* nothing of it is left but chunks that were still on their way when it
\* expired (uploads.js:7-9, cleanup.js:13-15).
WholeOrGone ==
    /\ \A c \in Command : Live(c) =>
          LET u == job[c].upload
          IN  Whole(u) /\ root[u].state = "bound" /\ root[u].owner = c
    /\ \A u \in Upload : Known(u) /\ root[u].state = "expired" /\ root[u].deadline = "none" =>
          \A i \in Remaining(u) : <<u, i>> \in delayed
=============================================================================
