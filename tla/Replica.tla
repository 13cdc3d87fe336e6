-------------------------------- MODULE Replica --------------------------------
(***************************************************************************)
(* One document on several devices and the server: the writes of           *)
(* data/writes.ts, last writer wins (data/conflict.ts), and the full       *)
(* resync of data/scope.ts that erases a device's database and reads it    *)
(* again.  The push and the pull are RxDB's and the platform's, modelled   *)
(* from the handlers this code gives them; a page is not taken in while a  *)
(* push of the document is under way.  Stamps are distinct and grow (one   *)
(* clock); one tab per device; a security reset, which erases unsent       *)
(* writes on purpose, is left out.                                         *)
(***************************************************************************)
EXTENDS Naturals

CONSTANTS Device, Absent, MaxEdits, MaxLosses, MaxResyncs, MaxCrashes

VARIABLES
    server,         \* the state the server holds and its position in the change feed
    local, base,    \* per device: the document, and the server state it grew from
    checkpoint,     \* per device: how far it has pulled, kept outside the database
    push,           \* per device: the push under way
    half,           \* per device: the stamp of a deletion that is not one yet
    mode,           \* per device: "live", "draining", "drained", "erased", "clearing"
    recovery,       \* per device: the recorded need of a full resync
    now, losses, resyncs, crashes,
    edits,          \* states members have written while their device was going to send them
    cut             \* devices closed between erasing and forgetting, with nothing recorded

vars == <<server, local, base, checkpoint, push, half, mode, recovery,
          now, losses, resyncs, crashes, edits, cut>>

Doc == [at : Nat, deleted : BOOLEAN]
State(at, deleted) == [at |-> at, deleted |-> deleted]
NoPush == [phase |-> "none"]

Init ==
    /\ server = [doc |-> State(1, FALSE), seq |-> 1]
    /\ local = [d \in Device |-> Absent] /\ base = [d \in Device |-> Absent]
    /\ checkpoint = [d \in Device |-> 0]
    /\ push = [d \in Device |-> NoPush] /\ half = [d \in Device |-> 0]
    /\ mode = [d \in Device |-> "live"] /\ recovery = [d \in Device |-> FALSE]
    /\ now = 1 /\ losses = 0 /\ resyncs = 0 /\ crashes = 0
    /\ edits = {State(1, FALSE)} /\ cut = {}

-----------------------------------------------------------------------------
(* conflict.ts *)

\* Equal stamps: the canonical JSON decides, and "_deleted" is its first key.
Wins(left, right) == left.at > right.at \/ (left.at = right.at /\ left.deleted /\ ~right.deleted)

\* Mutant: the state the server holds always stands.
ServerWins(mine, master) == master

Resolve(mine, master) == IF Wins(mine, master) THEN mine ELSE master

-----------------------------------------------------------------------------
(* writes.ts: members write at any time the database is there *)

Shown(d) == local[d] # Absent /\ ~local[d].deleted /\ mode[d] \in {"live", "draining", "drained"}
Unchanged == UNCHANGED <<server, checkpoint, mode, recovery, losses, resyncs, crashes, cut>>

Write(d, state) ==
    /\ local' = [local EXCEPT ![d] = state]
    /\ edits' = IF mode[d] = "drained" THEN edits ELSE edits \cup {state}
    /\ Unchanged /\ UNCHANGED <<base, push>>

Stamp(d) == /\ Shown(d) /\ now <= MaxEdits /\ now' = now + 1
            /\ Write(d, State(now + 1, FALSE))

Modify(d) == Stamp(d) /\ UNCHANGED half
RemoveStamp(d) == half[d] = 0 /\ Stamp(d) /\ half' = [half EXCEPT ![d] = now + 1]

\* Whatever the document has become meanwhile is what is deleted.
Remove(d) ==
    /\ half[d] # 0 /\ half' = [half EXCEPT ![d] = 0]
    /\ IF Shown(d) THEN Write(d, State(local[d].at, TRUE))
                   ELSE Unchanged /\ UNCHANGED <<local, edits, base, push>>
    /\ UNCHANGED now

-----------------------------------------------------------------------------
(* Replication *)

Pending(d) == local[d] # base[d]
Replicating(d) == mode[d] \in {"live", "draining"}
Moving == UNCHANGED <<half, mode, recovery, now, resyncs, crashes, edits>>
Steady == Moving /\ UNCHANGED cut

Pull(d) ==
    /\ mode[d] = "live" /\ push[d] = NoPush /\ server.seq > checkpoint[d]
    /\ checkpoint' = [checkpoint EXCEPT ![d] = server.seq]
    /\ IF Pending(d) THEN UNCHANGED <<local, base>>        \* the push will meet the conflict
       ELSE local' = [local EXCEPT ![d] = server.doc] /\ base' = [base EXCEPT ![d] = server.doc]
    /\ cut' = cut \ {d}
    /\ Moving /\ UNCHANGED <<server, push, losses>>

SendPush(d) ==
    /\ Replicating(d) /\ Pending(d) /\ push[d] = NoPush
    /\ push' = [push EXCEPT ![d] = [phase |-> "sent", new |-> local[d], assumed |-> base[d]]]
    /\ Steady /\ UNCHANGED <<server, local, base, checkpoint, losses>>

ServePush(d) ==
    /\ push[d].phase = "sent"
    /\ LET fits == push[d].assumed = server.doc IN
       /\ server' = IF fits THEN [doc |-> push[d].new, seq |-> server.seq + 1] ELSE server
       /\ push' = [push EXCEPT ![d] = [phase |-> "answered", new |-> @.new,
                                       master |-> IF fits THEN @.new ELSE server.doc]]
    /\ Steady /\ UNCHANGED <<local, base, checkpoint, losses>>

\* A document written since the push was sent stays as it is, its conflict unsolved.
TakeAnswer(d) ==
    /\ push[d].phase = "answered" /\ push' = [push EXCEPT ![d] = NoPush]
    /\ LET new == push[d].new  master == push[d].master IN
       IF new = master THEN base' = [base EXCEPT ![d] = master] /\ UNCHANGED local
       ELSE IF local[d] # new THEN UNCHANGED <<local, base>>
       ELSE /\ base' = [base EXCEPT ![d] = master]
            /\ local' = [local EXCEPT ![d] = Resolve(new, master)]
    /\ Steady /\ UNCHANGED <<server, checkpoint, losses>>

LosePush(d) ==
    /\ push[d] # NoPush /\ push' = [push EXCEPT ![d] = NoPush]
    /\ losses < MaxLosses /\ losses' = losses + 1
    /\ Steady /\ UNCHANGED <<server, local, base, checkpoint>>

-----------------------------------------------------------------------------
(* scope.ts: the full resync *)

ResyncStep(d, from, to) == mode[d] = from /\ mode' = [mode EXCEPT ![d] = to]
Quiet == UNCHANGED <<server, now, losses, edits>>

\* expired: the platform refused the checkpoint, which is recorded; otherwise
\* the member asked for a fresh copy.  The live replication stops.
Resync(d, expired) ==
    /\ ResyncStep(d, "live", "draining") /\ resyncs < MaxResyncs /\ resyncs' = resyncs + 1
    /\ recovery' = [recovery EXCEPT ![d] = expired]
    /\ push' = [push EXCEPT ![d] = NoPush]
    /\ Quiet /\ UNCHANGED <<local, base, checkpoint, half, crashes, cut>>

\* Mutant: the database is erased with the writes that never left it.
DrainedAnyway(d) == TRUE

Drained(d) == ~Pending(d) /\ push[d] = NoPush

EndDrain(d) ==
    /\ Drained(d) /\ ResyncStep(d, "draining", "drained")
    /\ push' = [push EXCEPT ![d] = NoPush]
    /\ Quiet /\ UNCHANGED <<local, base, checkpoint, half, recovery, resyncs, crashes, cut>>

Erase(d) ==
    /\ ResyncStep(d, "drained", "erased")
    /\ local' = [local EXCEPT ![d] = Absent] /\ base' = [base EXCEPT ![d] = Absent]
    /\ half' = [half EXCEPT ![d] = 0]
    /\ Quiet /\ UNCHANGED <<push, checkpoint, recovery, resyncs, crashes, cut>>

\* clearReplicationState: the recorded need first, then the checkpoints.  What
\* the member asked for is recorded nowhere.
ForgetRecovery(d) ==
    /\ ResyncStep(d, "erased", "clearing")
    /\ recovery' = [recovery EXCEPT ![d] = FALSE]
    /\ Quiet /\ UNCHANGED <<local, base, push, checkpoint, half, resyncs, crashes, cut>>

ForgetCheckpoint(d) ==
    /\ ResyncStep(d, "clearing", "live")
    /\ checkpoint' = [checkpoint EXCEPT ![d] = 0] /\ cut' = cut \ {d}
    /\ Quiet /\ UNCHANGED <<local, base, push, half, recovery, resyncs, crashes>>

\* Mutant: open() does not take up a resync that was under way.
ReopenAsIs(d) == "live"

Reopen(d) == IF recovery[d] THEN "draining" ELSE "live"

\* The tab is closed and opened again: the database and what is recorded remain.
Crash(d) ==
    /\ crashes < MaxCrashes /\ crashes' = crashes + 1
    /\ push' = [push EXCEPT ![d] = NoPush] /\ half' = [half EXCEPT ![d] = 0]
    /\ mode' = [mode EXCEPT ![d] = Reopen(d)]
    /\ cut' = IF mode[d] \in {"erased", "clearing"} /\ ~recovery[d] THEN cut \cup {d} ELSE cut
    /\ Quiet /\ UNCHANGED <<local, base, checkpoint, recovery, resyncs>>

Next == \E d \in Device :
    \/ Modify(d) \/ RemoveStamp(d) \/ Remove(d)
    \/ Pull(d) \/ SendPush(d) \/ ServePush(d) \/ TakeAnswer(d) \/ LosePush(d)
    \/ Resync(d, TRUE) \/ Resync(d, FALSE) \/ EndDrain(d) \/ Erase(d)
    \/ ForgetRecovery(d) \/ ForgetCheckpoint(d) \/ Crash(d)

Spec == Init /\ [][Next]_vars

-----------------------------------------------------------------------------
(* Properties *)

Settled(d) == mode[d] = "live" /\ ~Pending(d) /\ push[d] = NoPush /\ checkpoint[d] = server.seq

\* Once every device has sent and read what there is, the server holds the
\* last thing a member did anywhere, or what was done to it later in the order
\* of the stamps: offline edits, conflicts, answers that got lost and full
\* resyncs take nothing back.  The edits made after the last write of a
\* resync has been sent and before its database is erased are not counted.
NewestEditStands ==
    (\A d \in Device : Settled(d)) => \A e \in edits : ~Wins(e, server.doc)

\* A device that has sent and read everything shows what the server holds,
\* also when its tab was closed in the middle of a full resync.  Only a device
\* closed after its database was erased, before its checkpoint was forgotten
\* and with nothing recorded to resume the resync does not: it shows nothing,
\* and nothing else.  For a refresh the member asked for that is the whole
\* time in between; for an expired checkpoint, from the moment the record goes.
ReplicasCatchUp ==
    \A d \in Device : Settled(d) => local[d] = IF d \in cut THEN Absent ELSE server.doc

\* scope.ts: "A database that is gone has no checkpoint to resume from.  Left
\* behind", the next generation "would pull only what changed after it and
\* never see the rest".  Then no device that has sent and read everything
\* would show anything but what the server holds.
NothingIsLeftUnseen == \A d \in Device : Settled(d) => local[d] = server.doc
=============================================================================
