------------------------------ MODULE Membership ------------------------------
(***************************************************************************)
(* The only writer of household membership, functions/households/index.ts. *)
(* A person's access is a claim on the token, a map from households to     *)
(* roles; the readable list is one document per person and household, and  *)
(* an invitation is a document per address.  Each call is a short program  *)
(* of reads and writes that other calls run between and that may stop      *)
(* anywhere.  Documents are written under the revision just read; a claim  *)
(* is replaced whole, under the authorization epoch it was read with.      *)
(***************************************************************************)
EXTENDS Naturals, Sequences, FiniteSets

CONSTANTS
    Person, Household, Role, None,
    Founder,        \* of the households there are at first; None: still to be created
    Invited,        \* <<household, person>> of the invitations there are at first
    Slot,           \* calls running at the same time
    Attempts,       \* read-compose-write attempts of changeHousehold, 4 in the code
    MaxCalls, MaxStops

VARIABLES
    claims,         \* per person: the households map and the authorization epoch
    founder,        \* households documents: owner_id
    member,         \* memberships documents of persons
    invitation,     \* memberships documents of addresses
    call,           \* what each slot runs
    calls, stops,
    raced, cut      \* <<household, person>> two calls were about at once, or one gave up about

vars == <<claims, founder, member, invitation, call, calls, stops, raced, cut>>

Pair == Household \X Person
Operation == {"create", "invite", "accept", "role", "remove"}
NoDocument == [rev |-> 0, status |-> None, role |-> None]
Idle == [op |-> None]
Busy(s) == call[s] # Idle
About(s) == <<call[s].h, call[s].who>>

Init ==
    /\ founder = Founder
    /\ claims = [p \in Person |->
         [map |-> [h \in Household |-> IF Founder[h] = p THEN "owner" ELSE None], epoch |-> 0]]
    /\ member = [k \in Pair |-> IF Founder[k[1]] = k[2]
                                THEN [rev |-> 1, status |-> "active", role |-> "owner"] ELSE NoDocument]
    /\ invitation = [k \in Pair |-> IF k \in Invited
                                    THEN [rev |-> 1, status |-> "invited", role |-> "editor"] ELSE NoDocument]
    /\ call = [s \in Slot |-> Idle]
    /\ calls = 0 /\ stops = 0 /\ raced = {} /\ cut = {}

-----------------------------------------------------------------------------
(* A call: its checks, then the writes still to do *)

\* Mutant: remove() marks the membership document before it takes the claim.
DocumentFirst(op) == IF op = "remove" THEN <<"member", "claim">>
                     ELSE IF op = "accept" THEN <<"member", "claim", "mark">>
                     ELSE IF op = "invite" THEN <<"mark">> ELSE <<"member", "claim">>

Writes(op) == CASE op = "remove" -> <<"claim", "member">>
                [] op = "accept" -> <<"member", "claim", "mark">>
                [] op = "invite" -> <<"mark">>
                [] OTHER -> <<"member", "claim">>       \* create, setRole

\* role is what the claim is to become, copy what has been read.
Program(op, h, who, role) ==
    [op |-> op, h |-> h, who |-> who, role |-> role, todo |-> Writes(op), copy |-> None, tries |-> 0]

Start(s, program) ==
    /\ call' = [call EXCEPT ![s] = program]
    /\ calls' = calls + 1
    /\ raced' = raced \cup (IF program.op # "invite" /\ \E t \in Slot \ {s} : Busy(t) /\ call[t].op # "invite"
                                                        /\ About(t) = <<program.h, program.who>>
                            THEN {<<program.h, program.who>>} ELSE {})
    /\ UNCHANGED <<claims, member, invitation, stops, cut>>

IsOwner(by, h) == claims[by].map[h] = "owner"

\* The id of a household is fresh: its document is written at once.
Create(s, by, h) ==
    /\ founder[h] = None
    /\ founder' = [founder EXCEPT ![h] = by]
    /\ Start(s, Program("create", h, by, "owner"))

Invite(s, by, h, who, role) ==
    /\ IsOwner(by, h)
    /\ Start(s, Program("invite", h, who, role)) /\ UNCHANGED founder

Accept(s, h, who) ==
    /\ invitation[<<h, who>>].status = "invited"
    /\ Start(s, Program("accept", h, who, invitation[<<h, who>>].role)) /\ UNCHANGED founder

SetRole(s, by, h, who, role) ==
    /\ IsOwner(by, h) /\ member[<<h, who>>].status = "active"
    /\ Start(s, Program("role", h, who, role)) /\ UNCHANGED founder

Remove(s, by, h, who) ==
    /\ IsOwner(by, h) /\ founder[h] # who /\ member[<<h, who>>].status = "active"
    /\ Start(s, Program("remove", h, who, None)) /\ UNCHANGED founder

-----------------------------------------------------------------------------
(* put() and changeHousehold(): a read, then a conditional write *)

Doing(s, write) == Busy(s) /\ Head(call[s].todo) = write
Read(s, copy) ==
    /\ call[s].copy = None
    /\ call' = [call EXCEPT ![s].copy = copy]
    /\ UNCHANGED <<claims, founder, member, invitation, calls, stops, raced, cut>>

\* The write has landed; after the last one the call answers.
Wrote(s) ==
    /\ call' = [call EXCEPT ![s] = IF Len(call[s].todo) = 1 THEN Idle
                                   ELSE [call[s] EXCEPT !.todo = Tail(@), !.copy = None]]
    /\ UNCHANGED cut

\* The call fails with what it has written so far.
Fail(s) ==
    /\ call' = [call EXCEPT ![s] = Idle]
    /\ cut' = cut \cup {About(s)}

ReadMember(s) == Doing(s, "member") /\ Read(s, member[About(s)].rev)
WriteMember(s) ==
    /\ Doing(s, "member") /\ call[s].copy # None
    /\ LET d == member[About(s)] IN
       IF d.rev = call[s].copy
       THEN /\ member' = [member EXCEPT ![About(s)] =
                 IF call[s].op = "remove" THEN [d EXCEPT !.rev = @ + 1, !.status = "removed"]
                 ELSE [rev |-> d.rev + 1, status |-> "active", role |-> call[s].role]]
            /\ Wrote(s)
       ELSE Fail(s) /\ UNCHANGED member
    /\ UNCHANGED <<claims, founder, invitation, calls, stops, raced>>

ReadInvitation(s) == Doing(s, "mark") /\ Read(s, invitation[About(s)].rev)
WriteInvitation(s) ==
    /\ Doing(s, "mark") /\ call[s].copy # None
    /\ LET d == invitation[About(s)] IN
       IF d.rev = call[s].copy
       THEN /\ invitation' = [invitation EXCEPT ![About(s)] =
                 [rev |-> d.rev + 1, role |-> call[s].role,
                  status |-> IF call[s].op = "invite" THEN "invited" ELSE "accepted"]]
            /\ Wrote(s)
       ELSE Fail(s) /\ UNCHANGED invitation
    /\ UNCHANGED <<claims, founder, member, calls, stops, raced>>

\* Mutant: the claim is replaced whatever it has become since it was read.
SameEpochAlways(s) == call[s].copy # None

SameEpoch(s) == call[s].copy.epoch = claims[call[s].who].epoch

ReadClaim(s) == Doing(s, "claim") /\ Read(s, claims[call[s].who])
WriteClaim(s) ==
    LET who == call[s].who IN
    /\ Doing(s, "claim") /\ call[s].copy # None
    /\ IF SameEpoch(s)
       THEN /\ claims' = [claims EXCEPT ![who] =
                 [map |-> [call[s].copy.map EXCEPT ![call[s].h] = call[s].role], epoch |-> @.epoch + 1]]
            /\ Wrote(s)
       ELSE /\ IF call[s].tries + 1 < Attempts
               THEN call' = [call EXCEPT ![s].copy = None, ![s].tries = @ + 1] /\ UNCHANGED cut
               ELSE Fail(s)
            /\ UNCHANGED claims
    /\ UNCHANGED <<founder, member, invitation, calls, stops, raced>>

\* An invocation is stopped, or a service call fails.
Stop(s) ==
    /\ Busy(s) /\ stops < MaxStops /\ stops' = stops + 1
    /\ Fail(s)
    /\ UNCHANGED <<claims, founder, member, invitation, calls, raced>>

Begin(s) ==
    /\ ~Busy(s) /\ calls < MaxCalls
    /\ \E h \in Household, who \in Person :
        \/ Create(s, who, h) \/ Accept(s, h, who)
        \/ \E by \in Person : Remove(s, by, h, who)
                              \/ \E role \in Role : Invite(s, by, h, who, role) \/ SetRole(s, by, h, who, role)

Next == \E s \in Slot :
    \/ Begin(s) \/ ReadMember(s) \/ WriteMember(s) \/ ReadInvitation(s) \/ WriteInvitation(s)
    \/ ReadClaim(s) \/ WriteClaim(s) \/ Stop(s)

Spec == Init /\ [][Next]_vars

-----------------------------------------------------------------------------
(* Properties *)

\* Nobody has access who is not listed, even between the writes of a call and
\* after calls that stopped halfway; and everybody whose calls have all been
\* answered has the access the list says, whatever calls changed the same
\* person's map for other households meanwhile.  Only two calls about the same
\* person and household at once, or a call that gave up, may break this.
AccessIsListed ==
    \A h \in Household, p \in Person : <<h, p>> \notin raced =>
        LET access == claims[p].map[h]
            listed == member[<<h, p>>]
        IN  /\ access # None => listed.status = "active"
            /\ <<h, p>> \notin cut /\ (\A s \in Slot : Busy(s) => About(s) # <<h, p>>) =>
                 access = IF listed.status = "active" THEN listed.role ELSE None
=============================================================================
