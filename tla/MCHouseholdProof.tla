--------------------------- MODULE MCHouseholdProof ---------------------------
(***************************************************************************)
(* Proofs about three parts of the household application, for every value  *)
(* of the constants and without the bounds that TLC needs: the devices     *)
(* that replicate a document (Replica), the writer of household membership *)
(* (Membership) and the calls of a browser that overlap (HouseholdWrites). *)
(***************************************************************************)
EXTENDS MCHousehold, TLAPS

steps == <<part, nightVars, accessVars, replicaVars, writesVars>>

-----------------------------------------------------------------------------
(* Replica: the inductive invariant *)

Sent == [phase : {"sent"}, new : Devices!Doc, assumed : Devices!Doc]
Answered == [phase : {"answered"}, new : Devices!Doc, master : Devices!Doc]
Mode == {"live", "draining", "drained", "erased", "clearing"}

\* What one state wins over another by: its stamp, and a deletion over an edit.
Key(x) == 2 * x.at + (IF x.deleted THEN 1 ELSE 0)

DevicesTypes ==
    /\ server \in [doc : Devices!Doc, seq : Nat]
    /\ local \in [Device -> Devices!Doc \cup {None}] /\ base \in [Device -> Devices!Doc \cup {None}]
    /\ checkpoint \in [Device -> Nat]
    /\ push \in [Device -> {Devices!NoPush} \cup Sent \cup Answered]
    /\ mode \in [Device -> Mode] /\ recovery \in [Device -> BOOLEAN]
    /\ now \in Nat /\ written \subseteq Devices!Doc

\* A document grows from a state that the server held, and only forward.
Grown(d) ==
    /\ local[d] = None <=> base[d] = None
    /\ local[d] # None => /\ Key(base[d]) <= Key(local[d]) /\ Key(base[d]) <= Key(server.doc)
                          /\ Key(local[d]) <= 2 * now + 1

\* A push carries what the device had; its answer is what the server held,
\* and holds still unless the device has something to pull.
PushOK(d) == push[d] # Devices!NoPush =>
    /\ local[d] # None /\ mode[d] \in {"live", "draining"} /\ Key(push[d].new) <= Key(local[d])
    /\ push[d].phase = "sent" => Key(push[d].assumed) <= Key(push[d].new)
    /\ push[d].phase = "answered" =>
          /\ Key(push[d].master) <= Key(server.doc)
          /\ checkpoint[d] = server.seq => push[d].master = server.doc

\* Where a full resync is, and what is recorded of it; a device that was cut
\* off has nothing.
ModeOK(d) ==
    /\ d \in cutOff => local[d] = None
    /\ mode[d] \in {"erased", "clearing"} => local[d] = None
    /\ mode[d] \in {"live", "clearing"} => recovery[d] = FALSE

\* A device that has read everything and has nothing to send shows it; one
\* that was interrupted in a resync will read everything again.
Reading(d) == mode[d] = "live" \/ (mode[d] \in {"draining", "drained"} /\ recovery[d] = FALSE)
CaughtUp(d) ==
    d \notin cutOff /\ Reading(d) /\ checkpoint[d] = server.seq /\ local[d] = base[d] =>
        local[d] = server.doc

DeviceOK(d) == Grown(d) /\ PushOK(d) /\ ModeOK(d) /\ CaughtUp(d) /\ checkpoint[d] <= server.seq

\* A device has something to send, and will send it.
WillSend(d) == mode[d] \in {"live", "draining"} /\ local[d] # base[d]

\* What a member has done is on the server, or on a device that will send it,
\* or something later is.
Kept(e) == \/ Key(e) <= Key(server.doc)
           \/ \E d \in Device : WillSend(d) /\ Key(e) <= Key(local[d])

DevicesInv ==
    /\ DevicesTypes /\ server.seq >= 1 /\ Key(server.doc) <= 2 * now + 1
    /\ \A d \in Device : DeviceOK(d)
    /\ \A e \in written : Kept(e)

-----------------------------------------------------------------------------
(* Replica: the order of the states *)

\* Keys are numbers, and states are written with the keys they should have.
LEMMA KeyIs ==
    /\ \A x \in Devices!Doc : Key(x) \in Nat
    /\ \A n \in Nat : Devices!State(n, FALSE) \in Devices!Doc /\ Key(Devices!State(n, FALSE)) = 2 * n
    /\ \A x \in Devices!Doc : x.deleted = FALSE =>
          Devices!State(x.at, TRUE) \in Devices!Doc /\ Key(Devices!State(x.at, TRUE)) = Key(x) + 1
<1>1. ASSUME NEW x \in Devices!Doc PROVE Key(x) \in Nat
  <2>1. x.at \in Nat  BY DEF Devices!Doc
  <2> QED  BY <2>1 DEF Key
<1>2. ASSUME NEW n \in Nat
      PROVE  Devices!State(n, FALSE) \in Devices!Doc /\ Key(Devices!State(n, FALSE)) = 2 * n
  BY DEF Devices!State, Devices!Doc, Key
<1>3. ASSUME NEW x \in Devices!Doc, x.deleted = FALSE
      PROVE  Devices!State(x.at, TRUE) \in Devices!Doc /\ Key(Devices!State(x.at, TRUE)) = Key(x) + 1
  <2>1. x.at \in Nat  BY DEF Devices!Doc
  <2>2. Key(x) = 2 * x.at  BY <1>3, <2>1 DEF Key
  <2> QED  BY <2>1, <2>2 DEF Devices!State, Devices!Doc, Key
<1> QED  BY <1>1, <1>2, <1>3

\* conflict.ts orders the states by their keys.
LEMMA WinsByKey == ASSUME NEW x \in Devices!Doc, NEW y \in Devices!Doc PROVE Devices!Wins(x, y) <=> Key(x) > Key(y)
<1>1. /\ x.at \in Nat /\ y.at \in Nat
      /\ (x.deleted = TRUE \/ x.deleted = FALSE) /\ (y.deleted = TRUE \/ y.deleted = FALSE)
  BY DEF Devices!Doc
<1>2. CASE x.deleted = TRUE /\ y.deleted = TRUE  BY <1>1, <1>2 DEF Devices!Wins, Key
<1>3. CASE x.deleted = TRUE /\ y.deleted = FALSE  BY <1>1, <1>3 DEF Devices!Wins, Key
<1>4. CASE x.deleted = FALSE /\ y.deleted = TRUE  BY <1>1, <1>4 DEF Devices!Wins, Key
<1>5. CASE x.deleted = FALSE /\ y.deleted = FALSE  BY <1>1, <1>5 DEF Devices!Wins, Key
<1> QED  BY <1>1, <1>2, <1>3, <1>4, <1>5

\* What a conflict is resolved to is behind neither side.
LEMMA Resolved ==
    ASSUME NEW x \in Devices!Doc, NEW y \in Devices!Doc
    PROVE  LET r == Devices!Resolve(x, y)
           IN  r \in {x, y} /\ Key(r) >= Key(x) /\ Key(r) >= Key(y)
<1>1. Key(x) \in Nat /\ Key(y) \in Nat  BY KeyIs
<1> QED  BY <1>1, WinsByKey DEF Devices!Resolve

-----------------------------------------------------------------------------
(* Replica: the steps *)

\* The documents of a device have keys.
LEMMA DocumentsAre ==
    ASSUME DevicesTypes, NEW d \in Device
    PROVE  /\ server.doc \in Devices!Doc /\ Key(server.doc) \in Nat /\ server.seq \in Nat
           /\ local[d] # None => local[d] \in Devices!Doc /\ Key(local[d]) \in Nat
           /\ base[d] # None => base[d] \in Devices!Doc /\ Key(base[d]) \in Nat
           /\ now \in Nat /\ checkpoint[d] \in Nat
           /\ push[d] # Devices!NoPush =>
                /\ push[d] \in Sent \cup Answered
                /\ push[d].new \in Devices!Doc /\ Key(push[d].new) \in Nat
                /\ push[d].phase = "sent" =>
                      push[d] \in Sent /\ push[d].assumed \in Devices!Doc /\ Key(push[d].assumed) \in Nat
                /\ push[d].phase = "answered" =>
                      push[d] \in Answered /\ push[d].master \in Devices!Doc /\ Key(push[d].master) \in Nat
<1>1. server.doc \in Devices!Doc /\ server.seq \in Nat  BY DEF DevicesTypes
<1>2. local[d] # None => local[d] \in Devices!Doc  BY DEF DevicesTypes
<1>3. base[d] # None => base[d] \in Devices!Doc  BY DEF DevicesTypes
<1>4. push[d] # Devices!NoPush => push[d] \in Sent \cup Answered  BY DEF DevicesTypes
<1>5. push[d] # Devices!NoPush =>
         /\ push[d].new \in Devices!Doc
         /\ push[d].phase = "sent" => push[d] \in Sent /\ push[d].assumed \in Devices!Doc
         /\ push[d].phase = "answered" => push[d] \in Answered /\ push[d].master \in Devices!Doc
  BY <1>4 DEF Sent, Answered
<1>6. now \in Nat /\ checkpoint[d] \in Nat  BY DEF DevicesTypes
<1> QED  BY <1>1, <1>2, <1>3, <1>4, <1>5, <1>6, KeyIs

\* A step of one device, the server left as it is.
LEMMA OneDevice ==
    ASSUME DevicesInv, NEW d \in Device, DevicesTypes', UNCHANGED server, now <= now',
           \A o \in Device \ {d} :
              /\ o \in cutOff' <=> o \in cutOff
              /\ local'[o] = local[o] /\ base'[o] = base[o] /\ checkpoint'[o] = checkpoint[o]
              /\ push'[o] = push[o] /\ mode'[o] = mode[o] /\ recovery'[o] = recovery[o],
           DeviceOK(d)',
           WillSend(d) => \/ Key(local[d]) <= Key(server.doc)
                          \/ WillSend(d)' /\ Key(local[d]) <= Key(local'[d]),
           \A e \in written' : e \in written \/ (WillSend(d)' /\ Key(e) <= Key(local'[d]))
    PROVE  DevicesInv'
<1>1. /\ server.doc \in Devices!Doc /\ Key(server.doc) \in Nat /\ server.seq \in Nat
      /\ now \in Nat /\ now' \in Nat
  BY DocumentsAre DEF DevicesInv, DevicesTypes
<1>2. ASSUME NEW o \in Device PROVE DeviceOK(o)'
  <2>1. CASE o = d  BY <2>1
  <2>2. CASE o # d
    <3>1. DeviceOK(o)  BY DEF DevicesInv
    <3>2. /\ o \in cutOff' <=> o \in cutOff
          /\ local'[o] = local[o] /\ base'[o] = base[o] /\ checkpoint'[o] = checkpoint[o]
          /\ push'[o] = push[o] /\ mode'[o] = mode[o] /\ recovery'[o] = recovery[o]
      BY <2>2
    <3>3. local[o] # None => Key(local[o]) \in Nat  BY DocumentsAre DEF DevicesInv
    <3>4. Grown(o)'  BY <1>1, <3>1, <3>2, <3>3 DEF DeviceOK, Grown
    <3>5. PushOK(o)'  BY <3>1, <3>2 DEF DeviceOK, PushOK
    <3>6. ModeOK(o)'  BY <3>1, <3>2 DEF DeviceOK, ModeOK
    <3>7. CaughtUp(o)'  BY <3>1, <3>2 DEF DeviceOK, CaughtUp, Reading
    <3> QED  BY <3>1, <3>2, <3>4, <3>5, <3>6, <3>7 DEF DeviceOK
  <2> QED  BY <2>1, <2>2
<1>3. ASSUME NEW e \in written' PROVE Kept(e)'
  <2>0. e \in Devices!Doc /\ Key(e) \in Nat  BY KeyIs DEF DevicesTypes
  <2>1. CASE WillSend(d)' /\ Key(e) <= Key(local'[d])  BY <2>1 DEF Kept
  <2>2. CASE e \in written /\ Key(e) <= Key(server.doc)  BY <2>2 DEF Kept
  <2>3. ASSUME NEW o \in Device, WillSend(o), Key(e) <= Key(local[o]) PROVE Kept(e)'
    <3>1. CASE o = d
      <4>1. local[d] # None => Key(local[d]) \in Nat  BY DocumentsAre DEF DevicesInv
      <4>2. local[d] # None
        <5>1. local[d] # base[d] /\ Grown(d)  BY <2>3, <3>1 DEF WillSend, DevicesInv, DeviceOK
        <5> QED  BY <5>1 DEF Grown
      <4>3. WillSend(d)' => local'[d] # None
        <5>1. Grown(d)'  BY DEF DeviceOK
        <5> QED  BY <5>1 DEF WillSend, Grown
      <4>4. local'[d] # None => Key(local'[d]) \in Nat
        <5>1. local'[d] # None => local'[d] \in Devices!Doc  BY DEF DevicesTypes
        <5> QED  BY <5>1, KeyIs
      <4> QED  BY <1>1, <2>0, <2>3, <3>1, <4>1, <4>2, <4>3, <4>4 DEF Kept
    <3>2. CASE o # d
      <4>1. WillSend(o)' /\ Key(e) <= Key(local'[o])  BY <2>3, <3>2 DEF WillSend
      <4> QED  BY <4>1 DEF Kept
    <3> QED  BY <3>1, <3>2
  <2> QED  BY <2>1, <2>2, <2>3 DEF DevicesInv, Kept
<1>4. server'.seq >= 1 /\ Key(server'.doc) <= 2 * now' + 1  BY <1>1 DEF DevicesInv
<1> QED  BY <1>2, <1>3, <1>4 DEF DevicesInv

\* Nothing that the invariant is about.
LEMMA DevicesStay ==
    ASSUME DevicesInv,
           UNCHANGED <<server, local, base, checkpoint, push, mode, recovery, now, written, cutOff>>
    PROVE  DevicesInv'
<1>1. DevicesTypes'  BY DEF DevicesInv, DevicesTypes
<1>2. \A d \in Device : DeviceOK(d)'
  BY DEF DevicesInv, DeviceOK, Grown, PushOK, ModeOK, CaughtUp, Reading
<1>3. \A e \in written : Kept(e)'  BY DEF DevicesInv, Kept, WillSend
<1> QED  BY <1>1, <1>2, <1>3 DEF DevicesInv

\* A member writes what comes after what the device shows.
LEMMA WriteSafe ==
    ASSUME DevicesInv, NEW d \in Device, NEW state \in Devices!Doc, Devices!Shown(d),
           Devices!Write(d, state), now' \in Nat, now <= now',
           Key(local[d]) < Key(state), Key(state) <= 2 * now' + 1
    PROVE  DevicesInv'
<1>1. /\ UNCHANGED <<server, checkpoint, mode, recovery, cutOff, base, push>>
      /\ local' = [local EXCEPT ![d] = state]
      /\ written' = IF mode[d] = "drained" THEN written ELSE written \cup {state}
  BY DEF Devices!Write, Devices!Unchanged
<1>2. /\ local[d] # None /\ mode[d] \in {"live", "draining", "drained"} /\ base[d] # None
      /\ DeviceOK(d) /\ Grown(d)
  BY DEF Devices!Shown, DevicesInv, DeviceOK, Grown
<1>3. DevicesTypes'  BY <1>1 DEF DevicesInv, DevicesTypes
<1>4. /\ local'[d] = state /\ state # None /\ base'[d] = base[d] /\ push'[d] = push[d]
      /\ \A o \in Device \ {d} : local'[o] = local[o]
  BY <1>1, DevicesAssumption DEF DevicesInv, DevicesTypes
<1>5. Key(state) \in Nat /\ Key(local[d]) \in Nat /\ Key(base[d]) \in Nat /\ Key(base[d]) <= Key(local[d])
  BY <1>2, KeyIs, DocumentsAre DEF DevicesInv, Grown
<1>6. local'[d] # base'[d]  BY <1>4, <1>5
<1>7. Grown(d)'  BY <1>1, <1>2, <1>4, <1>5 DEF Grown
<1>8. PushOK(d)'
  <2>1. push[d] # Devices!NoPush => Key(push[d].new) \in Nat  BY DocumentsAre DEF DevicesInv
  <2> QED  BY <1>1, <1>2, <1>4, <1>5, <2>1 DEF DeviceOK, PushOK
<1>9. ModeOK(d)' /\ checkpoint'[d] <= server'.seq  BY <1>1, <1>2 DEF DeviceOK, ModeOK
<1>10. CaughtUp(d)'  BY <1>6 DEF CaughtUp
<1>11. ASSUME mode[d] # "drained" PROVE WillSend(d)'  BY <1>1, <1>2, <1>6, <1>11 DEF WillSend
<1>12. WillSend(d) => WillSend(d)' /\ Key(local[d]) <= Key(local'[d])
  BY <1>4, <1>5, <1>11 DEF WillSend
<1>13. \A e \in written' : e \in written \/ (WillSend(d)' /\ Key(e) <= Key(local'[d]))
  BY <1>1, <1>4, <1>5, <1>11
<1> QED  BY <1>1, <1>3, <1>4, <1>7, <1>8, <1>9, <1>10, <1>12, <1>13, OneDevice DEF DeviceOK

\* A modification and a removal's stamp are later than everything; the removal
\* itself keeps the stamp the document has by then.
LEMMA MemberSafe ==
    ASSUME DevicesInv, NEW d \in Device, Devices!Modify(d) \/ Devices!RemoveStamp(d) \/ Devices!Remove(d)
    PROVE  DevicesInv'
<1>0. now \in Nat /\ (local[d] # None => local[d] \in Devices!Doc /\ Key(local[d]) \in Nat)
      /\ (local[d] # None => Key(local[d]) <= 2 * now + 1)
  BY DocumentsAre DEF DevicesInv, DeviceOK, Grown
<1>1. ASSUME Devices!Stamp(d) PROVE DevicesInv'
  <2> DEFINE state == Devices!State(now + 1, FALSE)
  <2>1. Devices!Shown(d) /\ now' = now + 1 /\ Devices!Write(d, state)  BY <1>1 DEF Devices!Stamp
  <2>2. state \in Devices!Doc /\ Key(state) = 2 * (now + 1)
    <3>1. now + 1 \in Nat  BY <1>0
    <3> QED  BY <3>1, KeyIs
  <2>3. local[d] # None  BY <2>1 DEF Devices!Shown
  <2> HIDE DEF state
  <2>4. now' \in Nat /\ now <= now' /\ Key(local[d]) < Key(state) /\ Key(state) <= 2 * now' + 1
    BY <1>0, <2>1, <2>2, <2>3
  <2> QED  BY <2>1, <2>2, <2>4, WriteSafe
<1>2. ASSUME Devices!Shown(d), Devices!Write(d, Devices!State(local[d].at, TRUE)), UNCHANGED now
      PROVE  DevicesInv'
  <2> DEFINE state == Devices!State(local[d].at, TRUE)
  <2>1. local[d] \in Devices!Doc /\ Key(local[d]) \in Nat /\ Key(local[d]) <= 2 * now + 1
        /\ local[d].deleted = FALSE
    <3>1. local[d] # None /\ ~local[d].deleted  BY <1>2 DEF Devices!Shown
    <3>2. local[d].deleted \in BOOLEAN  BY <1>0, <3>1 DEF Devices!Doc
    <3> QED  BY <1>0, <3>1, <3>2
  <2>2. state \in Devices!Doc /\ Key(state) = Key(local[d]) + 1  BY <2>1, KeyIs
  <2>3. Key(local[d]) = 2 * local[d].at /\ local[d].at \in Nat  BY <2>1 DEF Key, Devices!Doc
  <2>4. Devices!Write(d, state)  BY <1>2
  <2> HIDE DEF state
  <2>5. Key(local[d]) < Key(state) /\ Key(state) <= 2 * now' + 1 /\ now' \in Nat /\ now <= now'
    BY <1>0, <1>2, <2>1, <2>2, <2>3
  <2> QED  BY <1>2, <2>2, <2>4, <2>5, WriteSafe
<1>3. ASSUME Devices!Unchanged, UNCHANGED <<local, written, base, push, now>> PROVE DevicesInv'
  BY <1>3, DevicesStay DEF Devices!Unchanged
<1> QED  BY <1>1, <1>2, <1>3 DEF Devices!Modify, Devices!RemoveStamp, Devices!Remove

\* A push and its answer are told apart, and from no push.
LEMMA PushesDiffer ==
    /\ \A p \in Sent : p.phase = "sent" /\ p # Devices!NoPush
    /\ \A p \in Answered : p.phase = "answered" /\ p # Devices!NoPush
    /\ Devices!NoPush.phase = "none"
  BY DEF Sent, Answered, Devices!NoPush

\* A page of the change feed replaces what the device has nothing to send of.
LEMMA PullSafe == ASSUME DevicesInv, NEW d \in Device, Devices!Pull(d) PROVE DevicesInv'
<1>1. /\ mode[d] = "live" /\ push[d] = Devices!NoPush
      /\ checkpoint' = [checkpoint EXCEPT ![d] = server.seq]
      /\ UNCHANGED <<mode, recovery, now, written, server, push>> /\ cutOff' = cutOff \ {d}
      /\ \/ local[d] # base[d] /\ UNCHANGED <<local, base>>
         \/ /\ local[d] = base[d] /\ local' = [local EXCEPT ![d] = server.doc]
            /\ base' = [base EXCEPT ![d] = server.doc]
  BY DEF Devices!Pull, Devices!Moving, Devices!Pending
<1>2. DeviceOK(d) /\ DevicesTypes  BY DEF DevicesInv
<1>3. /\ server.doc \in Devices!Doc /\ server.doc # None /\ Key(server.doc) \in Nat /\ server.seq \in Nat
  BY <1>2, DocumentsAre, DevicesAssumption
<1>4. DevicesTypes'  BY <1>1, <1>2, <1>3 DEF DevicesTypes
<1>5. checkpoint'[d] = server.seq /\ push'[d] = Devices!NoPush /\ mode'[d] = "live"
  BY <1>1, <1>2 DEF DevicesTypes
<1>6. CASE local[d] # base[d] /\ UNCHANGED <<local, base>>
  <2>1. DeviceOK(d)'
    BY <1>1, <1>2, <1>3, <1>5, <1>6 DEF DeviceOK, Grown, PushOK, ModeOK, CaughtUp
  <2>2. WillSend(d) <=> WillSend(d)'  BY <1>1, <1>6 DEF WillSend
  <2>3. \A o \in Device \ {d} : checkpoint'[o] = checkpoint[o]  BY <1>1, <1>2 DEF DevicesTypes
  <2>4. local[d] # None => Key(local[d]) \in Nat  BY <1>2, DocumentsAre
  <2>5. WillSend(d) => local[d] # None  BY <1>2 DEF WillSend, DeviceOK, Grown
  <2>6. now <= now'  BY <1>1, <1>2 DEF DevicesTypes
  <2> QED  BY <1>1, <1>4, <1>6, <2>1, <2>2, <2>3, <2>4, <2>5, <2>6, OneDevice
<1>7. CASE /\ local[d] = base[d] /\ local' = [local EXCEPT ![d] = server.doc]
           /\ base' = [base EXCEPT ![d] = server.doc]
  <2>1. local'[d] = server.doc /\ base'[d] = server.doc  BY <1>2, <1>7 DEF DevicesTypes
  <2>2. DeviceOK(d)'
    BY <1>1, <1>2, <1>3, <1>5, <2>1 DEF DevicesInv, DeviceOK, Grown, PushOK, ModeOK, CaughtUp
  <2>3. ~WillSend(d)  BY <1>7 DEF WillSend
  <2>4. \A o \in Device \ {d} :
           checkpoint'[o] = checkpoint[o] /\ local'[o] = local[o] /\ base'[o] = base[o]
    BY <1>1, <1>2, <1>7 DEF DevicesTypes
  <2>5. now <= now'  BY <1>1, <1>2 DEF DevicesTypes
  <2> QED  BY <1>1, <1>4, <2>2, <2>3, <2>4, <2>5, OneDevice
<1> QED  BY <1>1, <1>6, <1>7

\* A step in which a device's documents stay and it goes on as before, but
\* for the push under way.
LEMMA PushChanges ==
    ASSUME DevicesInv, NEW d \in Device, NEW new \in {Devices!NoPush} \cup Sent \cup Answered,
           UNCHANGED <<server, local, base, checkpoint, mode, recovery, now, written, cutOff>>,
           push' = [push EXCEPT ![d] = new], PushOK(d)'
    PROVE  DevicesInv'
<1>1. DevicesTypes'  BY DEF DevicesInv, DevicesTypes
<1>2. DeviceOK(d)'  BY DEF DevicesInv, DeviceOK, Grown, ModeOK, CaughtUp, Reading
<1>3. \A o \in Device \ {d} : push'[o] = push[o]  BY DEF DevicesInv, DevicesTypes
<1>4. WillSend(d) => WillSend(d)' /\ Key(local[d]) <= Key(local'[d])
  <2>1. local[d] # None => Key(local[d]) \in Nat  BY DocumentsAre DEF DevicesInv
  <2>2. WillSend(d) => local[d] # None  BY DEF WillSend, DevicesInv, DeviceOK, Grown
  <2> QED  BY <2>1, <2>2 DEF WillSend
<1>5. now <= now'  BY DEF DevicesInv, DevicesTypes
<1> QED  BY <1>1, <1>2, <1>3, <1>4, <1>5, OneDevice

\* The device sends what it has, with the state it grew from.
LEMMA SendSafe == ASSUME DevicesInv, NEW d \in Device, Devices!SendPush(d) PROVE DevicesInv'
<1> DEFINE new == [phase |-> "sent", new |-> local[d], assumed |-> base[d]]
<1>1. /\ mode[d] \in {"live", "draining"} /\ local[d] # base[d] /\ push' = [push EXCEPT ![d] = new]
      /\ UNCHANGED <<server, local, base, checkpoint, mode, recovery, now, written, cutOff>>
  BY DEF Devices!SendPush, Devices!Replicating, Devices!Pending, Devices!Steady, Devices!Moving
<1>2. DeviceOK(d) /\ DevicesTypes  BY DEF DevicesInv
<1>3. local[d] # None /\ base[d] # None  BY <1>1, <1>2 DEF DeviceOK, Grown
<1>4. /\ new \in Sent /\ new.new = local[d] /\ new.assumed = base[d] /\ new.phase = "sent"
      /\ Key(local[d]) \in Nat /\ Key(base[d]) <= Key(local[d])
  BY <1>2, <1>3, DocumentsAre DEF Sent, DeviceOK, Grown
<1>5. push'[d] = new  BY <1>1, <1>2 DEF DevicesTypes
<1> HIDE DEF new
<1>6. PushOK(d)'  BY <1>1, <1>3, <1>4, <1>5 DEF PushOK
<1> QED  BY <1>1, <1>4, <1>6, PushChanges

\* A push, or its answer, that gets lost.
LEMMA LoseSafe == ASSUME DevicesInv, NEW d \in Device, Devices!LosePush(d) PROVE DevicesInv'
<1>1. /\ push' = [push EXCEPT ![d] = Devices!NoPush]
      /\ UNCHANGED <<server, local, base, checkpoint, mode, recovery, now, written, cutOff>>
  BY DEF Devices!LosePush, Devices!Steady, Devices!Moving
<1>2. PushOK(d)'  BY <1>1 DEF PushOK, DevicesInv, DevicesTypes
<1> QED  BY <1>1, <1>2, PushChanges

\* The server moves forward: a push that does not fit what it holds is
\* answered with that, and one that fits comes after it.
LEMMA ServeSafe == ASSUME DevicesInv, NEW d \in Device, Devices!ServePush(d) PROVE DevicesInv'
<1> DEFINE fits == push[d].assumed = server.doc
<1>1. /\ push[d].phase = "sent"
      /\ server' = IF fits THEN [doc |-> push[d].new, seq |-> server.seq + 1] ELSE server
      /\ push' = [push EXCEPT ![d] =
            [phase |-> "answered", new |-> push[d].new, master |-> IF fits THEN push[d].new ELSE server.doc]]
      /\ UNCHANGED <<local, base, checkpoint, mode, recovery, now, written, cutOff>>
  BY DEF Devices!ServePush, Devices!Steady, Devices!Moving
<1>2. DeviceOK(d) /\ DevicesTypes  BY DEF DevicesInv
<1>3. /\ push[d] # Devices!NoPush /\ push[d] \in Sent /\ push[d].new \in Devices!Doc
      /\ Key(push[d].new) \in Nat /\ push[d].assumed \in Devices!Doc
      /\ server.doc \in Devices!Doc /\ Key(server.doc) \in Nat /\ server.seq \in Nat /\ now \in Nat
      /\ Key(push[d].assumed) <= Key(push[d].new)
      /\ local[d] # None /\ local[d] \in Devices!Doc /\ Key(local[d]) \in Nat
      /\ mode[d] \in {"live", "draining"} /\ Key(push[d].new) <= Key(local[d])
      /\ Key(local[d]) <= 2 * now + 1
  BY <1>1, <1>2, DocumentsAre, PushesDiffer DEF DeviceOK, PushOK, Grown
<1> DEFINE master == IF fits THEN push[d].new ELSE server.doc
           new == [phase |-> "answered", new |-> push[d].new, master |-> master]
<1>4. master \in Devices!Doc  BY <1>3
<1>5. /\ new \in Answered /\ new.phase = "answered" /\ new.new = push[d].new /\ new.master = master
      /\ push' = [push EXCEPT ![d] = new] /\ push'[d] = new
      /\ \A o \in Device \ {d} : push'[o] = push[o]
  BY <1>1, <1>2, <1>3, <1>4 DEF Answered, DevicesTypes
<1>6. /\ server' \in [doc : Devices!Doc, seq : Nat] /\ Key(server'.doc) \in Nat
      /\ Key(server.doc) <= Key(server'.doc) /\ server'.doc = master
      /\ server' = server \/ server'.seq = server.seq + 1
      /\ Key(server'.doc) <= 2 * now + 1
  <2>1. CASE fits
    <3>1. server'.doc = push[d].new /\ server'.seq = server.seq + 1  BY <1>1, <2>1
    <3> QED  BY <1>1, <1>3, <2>1, <3>1
  <2>2. CASE ~fits  BY <1>1, <1>2, <1>3, <2>2 DEF DevicesTypes, DevicesInv
  <2> QED  BY <2>1, <2>2
<1> HIDE DEF new, master
<1>7. DevicesTypes'  BY <1>1, <1>2, <1>5, <1>6 DEF DevicesTypes
<1>8. ASSUME NEW o \in Device PROVE DeviceOK(o)'
  <2>1. DeviceOK(o) /\ checkpoint[o] \in Nat  BY <1>2 DEF DevicesInv, DevicesTypes
  <2>2. /\ base[o] # None => Key(base[o]) \in Nat
        /\ push[o] # Devices!NoPush /\ push[o].phase = "answered" => Key(push[o].master) \in Nat
    BY <1>2, DocumentsAre
  <2>3. Grown(o)'  BY <1>1, <1>3, <1>6, <2>1, <2>2 DEF DeviceOK, Grown
  <2>4. ModeOK(o)'  BY <1>1, <2>1 DEF DeviceOK, ModeOK
  <2>5. checkpoint'[o] <= server'.seq /\ (checkpoint'[o] = server'.seq => server' = server)
    BY <1>1, <1>3, <1>6, <2>1 DEF DeviceOK
  <2>6. CaughtUp(o)'  BY <1>1, <2>1, <2>5 DEF DeviceOK, CaughtUp, Reading
  <2>7. PushOK(o)'
    <3>1. CASE o = d
      BY <1>1, <1>3, <1>5, <1>6, <3>1 DEF PushOK
    <3>2. CASE o # d
      <4>1. push'[o] = push[o]  BY <1>5, <3>2
      <4> QED  BY <1>1, <1>3, <1>6, <2>1, <2>2, <2>5, <4>1 DEF DeviceOK, PushOK
    <3> QED  BY <3>1, <3>2
  <2> QED  BY <2>3, <2>4, <2>5, <2>6, <2>7 DEF DeviceOK
<1>9. ASSUME NEW e \in written PROVE Kept(e)'
  <2>1. Key(e) \in Nat  BY <1>2, KeyIs DEF DevicesTypes
  <2>2. \A o \in Device : WillSend(o) => WillSend(o)' /\ local'[o] = local[o]
    BY <1>1 DEF WillSend
  <2> QED  BY <1>3, <1>6, <2>1, <2>2 DEF DevicesInv, Kept
<1>10. server'.seq >= 1  BY <1>3, <1>6 DEF DevicesInv
<1> QED  BY <1>1, <1>6, <1>7, <1>8, <1>9, <1>10 DEF DevicesInv

\* The answer to a push: the device has the state the server held to grow
\* from, and solves a conflict unless it has been written to meanwhile.
LEMMA AnswerSafe == ASSUME DevicesInv, NEW d \in Device, Devices!TakeAnswer(d) PROVE DevicesInv'
<1> DEFINE new == push[d].new  master == push[d].master
<1>1. /\ push[d].phase = "answered" /\ push' = [push EXCEPT ![d] = Devices!NoPush]
      /\ UNCHANGED <<server, checkpoint, mode, recovery, now, written, cutOff>>
      /\ \/ new = master /\ base' = [base EXCEPT ![d] = master] /\ UNCHANGED local
         \/ new # master /\ local[d] # new /\ UNCHANGED <<local, base>>
         \/ /\ new # master /\ local[d] = new /\ base' = [base EXCEPT ![d] = master]
            /\ local' = [local EXCEPT ![d] = Devices!Resolve(new, master)]
  BY DEF Devices!TakeAnswer, Devices!Steady, Devices!Moving
<1>2. DeviceOK(d) /\ DevicesTypes  BY DEF DevicesInv
<1>3. /\ push[d] # Devices!NoPush /\ new \in Devices!Doc /\ Key(new) \in Nat
      /\ master \in Devices!Doc /\ Key(master) \in Nat /\ Key(master) <= Key(server.doc)
      /\ Key(server.doc) \in Nat /\ now \in Nat /\ Key(server.doc) <= 2 * now + 1
      /\ local[d] # None /\ local[d] \in Devices!Doc /\ Key(local[d]) \in Nat
      /\ Key(new) <= Key(local[d]) /\ Key(local[d]) <= 2 * now + 1
      /\ checkpoint[d] = server.seq => master = server.doc
  BY <1>1, <1>2, DocumentsAre, PushesDiffer DEF DevicesInv, DeviceOK, PushOK, Grown
<1>4. /\ push'[d] = Devices!NoPush /\ push' \in [Device -> {Devices!NoPush} \cup Sent \cup Answered]
      /\ \A o \in Device \ {d} : push'[o] = push[o]
  BY <1>1, <1>2 DEF DevicesTypes
<1> HIDE DEF new, master
<1>5. PushOK(d)' /\ ModeOK(d)' /\ checkpoint'[d] <= server'.seq /\ now <= now'
  BY <1>1, <1>2, <1>3, <1>4 DEF DeviceOK, PushOK, ModeOK
<1>6. CASE new # master /\ local[d] # new /\ UNCHANGED <<local, base>>
  <2>1. PushOK(d)'  BY <1>5
  <2> QED  BY <1>1, <1>6, <2>1, PushChanges
<1>7. CASE new = master /\ base' = [base EXCEPT ![d] = master] /\ UNCHANGED local
  <2>1. /\ base'[d] = master /\ master # None /\ local'[d] = local[d]
        /\ base' \in [Device -> Devices!Doc \cup {None}]
        /\ \A o \in Device \ {d} : base'[o] = base[o]
    BY <1>2, <1>3, <1>7, DevicesAssumption DEF DevicesTypes
  <2>2. Grown(d)' /\ CaughtUp(d)'  BY <1>1, <1>3, <1>7, <2>1 DEF Grown, CaughtUp
  <2>3. WillSend(d) => \/ Key(local[d]) <= Key(server.doc)
                       \/ WillSend(d)' /\ Key(local[d]) <= Key(local'[d])
    BY <1>1, <1>3, <1>7, <2>1 DEF WillSend
  <2>4. DevicesTypes'  BY <1>1, <1>2, <1>4, <1>7, <2>1 DEF DevicesTypes
  <2> QED  BY <1>1, <1>4, <1>5, <1>7, <2>1, <2>2, <2>3, <2>4, OneDevice DEF DeviceOK
<1>8. CASE /\ new # master /\ local[d] = new /\ base' = [base EXCEPT ![d] = master]
           /\ local' = [local EXCEPT ![d] = Devices!Resolve(new, master)]
  <2> DEFINE r == Devices!Resolve(new, master)
  <2>1. r \in {new, master} /\ Key(r) >= Key(new) /\ Key(r) >= Key(master)  BY <1>3, Resolved
  <2>2. r \in Devices!Doc /\ r # None /\ Key(r) \in Nat  BY <1>3, <2>1, DevicesAssumption
  <2> HIDE DEF r
  <2>3. /\ base'[d] = master /\ master # None /\ local'[d] = r
        /\ base' \in [Device -> Devices!Doc \cup {None}] /\ local' \in [Device -> Devices!Doc \cup {None}]
        /\ \A o \in Device \ {d} : base'[o] = base[o] /\ local'[o] = local[o]
    BY <1>2, <1>3, <1>8, <2>2, DevicesAssumption DEF DevicesTypes, r
  <2>4. Key(r) <= 2 * now + 1  BY <1>3, <1>8, <2>1
  <2>5. Grown(d)' /\ CaughtUp(d)'
    BY <1>1, <1>3, <2>1, <2>2, <2>3, <2>4 DEF Grown, CaughtUp
  <2>6. WillSend(d) => \/ Key(local[d]) <= Key(server.doc)
                       \/ WillSend(d)' /\ Key(local[d]) <= Key(local'[d])
    BY <1>1, <1>3, <1>8, <2>1, <2>2, <2>3 DEF WillSend
  <2>7. DevicesTypes'  BY <1>1, <1>2, <1>4, <2>3 DEF DevicesTypes
  <2> QED  BY <1>1, <1>4, <1>5, <2>3, <2>5, <2>6, <2>7, OneDevice DEF DeviceOK
<1> QED  BY <1>1, <1>6, <1>7, <1>8

-----------------------------------------------------------------------------
(* Replica: the full resync *)

\* A step of a resync that leaves the documents as they are.
LEMMA StageChanges ==
    ASSUME DevicesInv, NEW d \in Device, UNCHANGED <<server, local, base, now, written>>,
           NEW to \in Mode, mode' = [mode EXCEPT ![d] = to],
           NEW recorded \in BOOLEAN, recovery' = [recovery EXCEPT ![d] = recorded],
           NEW read \in {checkpoint[d], 0}, checkpoint' = [checkpoint EXCEPT ![d] = read],
           push' = [push EXCEPT ![d] = Devices!NoPush],
           \A o \in Device \ {d} : o \in cutOff' <=> o \in cutOff, d \in cutOff' => local[d] = None,
           to \in {"erased", "clearing"} => local[d] = None,
           to \in {"live", "clearing"} => recorded = FALSE, CaughtUp(d)',
           WillSend(d) => to \in {"live", "draining"}
    PROVE  DevicesInv'
<1>1. DevicesTypes  BY DEF DevicesInv
<1>2. /\ mode'[d] = to /\ recovery'[d] = recorded /\ checkpoint'[d] = read /\ push'[d] = Devices!NoPush
      /\ \A o \in Device \ {d} : /\ mode'[o] = mode[o] /\ recovery'[o] = recovery[o]
                                 /\ checkpoint'[o] = checkpoint[o] /\ push'[o] = push[o]
  BY <1>1 DEF DevicesTypes
<1>3. read \in Nat /\ read <= server.seq
  BY <1>1 DEF DevicesTypes, DevicesInv, DeviceOK
<1>4. DevicesTypes'  BY <1>1, <1>3 DEF DevicesTypes
<1>5. DeviceOK(d)'  BY <1>2, <1>3 DEF DevicesInv, DeviceOK, Grown, PushOK, ModeOK
<1>6. WillSend(d) => WillSend(d)' /\ Key(local[d]) <= Key(local'[d])
  <2>1. local[d] # None => Key(local[d]) \in Nat  BY <1>1, DocumentsAre
  <2>2. WillSend(d) => local[d] # None  BY DEF WillSend, DevicesInv, DeviceOK, Grown
  <2> QED  BY <1>2, <2>1, <2>2 DEF WillSend
<1>7. now <= now'  BY <1>1 DEF DevicesTypes
<1> QED  BY <1>2, <1>4, <1>5, <1>6, <1>7, OneDevice

\* What a device writes for itself, when it writes what there is.
LEMMA SameStays ==
    ASSUME DevicesTypes, NEW d \in Device
    PROVE  /\ UNCHANGED recovery => recovery' = [recovery EXCEPT ![d] = recovery[d]]
           /\ UNCHANGED checkpoint => checkpoint' = [checkpoint EXCEPT ![d] = checkpoint[d]]
           /\ UNCHANGED push /\ push[d] = Devices!NoPush => push' = [push EXCEPT ![d] = Devices!NoPush]
           /\ recovery[d] \in BOOLEAN
  BY DEF DevicesTypes

\* The platform or the member asks for a resync; what is left is sent first.
LEMMA ResyncSafe ==
    ASSUME DevicesInv, NEW d \in Device, NEW expired \in BOOLEAN, Devices!Resync(d, expired)
    PROVE  DevicesInv'
<1>1. /\ mode[d] = "live" /\ mode' = [mode EXCEPT ![d] = "draining"]
      /\ recovery' = [recovery EXCEPT ![d] = expired] /\ push' = [push EXCEPT ![d] = Devices!NoPush]
      /\ UNCHANGED <<server, now, written, local, base, checkpoint, cutOff>>
  BY DEF Devices!Resync, Devices!ResyncStep, Devices!Quiet
<1>2. CaughtUp(d)'  BY <1>1 DEF DevicesInv, DeviceOK, CaughtUp, Reading
<1>3. checkpoint' = [checkpoint EXCEPT ![d] = checkpoint[d]]  BY <1>1, SameStays DEF DevicesInv
<1>4. d \in cutOff => local[d] = None  BY DEF DevicesInv, DeviceOK, ModeOK
<1> QED  BY <1>1, <1>2, <1>3, <1>4, StageChanges DEF Mode

\* Everything has been sent.
LEMMA EndDrainSafe == ASSUME DevicesInv, NEW d \in Device, Devices!EndDrain(d) PROVE DevicesInv'
<1>1. /\ mode[d] = "draining" /\ mode' = [mode EXCEPT ![d] = "drained"] /\ local[d] = base[d]
      /\ push' = [push EXCEPT ![d] = Devices!NoPush]
      /\ UNCHANGED <<server, now, written, local, base, checkpoint, recovery, cutOff>>
  BY DEF Devices!EndDrain, Devices!ResyncStep, Devices!Quiet, Devices!Drained, Devices!Pending
<1>2. mode'[d] = "drained" /\ UNCHANGED <<cutOff, recovery, checkpoint>>
  BY <1>1 DEF DevicesInv, DevicesTypes
<1>3. CaughtUp(d)'  BY <1>1, <1>2 DEF DevicesInv, DeviceOK, CaughtUp, Reading
<1>4. /\ checkpoint' = [checkpoint EXCEPT ![d] = checkpoint[d]]
      /\ recovery' = [recovery EXCEPT ![d] = recovery[d]] /\ recovery[d] \in BOOLEAN
  BY <1>1, SameStays DEF DevicesInv
<1>5. ~WillSend(d)  BY <1>1 DEF WillSend
<1>6. d \in cutOff => local[d] = None  BY DEF DevicesInv, DeviceOK, ModeOK
<1> QED  BY <1>1, <1>3, <1>4, <1>5, <1>6, StageChanges DEF Mode

\* The database is erased, and with it what was written too late to be sent.
LEMMA EraseSafe == ASSUME DevicesInv, NEW d \in Device, Devices!Erase(d) PROVE DevicesInv'
<1>1. /\ mode[d] = "drained" /\ mode' = [mode EXCEPT ![d] = "erased"]
      /\ local' = [local EXCEPT ![d] = None] /\ base' = [base EXCEPT ![d] = None]
      /\ UNCHANGED <<server, now, written, push, checkpoint, recovery, cutOff>>
  BY DEF Devices!Erase, Devices!ResyncStep, Devices!Quiet
<1>2. DeviceOK(d) /\ DevicesTypes  BY DEF DevicesInv
<1>3. /\ mode'[d] = "erased" /\ local'[d] = None /\ base'[d] = None
      /\ \A o \in Device \ {d} : mode'[o] = mode[o] /\ local'[o] = local[o] /\ base'[o] = base[o]
  BY <1>1, <1>2 DEF DevicesTypes
<1>4. DevicesTypes'  BY <1>1, <1>2 DEF DevicesTypes, Mode
<1>5. push[d] = Devices!NoPush  BY <1>1, <1>2 DEF DeviceOK, PushOK
<1>6. DeviceOK(d)'
  BY <1>1, <1>2, <1>3, <1>5 DEF DeviceOK, Grown, PushOK, ModeOK, CaughtUp, Reading
<1>7. ~WillSend(d)  BY <1>1 DEF WillSend
<1>8. now <= now'  BY <1>1, <1>2 DEF DevicesTypes
<1> QED  BY <1>1, <1>3, <1>4, <1>6, <1>7, <1>8, OneDevice

\* The record of the resync goes, then the checkpoint; then everything is read
\* from the start.
LEMMA ForgetSafe ==
    ASSUME DevicesInv, NEW d \in Device, Devices!ForgetRecovery(d) \/ Devices!ForgetCheckpoint(d)
    PROVE  DevicesInv'
<1>1. DeviceOK(d) /\ DevicesTypes  BY DEF DevicesInv
<1>2. CASE Devices!ForgetRecovery(d)
  <2>1. /\ mode[d] = "erased" /\ mode' = [mode EXCEPT ![d] = "clearing"]
        /\ recovery' = [recovery EXCEPT ![d] = FALSE]
        /\ UNCHANGED <<server, now, written, local, base, push, checkpoint, cutOff>>
    BY <1>2 DEF Devices!ForgetRecovery, Devices!ResyncStep, Devices!Quiet
  <2>2. local[d] = None /\ push[d] = Devices!NoPush
    BY <1>1, <2>1 DEF DeviceOK, ModeOK, PushOK
  <2>3. mode'[d] = "clearing"  BY <1>1, <2>1 DEF DevicesTypes
  <2>4. CaughtUp(d)' /\ ~WillSend(d)  BY <2>1, <2>3 DEF CaughtUp, Reading, WillSend
  <2>5. /\ checkpoint' = [checkpoint EXCEPT ![d] = checkpoint[d]]
        /\ push' = [push EXCEPT ![d] = Devices!NoPush]
    BY <1>1, <2>1, <2>2, SameStays
  <2> QED  BY <2>1, <2>2, <2>4, <2>5, StageChanges DEF Mode
<1>3. CASE Devices!ForgetCheckpoint(d)
  <2>1. /\ mode[d] = "clearing" /\ mode' = [mode EXCEPT ![d] = "live"]
        /\ checkpoint' = [checkpoint EXCEPT ![d] = 0]
        /\ cutOff' = cutOff \ {d}
        /\ UNCHANGED <<server, now, written, local, base, push, recovery>>
    BY <1>3 DEF Devices!ForgetCheckpoint, Devices!ResyncStep, Devices!Quiet
  <2>2. local[d] = None /\ push[d] = Devices!NoPush /\ recovery[d] = FALSE
    BY <1>1, <2>1 DEF DeviceOK, ModeOK, PushOK
  <2>3. checkpoint'[d] = 0 /\ server'.seq >= 1  BY <1>1, <2>1 DEF DevicesTypes, DevicesInv
  <2>4. CaughtUp(d)' /\ ~WillSend(d)
    <3>1. checkpoint'[d] # server'.seq  BY <1>1, <2>1, <2>3 DEF DevicesTypes
    <3> QED  BY <2>1, <3>1 DEF CaughtUp, WillSend
  <2>5. /\ recovery' = [recovery EXCEPT ![d] = recovery[d]] /\ recovery[d] \in BOOLEAN
        /\ push' = [push EXCEPT ![d] = Devices!NoPush]
    BY <1>1, <2>1, <2>2, SameStays
  <2> QED  BY <2>1, <2>2, <2>4, <2>5, StageChanges DEF Mode
<1> QED  BY <1>2, <1>3

\* A tab that is closed takes up the resync that is recorded.
LEMMA CrashSafe == ASSUME DevicesInv, NEW d \in Device, Devices!Crash(d) PROVE DevicesInv'
<1>1. /\ push' = [push EXCEPT ![d] = Devices!NoPush] /\ mode' = [mode EXCEPT ![d] = Devices!Reopen(d)]
      /\ cutOff' = IF mode[d] \in {"erased", "clearing"} /\ ~recovery[d] THEN cutOff \cup {d} ELSE cutOff
      /\ UNCHANGED <<server, now, written, local, base, checkpoint, recovery>>
  BY DEF Devices!Crash, Devices!Quiet
<1>2. DeviceOK(d) /\ DevicesTypes  BY DEF DevicesInv
<1>3. /\ checkpoint' = [checkpoint EXCEPT ![d] = checkpoint[d]]
      /\ recovery' = [recovery EXCEPT ![d] = recovery[d]] /\ recovery[d] \in BOOLEAN
  BY <1>1, <1>2, SameStays
<1>4. CASE recovery[d] = TRUE
  <2>1. Devices!Reopen(d) = "draining"  BY <1>4 DEF Devices!Reopen
  <2>2. mode' = [mode EXCEPT ![d] = "draining"] /\ mode'[d] = "draining"
    BY <1>1, <1>2, <2>1 DEF DevicesTypes
  <2>3. CaughtUp(d)'  BY <1>1, <1>4, <2>2 DEF CaughtUp, Reading
  <2>4. /\ \A o \in Device \ {d} : o \in cutOff' <=> o \in cutOff
        /\ d \in cutOff' => local[d] = None
    BY <1>1, <1>2 DEF DeviceOK, ModeOK
  <2> QED  BY <1>1, <1>3, <2>2, <2>3, <2>4, StageChanges DEF Mode
<1>5. CASE recovery[d] = FALSE
  <2>1. Devices!Reopen(d) = "live"  BY <1>5 DEF Devices!Reopen
  <2>2. mode' = [mode EXCEPT ![d] = "live"] /\ mode'[d] = "live" /\ mode[d] \in Mode
    BY <1>1, <1>2, <2>1 DEF DevicesTypes
  <2>3. CaughtUp(d)'
    <3>1. CASE mode[d] \in {"erased", "clearing"}  BY <1>1, <1>5, <3>1 DEF CaughtUp
    <3>2. CASE mode[d] \in {"live", "draining", "drained"}
      BY <1>1, <1>2, <1>5, <3>2 DEF DeviceOK, CaughtUp, Reading
    <3> QED  BY <2>2, <3>1, <3>2 DEF Mode
  <2>4. /\ \A o \in Device \ {d} : o \in cutOff' <=> o \in cutOff
        /\ d \in cutOff' => local[d] = None
    BY <1>1, <1>2 DEF DeviceOK, ModeOK
  <2> QED  BY <1>1, <1>3, <1>5, <2>2, <2>3, <2>4, StageChanges DEF Mode
<1> QED  BY <1>3, <1>4, <1>5

-----------------------------------------------------------------------------
(* Replica: the theorems *)

\* The server holds the first state, and no device has it yet.
LEMMA DevicesInitEstablishes == Devices!Init => DevicesInv
<1> SUFFICES ASSUME Devices!Init PROVE DevicesInv
  OBVIOUS
<1> DEFINE first == Devices!State(1, FALSE)
<1>1. first \in Devices!Doc /\ Key(first) = 2
  <2>1. 1 \in Nat /\ 2 * 1 = 2  OBVIOUS
  <2> QED  BY <2>1, KeyIs
<1>2. /\ server = [doc |-> first, seq |-> 1] /\ local = [d \in Device |-> None]
      /\ base = [d \in Device |-> None] /\ checkpoint = [d \in Device |-> 0]
      /\ push = [d \in Device |-> Devices!NoPush] /\ mode = [d \in Device |-> "live"]
      /\ recovery = [d \in Device |-> FALSE] /\ now = 1 /\ written = {first} /\ cutOff = {}
  BY DEF Devices!Init
<1> HIDE DEF first
<1>3. DevicesTypes  BY <1>1, <1>2 DEF DevicesTypes, Mode
<1>4. ASSUME NEW d \in Device PROVE DeviceOK(d)
  BY <1>2 DEF DeviceOK, Grown, PushOK, ModeOK, CaughtUp
<1>5. \A e \in written : Kept(e)  BY <1>1, <1>2 DEF Kept
<1>6. server.seq >= 1 /\ Key(server.doc) <= 2 * now + 1  BY <1>1, <1>2
<1> QED  BY <1>3, <1>4, <1>5, <1>6 DEF DevicesInv

\* Every step of the devices and the server keeps the invariant.
LEMMA DevicesNextSafe == DevicesInv /\ (Devices!Next \/ UNCHANGED replicaVars) => DevicesInv'
<1> SUFFICES ASSUME DevicesInv, Devices!Next \/ UNCHANGED replicaVars PROVE DevicesInv'
  OBVIOUS
<1>1. CASE UNCHANGED replicaVars  BY <1>1, DevicesStay DEF replicaVars
<1>2. ASSUME NEW d \in Device, Devices!Resync(d, TRUE) \/ Devices!Resync(d, FALSE) PROVE DevicesInv'
  <2>1. PICK expired \in BOOLEAN : Devices!Resync(d, expired)  BY <1>2
  <2> QED  BY <2>1, ResyncSafe
<1> QED
  BY <1>1, <1>2, MemberSafe, PullSafe, SendSafe, ServeSafe, AnswerSafe, LoseSafe, EndDrainSafe,
     EraseSafe, ForgetSafe, CrashSafe
  DEF Devices!Next

\* Of the parts, the devices start as Replica does and move by its steps only.
LEMMA DevicesPart ==
    /\ HouseholdInit => Devices!Init
    /\ [HouseholdNext]_steps => Devices!Next \/ UNCHANGED replicaVars
  BY DEF HouseholdInit, HouseholdNext, Done, steps

\* The invariant of the devices holds in every behaviour of the household.
LEMMA DevicesAlways == HouseholdSpec => []DevicesInv
<1>1. HouseholdInit => DevicesInv  BY DevicesPart, DevicesInitEstablishes
<1>2. DevicesInv /\ [HouseholdNext]_steps => DevicesInv'  BY DevicesPart, DevicesNextSafe
<1> QED  BY <1>1, <1>2, PTL DEF HouseholdSpec, steps

\* Offline edits, conflicts, lost answers, full resyncs and closed tabs take
\* back nothing that a member has done last (conflict.ts, writes.ts, scope.ts).
THEOREM TheNewestEditStands == HouseholdSpec => []NewestEditStands
<1>1. DevicesInv => NewestEditStands
  <2> SUFFICES ASSUME DevicesInv, \A d \in Device : Devices!Settled(d), NEW e \in written
               PROVE  ~Devices!Wins(e, server.doc)
    BY DEF NewestEditStands, Devices!NewestEditStands
  <2>1. \A d \in Device : ~WillSend(d)  BY DEF Devices!Settled, Devices!Pending, WillSend
  <2>2. Key(e) <= Key(server.doc)  BY <2>1 DEF DevicesInv, Kept
  <2>3. e \in Devices!Doc /\ server.doc \in Devices!Doc  BY DEF DevicesInv, DevicesTypes
  <2>4. Key(e) \in Nat /\ Key(server.doc) \in Nat  BY <2>3, KeyIs
  <2> QED  BY <2>2, <2>3, <2>4, WinsByKey
<1> QED  BY <1>1, DevicesAlways, PTL

\* A device that has sent and read everything shows what the server holds; one
\* that was closed after the erase of a full resync, before its checkpoint was
\* forgotten and with nothing recorded -- at any time in between when a member
\* asked for the resync -- shows nothing, until it reads a change or is resynced
\* once more (scope.ts).
THEOREM DevicesCatchUp == HouseholdSpec => []ReplicasCatchUp
<1>1. DevicesInv => ReplicasCatchUp
  BY DEF DevicesInv, DeviceOK, CaughtUp, ModeOK, Reading, ReplicasCatchUp, Devices!ReplicasCatchUp,
         Devices!Settled, Devices!Pending
<1> QED  BY <1>1, DevicesAlways, PTL

-----------------------------------------------------------------------------
(* Membership: the inductive invariant *)

Claim == [map : [Household -> Role \cup {None}], epoch : Nat]
Listed == [rev : Nat, status : {None, "active", "removed"}, role : Role \cup {None}]
Asked == [rev : Nat, status : {None, "invited", "accepted"}, role : Role \cup {None}]

\* What a call has still to write.
Left(op) == IF op = "remove" THEN {<<"claim", "member">>, <<"member">>}
            ELSE IF op = "accept" THEN {<<"member", "claim", "mark">>, <<"claim", "mark">>, <<"mark">>}
            ELSE IF op = "invite" THEN {<<"mark">>} ELSE {<<"member", "claim">>, <<"claim">>}
Programs == [op : Access!Operation, h : Household, who : Person, role : Role \cup {None},
             todo : UNION {Left(op) : op \in Access!Operation}, copy : {None} \cup Nat \cup Claim,
             tries : Nat]

Has(k) == claims[k[2]].map[k[1]]
Active(k) == member[k].status = "active"
Agrees(k) == Has(k) = IF Active(k) THEN member[k].role ELSE None
\* A call changes the membership of a pair; an invitation does not.
Works(s, k) ==
    call[s] # Access!Idle /\ call[s].op # "invite" /\ call[s].h = k[1] /\ call[s].who = k[2]

AccessTypes ==
    /\ claims \in [Person -> Claim] /\ member \in [Access!Pair -> Listed]
    /\ invitation \in [Access!Pair -> Asked] /\ call \in [Slot -> Programs \cup {Access!Idle}]
    /\ \A s \in Slot : call[s] # Access!Idle =>
          call[s].todo \in Left(call[s].op) /\ (call[s].op = "remove" => call[s].role = None)

\* A copy of a claim with its present epoch is its present state.
CopyOK(s) ==
    call[s] # Access!Idle /\ Head(call[s].todo) = "claim" /\ call[s].copy # None =>
        LET c == claims[call[s].who]
        IN  /\ call[s].copy \in Claim /\ call[s].copy.epoch <= c.epoch
            /\ call[s].copy.epoch = c.epoch => call[s].copy.map = c.map

\* What a call that nobody interferes with has written so far.
StageOK(s, k) == k \notin raced /\ Works(s, k) =>
    /\ \A t \in Slot : Works(t, k) => t = s
    /\ call[s].todo \in {Access!Writes(call[s].op), <<"mark">>} /\ k \notin cutShort => Agrees(k)
    /\ call[s].op # "remove" /\ Head(call[s].todo) = "claim" =>
          Active(k) /\ member[k].role = call[s].role
    /\ call[s].todo = <<"member">> => Has(k) = None

PairOK(k) == k \notin raced =>
    /\ Has(k) # None => Active(k)
    /\ k \notin cutShort /\ (\A s \in Slot : ~Works(s, k)) => Agrees(k)

AccessInv ==
    /\ AccessTypes /\ \A s \in Slot : CopyOK(s)
    /\ \A k \in Access!Pair : PairOK(k) /\ \A s \in Slot : StageOK(s, k)

-----------------------------------------------------------------------------
(* Membership: the steps *)

\* How a program goes on after a write.
LEMMA ProgramIs ==
    ASSUME NEW op \in Access!Operation, NEW todo \in Left(op)
    PROVE  /\ Head(todo) = "member" =>
                \/ op = "remove" /\ todo = <<"member">> /\ Len(todo) = 1
                \/ /\ op # "remove" /\ op # "invite" /\ Len(todo) # 1 /\ Head(Tail(todo)) = "claim"
                   /\ Tail(todo) \in Left(op)
                   /\ Tail(todo) \notin {Access!Writes(op), <<"mark">>, <<"member">>}
           /\ Head(todo) = "claim" =>
                \/ op = "remove" /\ Len(todo) # 1 /\ Tail(todo) = <<"member">> /\ Tail(todo) \in Left(op)
                   /\ <<"member">> \notin {Access!Writes(op), <<"mark">>}
                \/ op = "accept" /\ Len(todo) # 1 /\ Tail(todo) = <<"mark">> /\ Tail(todo) \in Left(op)
                \/ op \notin {"remove", "invite", "accept"} /\ Len(todo) = 1
           /\ Head(todo) = "mark" => todo = <<"mark">> /\ Len(todo) = 1
           /\ Access!Writes(op) \in Left(op) /\ Access!Writes(op) # <<"member">>
           /\ Head(Access!Writes(op)) = "claim" => op = "remove"
<1>1. /\ Head(<<"member">>) = "member" /\ Len(<<"member">>) = 1
      /\ Head(<<"mark">>) = "mark" /\ Len(<<"mark">>) = 1
      /\ Head(<<"claim">>) = "claim" /\ Len(<<"claim">>) = 1
  OBVIOUS
<1>2. /\ Head(<<"claim", "member">>) = "claim" /\ Len(<<"claim", "member">>) = 2
      /\ Tail(<<"claim", "member">>) = <<"member">>
      /\ Head(<<"member", "claim">>) = "member" /\ Len(<<"member", "claim">>) = 2
      /\ Tail(<<"member", "claim">>) = <<"claim">>
      /\ Head(<<"claim", "mark">>) = "claim" /\ Len(<<"claim", "mark">>) = 2
      /\ Tail(<<"claim", "mark">>) = <<"mark">>
  OBVIOUS
<1>3. /\ Head(<<"member", "claim", "mark">>) = "member" /\ Len(<<"member", "claim", "mark">>) = 3
      /\ Tail(<<"member", "claim", "mark">>) = <<"claim", "mark">>
  OBVIOUS
<1>4. /\ <<"member">> # <<"mark">> /\ <<"claim">> # <<"mark">> /\ <<"claim">> # <<"member">>
      /\ <<"claim", "mark">> # <<"mark">> /\ <<"claim", "mark">> # <<"member">>
      /\ <<"claim", "member">> # <<"member">> /\ <<"claim">> # <<"member", "claim">>
      /\ <<"member", "claim">> # <<"member">> /\ <<"member", "claim", "mark">> # <<"member">>
      /\ <<"claim", "mark">> # <<"member", "claim", "mark">>
  OBVIOUS
<1>5. CASE op = "remove"
  <2>1. Access!Writes(op) = <<"claim", "member">>  BY <1>5 DEF Access!Writes
  <2>2. CASE todo = <<"claim", "member">>  BY <1>1, <1>2, <1>3, <1>4, <1>5, <2>1, <2>2 DEF Left
  <2>3. CASE todo = <<"member">>  BY <1>1, <1>2, <1>3, <1>4, <1>5, <2>1, <2>3 DEF Left
  <2> QED  BY <1>5, <2>2, <2>3 DEF Left
<1>6. CASE op = "accept"
  <2>1. Access!Writes(op) = <<"member", "claim", "mark">>  BY <1>6 DEF Access!Writes
  <2>2. CASE todo = <<"member", "claim", "mark">>  BY <1>1, <1>2, <1>3, <1>4, <1>6, <2>1, <2>2 DEF Left
  <2>3. CASE todo = <<"claim", "mark">>  BY <1>1, <1>2, <1>3, <1>4, <1>6, <2>1, <2>3 DEF Left
  <2>4. CASE todo = <<"mark">>  BY <1>1, <1>2, <1>3, <1>4, <1>6, <2>1, <2>4 DEF Left
  <2> QED  BY <1>6, <2>2, <2>3, <2>4 DEF Left
<1>7. CASE op = "invite"
  <2>1. Access!Writes(op) = <<"mark">>  BY <1>7 DEF Access!Writes
  <2> QED  BY <1>1, <1>4, <1>7, <2>1 DEF Left
<1>8. CASE op \in {"create", "role"}
  <2>1. Access!Writes(op) = <<"member", "claim">>  BY <1>8 DEF Access!Writes
  <2>2. CASE todo = <<"member", "claim">>  BY <1>1, <1>2, <1>3, <1>4, <1>8, <2>1, <2>2 DEF Left
  <2>3. CASE todo = <<"claim">>  BY <1>1, <1>2, <1>3, <1>4, <1>8, <2>1, <2>3 DEF Left
  <2> QED  BY <1>8, <2>2, <2>3 DEF Left
<1> QED  BY <1>5, <1>6, <1>7, <1>8 DEF Access!Operation

\* A call that goes on, or ends, changes nothing but what it is about.
LEMMA GoesOn ==
    ASSUME AccessInv, NEW s \in Slot, call[s] # Access!Idle, AccessTypes',
           NEW new, call' = [call EXCEPT ![s] = new],
           new = Access!Idle \/ (/\ new # Access!Idle /\ new.op = call[s].op /\ new.h = call[s].h
                                 /\ new.who = call[s].who),
           raced' = raced, cutShort \subseteq cutShort',
           \A p \in Person : claims[p].epoch <= claims'[p].epoch
                             /\ (claims[p].epoch = claims'[p].epoch => claims'[p] = claims[p]),
           \A k \in Access!Pair : ~Works(s, k) => Has(k)' = Has(k) /\ member'[k] = member[k],
           CopyOK(s)', \A k \in Access!Pair : Works(s, k) => PairOK(k)' /\ StageOK(s, k)'
    PROVE  AccessInv'
<1>1. \A t \in Slot : call'[t] = IF t = s THEN new ELSE call[t]  BY DEF AccessInv, AccessTypes
<1>2. ASSUME NEW t \in Slot PROVE CopyOK(t)'
  <2>1. CASE t = s  BY <2>1
  <2>2. CASE t # s
    <3> SUFFICES ASSUME call[t] # Access!Idle, Head(call[t].todo) = "claim", call[t].copy # None
                 PROVE  LET c == claims'[call[t].who]
                        IN  /\ call[t].copy \in Claim /\ call[t].copy.epoch <= c.epoch
                            /\ call[t].copy.epoch = c.epoch => call[t].copy.map = c.map
      BY <1>1, <2>2 DEF CopyOK
    <3>1. call[t].who \in Person  BY DEF AccessInv, AccessTypes, Programs
    <3>2. /\ claims[call[t].who].epoch \in Nat /\ claims'[call[t].who].epoch \in Nat
      BY <3>1 DEF AccessInv, AccessTypes, Claim
    <3>3. /\ call[t].copy \in Claim /\ call[t].copy.epoch <= claims[call[t].who].epoch
          /\ call[t].copy.epoch = claims[call[t].who].epoch => call[t].copy.map = claims[call[t].who].map
      BY DEF AccessInv, CopyOK
    <3>4. call[t].copy.epoch \in Nat  BY <3>3 DEF Claim
    <3> QED  BY <3>1, <3>2, <3>3, <3>4
  <2> QED  BY <2>1, <2>2
<1>3. \A t \in Slot, k \in Access!Pair : t # s => (Works(t, k)' <=> Works(t, k))
  BY <1>1 DEF Works
<1>4. \A k \in Access!Pair : Works(s, k)' => Works(s, k)  BY <1>1 DEF Works
<1>5. ASSUME NEW k \in Access!Pair PROVE PairOK(k)' /\ \A t \in Slot : StageOK(t, k)'
  <2>1. PairOK(k) /\ \A t \in Slot : StageOK(t, k)  BY DEF AccessInv
  <2>2. CASE Works(s, k)
    <3>1. ASSUME NEW t \in Slot, t # s PROVE StageOK(t, k)'
      BY <1>3, <2>1, <2>2, <3>1 DEF StageOK
    <3> QED  BY <2>2, <3>1
  <2>3. CASE ~Works(s, k)
    <3>1. Has(k)' = Has(k) /\ member'[k] = member[k] /\ ~Works(s, k)'  BY <1>4, <2>3
    <3>2. (Agrees(k)' <=> Agrees(k)) /\ (Active(k)' <=> Active(k))  BY <3>1 DEF Agrees, Active
    <3>3. \A t \in Slot : Works(t, k)' <=> Works(t, k)  BY <1>3, <2>3, <3>1
    <3>4. PairOK(k)'  BY <2>1, <3>1, <3>2, <3>3 DEF PairOK
    <3>5. ASSUME NEW t \in Slot PROVE StageOK(t, k)'
      <4>1. CASE t = s  BY <3>1, <4>1 DEF StageOK
      <4>2. CASE t # s
        <5>1. call'[t] = call[t]  BY <1>1, <4>2
        <5> QED  BY <2>1, <3>1, <3>2, <3>3, <5>1 DEF StageOK
      <4> QED  BY <4>1, <4>2
    <3> QED  BY <3>4, <3>5
  <2> QED  BY <2>2, <2>3
<1> QED  BY <1>2, <1>5 DEF AccessInv

\* What a running call is about, in the form the invariant speaks of.
LEMMA AboutIs ==
    ASSUME AccessTypes, NEW s \in Slot, call[s] # Access!Idle
    PROVE  /\ call[s] \in Programs /\ call[s].op \in Access!Operation /\ call[s].todo \in Left(call[s].op)
           /\ call[s].h \in Household /\ call[s].who \in Person /\ call[s].role \in Role \cup {None}
           /\ Access!About(s) \in Access!Pair
           /\ Access!About(s)[1] = call[s].h /\ Access!About(s)[2] = call[s].who
           /\ \A k \in Access!Pair : Works(s, k) <=> (call[s].op # "invite" /\ k = Access!About(s))
<1>1. call[s] \in Programs  BY DEF AccessTypes
<1>2. /\ call[s].op \in Access!Operation /\ call[s].todo \in Left(call[s].op)
      /\ call[s].h \in Household /\ call[s].who \in Person /\ call[s].role \in Role \cup {None}
  BY <1>1 DEF AccessTypes, Programs
<1>3. Access!About(s) = <<call[s].h, call[s].who>>  BY DEF Access!About
<1>4. \A k \in Access!Pair : k = <<k[1], k[2]>>  BY DEF Access!Pair
<1> QED  BY <1>1, <1>2, <1>3, <1>4 DEF Access!Pair, Works

\* A call that fails leaves what it has written, and its pair marked.
LEMMA FailSafe ==
    ASSUME AccessInv, NEW s \in Slot, call[s] # Access!Idle, Access!Fail(s),
           claims' = claims, member' = member, invitation' = invitation, raced' = raced
    PROVE  AccessInv'
<1>1. AccessTypes  BY DEF AccessInv
<1>2. call' = [call EXCEPT ![s] = Access!Idle] /\ cutShort' = cutShort \cup {Access!About(s)}
  BY DEF Access!Fail
<1>3. \A t \in Slot : call'[t] = IF t = s THEN Access!Idle ELSE call[t]  BY <1>1, <1>2 DEF AccessTypes
<1>4. AccessTypes'  BY <1>1, <1>2, <1>3 DEF AccessTypes
<1>5. CopyOK(s)'  BY <1>3 DEF CopyOK
<1>6. ASSUME NEW k \in Access!Pair, Works(s, k) PROVE PairOK(k)' /\ StageOK(s, k)'
  <2>1. PairOK(k) /\ k \in cutShort'  BY <1>1, <1>2, <1>6, AboutIs DEF AccessInv
  <2>2. Has(k)' = Has(k) /\ (Active(k)' <=> Active(k))  BY DEF Has, Active
  <2>3. ~Works(s, k)'  BY <1>3 DEF Works
  <2> QED  BY <2>1, <2>2, <2>3 DEF PairOK, StageOK
<1>7. \A p \in Person : claims[p].epoch <= claims'[p].epoch
  BY <1>1 DEF AccessTypes, Claim
<1> DEFINE new == Access!Idle
<1>8. new = Access!Idle  OBVIOUS
<1>9. \A k \in Access!Pair : ~Works(s, k) => Has(k)' = Has(k) /\ member'[k] = member[k]  BY DEF Has
<1>10. call' = [call EXCEPT ![s] = new]  BY <1>2
<1> HIDE DEF new
<1> QED  BY <1>2, <1>4, <1>5, <1>6, <1>7, <1>8, <1>9, <1>10, GoesOn

\* A read, or another attempt, leaves a call where it was.
LEMMA SameStage ==
    ASSUME AccessInv, NEW s \in Slot, call[s] # Access!Idle, NEW new \in Programs,
           call' = [call EXCEPT ![s] = new],
           new.op = call[s].op, new.h = call[s].h, new.who = call[s].who, new.role = call[s].role,
           new.todo = call[s].todo,
           Head(call[s].todo) = "claim" => new.copy \in {None, claims[call[s].who]},
           claims' = claims, member' = member, invitation' = invitation, raced' = raced,
           cutShort' = cutShort
    PROVE  AccessInv'
<1>1. AccessTypes  BY DEF AccessInv
<1>2. /\ call[s] \in Programs /\ call[s].op \in Access!Operation /\ call[s].who \in Person
      /\ \A k \in Access!Pair : Works(s, k) <=> (call[s].op # "invite" /\ k = Access!About(s))
  BY <1>1, AboutIs
<1>3. /\ new \in Programs /\ new.op = call[s].op /\ new.h = call[s].h /\ new.who = call[s].who
      /\ new.role = call[s].role /\ new.todo = call[s].todo
  OBVIOUS
<1>4. call' = [call EXCEPT ![s] = new]  OBVIOUS
<1>5. new # Access!Idle
  <2>1. \A x \in Programs : DOMAIN x = {"op", "h", "who", "role", "todo", "copy", "tries"}  BY DEF Programs
  <2>2. DOMAIN Access!Idle = {"op"}  BY DEF Access!Idle
  <2> QED  BY <1>3, <2>1, <2>2
<1>6. \A t \in Slot : call'[t] = IF t = s THEN new ELSE call[t]  BY <1>1, <1>4 DEF AccessTypes
<1>7. AccessTypes'
  <2>1. call' \in [Slot -> Programs \cup {Access!Idle}]  BY <1>1, <1>3, <1>4 DEF AccessTypes
  <2>2. \A t \in Slot : call'[t] # Access!Idle =>
          call'[t].todo \in Left(call'[t].op) /\ (call'[t].op = "remove" => call'[t].role = None)
    BY <1>1, <1>3, <1>6 DEF AccessTypes
  <2> QED  BY <1>1, <2>1, <2>2 DEF AccessTypes
<1>8. \A p \in Person : claims[p] \in Claim /\ claims[p].epoch \in Nat  BY <1>1 DEF AccessTypes, Claim
<1>9. CopyOK(s)'
  BY <1>2, <1>3, <1>6, <1>8 DEF CopyOK
<1>10. ASSUME NEW k \in Access!Pair, Works(s, k) PROVE PairOK(k)' /\ StageOK(s, k)'
  <2>1. PairOK(k) /\ StageOK(s, k)  BY DEF AccessInv
  <2>2. Has(k)' = Has(k) /\ (Active(k)' <=> Active(k)) /\ (Agrees(k)' <=> Agrees(k))
    BY DEF Has, Active, Agrees
  <2>3. \A t \in Slot : Works(t, k)' <=> Works(t, k)
    <3>1. ASSUME NEW t \in Slot PROVE Works(t, k)' <=> Works(t, k)
      <4>1. CASE t = s  BY <1>3, <1>5, <1>6, <1>10, <4>1 DEF Works
      <4>2. CASE t # s  BY <1>6, <4>2 DEF Works
      <4> QED  BY <4>1, <4>2
    <3> QED  BY <3>1
  <2>4. call'[s] = new  BY <1>6
  <2>5. PairOK(k)'  BY <2>1, <2>2, <2>3 DEF PairOK
  <2>6. StageOK(s, k)'  BY <1>3, <2>1, <2>2, <2>3, <2>4 DEF StageOK
  <2> QED  BY <2>5, <2>6
<1>11. \A k \in Access!Pair : ~Works(s, k) => Has(k)' = Has(k) /\ member'[k] = member[k]  BY DEF Has
<1>12. \A p \in Person : claims[p].epoch <= claims'[p].epoch  BY <1>8
<1> QED  BY <1>3, <1>4, <1>5, <1>7, <1>9, <1>10, <1>11, <1>12, GoesOn

\* The three reads.
LEMMA ReadSafe ==
    ASSUME AccessInv, NEW s \in Slot,
           Access!ReadMember(s) \/ Access!ReadInvitation(s) \/ Access!ReadClaim(s)
    PROVE  AccessInv'
<1>1. AccessTypes /\ call[s] # Access!Idle
  BY DEF AccessInv, Access!ReadMember, Access!ReadInvitation, Access!ReadClaim, Access!Doing, Access!Busy
<1>2. call[s] \in Programs /\ call[s].who \in Person /\ Access!About(s) \in Access!Pair  BY <1>1, AboutIs
<1>3. PICK copy \in Nat \cup Claim :
        /\ Access!Read(s, copy) /\ (Head(call[s].todo) = "claim" => copy = claims[call[s].who])
  <2>1. CASE Access!ReadMember(s)
    BY <1>1, <1>2, <2>1 DEF Access!ReadMember, Access!Doing, AccessTypes, Listed
  <2>2. CASE Access!ReadInvitation(s)
    BY <1>1, <1>2, <2>2 DEF Access!ReadInvitation, Access!Doing, AccessTypes, Asked
  <2>3. CASE Access!ReadClaim(s)
    BY <1>1, <1>2, <2>3 DEF Access!ReadClaim, Access!Doing, AccessTypes
  <2> QED  BY <2>1, <2>2, <2>3
<1>4. /\ call' = [call EXCEPT ![s].copy = copy]
      /\ claims' = claims /\ member' = member /\ invitation' = invitation /\ raced' = raced
      /\ cutShort' = cutShort
  BY <1>3 DEF Access!Read
<1> DEFINE new == [call[s] EXCEPT !.copy = copy]
<1>5. /\ new \in Programs /\ new.op = call[s].op /\ new.h = call[s].h /\ new.who = call[s].who
      /\ new.role = call[s].role /\ new.todo = call[s].todo /\ new.copy = copy
  BY <1>2 DEF Programs
<1>6. call' = [call EXCEPT ![s] = new]  BY <1>4
<1> HIDE DEF new
<1> QED  BY <1>1, <1>3, <1>4, <1>5, <1>6, SameStage

\* What a call has become once a write of it has landed.
LEMMA WroteIs ==
    ASSUME AccessTypes, NEW s \in Slot, call[s] # Access!Idle,
           call' = [call EXCEPT ![s] = IF Len(call[s].todo) = 1 THEN Access!Idle
                                       ELSE [call[s] EXCEPT !.todo = Tail(@), !.copy = None]],
           Len(call[s].todo) # 1 => Tail(call[s].todo) \in Left(call[s].op)
    PROVE  \E new \in Programs \cup {Access!Idle} :
              /\ call' = [call EXCEPT ![s] = new] /\ call'[s] = new
              /\ \A t \in Slot : t # s => call'[t] = call[t]
              /\ call' \in [Slot -> Programs \cup {Access!Idle}]
              /\ \A t \in Slot : call'[t] # Access!Idle =>
                    call'[t].todo \in Left(call'[t].op) /\ (call'[t].op = "remove" => call'[t].role = None)
              /\ Len(call[s].todo) = 1 => new = Access!Idle
              /\ Len(call[s].todo) # 1 =>
                    /\ new # Access!Idle /\ new.op = call[s].op /\ new.h = call[s].h /\ new.who = call[s].who
                    /\ new.role = call[s].role /\ new.todo = Tail(call[s].todo) /\ new.copy = None
              /\ CopyOK(s)'
<1>1. call[s] \in Programs /\ call[s].op \in Access!Operation  BY AboutIs
<1> DEFINE next == [call[s] EXCEPT !.todo = Tail(call[s].todo), !.copy = None]
<1>2. ASSUME Len(call[s].todo) # 1
      PROVE  /\ next \in Programs /\ next.op = call[s].op /\ next.h = call[s].h /\ next.who = call[s].who
             /\ next.role = call[s].role /\ next.todo = Tail(call[s].todo) /\ next.copy = None
             /\ next # Access!Idle
  <2>1. \A x \in Programs : DOMAIN x = {"op", "h", "who", "role", "todo", "copy", "tries"}  BY DEF Programs
  <2>2. DOMAIN Access!Idle = {"op"}  BY DEF Access!Idle
  <2>3. Tail(call[s].todo) \in UNION {Left(op) : op \in Access!Operation}
    <3>1. Left(call[s].op) \in {Left(op) : op \in Access!Operation}  BY <1>1
    <3> QED  BY <1>2, <3>1
  <2>4. /\ next \in Programs /\ next.op = call[s].op /\ next.h = call[s].h /\ next.who = call[s].who
        /\ next.role = call[s].role /\ next.todo = Tail(call[s].todo) /\ next.copy = None
    BY <1>1, <2>3 DEF Programs
  <2> QED  BY <2>1, <2>2, <2>4
<1>8. call' = [call EXCEPT ![s] = IF Len(call[s].todo) = 1 THEN Access!Idle ELSE next]  OBVIOUS
<1> HIDE DEF next
<1> DEFINE new == IF Len(call[s].todo) = 1 THEN Access!Idle ELSE next
<1>3. new \in Programs \cup {Access!Idle} /\ call' = [call EXCEPT ![s] = new]  BY <1>2, <1>8
<1>4. /\ Len(call[s].todo) = 1 => new = Access!Idle
      /\ Len(call[s].todo) # 1 =>
            /\ new # Access!Idle /\ new.op = call[s].op /\ new.h = call[s].h /\ new.who = call[s].who
            /\ new.role = call[s].role /\ new.todo = Tail(call[s].todo) /\ new.copy = None
  BY <1>2
<1> HIDE DEF new
<1>5. /\ call' \in [Slot -> Programs \cup {Access!Idle}]
      /\ \A t \in Slot : call'[t] = IF t = s THEN new ELSE call[t]
  BY <1>3 DEF AccessTypes
<1>6. \A t \in Slot : call'[t] # Access!Idle =>
        call'[t].todo \in Left(call'[t].op) /\ (call'[t].op = "remove" => call'[t].role = None)
  BY <1>4, <1>5 DEF AccessTypes
<1>7. CopyOK(s)'  BY <1>4, <1>5 DEF CopyOK
<1> QED  BY <1>3, <1>4, <1>5, <1>6, <1>7

\* A document that is marked as removed.
LEMMA RemovedIs ==
    ASSUME NEW x \in Listed
    PROVE  /\ [x EXCEPT !.rev = @ + 1, !.status = "removed"] \in Listed
           /\ [x EXCEPT !.rev = @ + 1, !.status = "removed"].status = "removed"
<1> DEFINE y == [x EXCEPT !.rev = x.rev + 1]
<1>1. x.rev + 1 \in Nat  BY DEF Listed
<1>2. y \in Listed  BY <1>1 DEF Listed
<1> HIDE DEF y
<1> DEFINE z == [y EXCEPT !.status = "removed"]
<1>3. z \in Listed /\ z.status = "removed"  BY <1>2 DEF Listed
<1> HIDE DEF z
<1>4. z = [x EXCEPT !.rev = @ + 1, !.status = "removed"]  BY Zenon DEF y, z
<1> QED  BY <1>3, <1>4

\* The list is written: who is listed is what the call is to make of it.
LEMMA WriteMemberSafe == ASSUME AccessInv, NEW s \in Slot, Access!WriteMember(s) PROVE AccessInv'
<1> DEFINE k == Access!About(s)
           d == member[k]
<1>1. /\ AccessTypes /\ call[s] # Access!Idle /\ Head(call[s].todo) = "member"
      /\ claims' = claims /\ invitation' = invitation /\ raced' = raced
  BY DEF AccessInv, Access!WriteMember, Access!Doing, Access!Busy
<1>2. /\ call[s] \in Programs /\ call[s].op \in Access!Operation /\ call[s].todo \in Left(call[s].op)
      /\ call[s].role \in Role \cup {None} /\ k \in Access!Pair
      /\ \A j \in Access!Pair : Works(s, j) <=> (call[s].op # "invite" /\ j = k)
  BY <1>1, AboutIs
<1>3. CASE d.rev # call[s].copy
  <2>1. Access!Fail(s) /\ member' = member  BY <1>3 DEF Access!WriteMember
  <2> QED  BY <1>1, <2>1, FailSafe
<1>4. CASE d.rev = call[s].copy
  <2> DEFINE doc1 == IF call[s].op = "remove" THEN [d EXCEPT !.rev = @ + 1, !.status = "removed"]
                     ELSE [rev |-> d.rev + 1, status |-> "active", role |-> call[s].role]
  <2>1. member' = [member EXCEPT ![k] = doc1] /\ Access!Wrote(s)
    <3>1. /\ member' = [member EXCEPT ![Access!About(s)] =
               IF call[s].op = "remove" THEN [d EXCEPT !.rev = @ + 1, !.status = "removed"]
               ELSE [rev |-> d.rev + 1, status |-> "active", role |-> call[s].role]]
          /\ Access!Wrote(s)
      BY <1>4, Zenon DEF Access!WriteMember
    <3> QED  BY <3>1
  <2>2. d \in Listed  BY <1>1, <1>2 DEF AccessTypes
  <2>3. /\ doc1 \in Listed
        /\ call[s].op = "remove" => doc1.status = "removed"
        /\ call[s].op # "remove" => doc1.status = "active" /\ doc1.role = call[s].role
    <3>1. CASE call[s].op = "remove"
      <4> HIDE DEF d
      <4>1. doc1 = [d EXCEPT !.rev = @ + 1, !.status = "removed"]  BY <3>1
      <4> HIDE DEF doc1
      <4>2. doc1 \in Listed /\ doc1.status = "removed"  BY <2>2, <4>1, RemovedIs
      <4> QED  BY <3>1, <4>2
    <3>2. CASE call[s].op # "remove"
      <4>1. doc1 = [rev |-> d.rev + 1, status |-> "active", role |-> call[s].role]  BY <3>2
      <4> HIDE DEF doc1
      <4>2. doc1 \in Listed /\ doc1.status = "active" /\ doc1.role = call[s].role
        BY <1>2, <2>2, <4>1 DEF Listed
      <4> QED  BY <3>2, <4>2
    <3> QED  BY <3>1, <3>2
  <2> HIDE DEF doc1
  <2>4. \/ call[s].op = "remove" /\ call[s].todo = <<"member">> /\ Len(call[s].todo) = 1
        \/ /\ call[s].op # "remove" /\ call[s].op # "invite" /\ Len(call[s].todo) # 1
           /\ Head(Tail(call[s].todo)) = "claim" /\ Tail(call[s].todo) \in Left(call[s].op)
           /\ Tail(call[s].todo) \notin {Access!Writes(call[s].op), <<"mark">>, <<"member">>}
    BY <1>1, <1>2, ProgramIs
  <2>5. /\ cutShort' = cutShort
        /\ call' = [call EXCEPT ![s] = IF Len(call[s].todo) = 1 THEN Access!Idle
                                       ELSE [call[s] EXCEPT !.todo = Tail(@), !.copy = None]]
    BY <2>1 DEF Access!Wrote
  <2>6. PICK new \in Programs \cup {Access!Idle} :
           /\ call' = [call EXCEPT ![s] = new] /\ call'[s] = new
           /\ \A t \in Slot : t # s => call'[t] = call[t]
           /\ call' \in [Slot -> Programs \cup {Access!Idle}]
           /\ \A t \in Slot : call'[t] # Access!Idle =>
                 call'[t].todo \in Left(call'[t].op) /\ (call'[t].op = "remove" => call'[t].role = None)
           /\ Len(call[s].todo) = 1 => new = Access!Idle
           /\ Len(call[s].todo) # 1 =>
                 /\ new # Access!Idle /\ new.op = call[s].op /\ new.h = call[s].h /\ new.who = call[s].who
                 /\ new.role = call[s].role /\ new.todo = Tail(call[s].todo) /\ new.copy = None
           /\ CopyOK(s)'
    BY <1>1, <2>4, <2>5, WroteIs
  <2>7. AccessTypes'
    <3>1. member' \in [Access!Pair -> Listed]  BY <1>1, <1>2, <2>1, <2>3 DEF AccessTypes
    <3> QED  BY <1>1, <2>6, <3>1 DEF AccessTypes
  <2>8. member'[k] = doc1 /\ \A j \in Access!Pair : j # k => member'[j] = member[j]
    BY <1>1, <1>2, <2>1 DEF AccessTypes
  <2>9. \A j \in Access!Pair : ~Works(s, j) => Has(j)' = Has(j) /\ member'[j] = member[j]
    BY <1>1, <1>2, <2>4, <2>8 DEF Has
  <2>10. ASSUME NEW j \in Access!Pair, Works(s, j) PROVE PairOK(j)' /\ StageOK(s, j)'
    <3>1. j = k  BY <1>2, <2>10
    <3>2. PairOK(j) /\ StageOK(s, j)  BY DEF AccessInv
    <3>3. Has(j)' = Has(j)  BY <1>1 DEF Has
    <3>4. CASE call[s].op = "remove"
      <4>1. call'[s] = Access!Idle /\ call[s].todo = <<"member">>  BY <2>4, <2>6, <3>4
      <4>2. ~Works(s, j)'  BY <4>1 DEF Works
      <4>3. ~Active(j)'  BY <2>3, <2>8, <3>1, <3>4 DEF Active
      <4>4. j \notin raced => Has(j)' = None  BY <2>10, <3>2, <3>3, <4>1 DEF StageOK
      <4> QED  BY <1>1, <4>2, <4>3, <4>4 DEF PairOK, StageOK, Agrees
    <3>5. CASE call[s].op # "remove"
      <4>1. Active(j)' /\ member'[j].role = call[s].role  BY <2>3, <2>8, <3>1, <3>5 DEF Active
      <4>2. /\ call'[s] # Access!Idle /\ call'[s].op = call[s].op /\ call'[s].h = call[s].h
            /\ call'[s].who = call[s].who /\ call'[s].role = call[s].role
            /\ call'[s].todo = Tail(call[s].todo)
        BY <2>4, <2>6, <3>5
      <4>3. Works(s, j)'  BY <2>10, <4>2 DEF Works
      <4>4. \A t \in Slot : t # s => (Works(t, j)' <=> Works(t, j))  BY <2>6 DEF Works
      <4>5. PairOK(j)'  BY <4>1, <4>3 DEF PairOK
      <4>6. StageOK(s, j)'
        <5>1. call'[s].todo \notin {Access!Writes(call'[s].op), <<"mark">>, <<"member">>}
          BY <2>4, <3>5, <4>2
        <5>2. j \notin raced => \A t \in Slot : Works(t, j)' => t = s
          BY <2>10, <3>2, <4>4 DEF StageOK
        <5> QED  BY <1>1, <4>1, <4>2, <5>1, <5>2 DEF StageOK
      <4> QED  BY <4>5, <4>6
    <3> QED  BY <3>4, <3>5
  <2>11. \A p \in Person : claims[p].epoch <= claims'[p].epoch  BY <1>1 DEF AccessTypes, Claim
  <2> QED  BY <1>1, <2>4, <2>5, <2>6, <2>7, <2>9, <2>10, <2>11, GoesOn
<1> QED  BY <1>3, <1>4

\* The invitation is marked: nothing is left to be written about the pair.
LEMMA WriteInvitationSafe == ASSUME AccessInv, NEW s \in Slot, Access!WriteInvitation(s) PROVE AccessInv'
<1> DEFINE k == Access!About(s)
           d == invitation[k]
<1>1. /\ AccessTypes /\ call[s] # Access!Idle /\ Head(call[s].todo) = "mark"
      /\ claims' = claims /\ member' = member /\ raced' = raced
  BY DEF AccessInv, Access!WriteInvitation, Access!Doing, Access!Busy
<1>2. /\ call[s] \in Programs /\ call[s].op \in Access!Operation /\ call[s].todo \in Left(call[s].op)
      /\ call[s].role \in Role \cup {None} /\ k \in Access!Pair
      /\ \A j \in Access!Pair : Works(s, j) <=> (call[s].op # "invite" /\ j = k)
  BY <1>1, AboutIs
<1>3. CASE d.rev # call[s].copy
  <2>1. Access!Fail(s) /\ invitation' = invitation  BY <1>3 DEF Access!WriteInvitation
  <2> QED  BY <1>1, <2>1, FailSafe
<1>4. CASE d.rev = call[s].copy
  <2> DEFINE doc1 == [rev |-> d.rev + 1, role |-> call[s].role,
                      status |-> IF call[s].op = "invite" THEN "invited" ELSE "accepted"]
  <2>1. invitation' = [invitation EXCEPT ![k] = doc1] /\ Access!Wrote(s)
    BY <1>4 DEF Access!WriteInvitation
  <2>2. doc1 \in Asked
    <3>1. d.rev \in Nat  BY <1>1, <1>2 DEF AccessTypes, Asked
    <3> QED  BY <1>2, <3>1 DEF Asked
  <2> HIDE DEF doc1
  <2>3. call[s].todo = <<"mark">> /\ Len(call[s].todo) = 1  BY <1>1, <1>2, ProgramIs
  <2>4. cutShort' = cutShort /\ call' = [call EXCEPT ![s] = Access!Idle]
    BY <2>1, <2>3 DEF Access!Wrote
  <2>5. \A t \in Slot : call'[t] = IF t = s THEN Access!Idle ELSE call[t]
    BY <1>1, <2>4 DEF AccessTypes
  <2>6. AccessTypes'
    <3>1. invitation' \in [Access!Pair -> Asked]  BY <1>1, <1>2, <2>1, <2>2 DEF AccessTypes
    <3> QED  BY <1>1, <2>4, <2>5, <3>1 DEF AccessTypes
  <2>7. CopyOK(s)'  BY <2>5 DEF CopyOK
  <2>8. ASSUME NEW j \in Access!Pair, Works(s, j) PROVE PairOK(j)' /\ StageOK(s, j)'
    <3>1. PairOK(j) /\ StageOK(s, j)  BY DEF AccessInv
    <3>2. Has(j)' = Has(j) /\ (Active(j)' <=> Active(j)) /\ (Agrees(j)' <=> Agrees(j))
      BY <1>1 DEF Has, Active, Agrees
    <3>3. ~Works(s, j)'  BY <2>5 DEF Works
    <3>4. j \notin raced /\ j \notin cutShort => Agrees(j)  BY <2>3, <2>8, <3>1 DEF StageOK
    <3> QED  BY <1>1, <2>4, <3>1, <3>2, <3>3, <3>4 DEF PairOK, StageOK
  <2>9. \A p \in Person : claims[p].epoch <= claims'[p].epoch  BY <1>1 DEF AccessTypes, Claim
  <2>10. \A j \in Access!Pair : ~Works(s, j) => Has(j)' = Has(j) /\ member'[j] = member[j]
    BY <1>1 DEF Has
  <2> DEFINE new == Access!Idle
  <2>11. new = Access!Idle /\ call' = [call EXCEPT ![s] = new]  BY <2>4
  <2> HIDE DEF new
  <2> QED  BY <1>1, <2>4, <2>6, <2>7, <2>8, <2>9, <2>10, <2>11, GoesOn
<1> QED  BY <1>3, <1>4

\* The claim is replaced, if it is still the one that was read: the maps of the
\* other households stand, and this one becomes what the list says.
LEMMA WriteClaimSafe == ASSUME AccessInv, NEW s \in Slot, Access!WriteClaim(s) PROVE AccessInv'
<1>1. /\ AccessTypes /\ call[s] # Access!Idle /\ Head(call[s].todo) = "claim" /\ call[s].copy # None
      /\ member' = member /\ invitation' = invitation /\ raced' = raced
  BY DEF AccessInv, Access!WriteClaim, Access!Doing, Access!Busy
<1>6. PICK k \in Access!Pair, who \in Person, h \in Household :
        k = Access!About(s) /\ who = call[s].who /\ h = call[s].h
  BY <1>1, AboutIs
<1>2. /\ call[s] \in Programs /\ call[s].op \in Access!Operation /\ call[s].todo \in Left(call[s].op)
      /\ call[s].role \in Role \cup {None} /\ k[1] = h /\ k[2] = who
      /\ \A j \in Access!Pair : Works(s, j) <=> (call[s].op # "invite" /\ j = k)
  BY <1>1, <1>6, AboutIs
<1>3. /\ call[s].copy \in Claim
      /\ call[s].copy.epoch = claims[who].epoch => call[s].copy.map = claims[who].map
  BY <1>1, <1>6 DEF AccessInv, CopyOK
<1>4. CASE ~Access!SameEpoch(s)
  <2>1. claims' = claims  BY <1>4 DEF Access!WriteClaim
  <2>2. CASE call[s].tries + 1 < Attempts
    <3> DEFINE new == [call[s] EXCEPT !.copy = None, !.tries = call[s].tries + 1]
    <3>1. call' = [call EXCEPT ![s] = new] /\ cutShort' = cutShort
      BY <1>1, <1>4, <2>2 DEF Access!WriteClaim, AccessTypes
    <3>2. call[s].tries + 1 \in Nat  BY <1>2 DEF Programs
    <3>3. /\ new \in Programs /\ new.op = call[s].op /\ new.h = call[s].h /\ new.who = call[s].who
          /\ new.role = call[s].role /\ new.todo = call[s].todo /\ new.copy = None
      BY <1>2, <3>2 DEF Programs
    <3> HIDE DEF new
    <3> QED  BY <1>1, <2>1, <3>1, <3>3, SameStage
  <2>3. CASE ~(call[s].tries + 1 < Attempts)
    <3>1. Access!Fail(s)  BY <1>4, <2>3 DEF Access!WriteClaim
    <3> QED  BY <1>1, <2>1, <3>1, FailSafe
  <2> QED  BY <2>2, <2>3
<1>5. CASE Access!SameEpoch(s)
  <2> DEFINE claim1 == [map |-> [call[s].copy.map EXCEPT ![h] = call[s].role],
                        epoch |-> claims[who].epoch + 1]
  <2>1. claims' = [claims EXCEPT ![who] = claim1] /\ Access!Wrote(s)
    BY <1>5, <1>6 DEF Access!WriteClaim
  <2>2. /\ claims[who] \in Claim /\ claims[who].epoch \in Nat
        /\ claims[who].map \in [Household -> Role \cup {None}]
    BY <1>1, <1>2 DEF AccessTypes, Claim
  <2>3. call[s].copy.map = claims[who].map  BY <1>3, <1>5, <1>6 DEF Access!SameEpoch
  <2>4. /\ claim1 \in Claim /\ claim1.epoch = claims[who].epoch + 1 /\ claim1.map[h] = call[s].role
        /\ \A g \in Household : g # h => claim1.map[g] = claims[who].map[g]
    <3> DEFINE map1 == [claims[who].map EXCEPT ![h] = call[s].role]
    <3>1. /\ map1 \in [Household -> Role \cup {None}] /\ map1[h] = call[s].role
          /\ \A g \in Household : g # h => map1[g] = claims[who].map[g]
      BY <1>2, <2>2
    <3>2. claim1 = [map |-> map1, epoch |-> claims[who].epoch + 1]  BY <2>3
    <3> HIDE DEF map1, claim1
    <3> QED  BY <2>2, <3>1, <3>2 DEF Claim
  <2> HIDE DEF claim1
  <2>5. \/ call[s].op = "remove" /\ Len(call[s].todo) # 1 /\ Tail(call[s].todo) = <<"member">>
           /\ Tail(call[s].todo) \in Left(call[s].op)
           /\ <<"member">> \notin {Access!Writes(call[s].op), <<"mark">>}
        \/ call[s].op = "accept" /\ Len(call[s].todo) # 1 /\ Tail(call[s].todo) = <<"mark">>
           /\ Tail(call[s].todo) \in Left(call[s].op)
        \/ call[s].op \notin {"remove", "invite", "accept"} /\ Len(call[s].todo) = 1
    BY <1>1, <1>2, ProgramIs
  <2>6. /\ cutShort' = cutShort
        /\ call' = [call EXCEPT ![s] = IF Len(call[s].todo) = 1 THEN Access!Idle
                                       ELSE [call[s] EXCEPT !.todo = Tail(@), !.copy = None]]
    BY <2>1 DEF Access!Wrote
  <2>7. PICK new \in Programs \cup {Access!Idle} :
           /\ call' = [call EXCEPT ![s] = new] /\ call'[s] = new
           /\ \A t \in Slot : t # s => call'[t] = call[t]
           /\ call' \in [Slot -> Programs \cup {Access!Idle}]
           /\ \A t \in Slot : call'[t] # Access!Idle =>
                 call'[t].todo \in Left(call'[t].op) /\ (call'[t].op = "remove" => call'[t].role = None)
           /\ Len(call[s].todo) = 1 => new = Access!Idle
           /\ Len(call[s].todo) # 1 =>
                 /\ new # Access!Idle /\ new.op = call[s].op /\ new.h = call[s].h /\ new.who = call[s].who
                 /\ new.role = call[s].role /\ new.todo = Tail(call[s].todo) /\ new.copy = None
           /\ CopyOK(s)'
    BY <1>1, <2>5, <2>6, WroteIs
  <2>8. /\ claims'[who] = claim1 /\ \A p \in Person : p # who => claims'[p] = claims[p]
        /\ claims' \in [Person -> Claim]
    BY <1>1, <1>2, <2>1, <2>4 DEF AccessTypes
  <2>9. AccessTypes'  BY <1>1, <2>7, <2>8 DEF AccessTypes
  <2>10. \A p \in Person : claims[p].epoch <= claims'[p].epoch
                           /\ (claims[p].epoch = claims'[p].epoch => claims'[p] = claims[p])
    <3>1. \A p \in Person : claims[p].epoch \in Nat  BY <1>1 DEF AccessTypes, Claim
    <3> QED  BY <2>2, <2>4, <2>8, <3>1
  <2>11. Has(k)' = call[s].role  BY <1>2, <2>4, <2>8 DEF Has
  <2>12. ASSUME NEW j \in Access!Pair, j # k PROVE Has(j)' = Has(j)
    <3>1. j[1] \in Household /\ j[2] \in Person /\ (j[1] # h \/ j[2] # who)
      <4>1. j = <<j[1], j[2]>> /\ k = <<k[1], k[2]>> /\ j[1] \in Household /\ j[2] \in Person
        BY <1>2 DEF Access!Pair
      <4> QED  BY <1>2, <2>12, <4>1
    <3> QED  BY <2>4, <2>8, <3>1 DEF Has
  <2>13. \A j \in Access!Pair : ~Works(s, j) => Has(j)' = Has(j) /\ member'[j] = member[j]
    BY <1>1, <1>2, <2>5, <2>12
  <2>14. ASSUME NEW j \in Access!Pair, Works(s, j) PROVE PairOK(j)' /\ StageOK(s, j)'
    <3>1. j = k  BY <1>2, <2>14
    <3>2. PairOK(j) /\ StageOK(s, j)  BY DEF AccessInv
    <3>3. Active(j)' <=> Active(j)  BY <1>1 DEF Active
    <3>4. \A t \in Slot : t # s => (Works(t, j)' <=> Works(t, j))  BY <2>7 DEF Works
    <3>5. j \notin raced => \A t \in Slot : Works(t, j)' => t = s  BY <2>14, <3>2, <3>4 DEF StageOK
    <3>6. CASE call[s].op = "remove"
      <4>1. /\ call'[s] # Access!Idle /\ call'[s].op = call[s].op /\ call'[s].h = call[s].h
            /\ call'[s].who = call[s].who /\ call'[s].todo = <<"member">>
        BY <2>5, <2>7, <3>6
      <4>2. Works(s, j)'  BY <2>14, <4>1 DEF Works
      <4>3. Has(j)' = None  BY <1>1, <2>11, <3>1, <3>6 DEF AccessTypes
      <4>4. PairOK(j)'  BY <4>2, <4>3 DEF PairOK
      <4>5. <<"member">> \notin {Access!Writes(call'[s].op), <<"mark">>}  BY <2>5, <3>6, <4>1
      <4>6. StageOK(s, j)'  BY <1>1, <3>5, <3>6, <4>1, <4>3, <4>5 DEF StageOK
      <4> QED  BY <4>4, <4>6
    <3>7. CASE call[s].op # "remove"
      <4>1. j \notin raced => Active(j) /\ member[j].role = call[s].role
        BY <1>1, <2>14, <3>2, <3>7 DEF StageOK
      <4>2. j \notin raced => Active(j)' /\ Agrees(j)'
        BY <1>1, <2>11, <3>1, <3>3, <4>1 DEF Agrees
      <4>3. PairOK(j)'  BY <1>1, <4>2 DEF PairOK
      <4>4. CASE call[s].op = "accept"
        <5>1. call'[s].todo = <<"mark">>  BY <2>5, <2>7, <4>4
        <5>2. Head(<<"mark">>) # "claim" /\ <<"mark">> # <<"member">>  OBVIOUS
        <5> QED  BY <1>1, <3>5, <4>2, <4>3, <5>1, <5>2 DEF StageOK
      <4>5. CASE call[s].op # "accept"
        <5>1. call'[s] = Access!Idle  BY <2>5, <2>7, <3>7, <4>5
        <5> QED  BY <4>3, <5>1 DEF StageOK, Works
      <4> QED  BY <4>4, <4>5
    <3> QED  BY <3>6, <3>7
  <2> QED  BY <1>1, <2>5, <2>6, <2>7, <2>9, <2>10, <2>13, <2>14, GoesOn
<1> QED  BY <1>4, <1>5

\* A call begins: it has written nothing yet, and its pair counts as raced
\* when another call is at work on it.
LEMMA StartSafe ==
    ASSUME AccessInv, NEW s \in Slot, call[s] = Access!Idle,
           NEW op \in Access!Operation, NEW h \in Household, NEW who \in Person,
           NEW role \in Role \cup {None}, op = "remove" => role = None,
           Access!Start(s, Access!Program(op, h, who, role))
    PROVE  AccessInv'
<1> DEFINE new == Access!Program(op, h, who, role)
<1>1. AccessTypes  BY DEF AccessInv
<1>2. /\ Access!Writes(op) \in Left(op) /\ Access!Writes(op) # <<"member">>
      /\ Head(Access!Writes(op)) = "claim" => op = "remove"
  <2>1. PICK todo \in Left(op) : TRUE  BY DEF Access!Operation, Left
  <2> QED  BY <2>1, ProgramIs
<1>3. /\ new.op = op /\ new.h = h /\ new.who = who /\ new.role = role /\ new.copy = None
      /\ new.todo = Access!Writes(op) /\ new \in Programs
  <2>1. Left(op) \in {Left(o) : o \in Access!Operation}  OBVIOUS
  <2>2. Access!Writes(op) \in UNION {Left(o) : o \in Access!Operation}  BY <1>2, <2>1
  <2> QED  BY <2>2 DEF Access!Program, Programs
<1>4. /\ call' = [call EXCEPT ![s] = new] /\ claims' = claims /\ member' = member
      /\ invitation' = invitation /\ cutShort' = cutShort
      /\ raced' = raced \cup (IF new.op # "invite" /\ \E t \in Slot \ {s} :
                                    Access!Busy(t) /\ call[t].op # "invite"
                                    /\ Access!About(t) = <<new.h, new.who>>
                              THEN {<<new.h, new.who>>} ELSE {})
  BY DEF Access!Start
<1> HIDE DEF new
<1>5. \A t \in Slot : call'[t] = IF t = s THEN new ELSE call[t]  BY <1>1, <1>4 DEF AccessTypes
<1>6. AccessTypes'
  <2>1. call' \in [Slot -> Programs \cup {Access!Idle}]  BY <1>1, <1>3, <1>4 DEF AccessTypes
  <2>2. \A t \in Slot : call'[t] # Access!Idle =>
          call'[t].todo \in Left(call'[t].op) /\ (call'[t].op = "remove" => call'[t].role = None)
    BY <1>1, <1>2, <1>3, <1>5 DEF AccessTypes
  <2> QED  BY <1>1, <1>4, <2>1, <2>2 DEF AccessTypes
<1>7. ASSUME NEW t \in Slot PROVE CopyOK(t)'
  <2>1. CASE t = s  BY <1>3, <1>5, <2>1 DEF CopyOK
  <2>2. CASE t # s  BY <1>4, <1>5, <2>2 DEF AccessInv, CopyOK
  <2> QED  BY <2>1, <2>2
<1>8. ASSUME NEW k \in Access!Pair PROVE PairOK(k)' /\ \A t \in Slot : StageOK(t, k)'
  <2>1. PairOK(k) /\ \A t \in Slot : StageOK(t, k)  BY DEF AccessInv
  <2>2. /\ Has(k)' = Has(k) /\ (Active(k)' <=> Active(k)) /\ (Agrees(k)' <=> Agrees(k))
        /\ member'[k] = member[k]
    BY <1>4 DEF Has, Active, Agrees
  <2>3. \A t \in Slot : t # s => call'[t] = call[t] /\ (Works(t, k)' <=> Works(t, k))
    BY <1>5 DEF Works
  <2>4. ~Works(s, k)  BY DEF Works
  <2>5. k \notin raced' => k \notin raced  BY <1>4
  <2>6. (\A t \in Slot : ~Works(t, k)') => \A t \in Slot : ~Works(t, k)  BY <2>3, <2>4
  <2>7. PairOK(k)'  BY <1>4, <2>1, <2>2, <2>5, <2>6 DEF PairOK
  <2>8. ASSUME Works(s, k)', k \notin raced' PROVE \A t \in Slot \ {s} : ~Works(t, k)'
    <3>1. call'[s] = new  BY <1>5
    <3>2. new.op # "invite" /\ k = <<new.h, new.who>>
      <4>1. k = <<k[1], k[2]>>  BY DEF Access!Pair
      <4> QED  BY <2>8, <3>1, <4>1 DEF Works
    <3>3. ~\E t \in Slot \ {s} : Access!Busy(t) /\ call[t].op # "invite" /\ Access!About(t) = <<new.h, new.who>>
      BY <1>4, <2>8, <3>2
    <3>4. ASSUME NEW t \in Slot \ {s}, Works(t, k) PROVE FALSE
      <4>1. call[t] # Access!Idle /\ call[t].op # "invite"  BY <3>4 DEF Works
      <4>2. Access!About(t) = k  BY <1>1, <3>4, <4>1, AboutIs
      <4> QED  BY <3>2, <3>3, <4>1, <4>2 DEF Access!Busy
    <3> QED  BY <2>3, <3>4
  <2>9. ASSUME NEW t \in Slot PROVE StageOK(t, k)'
    <3>1. CASE t = s
      <4> SUFFICES ASSUME k \notin raced', Works(s, k)' PROVE StageOK(s, k)'  BY <3>1 DEF StageOK
      <4>1. call'[s] = new  BY <1>5
      <4>2. \A u \in Slot : Works(u, k)' => u = s  BY <2>8
      <4>3. \A u \in Slot : ~Works(u, k)  BY <2>3, <2>4, <2>8
      <4>4. k \notin cutShort => Agrees(k)'  BY <2>1, <2>2, <2>5, <4>3 DEF PairOK
      <4> QED  BY <1>2, <1>3, <1>4, <4>1, <4>2, <4>4 DEF StageOK
    <3>2. CASE t # s
      <4> SUFFICES ASSUME k \notin raced', Works(t, k)' PROVE StageOK(t, k)'  BY DEF StageOK
      <4>1. ~Works(s, k)'  BY <2>8, <3>2
      <4>2. \A u \in Slot : Works(u, k)' => Works(u, k)  BY <2>3, <4>1
      <4>3. Works(t, k) /\ call'[t] = call[t]  BY <2>3, <3>2
      <4> QED  BY <1>4, <2>1, <2>2, <2>5, <4>2, <4>3 DEF StageOK
    <3> QED  BY <3>1, <3>2
  <2> QED  BY <2>7, <2>9
<1> QED  BY <1>6, <1>7, <1>8 DEF AccessInv

\* The five calls and their checks.
LEMMA BeginSafe == ASSUME AccessInv, NEW s \in Slot, Access!Begin(s) PROVE AccessInv'
<1>1. AccessTypes /\ call[s] = Access!Idle  BY DEF AccessInv, Access!Begin, Access!Busy
<1>2. PICK h \in Household, who \in Person :
        \/ Access!Create(s, who, h) \/ Access!Accept(s, h, who)
        \/ \E by \in Person : Access!Remove(s, by, h, who)
              \/ \E role \in Role : Access!Invite(s, by, h, who, role) \/ Access!SetRole(s, by, h, who, role)
  BY DEF Access!Begin
<1>3. {"create", "invite", "accept", "role", "remove"} = Access!Operation  BY DEF Access!Operation
<1>4. CASE Access!Create(s, who, h)
  <2>1. Access!Start(s, Access!Program("create", h, who, "owner")) /\ "owner" \in Role
    BY <1>4, AccessAssumption DEF Access!Create
  <2> QED  BY <1>1, <1>3, <2>1, StartSafe
<1>5. CASE Access!Accept(s, h, who)
  <2>1. PICK role \in Role \cup {None} : role = invitation[<<h, who>>].role
    <3>1. <<h, who>> \in Access!Pair  BY DEF Access!Pair
    <3> QED  BY <1>1, <3>1 DEF AccessTypes, Asked
  <2>2. Access!Start(s, Access!Program("accept", h, who, role))  BY <1>5, <2>1 DEF Access!Accept
  <2> QED  BY <1>1, <1>3, <2>2, StartSafe
<1>6. ASSUME NEW by \in Person, Access!Remove(s, by, h, who) PROVE AccessInv'
  <2>1. PICK role \in Role \cup {None} : role = None  OBVIOUS
  <2>2. Access!Start(s, Access!Program("remove", h, who, role))  BY <1>6, <2>1 DEF Access!Remove
  <2> QED  BY <1>1, <1>3, <2>1, <2>2, StartSafe
<1>7. ASSUME NEW by \in Person, NEW role \in Role, Access!Invite(s, by, h, who, role) PROVE AccessInv'
  <2>1. Access!Start(s, Access!Program("invite", h, who, role))  BY <1>7 DEF Access!Invite
  <2> QED  BY <1>1, <1>3, <2>1, StartSafe
<1>8. ASSUME NEW by \in Person, NEW role \in Role, Access!SetRole(s, by, h, who, role) PROVE AccessInv'
  <2>1. Access!Start(s, Access!Program("role", h, who, role))  BY <1>8 DEF Access!SetRole
  <2> QED  BY <1>1, <1>3, <2>1, StartSafe
<1> QED  BY <1>2, <1>4, <1>5, <1>6, <1>7, <1>8

-----------------------------------------------------------------------------
(* Membership: the theorem *)

\* Founders have what the list says, and nobody else has or is listed.
LEMMA AccessInitEstablishes == Access!Init => AccessInv
<1> SUFFICES ASSUME Access!Init PROVE AccessInv  OBVIOUS
<1>1. /\ "owner" \in Role /\ "editor" \in Role /\ None # "active"  BY AccessAssumption
<1>2. /\ \A p \in Person : /\ claims[p].epoch = 0 /\ claims[p] \in Claim
                           /\ \A h \in Household : claims[p].map[h] = IF Founder[h] = p THEN "owner" ELSE None
      /\ claims \in [Person -> Claim]
  BY <1>1 DEF Access!Init, Claim
<1>3. \A k \in Access!Pair : k[1] \in Household /\ k[2] \in Person  BY DEF Access!Pair
<1>4. /\ member \in [Access!Pair -> Listed]
      /\ \A k \in Access!Pair :
            /\ Founder[k[1]] = k[2] => member[k].status = "active" /\ member[k].role = "owner"
            /\ Founder[k[1]] # k[2] => member[k].status = None
  BY <1>1 DEF Access!Init, Access!NoDocument, Listed
<1>5. invitation \in [Access!Pair -> Asked]  BY <1>1 DEF Access!Init, Access!NoDocument, Asked
<1>6. /\ call \in [Slot -> Programs \cup {Access!Idle}] /\ \A s \in Slot : call[s] = Access!Idle
  BY DEF Access!Init
<1>7. AccessTypes  BY <1>2, <1>4, <1>5, <1>6 DEF AccessTypes
<1>8. \A s \in Slot : CopyOK(s)  BY <1>6 DEF CopyOK
<1>9. ASSUME NEW k \in Access!Pair PROVE PairOK(k) /\ \A s \in Slot : StageOK(s, k)
  <2>1. Has(k) = IF Founder[k[1]] = k[2] THEN "owner" ELSE None  BY <1>2, <1>3 DEF Has
  <2>2. (Has(k) # None => Active(k)) /\ Agrees(k)  BY <1>1, <1>4, <2>1 DEF Active, Agrees
  <2>3. \A s \in Slot : ~Works(s, k)  BY <1>6 DEF Works
  <2> QED  BY <2>2, <2>3 DEF PairOK, StageOK
<1> QED  BY <1>7, <1>8, <1>9 DEF AccessInv

\* Every step of a call keeps the invariant.
LEMMA AccessNextSafe == AccessInv /\ (Access!Next \/ UNCHANGED accessVars) => AccessInv'
<1>1. ASSUME AccessInv, Access!Next PROVE AccessInv'
  <2>1. PICK s \in Slot :
          \/ Access!Begin(s) \/ Access!ReadMember(s) \/ Access!WriteMember(s)
          \/ Access!ReadInvitation(s) \/ Access!WriteInvitation(s)
          \/ Access!ReadClaim(s) \/ Access!WriteClaim(s) \/ Access!Stop(s)
    BY <1>1 DEF Access!Next
  <2>2. CASE Access!Stop(s)
    <3>1. /\ call[s] # Access!Idle /\ Access!Fail(s) /\ claims' = claims /\ member' = member
          /\ invitation' = invitation /\ raced' = raced
      BY <2>2 DEF Access!Stop, Access!Busy
    <3> QED  BY <1>1, <3>1, FailSafe
  <2> QED  BY <1>1, <2>1, <2>2, BeginSafe, ReadSafe, WriteMemberSafe, WriteInvitationSafe, WriteClaimSafe
<1>2. ASSUME AccessInv, UNCHANGED accessVars PROVE AccessInv'
  BY <1>2 DEF accessVars, AccessInv, AccessTypes, CopyOK, StageOK, PairOK, Works, Agrees, Active, Has
<1> QED  BY <1>1, <1>2

\* The household's steps are the calls' steps, or leave them alone.
LEMMA AccessPart ==
    /\ HouseholdInit => Access!Init
    /\ [HouseholdNext]_steps => Access!Next \/ UNCHANGED accessVars
BY DEF HouseholdInit, HouseholdNext, Done, steps, accessVars

\* Nobody has access to a household who is not on its list, between the writes
\* of any call and after any calls that stopped halfway; and who is not in the
\* middle of a call, and has had none that gave up, has the access that the
\* list says -- for any people, households and number of calls at the same
\* time (changeHousehold and the handlers of functions/households/index.ts).
THEOREM AccessIsAlwaysListed == HouseholdSpec => []AccessIsListed
<1>1. AccessInv => AccessIsListed
  <2> SUFFICES ASSUME AccessInv, NEW h \in Household, NEW p \in Person, <<h, p>> \notin raced
               PROVE  LET access == claims[p].map[h]
                          listed == member[<<h, p>>]
                      IN  /\ access # None => listed.status = "active"
                          /\ <<h, p>> \notin cutShort
                             /\ (\A s \in Slot : Access!Busy(s) => Access!About(s) # <<h, p>>) =>
                               access = IF listed.status = "active" THEN listed.role ELSE None
    BY DEF AccessIsListed, Access!AccessIsListed
  <2> DEFINE k == <<h, p>>
  <2>1. k \in Access!Pair /\ k[1] = h /\ k[2] = p  BY DEF Access!Pair
  <2>2. PairOK(k)  BY <2>1 DEF AccessInv
  <2>3. (\A s \in Slot : Access!Busy(s) => Access!About(s) # k) => \A s \in Slot : ~Works(s, k)
    BY <2>1 DEF Access!Busy, Access!About, Works
  <2> QED  BY <2>1, <2>2, <2>3 DEF PairOK, Has, Active, Agrees
<1> QED  BY <1>1, AccessInitEstablishes, AccessNextSafe, AccessPart, PTL DEF HouseholdSpec, steps

-----------------------------------------------------------------------------
(* HouseholdWrites: the inductive invariant *)

Makers == {"create", "import", "markRecurring"}
Renamers == {"deleteCategory", "mergeMerchants"}
Erasers == {"delete", "deleteGroup"} \cup Renamers

\* What a patch may say of a document of this kind.
Fields(kind) ==
    CASE kind = "transaction" -> {"amount", "splits", "category", "merchant", "batch", "recurrence"}
      [] kind = "rule" -> {"setCategory", "setMerchant", "matchMerchant", "matchCategory"}
      [] kind = "recurrence" -> {"merchant", "usualCategory"}
      [] kind = "category" -> {"parent", "categoryKind"}
      [] kind = "group" -> {"categoryKind"}
      [] OTHER -> {}
Values(f) ==
    CASE f = "amount" -> Int
      [] f = "splits" -> Seq(Browser!Share)
      [] f \in {"category", "setCategory", "matchCategory", "usualCategory"} -> Browser!Ref("category")
      [] f \in {"merchant", "setMerchant", "matchMerchant"} -> Browser!Ref("merchant")
      [] f = "parent" -> Browser!Ref("group")
      [] f = "categoryKind" -> Browser!CategoryKind
      [] OTHER -> Browser!Ref(f)
PatchOK(kind, patch) ==
    DOMAIN patch \subseteq Fields(kind) /\ \A f \in DOMAIN patch : patch[f] \in Values(f)

\* What a call was given to write down, and what one of its writes names.
RowNames(rows) == UNION {Browser!Named(r[2]) : r \in rows}
ArgNames(k) ==
    CASE k.op = "update" -> Browser!Named(k.arg.patch)
      [] k.op = "create" -> Browser!Named(k.arg)
      [] k.op = "import" -> RowNames(k.arg)
      [] k.op = "markRecurring" -> {k.arg.merchant} \ {None}
      [] k.op = "setBudget" -> {k.id} \cap Browser!Ids("category")
      [] k.op = "updateCategory" -> Browser!Named(k.arg)
      [] k.op \in Renamers -> {k.arg} \ {None}
      [] OTHER -> {}
WriteNames(w) ==
    CASE w.do = "set" -> Browser!Named(w.set)
      [] w.do = "insert" -> Browser!Named(w.new)
      [] w.do = "book" -> {w.budget[1]} \cap Browser!Ids("category")
      [] OTHER -> {}

\* What the call may name at all; a name it holds is there, or contested.
MayHold(k, n) ==
    CASE k.op \in {"delete", "deleteBudget", "deleteGroup", "updateGroup"} -> FALSE
      [] k.op = "deleteCategory" -> Browser!KindOf[n] = "category"
      [] k.op = "mergeMerchants" -> n = k.arg
      [] OTHER -> Browser!KindOf[n] \notin {"transaction", "rule"}
Held(k, n) == n \in DOMAIN Documents /\ MayHold(k, n) /\ (n \in contested \/ Browser!Live(n))

\* What a call was given is of the form its operation takes.
Given(k) ==
    /\ k = [op |-> k.op, id |-> k.id, arg |-> k.arg, phase |-> k.phase, todo |-> k.todo]
    /\ k.op \in DOMAIN Browser!Steps /\ k.phase \in 1..(Len(Browser!Steps[k.op]) + 1)
    /\ k.op = "update" => k.arg.patch \in Patches /\ k.arg = [ids |-> k.arg.ids, patch |-> k.arg.patch]
                          /\ k.arg.ids \subseteq Browser!Ids("transaction")
    /\ k.op = "create" => k.id \in DOMAIN Drafts /\ k.arg \in Drafts[k.id]
    /\ k.op = "import" => /\ k.id \in DOMAIN Drafts /\ Browser!KindOf[k.id] = "batch"
                          /\ k.arg \subseteq Browser!Rows
                          /\ \A x, y \in k.arg : x[1] = y[1] => x = y
    /\ k.op = "markRecurring" => /\ k.id \in DOMAIN Drafts /\ Browser!KindOf[k.id] = "recurrence"
                                 /\ k.arg.tx \in Browser!Ids("transaction")
                                 /\ k.arg.merchant \in Browser!Ref("merchant")
                                 /\ k.arg.category \in Browser!Ref("category")
    /\ k.op = "delete" => k.id \in Browser!Ids("transaction") \cup Browser!Ids("rule")
    /\ k.op = "setBudget" => k.id \in Browser!Ids("category") \cup Browser!Ids("group")
    /\ k.op = "updateCategory" => k.id \in Browser!Ids("category") /\ PatchOK("category", k.arg)
    /\ k.op = "updateGroup" => k.id \in Browser!Ids("group") /\ k.arg \in Browser!CategoryKind
    /\ k.op = "deleteGroup" => k.id \in Browser!Ids("group")
    /\ k.op = "deleteCategory" => k.id \in Browser!Ids("category") /\ k.arg \in Browser!Ref("category") \ {k.id}
    /\ k.op = "mergeMerchants" => k.id \in Browser!Ids("merchant") /\ k.arg \in Browser!Ids("merchant") \ {k.id}

\* A category suits its group, unless either is contested.
Suits(c, d) == {c, d.parent} \cap contested = {} => Browser!GroupFits(d)
SameAmounts(a, b) == DOMAIN a = DOMAIN b /\ \A i \in DOMAIN a : a[i].amount = b[i].amount

\* A write that is still to be made.
SetOK(k, w) ==
    /\ w.id \in DOMAIN Documents /\ doc[w.id] # None
    /\ PatchOK(Browser!KindOf[w.id], w.set)
    /\ "amount" \in DOMAIN w.set => "splits" \in DOMAIN w.set /\ Browser!SplitsFit(w.set)
    /\ "splits" \in DOMAIN w.set /\ "amount" \notin DOMAIN w.set =>
          w.seen # None /\ SameAmounts(w.set.splits, w.seen.splits)
    /\ k.op \in Renamers => k.id \notin Browser!Named(w.set)
    /\ Browser!KindOf[w.id] = "category" =>
          /\ k.op = "updateCategory" /\ w.id = k.id
          /\ Browser!Live(w.id) => Suits(w.id, Browser!Patched(doc[w.id], w.set))
    /\ Browser!KindOf[w.id] = "group" =>
          /\ k.op = "updateGroup" /\ w.id = k.id /\ w.set = [categoryKind |-> k.arg]
          /\ k.id \notin contested /\ Browser!Live(k.id) =>
                doc[k.id].categoryKind = k.arg \/ Browser!Members(k.id) = {}
InsertOK(k, w) ==
    /\ k.op \in Makers /\ w.id \in Browser!Taken(k) /\ w.id \in DOMAIN Drafts /\ doc[w.id] = None
    /\ Browser!KindOf[w.id] \in Browser!Kinds /\ w.new \in Browser!Document(Browser!KindOf[w.id])
    /\ Browser!KindOf[w.id] = "transaction" => Browser!SplitsFit(w.new)
    /\ Browser!KindOf[w.id] = "category" => Suits(w.id, w.new)
EraseOK(k, w) ==
    /\ k.op \in Erasers /\ w.id = k.id /\ doc[k.id] # None
    /\ k.op # "delete" => k.phase = Len(Browser!Steps[k.op]) + 1
WriteOK(k, w) ==
    /\ w.do \in {"set", "insert", "erase", "book", "unbook"}
    /\ w.do = "set" => w = [do |-> "set", id |-> w.id, set |-> w.set, seen |-> w.seen] /\ SetOK(k, w)
    /\ w.do = "insert" => w = [do |-> "insert", id |-> w.id, new |-> w.new] /\ InsertOK(k, w)
    /\ w.do = "erase" => w = [do |-> "erase", id |-> w.id] /\ EraseOK(k, w)
    /\ w.do = "book" => w = [do |-> "book", budget |-> w.budget] /\ k.op \in {"setBudget", "copyBudgets"}
                         /\ w.budget[1] \in Browser!Ids("category") \cup Browser!Ids("group")
    /\ w.do = "unbook" => w = [do |-> "unbook", budget |-> w.budget]
    /\ \A n \in WriteNames(w) : Held(k, n)

\* The writes of a call do not get in each other's way.
TodoOK(k) ==
    /\ k.op \in Makers /\ k.phase = 1 => k.todo = {}
    /\ k.op = "import" /\ k.phase = 2 => \A w \in k.todo : w.do = "insert" /\ w.id = k.id
    /\ \A v, w \in k.todo :
          (\/ k.op \in {"updateCategory", "updateGroup"}
           \/ w.do = "erase"
           \/ v.do = "insert" /\ w.do = "insert" /\ v.id = w.id) => v = w

\* New documents are not there yet; what later ones name is written first.
Inserts(k, id) == \E w \in k.todo : w.do = "insert" /\ w.id = id
FreshOK(k) ==
    /\ k.op \in Makers /\ k.phase = 1 => \A id \in Browser!Taken(k) : doc[id] = None
    /\ k.op = "import" /\ k.phase = 2 => \A r \in k.arg : doc[r[1]] = None
    /\ k.op \in {"import", "markRecurring"} /\ k.phase >= 2 =>
          Browser!Live(k.id) \/ (k.phase = 2 /\ Inserts(k, k.id))

\* The kinds of documents that no longer name the entry a call removes, or
\* that it is about to rewrite.
Cleared(k) ==
    {kind \in Browser!Kinds :
        \/ k.op \in Renamers /\ kind = "transaction" /\ k.phase >= 3
        \/ k.op = "deleteCategory" /\ kind = "rule" /\ k.phase >= 4
        \/ k.op = "mergeMerchants" /\ kind = "recurrence" /\ k.phase >= 4
        \/ k.op = "mergeMerchants" /\ kind = "rule" /\ k.phase >= 5
        \/ k.op = "deleteGroup" /\ kind = "category" /\ k.phase >= 2}
Rewrites(k, x, fields) == \E w \in k.todo : w.do = "set" /\ w.id = x /\ fields \subseteq DOMAIN w.set
CoverOK(k) == k.id \notin contested =>
    /\ \A kind \in Cleared(k) : \A x \in Browser!Of(kind) :
          LET fields == Browser!Where(doc[x], k.id) IN fields = {} \/ Rewrites(k, x, fields)
    /\ k.op = "deleteCategory" /\ k.phase >= 5 =>
          \A b \in budget : b[1] = k.id => Browser!Unbook(b) \in k.todo

CallOK(k) ==
    /\ Given(k)
    /\ \A n \in ArgNames(k) : Held(k, n)
    /\ \A n \in Browser!Reshaped(k) : doc[n] # None
    /\ \A w \in k.todo : WriteOK(k, w)
    /\ TodoOK(k) /\ FreshOK(k) /\ CoverOK(k)

\* Two calls that overlap: what one reshapes the other does not hold, unless
\* it is contested; neither takes the other's ids.
ApartOK(k, x) ==
    /\ \A n \in Browser!Reshaped(k) : Browser!Live(n) /\ MayHold(x, n) => n \in contested
    /\ k.op \in Makers /\ x.op \in Makers => Browser!Taken(k) \cap Browser!Taken(x) = {}

StoredOK ==
    /\ doc = [id \in DOMAIN Documents |-> doc[id]]
    /\ \A id \in DOMAIN Documents : Browser!Live(id) =>
          Browser!KindOf[id] \in Browser!Kinds /\ doc[id] \in Browser!Document(Browser!KindOf[id])
    /\ \A b \in budget : b[1] \in Browser!Ids("category") \cup Browser!Ids("group")
    /\ Browser!ReferencesResolve /\ Browser!SplitsAddUp
    /\ writing = [s \in Slot |-> writing[s]]

WritesInv ==
    /\ StoredOK
    /\ \A s \in Slot : Browser!Busy(s) => CallOK(writing[s])
    /\ \A s, u \in Slot : s # u /\ Browser!Busy(s) /\ Browser!Busy(u) => ApartOK(writing[s], writing[u])

-----------------------------------------------------------------------------
(* HouseholdWrites: documents and names *)

\* What a field of this name may point at.
Target(f) == CASE f \in {"splits", "category", "setCategory"} -> "category"
               [] f \in {"merchant", "setMerchant", "matchMerchant"} -> "merchant"
               [] f = "parent" -> "group"
               [] OTHER -> f

\* A document that is not written or is deleted is told from the others, and
\* no id is the missing one.
LEMMA NoDocument ==
    /\ None \notin DOMAIN Documents /\ None # Gone
    /\ \A kind \in Browser!Kinds : None \notin Browser!Document(kind) /\ Gone \notin Browser!Document(kind)
  BY WritesAssumption DEF Browser!InUse

\* A document of a kind has the fields of that kind, each with its values.
LEMMA FieldsOf ==
    ASSUME NEW kind \in Browser!Kinds, NEW d \in Browser!Document(kind)
    PROVE  /\ d.kind = kind /\ DOMAIN d = {"kind"} \cup Fields(kind)
           /\ \A f \in Fields(kind) : d[f] \in Values(f)
<1>1. CASE kind = "transaction"  BY <1>1 DEF Browser!Document, Fields, Values
<1>2. CASE kind = "rule"  BY <1>2 DEF Browser!Document, Fields, Values
<1>3. CASE kind = "recurrence"  BY <1>3 DEF Browser!Document, Fields, Values
<1>4. CASE kind = "category"  BY <1>4 DEF Browser!Document, Fields, Values
<1>5. CASE kind = "group"  BY <1>5 DEF Browser!Document, Fields, Values
<1>6. CASE kind \in {"merchant", "batch"}  BY <1>6 DEF Browser!Document, Fields, Values
<1> QED  BY <1>1, <1>2, <1>3, <1>4, <1>5, <1>6 DEF Browser!Kinds

\* A patch takes a document to one of the same kind.
LEMMA PatchedIs ==
    ASSUME NEW kind \in Browser!Kinds, NEW d \in Browser!Document(kind), NEW p, PatchOK(kind, p)
    PROVE  /\ Browser!Patched(d, p) \in Browser!Document(kind)
           /\ DOMAIN Browser!Patched(d, p) = DOMAIN d
           /\ \A f \in DOMAIN d : Browser!Patched(d, p)[f] = IF f \in DOMAIN p THEN p[f] ELSE d[f]
<1> PICK e : e = Browser!Patched(d, p)  OBVIOUS
<1>1. DOMAIN d = {"kind"} \cup Fields(kind) /\ d.kind = kind
      /\ \A f \in Fields(kind) : d[f] \in Values(f)
  BY FieldsOf
<1>2. /\ e = [f \in DOMAIN d |-> IF f \in DOMAIN p THEN p[f] ELSE d[f]] /\ "kind" \notin DOMAIN p
  <2>1. "kind" \notin Fields(kind)  BY DEF Fields
  <2>2. DOMAIN d \cup DOMAIN p = DOMAIN d  BY <1>1 DEF PatchOK
  <2> QED  BY <2>1, <2>2 DEF PatchOK, Browser!Patched
<1>3. /\ DOMAIN e = {"kind"} \cup Fields(kind) /\ e.kind = kind
      /\ \A f \in Fields(kind) : e[f] \in Values(f)
  BY <1>1, <1>2 DEF PatchOK
<1>4. e = [f \in DOMAIN e |-> e[f]]  BY <1>2
<1>5. e \in Browser!Document(kind)
  <2>1. CASE kind = "transaction"
    <3>1. DOMAIN e = {"kind", "amount", "splits", "category", "merchant", "batch", "recurrence"}
      BY <1>3, <2>1 DEF Fields
    <3>2. e = [kind |-> e.kind, amount |-> e.amount, splits |-> e.splits, category |-> e.category,
               merchant |-> e.merchant, batch |-> e.batch, recurrence |-> e.recurrence]
      BY <1>4, <3>1
    <3> QED  BY <1>3, <2>1, <3>2 DEF Browser!Document, Fields, Values
  <2>2. CASE kind = "rule"
    <3>1. DOMAIN e = {"kind", "setCategory", "setMerchant", "matchMerchant", "matchCategory"}
      BY <1>3, <2>2 DEF Fields
    <3>2. e = [kind |-> e.kind, setCategory |-> e.setCategory, setMerchant |-> e.setMerchant,
               matchMerchant |-> e.matchMerchant, matchCategory |-> e.matchCategory]
      BY <1>4, <3>1
    <3> QED  BY <1>3, <2>2, <3>2 DEF Browser!Document, Fields, Values
  <2>3. CASE kind = "recurrence"
    <3>1. e = [kind |-> e.kind, merchant |-> e.merchant, usualCategory |-> e.usualCategory]
      BY <1>3, <1>4, <2>3 DEF Fields
    <3> QED  BY <1>3, <2>3, <3>1 DEF Browser!Document, Fields, Values
  <2>4. CASE kind = "category"
    <3>1. e = [kind |-> e.kind, parent |-> e.parent, categoryKind |-> e.categoryKind]
      BY <1>3, <1>4, <2>4 DEF Fields
    <3> QED  BY <1>3, <2>4, <3>1 DEF Browser!Document, Fields, Values
  <2>5. CASE kind = "group"
    <3>1. e = [kind |-> e.kind, categoryKind |-> e.categoryKind]  BY <1>3, <1>4, <2>5 DEF Fields
    <3> QED  BY <1>3, <2>5, <3>1 DEF Browser!Document, Fields, Values
  <2>6. CASE kind \in {"merchant", "batch"}
    <3>1. e = [kind |-> e.kind]  BY <1>3, <1>4, <2>6 DEF Fields
    <3> QED  BY <1>3, <2>6, <3>1 DEF Browser!Document
  <2> QED  BY <2>1, <2>2, <2>3, <2>4, <2>5, <2>6 DEF Browser!Kinds
<1> QED  BY <1>1, <1>2, <1>5

\* A field names documents of one kind.
LEMMA NamesTarget ==
    ASSUME NEW f \in Browser!Naming, NEW d, d[f] \in Values(f), NEW n \in Browser!Names(d, f), n # None
    PROVE  n \in DOMAIN Documents /\ Browser!KindOf[n] = Target(f)
<1>1. CASE f = "splits"
  <2>1. PICK p \in Browser!ToSet(d.splits) : n = p.category  BY <1>1 DEF Browser!Names
  <2>2. d.splits \in Seq(Browser!Share)  BY <1>1 DEF Values
  <2>3. p \in Browser!Share  BY <2>2 DEF Browser!ToSet
  <2> QED  BY <1>1, <2>1, <2>3 DEF Browser!Share, Browser!Ref, Browser!Ids, Target
<1>2. CASE f # "splits"
  <2>1. n = d[f]  BY <1>2 DEF Browser!Names
  <2> QED  BY <1>2, <2>1 DEF Browser!Naming, Values, Browser!Ref, Browser!Ids, Target
<1> QED  BY <1>1, <1>2

\* What a document names are documents, and none of them is a transaction or a rule.
LEMMA NamedTarget ==
    ASSUME NEW kind \in Browser!Kinds, NEW d, NEW n \in Browser!Named(d),
           d \in Browser!Document(kind) \/ PatchOK(kind, d)
    PROVE  \E f \in Browser!Naming \cap DOMAIN d \cap Fields(kind) :
              /\ n \in Browser!Names(d, f) /\ n \in DOMAIN Documents /\ n # None
              /\ Browser!KindOf[n] = Target(f)
<1>1. PICK f \in Browser!Naming \cap DOMAIN d : n \in Browser!Names(d, f) /\ n # None
  BY DEF Browser!Named
<1>2. "kind" \notin Browser!Naming  BY DEF Browser!Naming
<1>3. f \in Fields(kind) /\ d[f] \in Values(f)
  <2>1. CASE d \in Browser!Document(kind)  BY <1>1, <1>2, <2>1, FieldsOf
  <2>2. CASE PatchOK(kind, d)  BY <2>2 DEF PatchOK
  <2> QED  BY <2>1, <2>2
<1> QED  BY <1>1, <1>3, NamesTarget

\* The kinds of documents that name a category, a merchant or a group.
LEMMA WhoNames ==
    ASSUME NEW kind \in Browser!Kinds, NEW f \in Browser!Naming \cap Fields(kind)
    PROVE  /\ Target(f) \notin {"transaction", "rule"}
           /\ Target(f) = "category" => kind \in {"transaction", "rule"}
           /\ Target(f) = "merchant" => kind \in {"transaction", "recurrence", "rule"}
           /\ Target(f) = "group" => kind = "category"
  BY DEF Browser!Kinds, Browser!Naming, Fields, Target

\* A document names an id just if one of its fields does.
LEMMA NamedWhere ==
    ASSUME NEW d, NEW n, n # None
    PROVE  n \in Browser!Named(d) <=> Browser!Where(d, n) # {}
  BY DEF Browser!Named, Browser!Where

\* The names after a patch are those of the patch, and of the fields it leaves.
LEMMA PatchedNames ==
    ASSUME NEW kind \in Browser!Kinds, NEW d \in Browser!Document(kind), NEW p, PatchOK(kind, p)
    PROVE  /\ \A n : Browser!Where(Browser!Patched(d, p), n) =
                        (Browser!Where(d, n) \ DOMAIN p) \cup Browser!Where(p, n)
           /\ Browser!Named(Browser!Patched(d, p)) \subseteq Browser!Named(d) \cup Browser!Named(p)
<1> PICK e : e = Browser!Patched(d, p)  OBVIOUS
<1>1. /\ DOMAIN e = DOMAIN d /\ DOMAIN p \subseteq DOMAIN d
      /\ \A f \in DOMAIN d : e[f] = IF f \in DOMAIN p THEN p[f] ELSE d[f]
  <2>1. DOMAIN p \subseteq DOMAIN d  BY FieldsOf DEF PatchOK
  <2> QED  BY <2>1, PatchedIs
<1>2. \A f \in DOMAIN d :
         Browser!Names(e, f) = IF f \in DOMAIN p THEN Browser!Names(p, f) ELSE Browser!Names(d, f)
  BY <1>1 DEF Browser!Names
<1>3. \A n : Browser!Where(e, n) = (Browser!Where(d, n) \ DOMAIN p) \cup Browser!Where(p, n)
  BY <1>1, <1>2 DEF Browser!Where
<1>4. Browser!Named(e) \subseteq Browser!Named(d) \cup Browser!Named(p)
  BY <1>1, <1>2 DEF Browser!Named
<1> QED  BY <1>3, <1>4

-----------------------------------------------------------------------------
(* HouseholdWrites: what is stored *)

\* A document that is there is of its kind.
LEMMA LiveIs ==
    ASSUME StoredOK
    PROVE  /\ DOMAIN doc = DOMAIN Documents
           /\ \A kind : Browser!Of(kind) = {id \in Browser!Ids(kind) : Browser!Live(id)}
           /\ \A id \in DOMAIN Documents : Browser!Live(id) =>
                 /\ Browser!KindOf[id] \in Browser!Kinds
                 /\ doc[id] \in Browser!Document(Browser!KindOf[id])
                 /\ doc[id].kind = Browser!KindOf[id]
<1>1. DOMAIN doc = DOMAIN Documents  BY DEF StoredOK
<1>2. \A id \in DOMAIN Documents : Browser!Live(id) =>
         /\ Browser!KindOf[id] \in Browser!Kinds
         /\ doc[id] \in Browser!Document(Browser!KindOf[id])
         /\ doc[id].kind = Browser!KindOf[id]
  BY FieldsOf DEF StoredOK
<1>3. \A kind : Browser!Of(kind) = {id \in Browser!Ids(kind) : Browser!Live(id)}
  BY <1>1, <1>2 DEF Browser!Of, Browser!Ids
<1> QED  BY <1>1, <1>2, <1>3

\* What a stored document names is a document, there or contested.
LEMMA StoredNames ==
    ASSUME StoredOK, NEW id \in DOMAIN Documents, Browser!Live(id), NEW n \in Browser!Named(doc[id])
    PROVE  /\ n \in DOMAIN Documents /\ n # None /\ (n \in contested \/ Browser!Live(n))
           /\ \E f \in Browser!Naming \cap Fields(Browser!KindOf[id]) :
                 n \in Browser!Names(doc[id], f) /\ Browser!KindOf[n] = Target(f)
<1>1. /\ Browser!KindOf[id] \in Browser!Kinds
      /\ doc[id] \in Browser!Document(Browser!KindOf[id])
  BY LiveIs
<1>2. n \in contested \/ Browser!Live(n)  BY LiveIs DEF StoredOK, Browser!ReferencesResolve
<1>3. PICK kind : kind = Browser!KindOf[id]  OBVIOUS
<1>4. \E f \in Browser!Naming \cap DOMAIN doc[id] \cap Fields(kind) :
         /\ n \in Browser!Names(doc[id], f) /\ n \in DOMAIN Documents /\ n # None
         /\ Browser!KindOf[n] = Target(f)
  BY <1>1, <1>3, NamedTarget
<1> QED  BY <1>2, <1>3, <1>4

\* What is read of the documents is the same as long as they are.
LEMMA SameDocuments ==
    ASSUME doc' = doc
    PROVE  /\ \A n : Browser!Live(n)' <=> Browser!Live(n)
           /\ \A d : Browser!GroupFits(d)' <=> Browser!GroupFits(d)
           /\ \A kind : Browser!Of(kind)' = Browser!Of(kind)
           /\ \A g : Browser!Members(g)' = Browser!Members(g)
<1>1. \A n : Browser!Live(n)' <=> Browser!Live(n)  BY DEF Browser!Live
<1>2. \A d : Browser!GroupFits(d)' <=> Browser!GroupFits(d)  BY <1>1 DEF Browser!GroupFits
<1>3. \A kind : Browser!Of(kind)' = Browser!Of(kind)  BY <1>1 DEF Browser!Of
<1>4. \A g : Browser!Members(g)' = Browser!Members(g)  BY <1>3 DEF Browser!Members
<1> QED  BY <1>1, <1>2, <1>3, <1>4

\* A call's knowledge stands while the documents do, though more is contested
\* and budgets come and go.
LEMMA CallStays ==
    ASSUME doc' = doc, contested \subseteq contested', NEW k, CallOK(k),
           k.op = "deleteCategory" /\ k.id \notin contested' => \A b \in budget' \ budget : b[1] # k.id
    PROVE  CallOK(k)'
<1>1. /\ \A n : Browser!Live(n)' <=> Browser!Live(n)
      /\ \A d : Browser!GroupFits(d)' <=> Browser!GroupFits(d)
      /\ \A kind : Browser!Of(kind)' = Browser!Of(kind)
      /\ \A g : Browser!Members(g)' = Browser!Members(g)
  BY SameDocuments
<1>2. \A n : Held(k, n) => Held(k, n)'  BY <1>1 DEF Held, MayHold
<1>3. ASSUME NEW w, SetOK(k, w) PROVE SetOK(k, w)'
  <2> PICK e : e = Browser!Patched(doc[w.id], w.set)  OBVIOUS
  <2>1. e = Browser!Patched(doc[w.id], w.set)'  OBVIOUS
  <2>2. Suits(w.id, e) => Suits(w.id, e)'  BY <1>1 DEF Suits
  <2>3. Browser!KindOf[w.id] = "category" /\ Browser!Live(w.id)' =>
           Suits(w.id, Browser!Patched(doc[w.id], w.set))'
    BY <1>1, <1>3, <2>1, <2>2 DEF SetOK
  <2>4. Browser!KindOf[w.id] = "group" /\ k.id \notin contested' /\ Browser!Live(k.id)' =>
           doc'[k.id].categoryKind = k.arg \/ Browser!Members(k.id)' = {}
    BY <1>1, <1>3 DEF SetOK
  <2>5. PatchOK(Browser!KindOf[w.id], w.set) /\ doc'[w.id] # None  BY <1>3 DEF SetOK
  <2> QED  BY <1>3, <2>3, <2>4, <2>5 DEF SetOK, SameAmounts
<1>4. ASSUME NEW w, InsertOK(k, w) PROVE InsertOK(k, w)'
  BY <1>1, <1>4 DEF InsertOK, Suits
<1>5. ASSUME NEW w, WriteOK(k, w) PROVE WriteOK(k, w)'
  <2>1. \A n \in WriteNames(w) : Held(k, n)'  BY <1>2, <1>5 DEF WriteOK
  <2>2. w.do = "set" => w = [do |-> "set", id |-> w.id, set |-> w.set, seen |-> w.seen] /\ SetOK(k, w)'
    BY <1>3, <1>5 DEF WriteOK
  <2>3. w.do = "insert" => w = [do |-> "insert", id |-> w.id, new |-> w.new] /\ InsertOK(k, w)'
    BY <1>4, <1>5 DEF WriteOK
  <2>4. w.do = "erase" => w = [do |-> "erase", id |-> w.id] /\ EraseOK(k, w)'
    BY <1>5 DEF WriteOK, EraseOK
  <2> QED  BY <1>5, <2>1, <2>2, <2>3, <2>4 DEF WriteOK, WriteNames
<1>6. TodoOK(k)' /\ FreshOK(k)'  BY <1>1 DEF CallOK, TodoOK, FreshOK, Inserts
<1>7. CoverOK(k)'
  <2>1. \A kind \in Cleared(k) : Browser!Of(kind)' = Browser!Of(kind)  BY <1>1
  <2> QED  BY <2>1 DEF CallOK, CoverOK, Cleared, Rewrites
<1>8. /\ \A n \in ArgNames(k) : Held(k, n)'
      /\ \A n \in Browser!Reshaped(k) : doc'[n] # None
  BY <1>2 DEF CallOK
<1> QED  BY <1>5, <1>6, <1>7, <1>8 DEF CallOK, Given, PatchOK, ArgNames

\* While documents and budgets stand, what is stored and said of it stands.
LEMMA StoredStays ==
    ASSUME StoredOK, UNCHANGED <<doc, budget, outdated>>, contested \subseteq contested',
           writing' = [u \in Slot |-> writing'[u]]
    PROVE  StoredOK'
<1>1. /\ \A n : Browser!Live(n)' <=> Browser!Live(n)
      /\ \A d : Browser!GroupFits(d)' <=> Browser!GroupFits(d)
      /\ \A kind : Browser!Of(kind)' = Browser!Of(kind)
  BY SameDocuments
<1>2. Browser!ReferencesResolve'  BY <1>1 DEF StoredOK, Browser!ReferencesResolve
<1>3. Browser!SplitsAddUp'  BY <1>1 DEF StoredOK, Browser!SplitsAddUp
<1> QED  BY <1>1, <1>2, <1>3 DEF StoredOK

\* A step of a call that changes nothing but the call: what it has planned is
\* all that is left to show.
LEMMA CallPlans ==
    ASSUME WritesInv, NEW s \in Slot, Browser!Busy(s), UNCHANGED <<doc, budget, contested, outdated>>,
           NEW k, writing' = [writing EXCEPT ![s] = k],
           k # Browser!NoCall => /\ CallOK(k) /\ k.op = writing[s].op /\ k.id = writing[s].id
                                 /\ k.op # "update" => k.arg = writing[s].arg
    PROVE  WritesInv'
<1>1. /\ writing = [u \in Slot |-> writing[u]] /\ writing' = [u \in Slot |-> writing'[u]]
      /\ writing'[s] = k /\ \A u \in Slot \ {s} : writing'[u] = writing[u]
  BY DEF WritesInv, StoredOK
<1>2. StoredOK'  BY <1>1, StoredStays DEF WritesInv
<1>3. ASSUME NEW u \in Slot, Browser!Busy(u)' PROVE CallOK(writing[u])'
  <2>1. PICK x : x = writing'[u]  OBVIOUS
  <2>2. CallOK(x)
    <3>1. CASE u = s  BY <1>1, <1>3, <2>1, <3>1 DEF Browser!Busy
    <3>2. CASE u # s  BY <1>1, <1>3, <2>1, <3>2 DEF Browser!Busy, WritesInv
    <3> QED  BY <3>1, <3>2
  <2>3. CallOK(x)'  BY <2>2, CallStays
  <2> QED  BY <2>1, <2>3
<1>4. \A n : Browser!Live(n)' <=> Browser!Live(n)  BY SameDocuments
<1>5. ASSUME NEW u \in Slot, NEW v \in Slot, u # v, Browser!Busy(u)', Browser!Busy(v)'
      PROVE  ApartOK(writing[u], writing[v])'
  <2>1. Browser!Busy(u) /\ Browser!Busy(v)  BY <1>1, <1>5 DEF Browser!Busy
  <2>2. ApartOK(writing[u], writing[v])  BY <1>5, <2>1 DEF WritesInv
  <2>3. \A x \in {u, v} : /\ writing'[x].op = writing[x].op /\ writing'[x].id = writing[x].id
                          /\ writing[x].op # "update" => writing'[x].arg = writing[x].arg
    BY <1>1, <1>5 DEF Browser!Busy
  <2>4. \A x \in {u, v} : /\ Browser!Reshaped(writing[x])' = Browser!Reshaped(writing[x])
                          /\ writing[x].op \in Makers =>
                                Browser!Taken(writing[x])' = Browser!Taken(writing[x])
                          /\ \A n : MayHold(writing[x], n)' <=> MayHold(writing[x], n)
    BY <2>3 DEF Browser!Reshaped, Browser!Taken, Makers, MayHold
  <2> QED  BY <1>4, <2>2, <2>3, <2>4 DEF ApartOK
<1> QED  BY <1>2, <1>3, <1>5 DEF WritesInv

\* What a call may hold is among the entries it may still write down.
LEMMA HoldsWhatItMayName ==
    ASSUME StoredOK, NEW x, NEW n \in DOMAIN Documents, Browser!Live(n), MayHold(x, n)
    PROVE  n \in Browser!MayName(x)
<1>1. CASE x.op = "deleteCategory"
  <2>1. n \in Browser!Of("category")  BY <1>1, LiveIs DEF MayHold, Browser!Ids
  <2> QED  BY <1>1, <2>1 DEF Browser!MayName
<1>2. CASE x.op = "mergeMerchants"  BY <1>2 DEF MayHold, Browser!MayName
<1>3. CASE x.op \notin {"deleteCategory", "mergeMerchants"}
  BY <1>3, LiveIs DEF MayHold, Browser!MayName
<1> QED  BY <1>1, <1>2, <1>3

\* The entry a call reshapes is a document.
LEMMA ReshapedIs ==
    ASSUME NEW k, Given(k), NEW n \in Browser!Reshaped(k)
    PROVE  n = k.id /\ n \in DOMAIN Documents
  BY DEF Given, Browser!Reshaped, Browser!Ids

\* A call that starts knows what it was given, and contests what it shares
\* with the calls under way.
LEMMA CallStarts ==
    ASSUME WritesInv, NEW s \in Slot, ~Browser!Busy(s), NEW op, NEW id, NEW arg,
           Browser!Start(s, op, id, arg), NEW k,
           k = [op |-> op, id |-> id, arg |-> arg, phase |-> 1, todo |-> {}], CallOK(k),
           op \in Makers => \A i \in Browser!Taken(k) : Browser!Unwritten(i)
    PROVE  WritesInv'
<1> PICK others : others = {writing[x] : x \in {y \in Slot \ {s} : Browser!Busy(y)}}  OBVIOUS
<1>1. /\ writing' = [writing EXCEPT ![s] = k] /\ UNCHANGED <<doc, budget, outdated>>
      /\ contested' = contested \cup
            UNION {(Browser!Reshaped(k) \cap Browser!MayName(x))
                      \cup (Browser!Reshaped(x) \cap Browser!MayName(k)) : x \in others}
  BY DEF Browser!Start
<1>2. contested \subseteq contested'  BY <1>1
<1>3. /\ writing = [u \in Slot |-> writing[u]] /\ writing' = [u \in Slot |-> writing'[u]]
      /\ writing'[s] = k /\ \A u \in Slot \ {s} : writing'[u] = writing[u]
  BY <1>1 DEF WritesInv, StoredOK
<1>4. StoredOK'  BY <1>1, <1>2, <1>3, StoredStays DEF WritesInv
<1>5. ASSUME NEW u \in Slot, Browser!Busy(u)' PROVE CallOK(writing[u])'
  <2>1. PICK x : x = writing'[u]  OBVIOUS
  <2>2. CallOK(x)
    <3>1. CASE u = s  BY <1>3, <2>1, <3>1
    <3>2. CASE u # s  BY <1>3, <1>5, <2>1, <3>2 DEF Browser!Busy, WritesInv
    <3> QED  BY <3>1, <3>2
  <2>3. CallOK(x)'  BY <1>1, <1>2, <2>2, CallStays
  <2> QED  BY <2>1, <2>3
<1>6. \A n : Browser!Live(n)' <=> Browser!Live(n)  BY <1>1, SameDocuments
<1>7. ASSUME NEW v \in Slot, v # s, Browser!Busy(v)
      PROVE  ApartOK(k, writing[v])' /\ ApartOK(writing[v], k)'
  <2>1. PICK x : x = writing[v]  OBVIOUS
  <2>2. x \in others /\ writing'[v] = x /\ CallOK(x)  BY <1>3, <1>7, <2>1 DEF WritesInv
  <2>3. /\ Browser!Reshaped(k) \cap Browser!MayName(x) \subseteq contested'
        /\ Browser!Reshaped(x) \cap Browser!MayName(k) \subseteq contested'
    <3> DEFINE clash(y) == (Browser!Reshaped(k) \cap Browser!MayName(y))
                              \cup (Browser!Reshaped(y) \cap Browser!MayName(k))
    <3>1. contested' = contested \cup UNION {clash(y) : y \in others}  BY <1>1
    <3>2. clash(x) \subseteq contested'
      <4> HIDE DEF clash
      <4> QED  BY <2>2, <3>1
    <3> QED  BY <3>2
  <2>4. \A n \in Browser!Reshaped(k) : Browser!Live(n)' /\ MayHold(x, n) => n \in contested'
    BY <1>6, <2>3, ReshapedIs, HoldsWhatItMayName DEF WritesInv, CallOK
  <2>5. \A n \in Browser!Reshaped(x) : Browser!Live(n)' /\ MayHold(k, n) => n \in contested'
    BY <1>6, <2>2, <2>3, ReshapedIs, HoldsWhatItMayName DEF WritesInv, CallOK
  <2>6. k.op \in Makers => Browser!Taken(k) \cap Browser!Taken(x) = {}
    BY <1>7, <2>1 DEF Browser!Unwritten
  <2>7. ApartOK(k, x)' /\ ApartOK(x, k)'  BY <2>4, <2>5, <2>6 DEF ApartOK, MayHold
  <2> QED  BY <1>3, <1>7, <2>1, <2>7
<1>8. ASSUME NEW u \in Slot, NEW v \in Slot, u # v, Browser!Busy(u)', Browser!Busy(v)'
      PROVE  ApartOK(writing[u], writing[v])'
  <2>1. CASE u = s  BY <1>3, <1>7, <1>8, <2>1 DEF Browser!Busy
  <2>2. CASE v = s  BY <1>3, <1>7, <1>8, <2>2 DEF Browser!Busy
  <2>3. CASE u # s /\ v # s
    <3>1. PICK x, y : x = writing[u] /\ y = writing[v]  OBVIOUS
    <3>2. ApartOK(x, y)  BY <1>3, <1>8, <2>3, <3>1 DEF WritesInv, Browser!Busy
    <3>3. ApartOK(x, y)'  BY <1>2, <1>6, <3>2 DEF ApartOK, MayHold
    <3> QED  BY <1>3, <2>3, <3>1, <3>3
  <2> QED  BY <2>1, <2>2, <2>3
<1> QED  BY <1>4, <1>5, <1>8 DEF WritesInv

-----------------------------------------------------------------------------
(* HouseholdWrites: one write *)

\* What the write w of the call k does to the documents: it changes one of
\* them, which keeps its kind, names nothing the write does not, and does not
\* come back once it is deleted.
Effect(k, w) ==
    /\ UNCHANGED <<budget, contested>> /\ w.id \in DOMAIN Documents
    /\ doc' = [doc EXCEPT ![w.id] = doc'[w.id]] /\ doc'[w.id] # None
    /\ doc[w.id] = None => w.do = "insert" /\ k.op \in Makers /\ w.id \in Browser!Taken(k)
    /\ w.do = "insert" => doc[w.id] = None /\ Browser!Live(w.id)' /\ doc'[w.id] = w.new
    /\ w.do = "erase" => ~Browser!Live(w.id)'
    /\ w.do = "set" => (Browser!Live(w.id)' <=> Browser!Live(w.id))
    /\ w.do = "set" /\ Browser!Live(w.id) => doc'[w.id] = Browser!Patched(doc[w.id], w.set)
    /\ Browser!Live(w.id)' =>
          /\ Browser!KindOf[w.id] \in Browser!Kinds
          /\ doc'[w.id] \in Browser!Document(Browser!KindOf[w.id])
          /\ \A n : n # None /\ n \notin WriteNames(w) =>
                \/ Browser!Where(doc'[w.id], n) = {}
                \/ /\ w.do = "set" /\ Browser!Live(w.id)
                   /\ Browser!Where(doc'[w.id], n) = Browser!Where(doc[w.id], n) \ DOMAIN w.set

\* A write to a document has that effect.
LEMMA WriteEffect ==
    ASSUME StoredOK, NEW k, CallOK(k), NEW w \in k.todo, w.do \in {"set", "insert", "erase"},
           Browser!WriteDocument(w), contested' = contested
    PROVE  Effect(k, w)
<1>1. DOMAIN doc = DOMAIN Documents  BY LiveIs
<1>2. WriteOK(k, w) /\ Given(k)  BY DEF CallOK
<1>3. w.id \in DOMAIN Documents
  <2>1. CASE w.do = "set"  BY <1>2, <2>1 DEF WriteOK, SetOK
  <2>2. CASE w.do = "insert"
    <3>1. DOMAIN Drafts \subseteq DOMAIN Documents  BY WritesAssumption DEF Browser!InUse
    <3> QED  BY <1>2, <2>2, <3>1 DEF WriteOK, InsertOK
  <2>3. CASE w.do = "erase"
    <3>1. w.id = k.id /\ k.op \in Erasers  BY <1>2, <2>3 DEF WriteOK, EraseOK
    <3> QED  BY <1>2, <3>1 DEF Given, Erasers, Renamers, Browser!Ids
  <2> QED  BY <2>1, <2>2, <2>3
<1>4. /\ budget' = budget /\ doc' = [doc EXCEPT ![w.id] = doc'[w.id]]
      /\ w.do = "insert" => doc'[w.id] = w.new
      /\ w.do = "set" /\ doc[w.id] = Gone => doc'[w.id] = Gone
      /\ w.do = "set" /\ doc[w.id] # Gone => doc'[w.id] = Browser!Patched(doc[w.id], w.set)
      /\ w.do = "erase" => doc'[w.id] = Gone
  BY <1>1, <1>3 DEF Browser!WriteDocument
<1>5. CASE w.do = "erase"
  <2>1. ~Browser!Live(w.id)' /\ doc'[w.id] # None  BY <1>4, <1>5, NoDocument DEF Browser!Live
  <2>2. doc[w.id] # None  BY <1>2, <1>5 DEF WriteOK, EraseOK
  <2> QED  BY <1>3, <1>4, <1>5, <2>1, <2>2 DEF Effect
<1>6. CASE w.do = "insert"
  <2>1. /\ doc[w.id] = None /\ k.op \in Makers /\ w.id \in Browser!Taken(k)
        /\ Browser!KindOf[w.id] \in Browser!Kinds
        /\ w.new \in Browser!Document(Browser!KindOf[w.id])
    BY <1>2, <1>6 DEF WriteOK, InsertOK
  <2>2. Browser!Live(w.id)' /\ doc'[w.id] # None
    BY <1>4, <1>6, <2>1, NoDocument DEF Browser!Live
  <2>3. \A n : n # None /\ n \notin WriteNames(w) => Browser!Where(doc'[w.id], n) = {}
    BY <1>4, <1>6, NamedWhere DEF WriteNames
  <2> QED  BY <1>3, <1>4, <1>6, <2>1, <2>2, <2>3 DEF Effect
<1>7. CASE w.do = "set"
  <2>1. doc[w.id] # None /\ PatchOK(Browser!KindOf[w.id], w.set)  BY <1>2, <1>7 DEF WriteOK, SetOK
  <2>2. CASE doc[w.id] = Gone
    <3>1. ~Browser!Live(w.id)' /\ ~Browser!Live(w.id) /\ doc'[w.id] # None
      BY <1>4, <1>7, <2>1, <2>2, NoDocument DEF Browser!Live
    <3> QED  BY <1>3, <1>4, <1>7, <2>1, <3>1 DEF Effect
  <2>3. CASE doc[w.id] # Gone
    <3>1. Browser!Live(w.id)  BY <2>1, <2>3 DEF Browser!Live
    <3>2. PICK kind : kind = Browser!KindOf[w.id]  OBVIOUS
    <3>3. kind \in Browser!Kinds /\ doc[w.id] \in Browser!Document(kind)  BY <1>3, <3>1, <3>2, LiveIs
    <3>4. doc'[w.id] \in Browser!Document(kind)  BY <1>4, <1>7, <2>1, <2>3, <3>2, <3>3, PatchedIs
    <3>5. Browser!Live(w.id)' /\ doc'[w.id] # None  BY <3>3, <3>4, NoDocument DEF Browser!Live
    <3>6. \A n : n # None /\ n \notin WriteNames(w) =>
             Browser!Where(doc'[w.id], n) = Browser!Where(doc[w.id], n) \ DOMAIN w.set
      <4>1. \A n : Browser!Where(doc'[w.id], n) =
                      (Browser!Where(doc[w.id], n) \ DOMAIN w.set) \cup Browser!Where(w.set, n)
        BY <1>4, <1>7, <2>1, <2>3, <3>2, <3>3, PatchedNames
      <4>2. \A n : n # None /\ n \notin WriteNames(w) => Browser!Where(w.set, n) = {}
        BY <1>7, NamedWhere DEF WriteNames
      <4> QED  BY <4>1, <4>2
    <3> QED  BY <1>3, <1>4, <1>7, <2>1, <2>3, <3>1, <3>2, <3>3, <3>4, <3>5, <3>6 DEF Effect
  <2> QED  BY <2>2, <2>3
<1> QED  BY <1>5, <1>6, <1>7

\* The steps of each call.
LEMMA StepsOf ==
    /\ DOMAIN Browser!Steps = {"update", "create", "import", "markRecurring", "delete", "setBudget",
                              "copyBudgets", "deleteBudget", "updateCategory", "updateGroup",
                              "deleteGroup", "deleteCategory", "mergeMerchants"}
    /\ Browser!Steps["update"] = <<"revise">> /\ Browser!Steps["create"] = <<"insert">>
    /\ Browser!Steps["import"] = <<"batch", "rows">>
    /\ Browser!Steps["markRecurring"] = <<"recurrence", "transaction">>
    /\ Browser!Steps["delete"] = <<"remove">> /\ Browser!Steps["setBudget"] = <<"book">>
    /\ Browser!Steps["copyBudgets"] = <<"copy">> /\ Browser!Steps["deleteBudget"] = <<"remove">>
    /\ Browser!Steps["updateCategory"] = <<"patch">> /\ Browser!Steps["updateGroup"] = <<"patch">>
    /\ Browser!Steps["deleteGroup"] = <<"remove">>
    /\ Browser!Steps["deleteCategory"] = <<"check", "transactions", "rules", "budgets", "entry">>
    /\ Browser!Steps["mergeMerchants"] = <<"check", "transactions", "recurrences", "rules", "entry">>
  BY DEF Browser!Steps, Browser!StepsWith

\* A write changes one document, and of an entry of the books only the one its
\* call reshapes.
LEMMA WhatChanges ==
    ASSUME StoredOK, NEW k, CallOK(k), NEW w \in k.todo, w.do \in {"set", "insert", "erase"},
           Effect(k, w)
    PROVE  /\ \A n \in DOMAIN Documents : n # w.id =>
                 doc'[n] = doc[n] /\ (Browser!Live(n)' <=> Browser!Live(n))
           /\ \A n \in DOMAIN Documents : doc[n] # None =>
                 doc'[n] # None /\ (Browser!Live(n)' => Browser!Live(n))
           /\ \A n \in DOMAIN Documents : Browser!Live(n) /\ ~Browser!Live(n)' =>
                 n = w.id /\ n = k.id /\ w.do = "erase" /\ k.op \in Erasers
           /\ Browser!KindOf[w.id] \in {"category", "group"} /\ doc[w.id] # None =>
                 w.id = k.id /\ w.id \in Browser!Reshaped(k)
<1>1. DOMAIN doc = DOMAIN Documents  BY LiveIs
<1>2. \A n \in DOMAIN Documents : n # w.id =>
         doc'[n] = doc[n] /\ (Browser!Live(n)' <=> Browser!Live(n))
  BY <1>1 DEF Effect, Browser!Live
<1>3. doc[w.id] # None => doc'[w.id] # None /\ (Browser!Live(w.id)' => Browser!Live(w.id))
  BY DEF Effect
<1>4. WriteOK(k, w) /\ Given(k)  BY DEF CallOK
<1>5. Browser!Live(w.id) /\ ~Browser!Live(w.id)' =>
         w.id = k.id /\ w.do = "erase" /\ k.op \in Erasers
  BY <1>4 DEF Effect, WriteOK, EraseOK
<1>6. Browser!KindOf[w.id] \in {"category", "group"} /\ doc[w.id] # None =>
         w.id = k.id /\ w.id \in Browser!Reshaped(k)
  <2>1. CASE w.do = "set"  BY <1>4, <2>1 DEF WriteOK, SetOK, Browser!Reshaped
  <2>2. CASE w.do = "insert"  BY <2>2 DEF Effect
  <2>3. CASE w.do = "erase"
    <3>1. w.id = k.id /\ k.op \in Erasers  BY <1>4, <2>3 DEF WriteOK, EraseOK
    <3> QED  BY <1>4, <3>1 DEF Given, Erasers, Renamers, Browser!Ids, Browser!Reshaped
  <2> QED  BY <2>1, <2>2, <2>3
<1> QED  BY <1>1, <1>2, <1>3, <1>5, <1>6

\* What a call reshapes and another one holds is contested.
LEMMA SharedIsContested ==
    ASSUME NEW k, NEW x, ApartOK(k, x), NEW n \in Browser!Reshaped(k), Held(x, n)
    PROVE  n \in contested
  BY DEF ApartOK, Held

\* An entry a call is about to remove is contested, or nothing names it.
LEMMA EraseUnnamed ==
    ASSUME StoredOK, NEW k, CallOK(k), NEW w \in k.todo, w.do = "erase", w.id \notin contested
    PROVE  /\ \A y \in DOMAIN Documents : Browser!Live(y) => w.id \notin Browser!Named(doc[y])
           /\ Browser!KindOf[w.id] = "category" => \A b \in budget : b[1] # w.id
<1>1. /\ Given(k) /\ WriteOK(k, w) /\ CoverOK(k) /\ k.todo = {w}
      /\ w.id = k.id /\ k.op \in Erasers
      /\ k.op # "delete" => k.phase = Len(Browser!Steps[k.op]) + 1
  BY DEF CallOK, TodoOK, WriteOK, EraseOK
<1>2. /\ k.op = "deleteCategory" => k.phase = 6
      /\ k.op = "mergeMerchants" => k.phase = 6
      /\ k.op = "deleteGroup" => k.phase = 2
  <2>1. k.op = "deleteCategory" => k.phase = 6
    <3>1. Len(Browser!Steps["deleteCategory"]) = 5  BY StepsOf
    <3>2. k.op = "deleteCategory" => k.phase = Len(Browser!Steps["deleteCategory"]) + 1  BY <1>1
    <3> QED  BY <3>1, <3>2
  <2>2. k.op = "mergeMerchants" => k.phase = 6
    <3>1. Len(Browser!Steps["mergeMerchants"]) = 5  BY StepsOf
    <3>2. k.op = "mergeMerchants" => k.phase = Len(Browser!Steps["mergeMerchants"]) + 1  BY <1>1
    <3> QED  BY <3>1, <3>2
  <2>3. k.op = "deleteGroup" => k.phase = 2
    <3>1. Len(Browser!Steps["deleteGroup"]) = 1  BY StepsOf
    <3>2. k.op = "deleteGroup" => k.phase = Len(Browser!Steps["deleteGroup"]) + 1  BY <1>1
    <3> QED  BY <3>1, <3>2
  <2> QED  BY <2>1, <2>2, <2>3
<1>3. ASSUME NEW y \in DOMAIN Documents, Browser!Live(y), w.id \in Browser!Named(doc[y])  PROVE FALSE
  <2> PICK kind : kind = Browser!KindOf[y]  OBVIOUS
  <2>1. kind \in Browser!Kinds /\ y \in Browser!Of(kind)
    BY <1>3, LiveIs DEF Browser!Ids
  <2>2. PICK f \in Browser!Naming \cap Fields(kind) : Browser!KindOf[w.id] = Target(f)
    BY <1>3, StoredNames
  <2>3. /\ Target(f) \notin {"transaction", "rule"}
        /\ Target(f) = "category" => kind \in {"transaction", "rule"}
        /\ Target(f) = "merchant" => kind \in {"transaction", "recurrence", "rule"}
        /\ Target(f) = "group" => kind = "category"
    BY <2>1, WhoNames
  <2>4. kind \in Cleared(k)
    <3>1. CASE k.op = "delete"  BY <1>1, <2>2, <2>3, <3>1 DEF Given, Browser!Ids
    <3>2. CASE k.op = "deleteGroup"
      BY <1>1, <1>2, <2>1, <2>2, <2>3, <3>2 DEF Given, Browser!Ids, Cleared
    <3>3. CASE k.op = "deleteCategory"
      BY <1>1, <1>2, <2>1, <2>2, <2>3, <3>3 DEF Given, Browser!Ids, Cleared, Renamers
    <3>4. CASE k.op = "mergeMerchants"
      BY <1>1, <1>2, <2>1, <2>2, <2>3, <3>4 DEF Given, Browser!Ids, Cleared, Renamers
    <3> QED  BY <1>1, <3>1, <3>2, <3>3, <3>4 DEF Erasers, Renamers
  <2>5. Browser!Where(doc[y], k.id) = {}
    BY <1>1, <2>1, <2>4 DEF CoverOK, Rewrites
  <2> QED  BY <1>1, <1>3, <2>5, NamedWhere DEF Browser!Named
<1>4. ASSUME Browser!KindOf[w.id] = "category", NEW b \in budget, b[1] = w.id  PROVE FALSE
  <2>2. k.op = "deleteCategory"  BY <1>1, <1>4 DEF Given, Browser!Ids, Erasers, Renamers
  <2>3. Browser!Unbook(b) \in k.todo  BY <1>1, <1>2, <1>4, <2>2 DEF CoverOK
  <2> QED  BY <1>1, <2>3 DEF Browser!Unbook
<1> QED  BY <1>3, <1>4

\* What another call holds, it still holds after the write.
LEMMA HeldStays ==
    ASSUME StoredOK, NEW k, CallOK(k), NEW w \in k.todo, w.do \in {"set", "insert", "erase"},
           Effect(k, w), NEW j, Given(j), ApartOK(k, j), NEW n, Held(j, n)
    PROVE  Held(j, n)'
<1>1. n \in DOMAIN Documents /\ MayHold(j, n)' /\ contested' = contested
  BY DEF Held, MayHold, Effect
<1>2. ASSUME Browser!Live(n), ~Browser!Live(n)'  PROVE n \in contested
  <2>1. n = k.id /\ k.op \in Erasers  BY <1>1, <1>2, WhatChanges
  <2>2. CASE k.op = "delete"
    <3>1. Browser!KindOf[n] \in {"transaction", "rule"}
      BY <2>1, <2>2 DEF CallOK, Given, Browser!Ids
    <3>2. j.op = "mergeMerchants" => Browser!KindOf[j.arg] = "merchant"  BY DEF Given, Browser!Ids
    <3> QED  BY <3>1, <3>2 DEF Held, MayHold
  <2>3. CASE k.op # "delete"
    <3>1. n \in Browser!Reshaped(k)  BY <2>1, <2>3 DEF Erasers, Renamers, Browser!Reshaped
    <3> QED  BY <3>1, SharedIsContested
  <2> QED  BY <2>2, <2>3
<1> QED  BY <1>1, <1>2 DEF Held

\* A category suits its group after the write of another call as before.
LEMMA SuitsStays ==
    ASSUME StoredOK, NEW k, CallOK(k), NEW w \in k.todo, w.do \in {"set", "insert", "erase"},
           Effect(k, w), NEW j, ApartOK(k, j), \A g \in Browser!Ids("group") : MayHold(j, g),
           NEW c, NEW d \in Browser!Document("category"), Suits(c, d)
    PROVE  Suits(c, d)'
<1>1. /\ "parent" \in DOMAIN d /\ d.parent \in Browser!Ref("group")
      /\ contested' = contested
  BY DEF Browser!Document, Effect
<1>2. SUFFICES ASSUME {c, d.parent} \cap contested = {}, d.parent # None, Browser!GroupFits(d)
               PROVE  Browser!GroupFits(d)'
  BY <1>1 DEF Suits, Browser!GroupFits
<1> PICK g : g = d.parent  OBVIOUS
<1>3. /\ g \in Browser!Ids("group") /\ g \in DOMAIN Documents
      /\ Browser!Live(g) /\ doc[g].categoryKind = d.categoryKind
  BY <1>1, <1>2 DEF Browser!Ref, Browser!Ids, Browser!GroupFits
<1>4. g # w.id
  <2>1. SUFFICES ASSUME g = w.id PROVE FALSE  OBVIOUS
  <2>2. g \in Browser!Reshaped(k)
    BY <1>3, <2>1, WhatChanges DEF Browser!Ids, Browser!Live
  <2> QED  BY <1>2, <1>3, <2>2 DEF ApartOK
<1>5. Browser!Live(g)' /\ doc'[g] = doc[g]  BY <1>3, <1>4, WhatChanges
<1> QED  BY <1>3, <1>5 DEF Browser!GroupFits

\* A group without categories stays so after a write that does not name it.
LEMMA MembersStay ==
    ASSUME StoredOK, NEW k, CallOK(k), NEW w \in k.todo, w.do \in {"set", "insert", "erase"},
           Effect(k, w), NEW g \in Browser!Ids("group"), g = w.id \/ g \notin WriteNames(w),
           Browser!Members(g) = {}
    PROVE  Browser!Members(g)' = {}
<1>1. SUFFICES ASSUME NEW c \in DOMAIN Documents, Browser!Live(c)', doc'[c].kind = "category",
                      doc'[c].parent = g
               PROVE  FALSE
  <2>1. DOMAIN doc' = DOMAIN Documents  BY LiveIs DEF Effect
  <2> QED  BY <2>1 DEF Browser!Members, Browser!Of
<1>2. c \in DOMAIN doc /\ (Browser!Live(c) => c \in Browser!Of("category") \/ doc[c].kind # "category")
  BY LiveIs DEF Browser!Of
<1>3. CASE c # w.id
  <2>1. doc'[c] = doc[c] /\ Browser!Live(c)  BY <1>1, <1>3, WhatChanges
  <2> QED  BY <1>1, <1>2, <2>1 DEF Browser!Members
<1>4. CASE c = w.id
  <2>1. /\ Browser!KindOf[c] \in Browser!Kinds
        /\ doc'[c] \in Browser!Document(Browser!KindOf[c])
    BY <1>1, <1>4 DEF Effect
  <2>2. Browser!KindOf[c] = "category"  BY <1>1, <2>1, FieldsOf
  <2>3. g # c /\ g # None  BY <2>2, NoDocument DEF Browser!Ids
  <2>4. "parent" \in Browser!Where(doc'[c], g)
    <3>1. "parent" \in DOMAIN doc'[c]  BY <2>1, <2>2 DEF Browser!Document
    <3> QED  BY <1>1, <3>1 DEF Browser!Where, Browser!Naming, Browser!Names
  <2>5. Browser!Live(c) /\ "parent" \in Browser!Where(doc[c], g)
    BY <1>1, <1>4, <2>3, <2>4 DEF Effect
  <2>6. doc[c].parent = g  BY <2>5 DEF Browser!Where, Browser!Names
  <2>7. doc[c].kind = "category"  BY <2>2, <2>5, LiveIs
  <2> QED  BY <1>2, <2>5, <2>6, <2>7 DEF Browser!Members
<1> QED  BY <1>3, <1>4

\* A change another call has planned is as sound after the write as before.
LEMMA SetStays ==
    ASSUME StoredOK, NEW k, CallOK(k), NEW w \in k.todo, w.do \in {"set", "insert", "erase"},
           Effect(k, w), NEW j, CallOK(j), ApartOK(k, j), ApartOK(j, k), NEW v \in j.todo, SetOK(j, v)
    PROVE  SetOK(j, v)'
<1> PICK x : x = v.id  OBVIOUS
<1>1. x \in DOMAIN Documents /\ doc[x] # None /\ PatchOK(Browser!KindOf[x], v.set)
  BY DEF SetOK
<1>2. doc'[x] # None /\ contested' = contested  BY <1>1, WhatChanges DEF Effect
<1>3. ASSUME Browser!KindOf[x] = "category", Browser!Live(x)'
      PROVE  Suits(x, Browser!Patched(doc[x], v.set))'
  <2>1. Browser!Live(x) /\ j.op = "updateCategory" /\ x = j.id
    BY <1>1, <1>3, WhatChanges DEF SetOK
  <2>2. CASE x = w.id
    <3>1. w.do = "set"  BY <1>1, <1>3, <2>2 DEF Effect
    <3>2. k.op = "updateCategory"  BY <1>3, <2>2, <3>1 DEF CallOK, WriteOK, SetOK
    <3>3. x \in Browser!Reshaped(j) /\ MayHold(k, x)
      BY <1>3, <2>1, <3>2 DEF Browser!Reshaped, MayHold
    <3>4. x \in contested'  BY <1>2, <2>1, <3>3 DEF ApartOK
    <3> QED  BY <3>4 DEF Suits
  <2>3. CASE x # w.id
    <3> PICK d : d = Browser!Patched(doc[x], v.set)  OBVIOUS
    <3>1. d = Browser!Patched(doc[x], v.set)'
      <4>1. doc'[x] = doc[x]  BY <1>1, <2>3, WhatChanges
      <4> QED  BY <4>1 DEF Browser!Patched
    <3>2. d \in Browser!Document("category")
      BY <1>1, <1>3, <2>1, LiveIs, PatchedIs
    <3>3. Suits(x, d)  BY <1>3, <2>1 DEF SetOK
    <3>4. \A g \in Browser!Ids("group") : MayHold(j, g)  BY <2>1 DEF MayHold, Browser!Ids
    <3>5. Suits(x, d)'  BY <3>2, <3>3, <3>4, SuitsStays
    <3> QED  BY <3>1, <3>5
  <2> QED  BY <2>2, <2>3
<1>4. ASSUME Browser!KindOf[x] = "group", x \notin contested, Browser!Live(x)'
      PROVE  doc'[x].categoryKind = j.arg \/ Browser!Members(x)' = {}
  <2>1. /\ Browser!Live(x) /\ j.op = "updateGroup" /\ x = j.id
        /\ doc[x].categoryKind = j.arg \/ Browser!Members(x) = {}
    BY <1>1, <1>4, WhatChanges DEF SetOK
  <2>2. CASE x = w.id
    <3>1. w.do = "set"  BY <1>1, <1>4, <2>2 DEF Effect
    <3>2. /\ k.op = "updateGroup" /\ x = k.id /\ w.set = [categoryKind |-> k.arg]
          /\ doc[x].categoryKind = k.arg \/ Browser!Members(x) = {}
      BY <1>4, <2>1, <2>2, <3>1 DEF CallOK, WriteOK, SetOK
    <3>3. doc'[x].categoryKind = k.arg
      <4>1. doc[x] \in Browser!Document("group") /\ "group" \in Browser!Kinds
        BY <1>1, <1>4, <2>1, LiveIs
      <4>2. doc'[x] = Browser!Patched(doc[x], w.set)  BY <2>1, <2>2, <3>1 DEF Effect
      <4>3. PatchOK("group", w.set)  BY <1>4, <2>2, <3>1 DEF CallOK, WriteOK, SetOK
      <4>4. "categoryKind" \in DOMAIN doc[x]  BY <4>1 DEF Browser!Document
      <4> QED  BY <3>2, <4>1, <4>2, <4>3, <4>4, PatchedIs
    <3>4. Browser!Members(x) = {} => Browser!Members(x)' = {}
      BY <1>1, <1>4, <2>2, MembersStay DEF Browser!Ids
    <3> QED  BY <2>1, <3>2, <3>3, <3>4
  <2>3. CASE x # w.id
    <3>1. doc'[x] = doc[x]  BY <1>1, <2>3, WhatChanges
    <3>2. x \notin WriteNames(w)
      <4>1. x \in Browser!Reshaped(j)  BY <2>1 DEF Browser!Reshaped
      <4>2. \A n \in WriteNames(w) : Held(k, n)  BY DEF CallOK, WriteOK
      <4> QED  BY <1>4, <4>1, <4>2, SharedIsContested
    <3>3. Browser!Members(x) = {} => Browser!Members(x)' = {}
      BY <1>1, <1>4, <3>2, MembersStay DEF Browser!Ids
    <3> QED  BY <2>1, <3>1, <3>3, <3>2
  <2> QED  BY <2>2, <2>3
<1> QED  BY <1>1, <1>2, <1>3, <1>4 DEF SetOK, SameAmounts

\* A new document another call has planned is as sound after the write.
LEMMA InsertStays ==
    ASSUME StoredOK, NEW k, CallOK(k), NEW w \in k.todo, w.do \in {"set", "insert", "erase"},
           Effect(k, w), NEW j, ApartOK(k, j), NEW v \in j.todo, InsertOK(j, v)
    PROVE  InsertOK(j, v)'
<1>1. DOMAIN Drafts \subseteq DOMAIN Documents  BY WritesAssumption DEF Browser!InUse
<1>2. v.id \in DOMAIN Documents /\ doc[v.id] = None /\ v.id \in Browser!Taken(j) /\ j.op \in Makers
  BY <1>1 DEF InsertOK
<1>3. v.id # w.id  BY <1>2 DEF Effect, ApartOK
<1>4. doc'[v.id] = None  BY <1>2, <1>3, WhatChanges
<1>5. ASSUME Browser!KindOf[v.id] = "category"  PROVE Suits(v.id, v.new)'
  <2>1. \A g \in Browser!Ids("group") : MayHold(j, g)  BY <1>2 DEF MayHold, Makers, Browser!Ids
  <2> QED  BY <1>5, <2>1, SuitsStays DEF InsertOK
<1> QED  BY <1>4, <1>5 DEF InsertOK, Browser!Taken

\* So is every write another call has planned.
LEMMA PlannedStays ==
    ASSUME StoredOK, NEW k, CallOK(k), NEW w \in k.todo, w.do \in {"set", "insert", "erase"},
           Effect(k, w), NEW j, CallOK(j), ApartOK(k, j), ApartOK(j, k), NEW v \in j.todo
    PROVE  WriteOK(j, v)'
<1>1. WriteOK(j, v)  BY DEF CallOK
<1>2. v.do = "set" => SetOK(j, v)'  BY <1>1, SetStays DEF WriteOK
<1>3. v.do = "insert" => InsertOK(j, v)'  BY <1>1, InsertStays DEF WriteOK
<1>4. v.do = "erase" => EraseOK(j, v)'
  <2>1. j.op \in Erasers => j.id \in DOMAIN Documents
    BY DEF CallOK, Given, Erasers, Renamers, Browser!Ids
  <2> QED  BY <1>1, <2>1, WhatChanges DEF WriteOK, EraseOK
<1>5. \A n \in WriteNames(v) : Held(j, n)'  BY <1>1, HeldStays DEF WriteOK, CallOK
<1> QED  BY <1>1, <1>2, <1>3, <1>4, <1>5 DEF WriteOK, WriteNames

\* A call that removes an entry only when nothing names it.
LEMMA ClearedReshapes ==
    ASSUME NEW k, NEW kind \in Cleared(k)
    PROVE  /\ kind \in Browser!Kinds /\ Browser!Reshaped(k) = {k.id}
           /\ k.op \in Renamers \cup {"deleteGroup"}
  BY DEF Cleared, Renamers, Browser!Reshaped

\* What another call has cleared stays clear, for nothing it removes is held.
LEMMA CoverStays ==
    ASSUME StoredOK, NEW k, CallOK(k), NEW w \in k.todo, w.do \in {"set", "insert", "erase"},
           Effect(k, w), NEW j, CallOK(j), ApartOK(j, k)
    PROVE  CoverOK(j)'
<1>1. SUFFICES ASSUME j.id \notin contested
               PROVE  /\ \A kind \in Cleared(j) : \A y \in Browser!Of(kind)' :
                            LET fields == Browser!Where(doc'[y], j.id)
                            IN  fields = {} \/ Rewrites(j, y, fields)
                      /\ j.op = "deleteCategory" /\ j.phase >= 5 =>
                            \A b \in budget' : b[1] = j.id => Browser!Unbook(b) \in j.todo
  BY DEF CoverOK, Effect, Cleared, Rewrites
<1>2. ASSUME NEW kind \in Cleared(j), NEW y \in Browser!Of(kind)', Browser!Where(doc'[y], j.id) # {}
      PROVE  Rewrites(j, y, Browser!Where(doc'[y], j.id))
  <2>1. /\ y \in DOMAIN Documents /\ Browser!Live(y)' /\ doc'[y].kind = kind
    <3>1. DOMAIN doc' = DOMAIN Documents  BY LiveIs DEF Effect
    <3> QED  BY <1>2, <3>1 DEF Browser!Of
  <2>2. \A z \in Browser!Of(kind) :
           \/ Browser!Where(doc[z], j.id) = {}
           \/ Rewrites(j, z, Browser!Where(doc[z], j.id))
    BY <1>1, <1>2 DEF CallOK, CoverOK
  <2>3. CASE y # w.id
    <3>1. doc'[y] = doc[y] /\ y \in Browser!Of(kind)
      BY <2>1, <2>3, WhatChanges, LiveIs DEF Browser!Of
    <3> QED  BY <1>2, <2>2, <3>1
  <2>4. CASE y = w.id
    <3>1. j.id \notin WriteNames(w) /\ j.id # None
      <4>1. j.id \in Browser!Reshaped(j)  BY <1>2, ClearedReshapes
      <4>2. \A n \in WriteNames(w) : Held(k, n)  BY DEF CallOK, WriteOK
      <4>3. j.id \in DOMAIN Documents  BY <4>1, ReshapedIs DEF CallOK
      <4> QED  BY <1>1, <4>1, <4>2, <4>3, SharedIsContested, NoDocument
    <3>2. /\ w.do = "set" /\ Browser!Live(y)
          /\ Browser!Where(doc'[y], j.id) \subseteq Browser!Where(doc[y], j.id)
      BY <1>2, <2>1, <2>4, <3>1 DEF Effect
    <3>3. y \in Browser!Of(kind)
      <4>1. Browser!KindOf[y] \in Browser!Kinds /\ doc'[y] \in Browser!Document(Browser!KindOf[y])
        BY <2>1, <2>4 DEF Effect
      <4>2. Browser!KindOf[y] = kind  BY <2>1, <4>1, FieldsOf
      <4> QED  BY <2>1, <3>2, <4>2, LiveIs DEF Browser!Ids
    <3> QED  BY <1>2, <2>2, <3>2, <3>3 DEF Rewrites
  <2> QED  BY <2>3, <2>4
<1>3. j.op = "deleteCategory" /\ j.phase >= 5 =>
         \A b \in budget' : b[1] = j.id => Browser!Unbook(b) \in j.todo
  BY <1>1 DEF CallOK, CoverOK, Effect
<1> QED  BY <1>2, <1>3

\* The rows of an import are transactions.
LEMMA RowsAre ==
    ASSUME NEW r \in Browser!Rows
    PROVE  /\ r[1] \in DOMAIN Drafts /\ r[1] \in Browser!Ids("transaction")
           /\ r = <<r[1], r[2]>> /\ r[2] \in Drafts[r[1]]
           /\ r[2] \in Browser!Document("transaction") /\ r[2].splits = <<>>
<1> DEFINE rows(t) == {<<t, d>> : d \in {e \in Drafts[t] : e.kind = "transaction" /\ e.splits = <<>>}}
<1>1. PICK t \in DOMAIN Drafts : r \in rows(t)
  <2>1. Browser!Rows = UNION {rows(t) : t \in DOMAIN Drafts}  BY DEF Browser!Rows
  <2> HIDE DEF rows
  <2> QED  BY <2>1
<1>2. /\ r[1] = t /\ r = <<t, r[2]>> /\ r[2] \in Drafts[t]
      /\ r[2].kind = "transaction" /\ r[2].splits = <<>>
  BY <1>1
<1>3. Browser!KindOf[t] \in Browser!Kinds /\ r[2] \in Browser!Document(Browser!KindOf[t])
  BY <1>2, WritesAssumption DEF Browser!InUse
<1>4. t \in DOMAIN Documents  BY WritesAssumption DEF Browser!InUse
<1>5. Browser!KindOf[t] = "transaction"  BY <1>2, <1>3, FieldsOf
<1> QED  BY <1>2, <1>3, <1>4, <1>5 DEF Browser!Ids

\* The ids a call takes are not written yet when it begins.
LEMMA TakenAre ==
    ASSUME NEW k, Given(k), k.op \in Makers
    PROVE  Browser!Taken(k) \subseteq DOMAIN Documents /\ k.id \in Browser!Taken(k)
<1>1. DOMAIN Drafts \subseteq DOMAIN Documents  BY WritesAssumption DEF Browser!InUse
<1>2. k.id \in DOMAIN Documents  BY <1>1 DEF Given, Makers
<1>3. k.op = "import" => \A r \in k.arg : r[1] \in DOMAIN Documents
  BY <1>1, RowsAre DEF Given
<1> QED  BY <1>2, <1>3 DEF Browser!Taken

\* The documents another call is about to enter are as new after the write.
LEMMA FreshStays ==
    ASSUME StoredOK, NEW k, CallOK(k), NEW w \in k.todo, w.do \in {"set", "insert", "erase"},
           Effect(k, w), NEW j, CallOK(j), ApartOK(k, j)
    PROVE  FreshOK(j)'
<1>1. ASSUME j.op \in Makers, NEW id \in Browser!Taken(j), doc[id] = None  PROVE doc'[id] = None
  <2>1. id \in DOMAIN Documents  BY <1>1, TakenAre DEF CallOK
  <2>2. id # w.id  BY <1>1 DEF Effect, ApartOK
  <2> QED  BY <1>1, <2>1, <2>2, WhatChanges
<1>2. j.op = "import" => \A r \in j.arg : r[1] \in Browser!Taken(j)  BY DEF Browser!Taken
<1>3. ASSUME j.op \in {"import", "markRecurring"}, Browser!Live(j.id)  PROVE Browser!Live(j.id)'
  <2>1. j.id \in DOMAIN Documents  BY <1>3, TakenAre DEF CallOK, Makers
  <2>2. Browser!KindOf[j.id] \in {"batch", "recurrence"}  BY <1>3 DEF CallOK, Given
  <2>3. k.op \in Erasers => Browser!KindOf[k.id] \notin {"batch", "recurrence"}
    BY DEF CallOK, Given, Erasers, Renamers, Browser!Ids
  <2> QED  BY <1>3, <2>1, <2>2, <2>3, WhatChanges
<1> QED  BY <1>1, <1>2, <1>3 DEF CallOK, FreshOK, Makers, Inserts, Browser!Taken

\* A write leaves the knowledge of another call as it was.
LEMMA OthersStay ==
    ASSUME StoredOK, NEW k, CallOK(k), NEW w \in k.todo, w.do \in {"set", "insert", "erase"},
           Effect(k, w), NEW j, CallOK(j), ApartOK(k, j), ApartOK(j, k)
    PROVE  CallOK(j)'
<1>1. Given(j)'  BY DEF CallOK, Given, PatchOK
<1>2. \A n \in ArgNames(j)' : Held(j, n)'  BY HeldStays DEF CallOK, ArgNames
<1>3. \A n \in Browser!Reshaped(j)' : doc'[n] # None
  BY ReshapedIs, WhatChanges DEF CallOK, Browser!Reshaped
<1>4. \A v \in j.todo : WriteOK(j, v)'  BY PlannedStays
<1>5. TodoOK(j)' /\ FreshOK(j)' /\ CoverOK(j)'  BY FreshStays, CoverStays DEF CallOK, TodoOK
<1> QED  BY <1>1, <1>2, <1>3, <1>4, <1>5 DEF CallOK

\* What is left of a call after one of its writes.
LEMMA LeftOver ==
    ASSUME NEW k, CallOK(k), NEW w \in k.todo, NEW j, j = [k EXCEPT !.todo = @ \ {w}]
    PROVE  /\ j.op = k.op /\ j.id = k.id /\ j.arg = k.arg /\ j.phase = k.phase
           /\ j.todo = k.todo \ {w} /\ Given(j) /\ TodoOK(j)
           /\ ArgNames(j) = ArgNames(k) /\ Browser!Reshaped(j) = Browser!Reshaped(k)
           /\ Browser!Taken(j) = Browser!Taken(k)
           /\ \A n : MayHold(j, n) <=> MayHold(k, n)
           /\ \A v : WriteOK(j, v) <=> WriteOK(k, v)
<1>1. /\ j.op = k.op /\ j.id = k.id /\ j.arg = k.arg /\ j.phase = k.phase
      /\ j.todo = k.todo \ {w}
      /\ j = [op |-> j.op, id |-> j.id, arg |-> j.arg, phase |-> j.phase, todo |-> j.todo]
  BY DEF CallOK, Given
<1>2. Given(j)  BY <1>1 DEF CallOK, Given
<1>3. TodoOK(j)  BY <1>1 DEF CallOK, TodoOK
<1>4. \A n : MayHold(j, n) <=> MayHold(k, n)  BY <1>1 DEF MayHold
<1>5. ArgNames(j) = ArgNames(k)  BY <1>1 DEF ArgNames
<1>6. Browser!Reshaped(j) = Browser!Reshaped(k) /\ Browser!Taken(j) = Browser!Taken(k)
  BY <1>1 DEF Browser!Reshaped, Browser!Taken
<1>7. \A v : WriteOK(j, v) <=> WriteOK(k, v)
  <2>1. \A v : SetOK(j, v) <=> SetOK(k, v)  BY <1>1 DEF SetOK
  <2>2. \A v : InsertOK(j, v) <=> InsertOK(k, v)  BY <1>1, <1>6 DEF InsertOK
  <2>3. \A v : EraseOK(j, v) <=> EraseOK(k, v)  BY <1>1 DEF EraseOK
  <2>4. \A n : Held(j, n) <=> Held(k, n)  BY <1>4 DEF Held
  <2> QED  BY <1>1, <2>1, <2>2, <2>3, <2>4 DEF WriteOK
<1> QED  BY <1>1, <1>2, <1>3, <1>4, <1>5, <1>6, <1>7

\* The same after a step.
LEMMA LeftOverNext ==
    ASSUME NEW k, CallOK(k), NEW w \in k.todo, NEW j, j = [k EXCEPT !.todo = @ \ {w}]
    PROVE  /\ Given(j)' /\ TodoOK(j)'
           /\ \A n : Held(k, n)' => Held(j, n)'
           /\ \A v : WriteOK(k, v)' => WriteOK(j, v)'
<1>1. j.op = k.op /\ j.id = k.id /\ j.arg = k.arg /\ j.phase = k.phase /\ Given(j) /\ TodoOK(j)
  BY LeftOver
<1>2. Given(j)' /\ TodoOK(j)'  BY <1>1 DEF Given, TodoOK, PatchOK
<1>3. \A n : Held(k, n)' => Held(j, n)'  BY <1>1 DEF Held, MayHold
<1>4. \A v : WriteOK(k, v)' => WriteOK(j, v)'
  <2>1. Browser!Taken(j)' = Browser!Taken(k)'  BY <1>1 DEF Browser!Taken
  <2>2. \A v : SetOK(k, v)' => SetOK(j, v)'  BY <1>1 DEF SetOK
  <2>3. \A v : InsertOK(k, v)' => InsertOK(j, v)'  BY <1>1, <2>1 DEF InsertOK
  <2>4. \A v : EraseOK(k, v)' => EraseOK(j, v)'  BY <1>1 DEF EraseOK
  <2> QED  BY <1>1, <1>3, <2>2, <2>3, <2>4 DEF WriteOK
<1> QED  BY <1>2, <1>3, <1>4

\* What a call wrote down, it still holds.
LEMMA OwnHeld ==
    ASSUME StoredOK, NEW k, CallOK(k), NEW w \in k.todo, w.do \in {"set", "insert", "erase"},
           Effect(k, w), NEW n, Held(k, n), w.do # "erase" \/ n \in ArgNames(k)
    PROVE  Held(k, n)'
<1>1. n \in DOMAIN Documents /\ MayHold(k, n)' /\ contested' = contested
  BY DEF Held, MayHold, Effect
<1>2. Browser!Live(n) => Browser!Live(n)'
  <2>1. SUFFICES ASSUME Browser!Live(n), ~Browser!Live(n)' PROVE FALSE  OBVIOUS
  <2>2. n = k.id /\ w.do = "erase" /\ k.op \in Erasers  BY <1>1, <2>1, WhatChanges
  <2> QED  BY <2>2 DEF ArgNames, Erasers, Renamers, CallOK, Given
<1> QED  BY <1>1, <1>2 DEF Held

\* The writes a call has left are as sound after one of them is made.
LEMMA OwnWrites ==
    ASSUME StoredOK, NEW k, CallOK(k), NEW w \in k.todo, w.do \in {"set", "insert", "erase"},
           Effect(k, w), NEW v \in k.todo, v # w
    PROVE  WriteOK(k, v)'
<1>1. /\ WriteOK(k, v) /\ WriteOK(k, w) /\ w.do # "erase" /\ v.do # "erase"
      /\ k.op \notin {"updateCategory", "updateGroup"}
      /\ v.do = "insert" /\ w.do = "insert" => v.id # w.id
  BY DEF CallOK, TodoOK
<1>2. \A n \in WriteNames(v) : Held(k, n)'  BY <1>1, OwnHeld DEF WriteOK
<1>3. v.do = "set" => SetOK(k, v)'
  <2>1. v.do = "set" => doc'[v.id] # None  BY <1>1, WhatChanges DEF WriteOK, SetOK
  <2> QED  BY <1>1, <2>1 DEF WriteOK, SetOK, SameAmounts
<1>4. ASSUME v.do = "insert"  PROVE InsertOK(k, v)'
  <2>1. DOMAIN Drafts \subseteq DOMAIN Documents  BY WritesAssumption DEF Browser!InUse
  <2>2. InsertOK(k, v) /\ v.id \in DOMAIN Documents /\ doc[v.id] = None /\ v.id # w.id
    BY <1>1, <1>4, <2>1 DEF WriteOK, InsertOK, SetOK
  <2>3. doc'[v.id] = None  BY <2>2, WhatChanges
  <2>4. ASSUME Browser!KindOf[v.id] = "category"  PROVE Suits(v.id, v.new)'
    <3> PICK d : d = v.new  OBVIOUS
    <3>1. /\ "parent" \in DOMAIN d /\ d.parent \in Browser!Ref("group") /\ Suits(v.id, d)
          /\ contested' = contested
      BY <2>2, <2>4 DEF InsertOK, Browser!Document, Effect
    <3>2. ASSUME Browser!GroupFits(d), d.parent # None  PROVE Browser!GroupFits(d)'
      <4>1. /\ d.parent \in Browser!Ids("group") /\ d.parent \in DOMAIN Documents
            /\ Browser!Live(d.parent) /\ doc[d.parent].categoryKind = d.categoryKind
        BY <3>1, <3>2 DEF Browser!Ref, Browser!Ids, Browser!GroupFits
      <4>2. d.parent # w.id
        <5>1. CASE w.do = "insert"  BY <4>1, <5>1 DEF Effect, Browser!Live
        <5>2. CASE w.do = "set"  BY <1>1, <4>1, <5>2 DEF WriteOK, SetOK, Browser!Ids
        <5> QED  BY <1>1, <5>1, <5>2
      <4>3. Browser!Live(d.parent)' /\ doc'[d.parent] = doc[d.parent]  BY <4>1, <4>2, WhatChanges
      <4> QED  BY <4>1, <4>3 DEF Browser!GroupFits
    <3>3. Suits(v.id, d)'  BY <3>1, <3>2 DEF Suits, Browser!GroupFits
    <3> QED  BY <3>3
  <2> QED  BY <2>2, <2>3, <2>4 DEF InsertOK, Browser!Taken
<1> QED  BY <1>1, <1>2, <1>3, <1>4 DEF WriteOK, WriteNames

\* What a call has cleared stays clear, or is still to be rewritten.
LEMMA OwnCover ==
    ASSUME StoredOK, NEW k, CallOK(k), NEW w \in k.todo, w.do \in {"set", "insert", "erase"},
           Effect(k, w), NEW j, j = [k EXCEPT !.todo = @ \ {w}]
    PROVE  CoverOK(j)'
<1>1. /\ j.op = k.op /\ j.id = k.id /\ j.phase = k.phase /\ j.todo = k.todo \ {w}
      /\ Cleared(j) = Cleared(k)
  <2>1. j.op = k.op /\ j.id = k.id /\ j.phase = k.phase /\ j.todo = k.todo \ {w}  BY LeftOver
  <2> QED  BY <2>1 DEF Cleared
<1>2. SUFFICES ASSUME k.id \notin contested
               PROVE  /\ \A kind \in Cleared(k) : \A y \in Browser!Of(kind)' :
                            LET fields == Browser!Where(doc'[y], k.id)
                            IN  fields = {} \/ Rewrites(j, y, fields)
                      /\ k.op = "deleteCategory" /\ k.phase >= 5 =>
                            \A b \in budget' : b[1] = k.id => Browser!Unbook(b) \in j.todo
  BY <1>1 DEF CoverOK, Effect, Cleared, Rewrites
<1>3. ASSUME NEW kind \in Cleared(k), NEW y \in Browser!Of(kind)', Browser!Where(doc'[y], k.id) # {}
      PROVE  Rewrites(j, y, Browser!Where(doc'[y], k.id))
  <2>1. /\ y \in DOMAIN Documents /\ Browser!Live(y)' /\ doc'[y].kind = kind
    <3>1. DOMAIN doc' = DOMAIN Documents  BY LiveIs DEF Effect
    <3> QED  BY <1>3, <3>1 DEF Browser!Of
  <2>2. \A z \in Browser!Of(kind) :
           \/ Browser!Where(doc[z], k.id) = {}
           \/ Rewrites(k, z, Browser!Where(doc[z], k.id))
    BY <1>2, <1>3 DEF CallOK, CoverOK
  <2>3. CASE y # w.id
    <3>1. doc'[y] = doc[y] /\ y \in Browser!Of(kind)
      BY <2>1, <2>3, WhatChanges, LiveIs DEF Browser!Of
    <3>2. Rewrites(k, y, Browser!Where(doc'[y], k.id))  BY <1>3, <2>2, <3>1
    <3> QED  BY <1>1, <2>3, <3>2 DEF Rewrites
  <2>4. CASE y = w.id
    <3>1. k.op \in Renamers \cup {"deleteGroup"} /\ k.id # None
      BY <1>3, ClearedReshapes, ReshapedIs, NoDocument DEF CallOK
    <3>2. w.do = "set"
      BY <2>1, <2>4, <3>1 DEF Effect, CallOK, WriteOK, InsertOK, Makers, Renamers
    <3>3. k.id \notin WriteNames(w)
      <4>1. CASE k.op = "deleteGroup"  BY <4>1 DEF CallOK, WriteOK, Held, MayHold
      <4>2. CASE k.op \in Renamers  BY <3>2, <4>2 DEF CallOK, WriteOK, SetOK, WriteNames
      <4> QED  BY <3>1, <4>1, <4>2
    <3>4. /\ Browser!Live(y)
          /\ Browser!Where(doc'[y], k.id) = Browser!Where(doc[y], k.id) \ DOMAIN w.set
      BY <1>3, <2>1, <2>4, <3>1, <3>3 DEF Effect
    <3>5. y \in Browser!Of(kind)
      <4>1. Browser!KindOf[y] \in Browser!Kinds /\ doc'[y] \in Browser!Document(Browser!KindOf[y])
        BY <2>1, <2>4 DEF Effect
      <4>2. Browser!KindOf[y] = kind  BY <2>1, <4>1, FieldsOf
      <4> QED  BY <2>1, <3>4, <4>2, LiveIs DEF Browser!Ids
    <3>6. Rewrites(k, y, Browser!Where(doc[y], k.id))  BY <1>3, <2>2, <3>4, <3>5
    <3>7. PICK v \in k.todo : /\ v.do = "set" /\ v.id = y
                              /\ Browser!Where(doc[y], k.id) \subseteq DOMAIN v.set
      BY <3>6 DEF Rewrites
    <3>8. v # w  BY <1>3, <3>4, <3>7
    <3> QED  BY <1>1, <3>4, <3>7, <3>8 DEF Rewrites
  <2> QED  BY <2>3, <2>4
<1>4. k.op = "deleteCategory" /\ k.phase >= 5 =>
         \A b \in budget' : b[1] = k.id => Browser!Unbook(b) \in j.todo
  BY <1>1, <1>2 DEF CallOK, CoverOK, Effect, Browser!Unbook
<1> QED  BY <1>3, <1>4

\* The documents a call is about to enter: the one it has written is there.
LEMMA OwnFresh ==
    ASSUME StoredOK, NEW k, CallOK(k), NEW w \in k.todo, w.do \in {"set", "insert", "erase"},
           Effect(k, w), NEW j, j = [k EXCEPT !.todo = @ \ {w}]
    PROVE  FreshOK(j)'
<1>1. /\ j.op = k.op /\ j.id = k.id /\ j.arg = k.arg /\ j.phase = k.phase
      /\ j.todo = k.todo \ {w}
  BY LeftOver
<1>2. ~(k.op \in Makers /\ k.phase = 1)  BY DEF CallOK, TodoOK
<1>3. ASSUME k.op = "import", k.phase = 2, NEW r \in k.arg  PROVE doc'[r[1]] = None
  <2>1. w.id = k.id  BY <1>3 DEF CallOK, TodoOK
  <2>2. Browser!KindOf[k.id] = "batch" /\ r \in Browser!Rows  BY <1>3 DEF CallOK, Given
  <2>3. Browser!KindOf[r[1]] = "transaction" /\ r[1] \in DOMAIN Documents
    BY <2>2, RowsAre DEF Browser!Ids
  <2>4. doc[r[1]] = None  BY <1>3 DEF CallOK, FreshOK
  <2> QED  BY <2>1, <2>2, <2>3, <2>4, WhatChanges
<1>4. ASSUME k.op \in {"import", "markRecurring"}, k.phase >= 2
      PROVE  Browser!Live(k.id)' \/ (k.phase = 2 /\ Inserts(j, k.id))
  <2>1. Browser!Live(k.id) => Browser!Live(k.id)'
    BY <1>4, TakenAre, WhatChanges DEF CallOK, Makers, Erasers, Renamers
  <2>2. ASSUME k.phase = 2, Inserts(k, k.id)  PROVE Browser!Live(k.id)' \/ Inserts(j, k.id)
    BY <1>1, <2>2 DEF Inserts, Effect
  <2> QED  BY <1>4, <2>1, <2>2 DEF CallOK, FreshOK
<1> QED  BY <1>1, <1>2, <1>3, <1>4 DEF FreshOK, Inserts

\* A call that has made one of its writes knows what it knew.
LEMMA OwnStays ==
    ASSUME StoredOK, NEW k, CallOK(k), NEW w \in k.todo, w.do \in {"set", "insert", "erase"},
           Effect(k, w), NEW j, j = [k EXCEPT !.todo = @ \ {w}]
    PROVE  CallOK(j)'
<1>1. /\ j.op = k.op /\ j.id = k.id /\ j.arg = k.arg /\ j.todo = k.todo \ {w}
      /\ ArgNames(j) = ArgNames(k) /\ Browser!Reshaped(j) = Browser!Reshaped(k)
  BY LeftOver
<1>2. /\ Given(j)' /\ TodoOK(j)' /\ \A n : Held(k, n)' => Held(j, n)'
      /\ \A v : WriteOK(k, v)' => WriteOK(j, v)'
  BY LeftOverNext
<1>3. \A n \in ArgNames(j)' : Held(j, n)'
  <2>1. \A n \in ArgNames(k) : Held(k, n)'  BY OwnHeld DEF CallOK
  <2> QED  BY <1>1, <1>2, <2>1 DEF ArgNames
<1>4. \A n \in Browser!Reshaped(j)' : doc'[n] # None
  <2>1. \A n \in Browser!Reshaped(k) : doc'[n] # None  BY ReshapedIs, WhatChanges DEF CallOK
  <2> QED  BY <1>1, <2>1 DEF Browser!Reshaped
<1>5. \A v \in j.todo : WriteOK(j, v)'
  <2>1. \A v \in k.todo \ {w} : WriteOK(k, v)'  BY OwnWrites
  <2> QED  BY <1>1, <1>2, <2>1
<1>6. FreshOK(j)' /\ CoverOK(j)'  BY OwnFresh, OwnCover
<1> QED  BY <1>2, <1>3, <1>4, <1>5, <1>6 DEF CallOK

\* Splits with the same amounts have the same sum.
LEMMA SameTotal ==
    ASSUME NEW a \in Seq(Browser!Share), NEW b \in Seq(Browser!Share), SameAmounts(a, b)
    PROVE  Browser!Total(a) = Browser!Total(b) /\ (a = <<>> <=> b = <<>>)
<1>1. [i \in DOMAIN a |-> a[i].amount] = [i \in DOMAIN b |-> b[i].amount]  BY DEF SameAmounts
<1>2. a = <<>> <=> b = <<>>  BY DEF SameAmounts
<1> QED  BY <1>1, <1>2 DEF Browser!Total

\* A write leaves the splits of every transaction in order, or is outdated.
LEMMA SplitsAfter ==
    ASSUME StoredOK, NEW k, CallOK(k), NEW w \in k.todo, w.do \in {"set", "insert", "erase"},
           Effect(k, w),
           outdated' = IF w.do = "set" /\ w.seen # None /\ doc[w.id] # Gone
                           /\ w.seen # Browser!Splitting(w.id)
                       THEN outdated \cup {w.id} ELSE outdated
    PROVE  Browser!SplitsAddUp'
<1>1. SUFFICES ASSUME NEW t \in DOMAIN Documents, Browser!Live(t)', doc'[t].kind = "transaction",
                      t \notin outdated'
               PROVE  Browser!SplitsFit(doc'[t])
  <2>1. DOMAIN doc' = DOMAIN Documents  BY LiveIs DEF Effect
  <2> QED  BY <2>1 DEF Browser!SplitsAddUp, Browser!Of, Browser!SplitsFit
<1>2. t \notin outdated  BY <1>1
<1>3. CASE t # w.id
  <2>1. doc'[t] = doc[t] /\ Browser!Live(t)  BY <1>1, <1>3, WhatChanges
  <2>2. t \in Browser!Of("transaction")  BY <1>1, <2>1, LiveIs DEF Browser!Of
  <2> QED  BY <1>2, <2>1, <2>2 DEF StoredOK, Browser!SplitsAddUp
<1>4. CASE t = w.id
  <2>1. Browser!KindOf[t] = "transaction"
    <3>1. Browser!KindOf[t] \in Browser!Kinds /\ doc'[t] \in Browser!Document(Browser!KindOf[t])
      BY <1>1, <1>4 DEF Effect
    <3> QED  BY <1>1, <3>1, FieldsOf
  <2>2. CASE w.do = "insert"
    <3>1. doc'[t] = w.new  BY <1>4, <2>2 DEF Effect
    <3> QED  BY <1>4, <2>1, <2>2, <3>1 DEF CallOK, WriteOK, InsertOK
  <2>3. CASE w.do = "set"
    <3>1. Browser!Live(t) /\ doc'[t] = Browser!Patched(doc[t], w.set) /\ SetOK(k, w)
      BY <1>1, <1>4, <2>3 DEF Effect, CallOK, WriteOK
    <3>2. /\ doc[t] \in Browser!Document("transaction") /\ "transaction" \in Browser!Kinds
          /\ PatchOK("transaction", w.set)
      BY <1>4, <2>1, <3>1, LiveIs DEF SetOK
    <3>3. /\ \A f \in {"amount", "splits"} :
                doc'[t][f] = IF f \in DOMAIN w.set THEN w.set[f] ELSE doc[t][f]
      <4>1. {"amount", "splits"} \subseteq DOMAIN doc[t]  BY <3>2 DEF Browser!Document
      <4> QED  BY <3>1, <3>2, <4>1, PatchedIs
    <3>4. Browser!SplitsFit(doc[t])
      <4>1. t \in Browser!Of("transaction")  BY <2>1, <3>1, LiveIs DEF Browser!Ids
      <4> QED  BY <1>2, <4>1 DEF StoredOK, Browser!SplitsAddUp
    <3>5. CASE "amount" \in DOMAIN w.set
      <4>1. /\ "splits" \in DOMAIN w.set /\ Browser!SplitsFit(w.set)  BY <3>1, <3>5 DEF SetOK
      <4> QED  BY <3>3, <3>5, <4>1 DEF Browser!SplitsFit
    <3>6. CASE "amount" \notin DOMAIN w.set /\ "splits" \notin DOMAIN w.set
      BY <3>3, <3>4, <3>6 DEF Browser!SplitsFit
    <3>7. CASE "amount" \notin DOMAIN w.set /\ "splits" \in DOMAIN w.set
      <4>1. w.seen # None /\ SameAmounts(w.set.splits, w.seen.splits)  BY <3>1, <3>7 DEF SetOK
      <4>2. w.seen = Browser!Splitting(t)
        BY <1>1, <1>4, <2>3, <3>1, <4>1 DEF Browser!Live
      <4>3. w.seen.splits = doc[t].splits  BY <4>2 DEF Browser!Splitting
      <4>4. w.set.splits \in Seq(Browser!Share) /\ doc[t].splits \in Seq(Browser!Share)
        BY <3>2, <3>7 DEF PatchOK, Values, Browser!Document
      <4>5. /\ Browser!Total(w.set.splits) = Browser!Total(doc[t].splits)
            /\ w.set.splits = <<>> <=> doc[t].splits = <<>>
        BY <4>1, <4>3, <4>4, SameTotal
      <4> QED  BY <3>3, <3>4, <3>7, <4>5 DEF Browser!SplitsFit
    <3> QED  BY <3>5, <3>6, <3>7
  <2>4. w.do # "erase"  BY <1>1, <1>4 DEF Effect
  <2> QED  BY <2>2, <2>3, <2>4
<1> QED  BY <1>3, <1>4

\* A write leaves no name without a document, unless it is contested.
LEMMA NamesAfter ==
    ASSUME StoredOK, NEW k, CallOK(k), NEW w \in k.todo, w.do \in {"set", "insert", "erase"},
           Effect(k, w), NEW id \in DOMAIN Documents, Browser!Live(id)',
           NEW n \in Browser!Named(doc'[id]), n \notin contested
    PROVE  Browser!Live(n)'
<1>1. ASSUME n \in DOMAIN Documents, Browser!Live(n), w.do # "erase"  PROVE Browser!Live(n)'
  BY <1>1, WhatChanges
<1>2. CASE id # w.id
  <2>1. doc'[id] = doc[id] /\ Browser!Live(id)  BY <1>2, WhatChanges
  <2>2. n \in DOMAIN Documents /\ Browser!Live(n)  BY <2>1, StoredNames
  <2>3. CASE w.do = "erase"
    <3>1. w.id \notin contested => w.id # n  BY <2>1, <2>3, EraseUnnamed
    <3> QED  BY <2>2, <3>1, WhatChanges
  <2> QED  BY <1>1, <2>2, <2>3
<1>3. CASE id = w.id
  <2>1. w.do # "erase"  BY <1>3 DEF Effect
  <2>2. CASE n \in WriteNames(w)
    <3>1. Held(k, n)  BY <2>2 DEF CallOK, WriteOK
    <3> QED  BY <1>1, <2>1, <3>1 DEF Held
  <2>3. CASE n \notin WriteNames(w)
    <3>1. n # None  BY DEF Browser!Named
    <3>2. Browser!Where(doc'[id], n) # {}  BY <3>1, NamedWhere
    <3>3. Browser!Live(id) /\ Browser!Where(doc[id], n) # {}
      BY <1>3, <2>3, <3>1, <3>2 DEF Effect
    <3>4. n \in Browser!Named(doc[id])  BY <3>1, <3>3, NamedWhere
    <3>5. n \in DOMAIN Documents /\ Browser!Live(n)  BY <3>3, <3>4, StoredNames
    <3> QED  BY <1>1, <2>1, <3>5
  <2> QED  BY <2>2, <2>3
<1> QED  BY <1>2, <1>3

\* A write leaves every category in a group of its kind, unless it is contested.
LEMMA GroupsAfter ==
    ASSUME StoredOK, NEW k, CallOK(k), NEW w \in k.todo, w.do \in {"set", "insert", "erase"},
           Effect(k, w), NEW id \in DOMAIN Documents, Browser!Live(id)',
           "parent" \in DOMAIN doc'[id], {id, doc'[id].parent} \cap contested = {}
    PROVE  Browser!GroupFits(doc[id])'
<1> PICK d : d = doc'[id]  OBVIOUS
<1>1. Browser!KindOf[id] = "category" /\ d \in Browser!Document("category")
  <2>1. Browser!KindOf[id] \in Browser!Kinds /\ d \in Browser!Document(Browser!KindOf[id])
    <3>1. CASE id = w.id  BY <3>1 DEF Effect
    <3>2. CASE id # w.id
      <4>1. doc'[id] = doc[id] /\ Browser!Live(id)  BY <3>2, WhatChanges
      <4> QED  BY <4>1, LiveIs
    <3> QED  BY <3>1, <3>2
  <2>2. "parent" \in Fields(Browser!KindOf[id])
    <3>1. DOMAIN d = {"kind"} \cup Fields(Browser!KindOf[id])  BY <2>1, FieldsOf
    <3>2. "parent" \in DOMAIN d  OBVIOUS
    <3> QED  BY <3>1, <3>2
  <2> QED  BY <2>1, <2>2 DEF Fields, Browser!Kinds
<1>2. SUFFICES ASSUME d.parent # None  PROVE Browser!GroupFits(d)'
  BY DEF Browser!GroupFits
<1> PICK g : g = d.parent  OBVIOUS
<1>3. g \in Browser!Ids("group") /\ g \in DOMAIN Documents /\ g # id
  BY <1>1, <1>2 DEF Browser!Document, Browser!Ref, Browser!Ids
<1>4. Browser!GroupFits(d)
  <2>1. CASE id # w.id
    <3>1. doc'[id] = doc[id] /\ Browser!Live(id)  BY <2>1, WhatChanges
    <3> QED  BY <3>1, LiveIs DEF StoredOK, Browser!ReferencesResolve
  <2>2. CASE id = w.id /\ w.do = "insert"
    <3>1. d = w.new /\ Suits(id, d)  BY <1>1, <2>2 DEF Effect, CallOK, WriteOK, InsertOK
    <3> QED  BY <3>1 DEF Suits
  <2>3. CASE id = w.id /\ w.do = "set"
    <3>1. Browser!Live(id) /\ d = Browser!Patched(doc[id], w.set)  BY <2>3 DEF Effect
    <3>2. Suits(id, d)  BY <1>1, <2>3, <3>1 DEF CallOK, WriteOK, SetOK
    <3> QED  BY <3>2 DEF Suits
  <2>4. ~(id = w.id /\ w.do = "erase")  BY DEF Effect
  <2> QED  BY <2>1, <2>2, <2>3, <2>4
<1>5. Browser!Live(g) /\ doc[g].categoryKind = d.categoryKind
  BY <1>2, <1>4 DEF Browser!GroupFits, Browser!Document
<1>6. Browser!Live(g)' /\ doc'[g].categoryKind = d.categoryKind
  <2>1. CASE g # w.id  BY <1>3, <1>5, <2>1, WhatChanges
  <2>2. CASE g = w.id
    <3>1. doc'[id] = doc[id] /\ Browser!Live(id)  BY <1>3, <2>2, WhatChanges
    <3>2. w.do # "erase"
      <4>1. g \in Browser!Named(doc[id])
        BY <1>1, <1>2, <3>1 DEF Browser!Named, Browser!Naming, Browser!Names, Browser!Document
      <4> QED  BY <2>2, <3>1, <4>1, EraseUnnamed
    <3>3. w.do = "set"  BY <1>5, <2>2, <3>2 DEF Effect, Browser!Live
    <3>4. /\ g = k.id /\ w.set = [categoryKind |-> k.arg]
          /\ doc[g].categoryKind = k.arg \/ Browser!Members(g) = {}
      BY <1>3, <1>5, <2>2, <3>3 DEF CallOK, WriteOK, SetOK, Browser!Ids
    <3>5. id \in Browser!Members(g)
      BY <1>1, <3>1, LiveIs DEF Browser!Members, Browser!Ids
    <3>6. doc[g].categoryKind = k.arg  BY <3>4, <3>5
    <3>7. doc'[g] = Browser!Patched(doc[g], w.set)  BY <1>5, <2>2, <3>3 DEF Effect
    <3>8. doc'[g].categoryKind = k.arg
      <4>1. doc[g] \in Browser!Document("group") /\ "group" \in Browser!Kinds
        BY <1>3, <1>5, LiveIs DEF Browser!Ids
      <4>2. PatchOK("group", w.set)
        BY <1>3, <2>2, <3>3 DEF CallOK, WriteOK, SetOK, Browser!Ids
      <4>3. "categoryKind" \in DOMAIN doc[g]  BY <4>1 DEF Browser!Document
      <4> QED  BY <3>4, <3>7, <4>1, <4>2, <4>3, PatchedIs
    <3>9. Browser!Live(g)'  BY <1>5, <2>2, <3>3 DEF Effect
    <3> QED  BY <1>5, <3>6, <3>8, <3>9
  <2> QED  BY <2>1, <2>2
<1> QED  BY <1>6 DEF Browser!GroupFits

\* What is stored after a write is in order.
LEMMA StoredAfter ==
    ASSUME StoredOK, NEW k, CallOK(k), NEW w \in k.todo, w.do \in {"set", "insert", "erase"},
           Effect(k, w), writing' = [u \in Slot |-> writing'[u]],
           outdated' = IF w.do = "set" /\ w.seen # None /\ doc[w.id] # Gone
                           /\ w.seen # Browser!Splitting(w.id)
                       THEN outdated \cup {w.id} ELSE outdated
    PROVE  StoredOK'
<1>1. doc' = [id \in DOMAIN Documents |-> doc'[id]] /\ DOMAIN doc' = DOMAIN Documents
  BY LiveIs DEF Effect
<1>2. \A id \in DOMAIN Documents : Browser!Live(id)' =>
         /\ Browser!KindOf[id] \in Browser!Kinds
         /\ doc'[id] \in Browser!Document(Browser!KindOf[id])
  <2>1. \A id \in DOMAIN Documents : id # w.id =>
           doc'[id] = doc[id] /\ (Browser!Live(id)' <=> Browser!Live(id))
    BY WhatChanges
  <2> QED  BY <2>1, LiveIs DEF Effect
<1>3. Browser!ReferencesResolve'
  <2>1. ASSUME NEW b \in budget', Browser!KindOf[b[1]] = "category", b[1] \notin contested'
        PROVE  Browser!Live(b[1])'
    <3>1. /\ b \in budget /\ b[1] \notin contested
          /\ b[1] \in DOMAIN Documents /\ Browser!Live(b[1])
      BY <2>1 DEF Effect, StoredOK, Browser!Ids, Browser!ReferencesResolve
    <3>2. ~(b[1] = w.id /\ w.do = "erase")  BY <2>1, <3>1, EraseUnnamed
    <3> QED  BY <3>1, <3>2, WhatChanges
  <2>2. contested' = contested  BY DEF Effect
  <2>3. \A id \in DOMAIN Documents : Browser!Live(id)' =>
           \A n \in Browser!Named(doc'[id]) \ contested : Browser!Live(n)'
    BY NamesAfter
  <2>4. ASSUME NEW id \in DOMAIN Documents, Browser!Live(id)', "parent" \in DOMAIN doc'[id],
               {id, doc'[id].parent} \cap contested = {}
        PROVE  Browser!GroupFits(doc[id])'
    BY <2>4, GroupsAfter
  <2> QED  BY <1>1, <2>1, <2>2, <2>3, <2>4 DEF Browser!ReferencesResolve
<1>4. Browser!SplitsAddUp'  BY SplitsAfter
<1>5. \A b \in budget' : b[1] \in Browser!Ids("category") \cup Browser!Ids("group")
  BY DEF Effect, StoredOK
<1> QED  BY <1>1, <1>2, <1>3, <1>4, <1>5 DEF StoredOK

\* A call that has made a write to the budgets knows what it knew.
LEMMA OwnStaysBooked ==
    ASSUME doc' = doc, contested' = contested, NEW k, CallOK(k), NEW w \in k.todo,
           w.do \in {"book", "unbook"}, Browser!WriteBudget(w),
           NEW j, j = [k EXCEPT !.todo = @ \ {w}]
    PROVE  CallOK(j)'
<1>1. /\ j.op = k.op /\ j.id = k.id /\ j.arg = k.arg /\ j.phase = k.phase
      /\ j.todo = k.todo \ {w} /\ WriteOK(k, w)
      /\ ArgNames(j) = ArgNames(k) /\ Browser!Reshaped(j) = Browser!Reshaped(k)
  BY LeftOver DEF CallOK
<1>2. /\ w.do = "book" => k.op # "deleteCategory"
      /\ w.do = "unbook" => w = Browser!Unbook(w.budget) /\ budget' = budget \ {w.budget}
      /\ w.do \notin {"set", "insert"}
  BY <1>1 DEF WriteOK, Browser!Unbook, Browser!WriteBudget
<1>3. CallOK(k)'  BY <1>2, CallStays
<1>4. /\ Given(j)' /\ TodoOK(j)' /\ \A n : Held(k, n)' => Held(j, n)'
      /\ \A v : WriteOK(k, v)' => WriteOK(j, v)'
  BY LeftOverNext
<1>5. /\ \A n \in ArgNames(j)' : Held(j, n)'
      /\ \A n \in Browser!Reshaped(j)' : doc'[n] # None
      /\ \A v \in j.todo : WriteOK(j, v)'
  BY <1>1, <1>3, <1>4 DEF CallOK, ArgNames, Browser!Reshaped
<1>6. FreshOK(j)'
  <2>1. \A id : Inserts(k, id) => Inserts(j, id)  BY <1>1, <1>2 DEF Inserts
  <2>2. Browser!Taken(j)' = Browser!Taken(k)'  BY <1>1 DEF Browser!Taken
  <2> QED  BY <1>1, <1>3, <2>1, <2>2 DEF CallOK, FreshOK, Inserts
<1>7. CoverOK(j)'
  <2>1. \A y, fields : Rewrites(k, y, fields) => Rewrites(j, y, fields)
    BY <1>1, <1>2 DEF Rewrites
  <2>2. Cleared(j) = Cleared(k)  BY <1>1 DEF Cleared
  <2>3. k.op = "deleteCategory" =>
           \A b \in budget' : Browser!Unbook(b) \in k.todo => Browser!Unbook(b) \in j.todo
    BY <1>1, <1>2 DEF Browser!Unbook
  <2> QED  BY <1>1, <1>3, <2>1, <2>2, <2>3 DEF CallOK, CoverOK, Cleared, Rewrites
<1> QED  BY <1>4, <1>5, <1>6, <1>7 DEF CallOK

\* A new budget is of a category no other call is about to remove, unless it is
\* contested.
LEMMA OthersStayBooked ==
    ASSUME doc' = doc, contested' = contested, NEW k, CallOK(k), NEW w \in k.todo,
           w.do \in {"book", "unbook"}, Browser!WriteBudget(w),
           NEW j, CallOK(j), ApartOK(j, k)
    PROVE  CallOK(j)'
<1>1. ASSUME j.op = "deleteCategory", j.id \notin contested, NEW b \in budget' \ budget, b[1] = j.id
      PROVE  FALSE
  <2>1. w.do = "book" /\ b = w.budget  BY <1>1 DEF Browser!WriteBudget
  <2>2. Held(k, j.id)
    <3>1. j.id \in Browser!Ids("category")  BY <1>1 DEF CallOK, Given
    <3> QED  BY <1>1, <2>1, <3>1 DEF CallOK, WriteOK, WriteNames
  <2>3. j.id \in Browser!Reshaped(j)  BY <1>1 DEF Browser!Reshaped
  <2> QED  BY <1>1, <2>2, <2>3, SharedIsContested
<1> QED  BY <1>1, CallStays

\* Budgets that come and go are of categories that are there, or contested.
LEMMA StoredAfterBooked ==
    ASSUME StoredOK, UNCHANGED <<doc, contested, outdated>>, NEW k, CallOK(k), NEW w \in k.todo,
           w.do \in {"book", "unbook"}, Browser!WriteBudget(w),
           writing' = [u \in Slot |-> writing'[u]]
    PROVE  StoredOK'
<1>1. /\ \A n : Browser!Live(n)' <=> Browser!Live(n)
      /\ \A d : Browser!GroupFits(d)' <=> Browser!GroupFits(d)
      /\ \A kind : Browser!Of(kind)' = Browser!Of(kind)
  BY SameDocuments
<1>2. \A b \in budget' :
         /\ b[1] \in Browser!Ids("category") \cup Browser!Ids("group")
         /\ Browser!KindOf[b[1]] = "category" => b[1] \in contested \/ Browser!Live(b[1])
  <2>1. w.do = "book" => /\ w.budget[1] \in Browser!Ids("category") \cup Browser!Ids("group")
                         /\ Browser!KindOf[w.budget[1]] = "category" => Held(k, w.budget[1])
    BY DEF CallOK, WriteOK, WriteNames, Browser!Ids
  <2>2. budget' \subseteq budget \cup (IF w.do = "book" THEN {w.budget} ELSE {})
    BY DEF Browser!WriteBudget
  <2> QED  BY <2>1, <2>2 DEF Held, StoredOK, Browser!ReferencesResolve
<1>3. Browser!ReferencesResolve'  BY <1>1, <1>2 DEF StoredOK, Browser!ReferencesResolve
<1>4. Browser!SplitsAddUp'  BY <1>1 DEF StoredOK, Browser!SplitsAddUp
<1> QED  BY <1>1, <1>2, <1>3, <1>4 DEF StoredOK

\* A write of one call preserves the invariant.
LEMMA WriteKeeps ==
    ASSUME WritesInv, NEW s \in Slot, Browser!Busy(s), NEW w, Browser!Write(s, w)
    PROVE  WritesInv'
<1> PICK k, j : k = writing[s] /\ j = [k EXCEPT !.todo = @ \ {w}]  OBVIOUS
<1>1. StoredOK /\ CallOK(k) /\ w \in k.todo /\ contested' = contested
  BY DEF WritesInv, Browser!Write
<1>2. writing = [u \in Slot |-> writing[u]]  BY <1>1 DEF StoredOK
<1>3. CASE w.do = "book" /\ w.budget \in budget
  <2>1. UNCHANGED <<doc, budget, contested, outdated>>
    BY <1>3 DEF Browser!Write, Browser!WriteBudget
  <2>2. writing' = [writing EXCEPT ![s] = Browser!NoCall]
    BY <1>3 DEF Browser!Write, Browser!End
  <2> QED  BY <2>1, <2>2, CallPlans
<1>4. CASE ~(w.do = "book" /\ w.budget \in budget)
  <2>1. /\ writing' = [writing EXCEPT ![s].todo = @ \ {w}]
        /\ outdated' = IF w.do = "set" /\ w.seen # None /\ doc[w.id] # Gone
                           /\ w.seen # Browser!Splitting(w.id)
                       THEN outdated \cup {w.id} ELSE outdated
        /\ IF w.do \in {"book", "unbook"} THEN Browser!WriteBudget(w) ELSE Browser!WriteDocument(w)
    BY <1>4 DEF Browser!Write
  <2>2. /\ writing' = [u \in Slot |-> writing'[u]] /\ writing'[s] = j
        /\ \A u \in Slot \ {s} : writing'[u] = writing[u]
    BY <1>2, <2>1
  <2>3. \A u \in Slot \ {s} : Browser!Busy(u)' => /\ CallOK(writing[u])
                                                  /\ ApartOK(writing[u], k) /\ ApartOK(k, writing[u])
    BY <2>2 DEF WritesInv, Browser!Busy
  <2>4. WriteOK(k, w)  BY <1>1 DEF CallOK
  <2>5. /\ StoredOK' /\ CallOK(j)'
        /\ \A u \in Slot \ {s} : Browser!Busy(u)' => CallOK(writing[u])'
        /\ \A n \in DOMAIN Documents : doc[n] # None /\ Browser!Live(n)' => Browser!Live(n)
    <3>1. CASE w.do \in {"book", "unbook"}
      <4>1. Browser!WriteBudget(w) /\ UNCHANGED <<doc, outdated>>
        BY <2>1, <3>1 DEF Browser!WriteBudget
      <4>2. StoredOK'  BY <1>1, <2>2, <3>1, <4>1, StoredAfterBooked
      <4>3. CallOK(j)'  BY <1>1, <3>1, <4>1, OwnStaysBooked
      <4>4. ASSUME NEW u \in Slot \ {s}, Browser!Busy(u)'  PROVE CallOK(writing[u])'
        <5> PICK x : x = writing[u]  OBVIOUS
        <5>1. CallOK(x) /\ ApartOK(x, k) /\ x = writing'[u]  BY <2>2, <2>3, <4>4
        <5>2. CallOK(x)'  BY <1>1, <3>1, <4>1, <5>1, OthersStayBooked
        <5> QED  BY <5>1, <5>2
      <4>5. \A n : Browser!Live(n)' => Browser!Live(n)  BY <4>1 DEF Browser!Live
      <4> QED  BY <4>2, <4>3, <4>4, <4>5
    <3>2. CASE w.do \in {"set", "insert", "erase"}
      <4>1. Effect(k, w)  BY <1>1, <2>1, <3>2, WriteEffect
      <4>2. StoredOK'  BY <1>1, <2>1, <2>2, <3>2, <4>1, StoredAfter
      <4>3. CallOK(j)'  BY <1>1, <3>2, <4>1, OwnStays
      <4>4. ASSUME NEW u \in Slot \ {s}, Browser!Busy(u)'  PROVE CallOK(writing[u])'
        <5> PICK x : x = writing[u]  OBVIOUS
        <5>1. CallOK(x) /\ ApartOK(x, k) /\ ApartOK(k, x) /\ x = writing'[u]  BY <2>2, <2>3, <4>4
        <5>2. CallOK(x)'  BY <1>1, <3>2, <4>1, <5>1, OthersStay
        <5> QED  BY <5>1, <5>2
      <4>5. \A n \in DOMAIN Documents : doc[n] # None /\ Browser!Live(n)' => Browser!Live(n)
        BY <1>1, <3>2, <4>1, WhatChanges
      <4> QED  BY <4>2, <4>3, <4>4, <4>5
    <3> QED  BY <2>4, <3>1, <3>2 DEF WriteOK
  <2>6. \A u \in Slot : Browser!Busy(u)' => CallOK(writing[u])'
    <3>1. CallOK(writing[s])'  BY <2>2, <2>5
    <3> QED  BY <2>5, <3>1
  <2>7. ASSUME NEW u \in Slot, NEW v \in Slot, u # v, Browser!Busy(u)', Browser!Busy(v)'
        PROVE  ApartOK(writing[u], writing[v])'
    <3> PICK x, y : x = writing[u] /\ y = writing[v]  OBVIOUS
    <3> PICK x2, y2 : x2 = writing'[u] /\ y2 = writing'[v]  OBVIOUS
    <3>1. Browser!Busy(u) /\ Browser!Busy(v)  BY <2>2, <2>7 DEF Browser!Busy
    <3>2. ApartOK(x, y) /\ CallOK(x) /\ CallOK(y)  BY <2>7, <3>1 DEF WritesInv
    <3>3. /\ x2.op = x.op /\ Browser!Reshaped(x2) = Browser!Reshaped(x)
          /\ Browser!Taken(x2) = Browser!Taken(x)
      <4>1. CASE u = s  BY <1>1, <2>2, <4>1, LeftOver
      <4>2. CASE u # s  BY <2>2, <4>2
      <4> QED  BY <4>1, <4>2
    <3>4. /\ y2.op = y.op /\ Browser!Taken(y2) = Browser!Taken(y)
          /\ \A n : MayHold(y2, n) <=> MayHold(y, n)
      <4>1. CASE v = s  BY <1>1, <2>2, <4>1, LeftOver
      <4>2. CASE v # s  BY <2>2, <4>2
      <4> QED  BY <4>1, <4>2
    <3>5. \A n \in Browser!Reshaped(x) : Browser!Live(n)' => Browser!Live(n)
      BY <2>5, <3>2, ReshapedIs DEF CallOK
    <3>6. ApartOK(x2, y2)'
      <4>1. \A n : MayHold(y2, n)' <=> MayHold(y, n)  BY <3>4 DEF MayHold
      <4>2. Browser!Reshaped(x2)' = Browser!Reshaped(x)  BY <3>3 DEF Browser!Reshaped
      <4>3. /\ Browser!Taken(x2)' = Browser!Taken(x)
            /\ Browser!Taken(y2)' = Browser!Taken(y)
        BY <3>3, <3>4 DEF Browser!Taken
      <4> QED  BY <1>1, <3>2, <3>3, <3>4, <3>5, <4>1, <4>2, <4>3 DEF ApartOK
    <3> QED  BY <3>6
  <2> QED  BY <2>5, <2>6, <2>7 DEF WritesInv
<1> QED  BY <1>3, <1>4

-----------------------------------------------------------------------------
(* HouseholdWrites: what a call plans *)

\* A call that has planned its writes.
Planning(k, writes) ==
    [op |-> k.op, id |-> k.id, arg |-> k.arg, phase |-> k.phase + 1, todo |-> writes]

\* It is the same call in its next phase.
LEMMA PlannedCall ==
    ASSUME NEW k, CallOK(k), NEW writes, k.phase <= Len(Browser!Steps[k.op]),
           NEW next, next = Planning(k, writes)
    PROVE  /\ next.op = k.op /\ next.id = k.id /\ next.arg = k.arg
           /\ next.phase = k.phase + 1 /\ next.todo = writes /\ Given(next)
           /\ ArgNames(next) = ArgNames(k) /\ Browser!Reshaped(next) = Browser!Reshaped(k)
           /\ Browser!Taken(next) = Browser!Taken(k)
           /\ \A n : Held(next, n) <=> Held(k, n)
<1>1. /\ next.op = k.op /\ next.id = k.id /\ next.arg = k.arg
      /\ next.phase = k.phase + 1 /\ next.todo = writes
      /\ next = [op |-> next.op, id |-> next.id, arg |-> next.arg, phase |-> next.phase,
                 todo |-> next.todo]
  BY DEF CallOK, Given, Planning
<1>2. next.phase \in 1..(Len(Browser!Steps[next.op]) + 1)
  <2>1. Len(Browser!Steps[k.op]) \in Nat /\ k.op \in DOMAIN Browser!Steps
    <3>1. k.op \in DOMAIN Browser!Steps  BY DEF CallOK, Given
    <3>2. \A op \in DOMAIN Browser!Steps : Len(Browser!Steps[op]) \in Nat  BY StepsOf
    <3> QED  BY <3>1, <3>2
  <2>2. k.phase \in 1..(Len(Browser!Steps[k.op]) + 1)  BY DEF CallOK, Given
  <2> QED  BY <1>1, <2>1, <2>2
<1>3. Given(next)  BY <1>1, <1>2 DEF CallOK, Given
<1>4. ArgNames(next) = ArgNames(k)  BY <1>1 DEF ArgNames
<1>5. \A n : Held(next, n) <=> Held(k, n)  BY <1>1 DEF Held, MayHold
<1>6. Browser!Reshaped(next) = Browser!Reshaped(k) /\ Browser!Taken(next) = Browser!Taken(k)
  BY <1>1 DEF Browser!Reshaped, Browser!Taken
<1> QED  BY <1>1, <1>3, <1>4, <1>5, <1>6

\* A call that plans sound writes preserves the invariant.
LEMMA PlanKeeps ==
    ASSUME WritesInv, NEW s \in Slot, Browser!Busy(s), NEW writes, Browser!Plan(s, writes),
           NEW k, k = writing[s], k.phase <= Len(Browser!Steps[k.op]),
           NEW next, next = Planning(k, writes),
           \A w \in writes : WriteOK(next, w),
           TodoOK(next), FreshOK(next), CoverOK(next)
    PROVE  WritesInv'
<1>1. CallOK(k)  BY DEF WritesInv
<1>2. /\ next.op = k.op /\ next.id = k.id /\ next.arg = k.arg /\ next.todo = writes /\ Given(next)
      /\ ArgNames(next) = ArgNames(k) /\ Browser!Reshaped(next) = Browser!Reshaped(k)
      /\ \A n : Held(next, n) <=> Held(k, n)
  BY <1>1, PlannedCall
<1>3. CallOK(next)  BY <1>1, <1>2 DEF CallOK
<1>4. writing' = [writing EXCEPT ![s] = next] /\ UNCHANGED <<doc, budget, contested, outdated>>
  <2>1. k = [op |-> k.op, id |-> k.id, arg |-> k.arg, phase |-> k.phase, todo |-> k.todo]
    BY <1>1 DEF CallOK, Given
  <2>2. writing = [u \in Slot |-> writing[u]]  BY DEF WritesInv, StoredOK
  <2>3. [k EXCEPT !.phase = @ + 1, !.todo = writes] = next
    <3>1. DOMAIN k = {"op", "id", "arg", "phase", "todo"}  BY <2>1
    <3>2. [k EXCEPT !.phase = @ + 1, !.todo = writes] =
             [f \in DOMAIN k |-> IF f = "todo" THEN writes ELSE IF f = "phase" THEN k.phase + 1 ELSE k[f]]
      OBVIOUS
    <3> QED  BY <3>1, <3>2 DEF Planning
  <2>4. writing' = [writing EXCEPT ![s] = [k EXCEPT !.phase = @ + 1, !.todo = writes]]
    BY <2>2 DEF Browser!Plan
  <2> QED  BY <2>3, <2>4 DEF Browser!Plan
<1> QED  BY <1>2, <1>3, <1>4, CallPlans

\* So does one that stops.
LEMMA EndKeeps ==
    ASSUME WritesInv, NEW s \in Slot, Browser!Busy(s), Browser!End(s),
           UNCHANGED <<doc, budget, contested, outdated>>
    PROVE  WritesInv'
  BY CallPlans DEF Browser!End

\* A call that removes nothing has nothing to clear.
LEMMA NothingToClear ==
    ASSUME NEW k, k.op \notin {"deleteCategory", "mergeMerchants", "deleteGroup"}
    PROVE  CoverOK(k)
  BY DEF CoverOK, Cleared, Renamers

\* What is known of a call that is ready for its next step.
LEMMA ReadyIs ==
    ASSUME WritesInv, NEW s \in Slot, NEW op, NEW step, Browser!Ready(s, op, step)
    PROVE  /\ Browser!Busy(s) /\ CallOK(writing[s]) /\ writing[s].op = op /\ writing[s].todo = {}
           /\ writing[s].phase \in Nat /\ writing[s].phase >= 1
           /\ writing[s].phase <= Len(Browser!Steps[op])
           /\ Browser!Steps[op][writing[s].phase] = step
<1>1. /\ Browser!Busy(s) /\ writing[s].op = op /\ writing[s].todo = {}
      /\ writing[s].phase <= Len(Browser!Steps[op]) /\ Browser!Steps[op][writing[s].phase] = step
  BY DEF Browser!Ready
<1>2. CallOK(writing[s])  BY <1>1 DEF WritesInv
<1>3. writing[s].phase \in Nat /\ writing[s].phase >= 1
  <2> PICK k : k = writing[s]  OBVIOUS
  <2>1. k.phase \in 1..(Len(Browser!Steps[k.op]) + 1) /\ k.op \in DOMAIN Browser!Steps
    BY <1>2 DEF CallOK, Given
  <2>2. \A o \in DOMAIN Browser!Steps : Len(Browser!Steps[o]) \in Nat  BY StepsOf
  <2> QED  BY <2>1, <2>2
<1> QED  BY <1>1, <1>2, <1>3

\* What a call was given to write down, operation by operation.
LEMMA ArgNamesOf ==
    ASSUME NEW k
    PROVE  /\ k.op = "update" => ArgNames(k) = Browser!Named(k.arg.patch)
           /\ k.op \in {"create", "updateCategory"} => ArgNames(k) = Browser!Named(k.arg)
           /\ k.op = "import" => ArgNames(k) = RowNames(k.arg)
           /\ k.op = "markRecurring" => ArgNames(k) = {k.arg.merchant} \ {None}
           /\ k.op = "setBudget" => ArgNames(k) = {k.id} \cap Browser!Ids("category")
           /\ k.op \in Renamers => ArgNames(k) = {k.arg} \ {None}
  BY DEF ArgNames, Renamers

\* What a write names.
LEMMA WriteNamesOf ==
    ASSUME NEW w
    PROVE  /\ w.do = "set" => WriteNames(w) = Browser!Named(w.set)
           /\ w.do = "insert" => WriteNames(w) = Browser!Named(w.new)
           /\ w.do = "book" => WriteNames(w) = {w.budget[1]} \cap Browser!Ids("category")
           /\ w.do \in {"erase", "unbook"} => WriteNames(w) = {}
  BY DEF WriteNames

\* What is named is named by a field.
LEMMA NamedBy ==
    ASSUME NEW d, NEW n \in Browser!Named(d)
    PROVE  n # None /\ \E f \in Browser!Naming \cap DOMAIN d : n \in Browser!Names(d, f)
  BY DEF Browser!Named

\* What a draft is: a document of the kind of its id.
LEMMA DraftIs ==
    ASSUME NEW id \in DOMAIN Drafts, NEW d \in Drafts[id]
    PROVE  /\ id \in DOMAIN Documents /\ Documents[id] = None
           /\ Browser!KindOf[id] \in Browser!Kinds /\ d \in Browser!Document(Browser!KindOf[id])
           /\ d.kind = Browser!KindOf[id]
<1>1. /\ id \in DOMAIN Documents /\ Documents[id] = None
      /\ Browser!KindOf[id] \in Browser!Kinds /\ d \in Browser!Document(Browser!KindOf[id])
  BY WritesAssumption DEF Browser!InUse
<1> QED  BY <1>1, FieldsOf

\* create: a document that is entered is of its kind and adds up.
LEMMA InsertNewKeeps ==
    ASSUME WritesInv, NEW s \in Slot, Browser!InsertNew(s)
    PROVE  WritesInv'
<1> PICK k, d : k = writing[s] /\ d = k.arg  OBVIOUS
<1>1. /\ Browser!Busy(s) /\ CallOK(k) /\ k.op = "create" /\ k.todo = {}
      /\ k.phase = 1 /\ k.phase <= Len(Browser!Steps[k.op])
  <2>1. Browser!Ready(s, "create", "insert")  BY DEF Browser!InsertNew
  <2> QED  BY <2>1, ReadyIs, StepsOf
<1>2. CASE Browser!GroupFits(d) /\ (d.kind = "transaction" => Browser!SplitsFit(d))
  <2> PICK w, next : /\ w = Browser!New(k.id, d)
                     /\ next = Planning(k, {w})
    OBVIOUS
  <2>1. Browser!Plan(s, {w})  BY <1>2 DEF Browser!InsertNew, Browser!PlanIf
  <2>2. /\ next.op = "create" /\ next.id = k.id /\ next.phase = 2 /\ next.todo = {w}
        /\ Browser!Taken(next) = Browser!Taken(k)
        /\ \A n : Held(next, n) <=> Held(k, n)
    BY <1>1, PlannedCall
  <2>3. /\ k.id \in DOMAIN Drafts /\ doc[k.id] = None /\ k.id \in Browser!Taken(k)
        /\ Browser!KindOf[k.id] \in Browser!Kinds
        /\ d \in Browser!Document(Browser!KindOf[k.id]) /\ d.kind = Browser!KindOf[k.id]
    BY <1>1, DraftIs DEF CallOK, Given, FreshOK, Makers, Browser!Taken
  <2>4. WriteOK(next, w)
    <3>1. /\ w.do = "insert" /\ w.id = k.id /\ w.new = d
          /\ w = [do |-> "insert", id |-> w.id, new |-> w.new]
      BY DEF Browser!New
    <3>2. InsertOK(next, w)  BY <1>2, <2>2, <2>3, <3>1 DEF InsertOK, Suits, Makers
    <3>3. \A n \in WriteNames(w) : Held(next, n)
      <4>1. WriteNames(w) = Browser!Named(d)  BY <3>1, WriteNamesOf
      <4>2. ArgNames(k) = Browser!Named(d)  BY <1>1, ArgNamesOf
      <4> QED  BY <1>1, <2>2, <4>1, <4>2 DEF CallOK
    <3> QED  BY <3>1, <3>2, <3>3 DEF WriteOK
  <2>5. TodoOK(next) /\ FreshOK(next) /\ CoverOK(next)
    BY <2>2, NothingToClear DEF TodoOK, FreshOK
  <2> QED  BY <1>1, <2>1, <2>4, <2>5, PlanKeeps
<1>3. CASE ~(Browser!GroupFits(d) /\ (d.kind = "transaction" => Browser!SplitsFit(d)))
  BY <1>1, <1>3, EndKeeps DEF Browser!InsertNew, Browser!PlanIf
<1> QED  BY <1>2, <1>3

\* importTransactions: the batch comes before the rows that name it.
LEMMA InsertBatchKeeps ==
    ASSUME WritesInv, NEW s \in Slot, Browser!InsertBatch(s)
    PROVE  WritesInv'
<1> PICK k, w : k = writing[s] /\ w = Browser!New(k.id, [kind |-> "batch"])  OBVIOUS
<1>1. /\ Browser!Busy(s) /\ CallOK(k) /\ k.op = "import" /\ k.todo = {}
      /\ k.phase = 1 /\ k.phase <= Len(Browser!Steps[k.op])
  <2>1. Browser!Ready(s, "import", "batch")  BY DEF Browser!InsertBatch
  <2> QED  BY <2>1, ReadyIs, StepsOf
<1> PICK next : next = Planning(k, {w})
  OBVIOUS
<1>2. Browser!Plan(s, {w})  BY DEF Browser!InsertBatch
<1>3. /\ next.op = "import" /\ next.id = k.id /\ next.phase = 2 /\ next.todo = {w}
      /\ next.arg = k.arg /\ Browser!Taken(next) = Browser!Taken(k)
  BY <1>1, PlannedCall
<1>4. /\ k.id \in DOMAIN Drafts /\ k.id \in Browser!Taken(k) /\ Browser!KindOf[k.id] = "batch"
      /\ \A id \in Browser!Taken(k) : doc[id] = None
      /\ \A r \in k.arg : r[1] \in Browser!Taken(k)
  BY <1>1 DEF CallOK, Given, FreshOK, Makers, Browser!Taken
<1>5. WriteOK(next, w)
  <2>1. /\ w.do = "insert" /\ w.id = k.id /\ w.new = [kind |-> "batch"]
        /\ w = [do |-> "insert", id |-> w.id, new |-> w.new]
    BY DEF Browser!New
  <2>2. w.new \in Browser!Document("batch") /\ "batch" \in Browser!Kinds
    BY <2>1 DEF Browser!Document, Browser!Kinds
  <2>3. InsertOK(next, w)  BY <1>3, <1>4, <2>1, <2>2 DEF InsertOK, Makers
  <2>4. WriteNames(w) = {}  BY <2>1, WriteNamesOf, NamedBy DEF Browser!Naming
  <2> QED  BY <2>1, <2>3, <2>4 DEF WriteOK
<1>6. w.do = "insert" /\ w.id = k.id  BY DEF Browser!New
<1>7. TodoOK(next) /\ CoverOK(next)
  <2>1. TodoOK(next)  BY <1>3, <1>6, SMTT(30) DEF TodoOK
  <2>2. CoverOK(next)  BY <1>3, <1>6, NothingToClear
  <2> QED  BY <2>1, <2>2
<1>8. FreshOK(next)  BY <1>3, <1>4, <1>6 DEF FreshOK, Inserts
<1> QED  BY <1>1, <1>2, <1>5, <1>7, <1>8, PlanKeeps

\* The rows name the batch, which is there by now.
LEMMA InsertRowsKeeps ==
    ASSUME WritesInv, NEW s \in Slot, Browser!InsertRows(s)
    PROVE  WritesInv'
<1> PICK k : k = writing[s]  OBVIOUS
<1>0. PICK writes : writes = {Browser!New(r[1], [r[2] EXCEPT !.batch = k.id]) : r \in k.arg}
  OBVIOUS
<1>1. /\ Browser!Busy(s) /\ CallOK(k) /\ k.op = "import" /\ k.todo = {}
      /\ k.phase = 2 /\ k.phase <= Len(Browser!Steps[k.op])
  <2>1. Browser!Ready(s, "import", "rows")  BY DEF Browser!InsertRows
  <2> QED  BY <2>1, ReadyIs, StepsOf
<1> PICK next : next = Planning(k, writes)
  OBVIOUS
<1>2. Browser!Plan(s, writes)  BY <1>0 DEF Browser!InsertRows
<1>3. /\ next.op = "import" /\ next.id = k.id /\ next.phase = 3 /\ next.todo = writes
      /\ next.arg = k.arg /\ Browser!Taken(next) = Browser!Taken(k)
      /\ \A n : Held(next, n) <=> Held(k, n)
  BY <1>1, PlannedCall
<1>4. /\ k.id \in Browser!Ids("batch") /\ k.id \in DOMAIN Documents /\ Browser!Live(k.id)
      /\ k.arg \subseteq Browser!Rows /\ \A x, y \in k.arg : x[1] = y[1] => x = y
      /\ \A r \in k.arg : doc[r[1]] = None /\ r[1] \in Browser!Taken(k)
  <2>1. k.id \in Browser!Ids("batch") /\ k.id \in DOMAIN Documents
    <3>1. Given(k) /\ k.op = "import"  BY <1>1 DEF CallOK
    <3>2. Browser!KindOf[k.id] = "batch"  BY <3>1 DEF Given
    <3>3. k.id \in DOMAIN Documents  BY <3>1, TakenAre DEF Makers
    <3> QED  BY <3>2, <3>3 DEF Browser!Ids
  <2>2. Browser!Live(k.id)  BY <1>1 DEF CallOK, FreshOK, Inserts
  <2> QED  BY <1>1, <2>1, <2>2 DEF CallOK, Given, FreshOK, Browser!Taken
<1>5. ASSUME NEW w \in writes  PROVE WriteOK(next, w)
  <2>1. PICK r \in k.arg : w = Browser!New(r[1], [r[2] EXCEPT !.batch = k.id])  BY <1>0, <1>5
  <2> PICK d, e : d = r[2] /\ e = [r[2] EXCEPT !.batch = k.id]  OBVIOUS
  <2>2. /\ r[1] \in DOMAIN Drafts /\ r[1] \in Browser!Ids("transaction")
        /\ d \in Browser!Document("transaction") /\ d.splits = <<>>
    BY <1>4, <2>1, RowsAre
  <2>3. /\ w.do = "insert" /\ w.id = r[1] /\ w.new = e
        /\ w = [do |-> "insert", id |-> w.id, new |-> w.new]
    BY <2>1 DEF Browser!New
  <2>4. e \in Browser!Document("transaction") /\ e.splits = <<>>
    BY <1>4, <2>2 DEF Browser!Document, Browser!Ref
  <2>5. Browser!KindOf[r[1]] = "transaction" /\ "transaction" \in Browser!Kinds
    BY <2>2 DEF Browser!Ids, Browser!Kinds
  <2>6. InsertOK(next, w)
    <3>1. Browser!SplitsFit(e)  BY <2>4 DEF Browser!SplitsFit
    <3>2. doc[r[1]] = None /\ r[1] \in Browser!Taken(k)  BY <1>4, <2>1
    <3> QED  BY <1>3, <2>2, <2>3, <2>4, <2>5, <3>1, <3>2 DEF InsertOK, Makers
  <2>7. Browser!Named(e) \subseteq Browser!Named(d) \cup {k.id}
    <3>1. DOMAIN e = DOMAIN d /\ \A f \in DOMAIN d : f # "batch" => e[f] = d[f]
      BY <2>2 DEF Browser!Document
    <3>2. \A f \in Browser!Naming \cap DOMAIN d :
             Browser!Names(e, f) \subseteq Browser!Names(d, f) \cup {k.id}
      BY <2>2, <3>1 DEF Browser!Names, Browser!Naming, Browser!Document
    <3> QED  BY <3>1, <3>2 DEF Browser!Named
  <2>8. \A n \in Browser!Named(d) : Held(next, n)
    <3>1. Browser!Named(d) \subseteq ArgNames(k)
      <4> DEFINE names(x) == Browser!Named(x[2])
      <4>1. ArgNames(k) = UNION {names(x) : x \in k.arg}  BY <1>1, ArgNamesOf DEF RowNames
      <4>2. names(r) \subseteq ArgNames(k)
        <5> HIDE DEF names
        <5> QED  BY <2>1, <4>1
      <4> QED  BY <4>2
    <3> QED  BY <1>1, <1>3, <3>1 DEF CallOK
  <2>9. Held(next, k.id)  BY <1>3, <1>4 DEF Held, MayHold, Browser!Ids
  <2>10. WriteNames(w) = Browser!Named(e)  BY <2>3, WriteNamesOf
  <2> QED  BY <2>3, <2>6, <2>7, <2>8, <2>9, <2>10 DEF WriteOK
<1>6. \A v, w \in writes : v.do = "insert" /\ (v.id = w.id => v = w)
  BY <1>0, <1>4 DEF Browser!New
<1>7. TodoOK(next) /\ CoverOK(next)
  <2>1. TodoOK(next)
    <3>1. \A v, w \in next.todo : v.do = "insert" /\ w.do = "insert" /\ (v.id = w.id => v = w)
      BY <1>3, <1>6
    <3> QED  BY <1>3, <3>1 DEF TodoOK
  <2>2. CoverOK(next)  BY <1>3, <1>6, NothingToClear
  <2> QED  BY <2>1, <2>2
<1>8. FreshOK(next)  BY <1>3, <1>4 DEF FreshOK
<1> QED  BY <1>1, <1>2, <1>5, <1>7, <1>8, PlanKeeps

\* markRecurring: the recurrence comes before the transaction that points at it.
LEMMA InsertRecurrenceKeeps ==
    ASSUME WritesInv, NEW s \in Slot, Browser!InsertRecurrence(s)
    PROVE  WritesInv'
<1> PICK k, w : /\ k = writing[s]
                /\ w = Browser!New(k.id, [kind |-> "recurrence", merchant |-> k.arg.merchant,
                                          usualCategory |-> k.arg.category])
  OBVIOUS
<1>1. /\ Browser!Busy(s) /\ CallOK(k) /\ k.op = "markRecurring" /\ k.todo = {}
      /\ k.phase = 1 /\ k.phase <= Len(Browser!Steps[k.op])
  <2>1. Browser!Ready(s, "markRecurring", "recurrence")  BY DEF Browser!InsertRecurrence
  <2> QED  BY <2>1, ReadyIs, StepsOf
<1> PICK next : next = Planning(k, {w})
  OBVIOUS
<1>2. Browser!Plan(s, {w})  BY DEF Browser!InsertRecurrence
<1>3. /\ next.op = "markRecurring" /\ next.id = k.id /\ next.phase = 2 /\ next.todo = {w}
      /\ Browser!Taken(next) = Browser!Taken(k) /\ \A n : Held(next, n) <=> Held(k, n)
  BY <1>1, PlannedCall
<1>4. /\ k.id \in DOMAIN Drafts /\ k.id \in Browser!Taken(k) /\ doc[k.id] = None
      /\ Browser!KindOf[k.id] = "recurrence" /\ k.arg.merchant \in Browser!Ref("merchant")
      /\ k.arg.category \in Browser!Ref("category")
  BY <1>1 DEF CallOK, Given, FreshOK, Makers, Browser!Taken
<1>5. w.do = "insert" /\ w.id = k.id  BY DEF Browser!New
<1>6. WriteOK(next, w)
  <2>1. /\ w.new = [kind |-> "recurrence", merchant |-> k.arg.merchant,
                     usualCategory |-> k.arg.category]
        /\ w = [do |-> "insert", id |-> w.id, new |-> w.new]
    BY DEF Browser!New
  <2>2. w.new \in Browser!Document("recurrence") /\ "recurrence" \in Browser!Kinds
    BY <1>4, <2>1 DEF Browser!Document, Browser!Kinds
  <2>3. InsertOK(next, w)  BY <1>3, <1>4, <1>5, <2>1, <2>2 DEF InsertOK, Makers
  <2>4. WriteNames(w) \subseteq {k.arg.merchant} \ {None}
    BY <1>5, <2>1, WriteNamesOf, NamedBy DEF Browser!Naming, Browser!Names
  <2>5. \A n \in WriteNames(w) : Held(next, n)  BY <1>1, <1>3, <2>4, ArgNamesOf DEF CallOK
  <2> QED  BY <1>5, <2>1, <2>3, <2>5 DEF WriteOK
<1>7. TodoOK(next) /\ CoverOK(next)
  <2>1. TodoOK(next)  BY <1>3 DEF TodoOK
  <2>2. CoverOK(next)  BY <1>3, NothingToClear
  <2> QED  BY <2>1, <2>2
<1>8. FreshOK(next)  BY <1>3, <1>5 DEF FreshOK, Inserts
<1> QED  BY <1>1, <1>2, <1>6, <1>7, <1>8, PlanKeeps

\* The transaction points at a recurrence that is there.
LEMMA PointAtRecurrenceKeeps ==
    ASSUME WritesInv, NEW s \in Slot, Browser!PointAtRecurrence(s)
    PROVE  WritesInv'
<1> PICK k, t, w : k = writing[s] /\ t = k.arg.tx /\ w = Browser!Change(t, [recurrence |-> k.id])
  OBVIOUS
<1>1. /\ Browser!Busy(s) /\ CallOK(k) /\ k.op = "markRecurring" /\ k.todo = {}
      /\ k.phase = 2 /\ k.phase <= Len(Browser!Steps[k.op])
  <2>1. Browser!Ready(s, "markRecurring", "transaction")  BY DEF Browser!PointAtRecurrence
  <2> QED  BY <2>1, ReadyIs, StepsOf
<1>2. CASE ~Browser!Live(t)  BY <1>1, <1>2, EndKeeps DEF Browser!PointAtRecurrence, Browser!PlanIf
<1>3. CASE Browser!Live(t)
  <2> PICK next : next = Planning(k, {w})
    OBVIOUS
  <2>1. Browser!Plan(s, {w})  BY <1>3 DEF Browser!PointAtRecurrence, Browser!PlanIf
  <2>2. /\ next.op = "markRecurring" /\ next.id = k.id /\ next.phase = 3 /\ next.todo = {w}
        /\ \A n : Held(next, n) <=> Held(k, n)
    BY <1>1, PlannedCall
  <2>3. /\ k.id \in DOMAIN Documents /\ Browser!KindOf[k.id] = "recurrence" /\ Browser!Live(k.id)
        /\ t \in DOMAIN Documents /\ Browser!KindOf[t] = "transaction"
    <3>1. k.id \in DOMAIN Documents  BY <1>1, TakenAre DEF CallOK, Makers
    <3>2. Browser!Live(k.id)  BY <1>1 DEF CallOK, FreshOK, Inserts
    <3> QED  BY <1>1, <3>1, <3>2 DEF CallOK, Given, Browser!Ids
  <2>4. WriteOK(next, w)
    <3>1. /\ w.do = "set" /\ w.id = t /\ w.set = [recurrence |-> k.id]
          /\ w = [do |-> "set", id |-> w.id, set |-> w.set, seen |-> w.seen]
      BY DEF Browser!Change
    <3>2. PatchOK("transaction", w.set)
      <4>1. DOMAIN w.set = {"recurrence"} /\ w.set["recurrence"] = k.id  BY <3>1
      <4>2. k.id \in Values("recurrence")  BY <2>3 DEF Values, Browser!Ref, Browser!Ids
      <4>3. "recurrence" \in Fields("transaction")  BY DEF Fields
      <4> QED  BY <4>1, <4>2, <4>3 DEF PatchOK
    <3>3. SetOK(next, w)
      BY <1>3, <2>2, <2>3, <3>1, <3>2 DEF SetOK, Renamers, Browser!Live
    <3>4. WriteNames(w) \subseteq {k.id}
      BY <3>1, WriteNamesOf, NamedBy DEF Browser!Naming, Browser!Names
    <3>5. Held(next, k.id)  BY <2>2, <2>3 DEF Held, MayHold
    <3> QED  BY <3>1, <3>3, <3>4, <3>5 DEF WriteOK
  <2>5. TodoOK(next) /\ CoverOK(next)
    <3>1. TodoOK(next)  BY <2>2 DEF TodoOK
    <3>2. CoverOK(next)  BY <2>2, NothingToClear
    <3> QED  BY <3>1, <3>2
  <2>6. FreshOK(next)  BY <2>2, <2>3 DEF FreshOK
  <2> QED  BY <1>1, <2>1, <2>4, <2>5, <2>6, PlanKeeps
<1> QED  BY <1>2, <1>3

\* What a member changes is a change of a transaction.
LEMMA PatchIs ==
    ASSUME NEW p \in Patches
    PROVE  PatchOK("transaction", p)
<1> PICK d : d = Browser!Patched(Browser!Blank, p)  OBVIOUS
<1>1. /\ DOMAIN p \subseteq {"amount", "splits"} \cup Browser!Optional
      /\ d \in Browser!Document("transaction")
  BY WritesAssumption DEF Browser!InUse
<1>2. DOMAIN p \subseteq Fields("transaction")  BY <1>1 DEF Browser!Optional, Fields
<1>3. \A f \in DOMAIN p : p[f] = d[f]  BY DEF Browser!Patched
<1>4. \A f \in Fields("transaction") : d[f] \in Values(f)
  <2>1. "transaction" \in Browser!Kinds  BY DEF Browser!Kinds
  <2> QED  BY <1>1, <2>1, FieldsOf
<1> QED  BY <1>2, <1>3, <1>4 DEF PatchOK

\* What is stored of a validated transaction are its own fields.
LEMMA StoredIs ==
    ASSUME NEW merged \in Browser!Document("transaction"), NEW patch
    PROVE  /\ PatchOK("transaction", Browser!Stored(merged, patch))
           /\ {"amount", "splits"} \subseteq DOMAIN Browser!Stored(merged, patch)
           /\ Browser!Stored(merged, patch).amount = merged.amount
           /\ Browser!Stored(merged, patch).splits = merged.splits
           /\ Browser!Named(Browser!Stored(merged, patch)) \subseteq Browser!Named(merged)
<1> PICK e : e = Browser!Stored(merged, patch)  OBVIOUS
<1>1. /\ {"amount", "splits"} \subseteq DOMAIN e
      /\ DOMAIN e \subseteq {"amount", "splits"} \cup Browser!Optional
      /\ \A f \in DOMAIN e : e[f] = merged[f]
  BY DEF Browser!Stored
<1>2. /\ DOMAIN merged = {"kind"} \cup Fields("transaction")
      /\ \A f \in Fields("transaction") : merged[f] \in Values(f)
  <2>1. "transaction" \in Browser!Kinds  BY DEF Browser!Kinds
  <2> QED  BY <2>1, FieldsOf
<1>3. DOMAIN e \subseteq Fields("transaction")  BY <1>1 DEF Browser!Optional, Fields
<1>4. PatchOK("transaction", e)  BY <1>1, <1>2, <1>3 DEF PatchOK
<1>5. Browser!Named(e) \subseteq Browser!Named(merged)
  <2>1. \A f \in DOMAIN e : Browser!Names(e, f) = Browser!Names(merged, f)
    BY <1>1 DEF Browser!Names
  <2>2. DOMAIN e \subseteq DOMAIN merged  BY <1>2, <1>3
  <2> QED  BY <2>1, <2>2 DEF Browser!Named
<1> QED  BY <1>1, <1>4, <1>5

\* A call that is to make one write has its writes in order.
LEMMA OneWrite ==
    ASSUME NEW k, NEW w, k.todo = {w}, k.op \notin Makers
    PROVE  TodoOK(k)
<1>1. \A v, x \in k.todo : v = x  OBVIOUS
<1> QED  BY <1>1 DEF TodoOK, Makers

\* updateTransaction: what is stored adds up, and names what was or was entered.
LEMMA ReviseNextKeeps ==
    ASSUME WritesInv, NEW s \in Slot, Browser!ReviseNext(s)
    PROVE  WritesInv'
<1> PICK k, ids, patch : k = writing[s] /\ ids = k.arg.ids /\ patch = k.arg.patch  OBVIOUS
<1>1. /\ Browser!Busy(s) /\ CallOK(k) /\ k.op = "update" /\ k.todo = {}
      /\ UNCHANGED <<doc, budget, contested, outdated>>
  <2>1. Browser!Ready(s, "update", "revise")  BY DEF Browser!ReviseNext
  <2> QED  BY <2>1, ReadyIs DEF Browser!ReviseNext
<1>2. /\ k = [op |-> "update", id |-> k.id, arg |-> [ids |-> ids, patch |-> patch],
              phase |-> k.phase, todo |-> {}]
      /\ patch \in Patches /\ ids \subseteq Browser!Ids("transaction")
      /\ writing = [u \in Slot |-> writing[u]]
  BY <1>1 DEF CallOK, Given, WritesInv, StoredOK
<1>3. ASSUME NEW next, writing' = [writing EXCEPT ![s] = next],
             next = [op |-> "update", id |-> k.id, arg |-> [ids |-> next.arg.ids, patch |-> patch],
                     phase |-> k.phase, todo |-> next.todo],
             next.arg.ids \subseteq ids, TodoOK(next), \A w \in next.todo : WriteOK(next, w)
      PROVE  WritesInv'
  <2>1. /\ next.op = "update" /\ next.id = k.id /\ next.phase = k.phase
        /\ next.arg = [ids |-> next.arg.ids, patch |-> patch]
        /\ next = [op |-> next.op, id |-> next.id, arg |-> next.arg, phase |-> next.phase,
                   todo |-> next.todo]
    BY <1>3
  <2>2. Given(next)  BY <1>1, <1>2, <1>3, <2>1 DEF CallOK, Given
  <2>3. ArgNames(next) = ArgNames(k)  BY <1>1, <2>1, ArgNamesOf
  <2>4. \A n : Held(next, n) <=> Held(k, n)  BY <1>1, <2>1 DEF Held, MayHold
  <2>5. Browser!Reshaped(next) = {} /\ FreshOK(next)
    BY <2>1 DEF Browser!Reshaped, FreshOK, Makers
  <2>6. CoverOK(next)  BY <2>1, NothingToClear
  <2>7. CallOK(next)  BY <1>1, <1>3, <2>2, <2>3, <2>4, <2>5, <2>6 DEF CallOK
  <2> QED  BY <1>1, <1>3, <2>1, <2>7, CallPlans
<1>4. CASE Browser!End(s)  BY <1>1, <1>4, EndKeeps
<1>5. ASSUME NEW t \in ids, ~Browser!Live(t), writing' = [writing EXCEPT ![s].arg.ids = ids \ {t}]
      PROVE  WritesInv'
  <2>1. PICK next : next = [op |-> "update", id |-> k.id, arg |-> [ids |-> ids \ {t}, patch |-> patch],
                            phase |-> k.phase, todo |-> {}]
    OBVIOUS
  <2>2. writing' = [writing EXCEPT ![s] = next]
    <3>1. [k EXCEPT !.arg.ids = ids \ {t}] = next  BY <1>2, <2>1
    <3> QED  BY <1>2, <1>5, <3>1
  <2>3. /\ next = [op |-> "update", id |-> k.id, arg |-> [ids |-> next.arg.ids, patch |-> patch],
                   phase |-> k.phase, todo |-> next.todo]
        /\ next.arg.ids \subseteq ids /\ next.op = "update" /\ next.todo = {}
    BY <2>1
  <2>4. TodoOK(next)  BY <2>3 DEF TodoOK, Makers
  <2> QED  BY <1>3, <2>2, <2>3, <2>4
<1>6. ASSUME NEW t \in ids, Browser!Live(t), NEW merged, merged = Browser!Patched(doc[t], patch),
             Browser!SplitsFit(merged),
             writing' = [writing EXCEPT ![s].arg.ids = ids \ {t},
                                        ![s].todo = {Browser!Change(t, Browser!Stored(merged, patch))}]
      PROVE  WritesInv'
  <2>0. PICK w, e : w = Browser!Change(t, e) /\ e = Browser!Stored(merged, patch)  OBVIOUS
  <2> PICK next : next = [op |-> "update", id |-> k.id, arg |-> [ids |-> ids \ {t}, patch |-> patch],
                          phase |-> k.phase, todo |-> {w}]
    OBVIOUS
  <2>1. writing' = [writing EXCEPT ![s] = next]
    <3>1. PICK m : m = [k EXCEPT !.arg.ids = ids \ {t}]  OBVIOUS
    <3>2. m = [op |-> "update", id |-> k.id, arg |-> [ids |-> ids \ {t}, patch |-> patch],
               phase |-> k.phase, todo |-> {}]
      BY <1>2, <3>1, SMTT(30)
    <3>3. [m EXCEPT !.todo = {w}] = next  BY <3>2, SMTT(30)
    <3>4. writing' = [writing EXCEPT ![s] = [k EXCEPT !.arg.ids = ids \ {t}, !.todo = {w}]]
      BY <1>2, <1>6, <2>0
    <3> QED  BY <3>1, <3>3, <3>4
  <2>2. /\ t \in DOMAIN Documents /\ Browser!KindOf[t] = "transaction"
        /\ "transaction" \in Browser!Kinds /\ doc[t] \in Browser!Document("transaction")
    BY <1>2, <1>6, LiveIs DEF Browser!Ids, WritesInv
  <2>3. /\ PatchOK("transaction", patch) /\ merged \in Browser!Document("transaction")
        /\ Browser!Named(merged) \subseteq Browser!Named(doc[t]) \cup Browser!Named(patch)
    BY <1>2, <1>6, <2>2, PatchIs, PatchedIs, PatchedNames
  <2>4. /\ PatchOK("transaction", e) /\ {"amount", "splits"} \subseteq DOMAIN e
        /\ e.amount = merged.amount /\ e.splits = merged.splits
        /\ Browser!Named(e) \subseteq Browser!Named(merged)
    BY <2>0, <2>3, StoredIs
  <2>5. /\ w.do = "set" /\ w.id = t /\ w.set = e
        /\ w = [do |-> "set", id |-> w.id, set |-> w.set, seen |-> w.seen]
    BY <2>0 DEF Browser!Change
  <2>6. /\ next = [op |-> "update", id |-> k.id, arg |-> [ids |-> next.arg.ids, patch |-> patch],
                   phase |-> k.phase, todo |-> next.todo]
        /\ next.arg.ids \subseteq ids /\ next.op = "update" /\ next.todo = {w}
    OBVIOUS
  <2>7. SetOK(next, w)
    <3>1. Browser!SplitsFit(e)  BY <1>6, <2>4 DEF Browser!SplitsFit
    <3>2. doc[t] # None  BY <1>6 DEF Browser!Live
    <3> QED  BY <2>2, <2>4, <2>5, <2>6, <3>1, <3>2 DEF SetOK, Renamers
  <2>8. ASSUME NEW n \in WriteNames(w)  PROVE Held(next, n)
    <3>1. n \in Browser!Named(doc[t]) \cup Browser!Named(patch)
      BY <2>3, <2>4, <2>5, <2>8, WriteNamesOf
    <3>2. CASE n \in Browser!Named(patch)
      <4>1. Held(k, n)  BY <1>1, <3>2, ArgNamesOf DEF CallOK
      <4> QED  BY <1>1, <2>6, <4>1 DEF Held, MayHold
    <3>3. CASE n \in Browser!Named(doc[t])
      <4>1. /\ n \in DOMAIN Documents /\ (n \in contested \/ Browser!Live(n))
            /\ Browser!KindOf[n] \notin {"transaction", "rule"}
        <5>1. StoredOK  BY DEF WritesInv
        <5>2. \E f \in Browser!Naming \cap Fields("transaction") : Browser!KindOf[n] = Target(f)
          BY <1>6, <2>2, <3>3, <5>1, StoredNames
        <5>3. Browser!KindOf[n] \notin {"transaction", "rule"}  BY <2>2, <5>2, WhoNames
        <5> QED  BY <1>6, <2>2, <3>3, <5>1, <5>3, StoredNames
      <4> QED  BY <2>6, <4>1 DEF Held, MayHold
    <3> QED  BY <3>1, <3>2, <3>3
  <2>9. WriteOK(next, w)  BY <2>5, <2>7, <2>8 DEF WriteOK
  <2>10. TodoOK(next)  BY <2>6, OneWrite DEF Makers
  <2>11. \A v \in next.todo : WriteOK(next, v)  BY <2>6, <2>9
  <2> QED  BY <1>3, <2>1, <2>6, <2>10, <2>11
<1>7. \/ Browser!End(s)
      \/ \E t \in ids :
            \/ ~Browser!Live(t) /\ writing' = [writing EXCEPT ![s].arg.ids = ids \ {t}]
            \/ /\ Browser!Live(t) /\ Browser!SplitsFit(Browser!Patched(doc[t], patch))
               /\ writing' = [writing EXCEPT
                     ![s].arg.ids = ids \ {t},
                     ![s].todo = {Browser!Change(t, Browser!Stored(Browser!Patched(doc[t], patch), patch))}]
  BY DEF Browser!ReviseNext
<1> QED  BY <1>4, <1>5, <1>6, <1>7

\* A call that enters no document and plans sound writes preserves the invariant.
LEMMA ChangesKeep ==
    ASSUME WritesInv, NEW s \in Slot, Browser!Busy(s), NEW writes, Browser!Plan(s, writes),
           NEW k, k = writing[s], k.phase <= Len(Browser!Steps[k.op]), k.op \notin Makers,
           NEW next, next = Planning(k, writes),
           \A w \in writes : WriteOK(next, w), CoverOK(next),
           \/ \A v, w \in writes : v = w
           \/ k.op \notin {"updateCategory", "updateGroup"} /\ \A w \in writes : w.do \notin {"erase", "insert"}
    PROVE  WritesInv'
<1>1. next.op = k.op /\ next.todo = writes
  <2>1. CallOK(k)  BY DEF WritesInv
  <2> QED  BY <2>1, PlannedCall
<1>2. TodoOK(next)  BY <1>1 DEF TodoOK, Makers
<1>3. FreshOK(next)  BY <1>1 DEF FreshOK, Makers
<1> QED  BY <1>2, <1>3, PlanKeeps

\* deleteTransaction and deleteRule: nothing names what they remove.
LEMMA RemoveItKeeps ==
    ASSUME WritesInv, NEW s \in Slot, Browser!RemoveIt(s)
    PROVE  WritesInv'
<1> PICK k, w : k = writing[s] /\ w = Browser!Erase(k.id)  OBVIOUS
<1>1. /\ Browser!Busy(s) /\ CallOK(k) /\ k.op = "delete" /\ k.phase <= Len(Browser!Steps[k.op])
  <2>1. Browser!Ready(s, "delete", "remove")  BY DEF Browser!RemoveIt
  <2> QED  BY <2>1, ReadyIs
<1>2. CASE ~Browser!Live(k.id)  BY <1>1, <1>2, EndKeeps DEF Browser!RemoveIt, Browser!PlanIf
<1>3. CASE Browser!Live(k.id)
  <2> PICK next : next = Planning(k, {w})  OBVIOUS
  <2>1. Browser!Plan(s, {w})  BY <1>3 DEF Browser!RemoveIt, Browser!PlanIf
  <2>2. next.op = "delete" /\ next.id = k.id  BY <1>1, PlannedCall
  <2>3. w.do = "erase" /\ w.id = k.id /\ w = [do |-> "erase", id |-> w.id]  BY DEF Browser!Erase
  <2>4. EraseOK(next, w)  BY <1>3, <2>2, <2>3 DEF EraseOK, Erasers, Browser!Live
  <2>5. WriteOK(next, w)  BY <2>3, <2>4, WriteNamesOf DEF WriteOK
  <2>6. CoverOK(next)  BY <2>2, NothingToClear
  <2> QED  BY <1>1, <2>1, <2>5, <2>6, ChangesKeep DEF Makers
<1> QED  BY <1>2, <1>3

\* setBudget: the category was there when the member chose it.
LEMMA BookItKeeps ==
    ASSUME WritesInv, NEW s \in Slot, Browser!BookIt(s)
    PROVE  WritesInv'
<1> PICK k, w : k = writing[s] /\ w = Browser!Book(k.id, k.arg)  OBVIOUS
<1>1. /\ Browser!Busy(s) /\ CallOK(k) /\ k.op = "setBudget" /\ k.phase <= Len(Browser!Steps[k.op])
  <2>1. Browser!Ready(s, "setBudget", "book")  BY DEF Browser!BookIt
  <2> QED  BY <2>1, ReadyIs
<1>2. PICK writes \in SUBSET {w} : Browser!Plan(s, writes)  BY DEF Browser!BookIt
<1> PICK next : next = Planning(k, writes)  OBVIOUS
<1>3. next.op = "setBudget" /\ \A n : Held(next, n) <=> Held(k, n)  BY <1>1, PlannedCall
<1>4. /\ w.do = "book" /\ w.budget = <<k.id, k.arg>>
      /\ w = [do |-> "book", budget |-> w.budget]
  BY DEF Browser!Book
<1>5. WriteOK(next, w)
  <2>1. k.id \in Browser!Ids("category") \cup Browser!Ids("group")  BY <1>1 DEF CallOK, Given
  <2>2. \A n \in {k.id} \cap Browser!Ids("category") : Held(next, n)
    BY <1>1, <1>3, ArgNamesOf DEF CallOK
  <2>3. WriteNames(w) = {k.id} \cap Browser!Ids("category")  BY <1>4, WriteNamesOf
  <2> QED  BY <1>3, <1>4, <2>1, <2>2, <2>3 DEF WriteOK
<1>6. CoverOK(next)  BY <1>3, NothingToClear
<1> QED  BY <1>1, <1>2, <1>4, <1>5, <1>6, ChangesKeep DEF Makers

\* copyBudgets: the categories of the budgets there are.
LEMMA CopyMissingKeeps ==
    ASSUME WritesInv, NEW s \in Slot, Browser!CopyMissing(s)
    PROVE  WritesInv'
<1> PICK k : k = writing[s]  OBVIOUS
<1>1. /\ Browser!Busy(s) /\ CallOK(k) /\ k.op = "copyBudgets" /\ k.phase <= Len(Browser!Steps[k.op])
  <2>1. Browser!Ready(s, "copyBudgets", "copy")  BY DEF Browser!CopyMissing
  <2> QED  BY <2>1, ReadyIs
<1>2. PICK writes : /\ Browser!Plan(s, writes)
                    /\ \A w \in writes : \E b \in budget : \E m : w = Browser!Book(b[1], m)
  <2>1. PICK from, to : from = k.arg[1] /\ to = k.arg[2]  OBVIOUS
  <2>2. PICK writes : writes = {Browser!Book(b[1], to) :
                                   b \in {x \in budget : x[2] = from /\ <<x[1], to>> \notin budget}}
    OBVIOUS
  <2>3. Browser!Plan(s, writes)  BY <2>1, <2>2 DEF Browser!CopyMissing
  <2>4. \A w \in writes : \E b \in budget : \E m : w = Browser!Book(b[1], m)  BY <2>2
  <2> QED  BY <2>3, <2>4
<1> PICK next : next = Planning(k, writes)  OBVIOUS
<1>3. next.op = "copyBudgets"  BY <1>1, PlannedCall
<1>4. ASSUME NEW w \in writes  PROVE WriteOK(next, w) /\ w.do = "book"
  <2>0. PICK b \in budget : \E m : w = Browser!Book(b[1], m)  BY <1>2
  <2>1. PICK m : w = Browser!Book(b[1], m)  BY <2>0
  <2>2. /\ w.do = "book" /\ w.budget = <<b[1], m>>
        /\ w = [do |-> "book", budget |-> w.budget]
    BY <2>1 DEF Browser!Book
  <2>3. /\ b[1] \in Browser!Ids("category") \cup Browser!Ids("group")
        /\ b[1] \in Browser!Ids("category") =>
              b[1] \in DOMAIN Documents /\ (b[1] \in contested \/ Browser!Live(b[1]))
    BY DEF WritesInv, StoredOK, Browser!ReferencesResolve, Browser!Ids
  <2>4. b[1] \in Browser!Ids("category") => Held(next, b[1])
    BY <1>3, <2>3 DEF Held, MayHold, Browser!Ids
  <2>5. WriteNames(w) = {b[1]} \cap Browser!Ids("category")  BY <2>2, WriteNamesOf
  <2> QED  BY <1>3, <2>2, <2>3, <2>4, <2>5 DEF WriteOK
<1>5. CoverOK(next)  BY <1>3, NothingToClear
<1> QED  BY <1>1, <1>2, <1>4, <1>5, ChangesKeep DEF Makers

\* deleteBudget: nothing names a budget.
LEMMA UnbookItKeeps ==
    ASSUME WritesInv, NEW s \in Slot, Browser!UnbookIt(s)
    PROVE  WritesInv'
<1> PICK k, w : k = writing[s] /\ w = Browser!Unbook(k.arg)  OBVIOUS
<1>1. /\ Browser!Busy(s) /\ CallOK(k) /\ k.op = "deleteBudget" /\ k.phase <= Len(Browser!Steps[k.op])
  <2>1. Browser!Ready(s, "deleteBudget", "remove")  BY DEF Browser!UnbookIt
  <2> QED  BY <2>1, ReadyIs
<1>2. CASE k.arg \notin budget  BY <1>1, <1>2, EndKeeps DEF Browser!UnbookIt, Browser!PlanIf
<1>3. CASE k.arg \in budget
  <2> PICK next : next = Planning(k, {w})  OBVIOUS
  <2>1. Browser!Plan(s, {w})  BY <1>3 DEF Browser!UnbookIt, Browser!PlanIf
  <2>2. next.op = "deleteBudget"  BY <1>1, PlannedCall
  <2>3. w.do = "unbook" /\ w = [do |-> "unbook", budget |-> w.budget]  BY DEF Browser!Unbook
  <2>4. WriteOK(next, w)  BY <2>3, WriteNamesOf DEF WriteOK
  <2>5. CoverOK(next)  BY <2>2, NothingToClear
  <2> QED  BY <1>1, <2>1, <2>4, <2>5, ChangesKeep DEF Makers
<1> QED  BY <1>2, <1>3

\* updateCategory: the category it makes suits its group.
LEMMA RecategorizeKeeps ==
    ASSUME WritesInv, NEW s \in Slot, Browser!Recategorize(s)
    PROVE  WritesInv'
<1> PICK k, w : k = writing[s] /\ w = Browser!Change(k.id, k.arg)  OBVIOUS
<1>1. /\ Browser!Busy(s) /\ CallOK(k) /\ k.op = "updateCategory" /\ k.phase <= Len(Browser!Steps[k.op])
  <2>1. Browser!Ready(s, "updateCategory", "patch")  BY DEF Browser!Recategorize
  <2> QED  BY <2>1, ReadyIs
<1>2. CASE ~(Browser!Live(k.id) /\ Browser!GroupFits(Browser!Patched(doc[k.id], k.arg)))
  BY <1>1, <1>2, EndKeeps DEF Browser!Recategorize, Browser!PlanIf
<1>3. CASE Browser!Live(k.id) /\ Browser!GroupFits(Browser!Patched(doc[k.id], k.arg))
  <2> PICK next : next = Planning(k, {w})  OBVIOUS
  <2>1. Browser!Plan(s, {w})  BY <1>3 DEF Browser!Recategorize, Browser!PlanIf
  <2>2. next.op = "updateCategory" /\ next.id = k.id /\ \A n : Held(next, n) <=> Held(k, n)
    BY <1>1, PlannedCall
  <2>3. /\ w.do = "set" /\ w.id = k.id /\ w.set = k.arg
        /\ w = [do |-> "set", id |-> w.id, set |-> w.set, seen |-> w.seen]
    BY DEF Browser!Change
  <2>4. /\ k.id \in DOMAIN Documents /\ Browser!KindOf[k.id] = "category"
        /\ PatchOK("category", k.arg)
    BY <1>1 DEF CallOK, Given, Browser!Ids
  <2>5. "amount" \notin DOMAIN k.arg /\ "splits" \notin DOMAIN k.arg
    BY <2>4 DEF PatchOK, Fields
  <2>6. SetOK(next, w)
    <3>1. Suits(k.id, Browser!Patched(doc[k.id], k.arg))  BY <1>3 DEF Suits
    <3>2. doc[k.id] # None  BY <1>3 DEF Browser!Live
    <3> QED  BY <2>2, <2>3, <2>4, <2>5, <3>1, <3>2 DEF SetOK, Renamers
  <2>7. \A n \in WriteNames(w) : Held(next, n)
    <3>1. WriteNames(w) = Browser!Named(k.arg)  BY <2>3, WriteNamesOf
    <3>2. ArgNames(k) = Browser!Named(k.arg)  BY <1>1, ArgNamesOf
    <3> QED  BY <1>1, <2>2, <3>1, <3>2 DEF CallOK
  <2>8. WriteOK(next, w)  BY <2>3, <2>6, <2>7 DEF WriteOK
  <2>9. CoverOK(next)  BY <2>2, NothingToClear
  <2> QED  BY <1>1, <2>1, <2>8, <2>9, ChangesKeep DEF Makers
<1> QED  BY <1>2, <1>3

\* updateGroup: the group keeps its kind, or has no categories.
LEMMA RegroupKeeps ==
    ASSUME WritesInv, NEW s \in Slot, Browser!Regroup(s)
    PROVE  WritesInv'
<1> PICK k, g : k = writing[s] /\ g = k.id  OBVIOUS
<1>0. PICK p : p = [categoryKind |-> k.arg]  OBVIOUS
<1> PICK w : w = Browser!Change(g, p)  OBVIOUS
<1>1. /\ Browser!Busy(s) /\ CallOK(k) /\ k.op = "updateGroup" /\ k.phase <= Len(Browser!Steps[k.op])
  <2>1. Browser!Ready(s, "updateGroup", "patch")  BY DEF Browser!Regroup
  <2> QED  BY <2>1, ReadyIs
<1>2. CASE ~(Browser!Live(g) /\ (doc[g].categoryKind = k.arg \/ Browser!Members(g) = {}))
  BY <1>1, <1>2, EndKeeps DEF Browser!Regroup, Browser!PlanIf
<1>3. CASE Browser!Live(g) /\ (doc[g].categoryKind = k.arg \/ Browser!Members(g) = {})
  <2> PICK next : next = Planning(k, {w})  OBVIOUS
  <2>1. Browser!Plan(s, {w})  BY <1>0, <1>3 DEF Browser!Regroup, Browser!PlanIf
  <2>2. next.op = "updateGroup" /\ next.id = g /\ next.arg = k.arg  BY <1>1, PlannedCall
  <2>3. /\ w.do = "set" /\ w.id = g /\ w.set = p
        /\ w = [do |-> "set", id |-> w.id, set |-> w.set, seen |-> w.seen]
    BY DEF Browser!Change
  <2>4. DOMAIN p = {"categoryKind"} /\ p["categoryKind"] = k.arg  BY <1>0
  <2>5. /\ g \in DOMAIN Documents /\ Browser!KindOf[g] = "group"
        /\ PatchOK("group", p)
    <3>1. g \in Browser!Ids("group") /\ k.arg \in Browser!CategoryKind  BY <1>1 DEF CallOK, Given
    <3>2. Fields("group") = {"categoryKind"} /\ Values("categoryKind") = Browser!CategoryKind
      BY DEF Fields, Values
    <3> QED  BY <2>4, <3>1, <3>2 DEF PatchOK, Browser!Ids
  <2>6. SetOK(next, w)
    <3>1. doc[g] # None  BY <1>3 DEF Browser!Live
    <3> QED  BY <1>0, <1>3, <2>2, <2>3, <2>4, <2>5, <3>1 DEF SetOK, Renamers
  <2>7. WriteNames(w) = {}  BY <2>3, <2>4, WriteNamesOf, NamedBy DEF Browser!Naming
  <2>8. WriteOK(next, w)  BY <2>3, <2>6, <2>7 DEF WriteOK
  <2>9. CoverOK(next)  BY <2>2, NothingToClear
  <2> QED  BY <1>1, <2>1, <2>8, <2>9, ChangesKeep DEF Makers
<1> QED  BY <1>2, <1>3

\* deleteGroup: no category is in the group it is about to remove.
LEMMA RemoveGroupKeeps ==
    ASSUME WritesInv, NEW s \in Slot, Browser!RemoveGroup(s)
    PROVE  WritesInv'
<1> PICK k, g, w : k = writing[s] /\ g = k.id /\ w = Browser!Erase(k.id)  OBVIOUS
<1>1. /\ Browser!Busy(s) /\ CallOK(k) /\ k.op = "deleteGroup" /\ k.phase = 1
      /\ k.phase <= Len(Browser!Steps[k.op]) /\ k.todo = {}
  <2>1. Browser!Ready(s, "deleteGroup", "remove")  BY DEF Browser!RemoveGroup
  <2> QED  BY <2>1, ReadyIs, StepsOf
<1>2. CASE ~(Browser!Live(g) /\ Browser!Members(g) = {})
  BY <1>1, <1>2, EndKeeps DEF Browser!RemoveGroup, Browser!PlanIf
<1>3. CASE Browser!Live(g) /\ Browser!Members(g) = {}
  <2> PICK next : next = Planning(k, {w})  OBVIOUS
  <2>1. Browser!Plan(s, {w})  BY <1>3 DEF Browser!RemoveGroup, Browser!PlanIf
  <2>2. next.op = "deleteGroup" /\ next.id = g /\ next.phase = 2  BY <1>1, PlannedCall
  <2>3. w.do = "erase" /\ w.id = g /\ w = [do |-> "erase", id |-> w.id]  BY DEF Browser!Erase
  <2>4. EraseOK(next, w)
    <3>1. Len(Browser!Steps["deleteGroup"]) = 1  BY StepsOf
    <3>2. next.phase = Len(Browser!Steps[next.op]) + 1
      <4>1. PICK l : l = Len(Browser!Steps[next.op])  OBVIOUS
      <4>2. l = 1  BY <2>2, <3>1, <4>1
      <4>3. next.phase = l + 1  BY <2>2, <4>2
      <4> QED  BY <4>1, <4>3
    <3>3. doc[g] # None  BY <1>3 DEF Browser!Live
    <3> QED  BY <2>2, <2>3, <3>2, <3>3 DEF EraseOK, Erasers
  <2>5. WriteOK(next, w)  BY <2>3, <2>4, WriteNamesOf DEF WriteOK
  <2>6. \A y \in Browser!Of("category") : Browser!Where(doc[y], g) = {}
    <3>1. SUFFICES ASSUME NEW y \in Browser!Of("category"), NEW f \in Browser!Where(doc[y], g)
                   PROVE  FALSE
      OBVIOUS
    <3>2. StoredOK  BY DEF WritesInv
    <3>3. y \in DOMAIN Documents /\ Browser!Live(y) /\ Browser!KindOf[y] = "category"
      BY <3>1, <3>2, LiveIs DEF Browser!Ids
    <3>4. doc[y] \in Browser!Document("category") /\ "category" \in Browser!Kinds
      BY <3>2, <3>3, LiveIs
    <3>5. Browser!KindOf[g] = "group" /\ g # None
      BY <1>1, NoDocument DEF CallOK, Given, Browser!Ids
    <3>6. f \in Browser!Naming \cap DOMAIN doc[y] /\ g \in Browser!Names(doc[y], f)
      BY <3>1 DEF Browser!Where
    <3>7. f = "parent"  BY <3>4, <3>6 DEF Browser!Document, Browser!Naming
    <3>8. doc[y].parent = g  BY <3>6, <3>7 DEF Browser!Names
    <3> QED  BY <1>3, <3>1, <3>8 DEF Browser!Members
  <2>7. CoverOK(next)
    <3>1. Cleared(next) \subseteq {"category"}  BY <2>2 DEF Cleared, Renamers
    <3> QED  BY <2>2, <2>6, <3>1 DEF CoverOK
  <2> QED  BY <1>1, <2>1, <2>5, <2>7, ChangesKeep DEF Makers
<1> QED  BY <1>2, <1>3

-----------------------------------------------------------------------------
(* HouseholdWrites: removing a category, merging merchants *)

\* The entry a call removes in favour of another one of its kind.
LEMMA ReplacedIs ==
    ASSUME NEW k, CallOK(k), k.op \in Renamers
    PROVE  /\ k.id \in DOMAIN Documents /\ k.id # None /\ k.arg # k.id
           /\ k.op = "deleteCategory" => Browser!KindOf[k.id] = "category"
           /\ k.op = "mergeMerchants" => Browser!KindOf[k.id] = "merchant"
           /\ k.arg \in Browser!Ref(Browser!KindOf[k.id])
           /\ k.arg # None => Held(k, k.arg)
<1>1. Given(k)  BY DEF CallOK
<1>2. k.id \in DOMAIN Documents /\ k.arg # k.id
  BY <1>1 DEF Given, Renamers, Browser!Ids
<1>3. k.id # None  BY <1>2, NoDocument
<1>4. /\ k.op = "deleteCategory" => Browser!KindOf[k.id] = "category"
      /\ k.op = "mergeMerchants" => Browser!KindOf[k.id] = "merchant"
  BY <1>1 DEF Given, Browser!Ids
<1>5. k.arg \in Browser!Ref(Browser!KindOf[k.id])
  <2>1. CASE k.op = "deleteCategory"  BY <1>1, <1>4, <2>1 DEF Given
  <2>2. CASE k.op = "mergeMerchants"  BY <1>1, <1>4, <2>2 DEF Given, Browser!Ref
  <2> QED  BY <2>1, <2>2 DEF Renamers
<1>6. k.arg # None => Held(k, k.arg)
  <2>1. ArgNames(k) = {k.arg} \ {None}  BY ArgNamesOf
  <2> QED  BY <2>1 DEF CallOK
<1> QED  BY <1>2, <1>3, <1>4, <1>5, <1>6

\* The splits of a transaction after the category was replaced in each.
LEMMA ReplacedSplits ==
    ASSUME NEW d, d.splits \in Seq(Browser!Share), NEW id, NEW into \in Browser!Ref("category"),
           NEW new, new = Browser!Replaced(d, "splits", id, into)
    PROVE  /\ new \in Seq(Browser!Share) /\ SameAmounts(new, d.splits)
           /\ DOMAIN new = DOMAIN d.splits
           /\ \A i \in DOMAIN new :
                 new[i].category = IF d.splits[i].category = id THEN into ELSE d.splits[i].category
<1> PICK old : old = d.splits  OBVIOUS
<1>1. new = [i \in DOMAIN old |->
                [old[i] EXCEPT !.category = IF old[i].category = id THEN into ELSE old[i].category]]
  BY DEF Browser!Replaced
<1>2. ASSUME NEW i \in DOMAIN old
      PROVE  /\ new[i] \in Browser!Share /\ new[i].amount = old[i].amount
             /\ new[i].category = IF old[i].category = id THEN into ELSE old[i].category
  <2>1. old[i] \in [category : Browser!Ref("category"), amount : Int]
    <3>1. old[i] \in Browser!Share
      <4>1. old \in Seq(Browser!Share)  OBVIOUS
      <4> QED  BY <1>2, <4>1
    <3> QED  BY <3>1 DEF Browser!Share
  <2>2. PICK c : c = IF old[i].category = id THEN into ELSE old[i].category  OBVIOUS
  <2>3. c \in Browser!Ref("category")  BY <2>1, <2>2
  <2>4. new[i] = [old[i] EXCEPT !.category = c]  BY <1>1, <1>2, <2>2
  <2> QED  BY <2>1, <2>2, <2>3, <2>4 DEF Browser!Share
<1>3. DOMAIN new = DOMAIN old  BY <1>1
<1>4. new \in Seq(Browser!Share)
  <2>1. PICK m \in Nat : m = Len(old) /\ DOMAIN old = 1..m  OBVIOUS
  <2>2. new \in [1..m -> Browser!Share]  BY <1>1, <1>2, <2>1
  <2> QED  BY <2>2
<1> QED  BY <1>2, <1>3, <1>4 DEF SameAmounts

\* A document that named the entry, with the other one in its place.
LEMMA RenamingIs ==
    ASSUME StoredOK, NEW k, CallOK(k), k.op \in Renamers,
           NEW kind \in {"transaction", "rule", "recurrence"}, NEW x \in Browser!Of(kind),
           NEW w, w = Browser!Renaming(x, k.id, k.arg)
    PROVE  /\ w = [do |-> "set", id |-> w.id, set |-> w.set, seen |-> w.seen] /\ w.do = "set"
           /\ w.id = x /\ DOMAIN w.set = Browser!Where(doc[x], k.id) /\ PatchOK(kind, w.set)
           /\ "splits" \in DOMAIN w.set => w.seen # None /\ SameAmounts(w.set.splits, w.seen.splits)
           /\ \A n \in Browser!Named(w.set) : n # k.id /\ Held(k, n)
<1> PICK id, into, d, e, fields :
       /\ id = k.id /\ into = k.arg /\ d = doc[x] /\ fields = Browser!Where(d, id)
       /\ e = [f \in fields |-> Browser!Replaced(d, f, id, into)]
  OBVIOUS
<1>1. /\ w.do = "set" /\ w.id = x /\ w.set = e
      /\ w = [do |-> "set", id |-> w.id, set |-> w.set, seen |-> w.seen]
      /\ "splits" \in fields => w.seen = Browser!Splitting(x)
  BY DEF Browser!Renaming, Browser!Change
<1>2. /\ x \in DOMAIN Documents /\ Browser!Live(x) /\ Browser!KindOf[x] = kind
      /\ kind \in Browser!Kinds /\ d \in Browser!Document(kind)
  <2>1. x \in Browser!Ids(kind) /\ Browser!Live(x)  BY LiveIs
  <2> QED  BY <2>1, LiveIs DEF Browser!Ids
<1>3. /\ DOMAIN d = {"kind"} \cup Fields(kind) /\ \A f \in Fields(kind) : d[f] \in Values(f)
      /\ "kind" \notin Browser!Naming
  BY <1>2, FieldsOf DEF Browser!Naming
<1>4. /\ id # None /\ into # id /\ into \in Browser!Ref(Browser!KindOf[id])
      /\ into # None => Held(k, into)
      /\ Browser!KindOf[id] = "category" => k.op = "deleteCategory"
  BY ReplacedIs DEF Renamers
<1>5. ASSUME NEW f \in fields
      PROVE  /\ f \in Browser!Naming /\ f \in Fields(kind) /\ d[f] \in Values(f)
             /\ Browser!KindOf[id] = Target(f)
  <2>1. f \in Browser!Naming \cap DOMAIN d /\ id \in Browser!Names(d, f)
    BY <1>5 DEF Browser!Where
  <2>2. f \in Fields(kind) /\ d[f] \in Values(f)  BY <1>3, <2>1
  <2> QED  BY <1>4, <2>1, <2>2, NamesTarget
<1>6. "splits" \in fields =>
         /\ k.op = "deleteCategory" /\ d.splits \in Seq(Browser!Share)
         /\ e.splits \in Seq(Browser!Share) /\ SameAmounts(e.splits, d.splits)
         /\ DOMAIN e.splits = DOMAIN d.splits
         /\ \A i \in DOMAIN e.splits :
               e.splits[i].category = IF d.splits[i].category = id THEN into ELSE d.splits[i].category
  <2> SUFFICES ASSUME "splits" \in fields  PROVE <1>6!2
    OBVIOUS
  <2>1. Browser!KindOf[id] = "category" /\ d.splits \in Seq(Browser!Share)
    BY <1>5 DEF Target, Values
  <2>2. e.splits = Browser!Replaced(d, "splits", id, into)  OBVIOUS
  <2> QED  BY <1>4, <2>1, <2>2, ReplacedSplits
<1>7. PatchOK(kind, e)
  <2>1. ASSUME NEW f \in fields  PROVE e[f] \in Values(f)
    <3>1. CASE f = "splits"  BY <1>6, <2>1, <3>1 DEF Values
    <3>2. CASE f # "splits"
      <4>1. e[f] = into  BY <2>1, <3>2 DEF Browser!Replaced
      <4>2. f \in Browser!Naming /\ Browser!KindOf[id] = Target(f)  BY <1>5, <2>1
      <4> QED  BY <1>4, <3>2, <4>1, <4>2 DEF Browser!Naming, Target, Values
    <3> QED  BY <3>1, <3>2
  <2> QED  BY <1>5, <2>1 DEF PatchOK
<1>8. "splits" \in fields => w.seen # None /\ SameAmounts(e.splits, w.seen.splits)
  <2> SUFFICES ASSUME "splits" \in fields  PROVE <1>8!2
    OBVIOUS
  <2>1. w.seen = [amount |-> d.amount, splits |-> d.splits]  BY <1>1 DEF Browser!Splitting
  <2>2. kind = "transaction"  BY <1>5 DEF Fields
  <2>3. d.amount \in Int  BY <1>3, <2>2 DEF Fields, Values
  <2>4. w.seen \in [amount : Int, splits : Seq(Browser!Share)]  BY <1>6, <2>1, <2>3
  <2>5. None \notin [amount : Int, splits : Seq(Browser!Share)]
    BY WritesAssumption DEF Browser!InUse
  <2> QED  BY <1>6, <2>1, <2>4, <2>5
<1>9. ASSUME NEW n \in Browser!Named(e)  PROVE n # id /\ Held(k, n)
  <2>1. PICK f \in fields : n \in Browser!Names(e, f) /\ n # None
    <3>1. DOMAIN e = fields  OBVIOUS
    <3> QED  BY <1>9, <3>1, NamedBy
  <2>2. CASE f # "splits"
    <3>1. n = into  BY <2>1, <2>2 DEF Browser!Names, Browser!Replaced
    <3> QED  BY <1>4, <2>1, <3>1
  <2>3. CASE f = "splits"
    <3>1. PICK i \in DOMAIN e.splits : n = e.splits[i].category
      BY <2>1, <2>3 DEF Browser!Names, Browser!ToSet
    <3>2. CASE d.splits[i].category = id  BY <1>4, <1>6, <2>1, <2>3, <3>1, <3>2
    <3>3. CASE d.splits[i].category # id
      <4>1. n = d.splits[i].category /\ i \in DOMAIN d.splits  BY <1>6, <2>1, <2>3, <3>1, <3>3
      <4>2. n \in Browser!Names(d, "splits")  BY <4>1 DEF Browser!Names, Browser!ToSet
      <4>3. "splits" \in Browser!Naming \cap DOMAIN d /\ d["splits"] \in Values("splits")
        BY <1>3, <1>5, <2>1, <2>3
      <4>4. n \in Browser!Named(d)  BY <2>1, <4>2, <4>3 DEF Browser!Named
      <4>5. n \in DOMAIN Documents /\ (n \in contested \/ Browser!Live(n))
        BY <1>2, <4>4, StoredNames
      <4>6. Browser!KindOf[n] = "category"  BY <2>1, <4>2, <4>3, NamesTarget DEF Target
      <4> QED  BY <1>6, <2>1, <2>3, <3>3, <4>1, <4>5, <4>6 DEF Held, MayHold
    <3> QED  BY <3>2, <3>3
  <2> QED  BY <2>2, <2>3
<1> QED  BY <1>1, <1>7, <1>8, <1>9

\* These writes are all it takes for documents of these kinds not to name the entry.
Covered(k, kinds, writes) ==
    \A kind \in kinds : \A x \in Browser!Of(kind) :
        \/ Browser!Where(doc[x], k.id) = {}
        \/ \E w \in writes : /\ w.do = "set" /\ w.id = x
                             /\ Browser!Where(doc[x], k.id) \subseteq DOMAIN w.set

\* A call that has made its writes goes on with one more kind.
LEMMA CoverNext ==
    ASSUME NEW k, CallOK(k), k.todo = {}, k.phase <= Len(Browser!Steps[k.op]), NEW writes,
           NEW next, next = Planning(k, writes), NEW more,
           Cleared(next) \subseteq Cleared(k) \cup more,
           Covered(k, more, writes),
           k.op = "deleteCategory" /\ k.phase = 4 =>
              \A b \in budget : b[1] = k.id => Browser!Unbook(b) \in writes
    PROVE  CoverOK(next)
<1>1. /\ next.op = k.op /\ next.id = k.id /\ next.todo = writes /\ next.phase = k.phase + 1
  BY PlannedCall
<1>2. CoverOK(k)  BY DEF CallOK
<1>3. k.phase \in Nat
  <2>1. Len(Browser!Steps[k.op]) \in Nat /\ k.op \in DOMAIN Browser!Steps
    <3>1. k.op \in DOMAIN Browser!Steps  BY DEF CallOK, Given
    <3>2. \A op \in DOMAIN Browser!Steps : Len(Browser!Steps[op]) \in Nat  BY StepsOf
    <3> QED  BY <3>1, <3>2
  <2> QED  BY <2>1 DEF CallOK, Given
<1>4. ASSUME k.id \notin contested, NEW kind \in Cleared(next), NEW x \in Browser!Of(kind)
      PROVE  \/ Browser!Where(doc[x], k.id) = {}
             \/ Rewrites(next, x, Browser!Where(doc[x], k.id))
  <2>1. CASE kind \in Cleared(k)  BY <1>2, <1>4, <2>1 DEF CoverOK, Rewrites
  <2>2. CASE kind \in more  BY <1>1, <1>4, <2>2 DEF Covered, Rewrites
  <2> QED  BY <1>4, <2>1, <2>2
<1>5. ASSUME k.id \notin contested, next.op = "deleteCategory", next.phase >= 5,
             NEW b \in budget, b[1] = k.id
      PROVE  Browser!Unbook(b) \in writes
  <2>1. CASE k.phase = 4  BY <1>1, <1>5, <2>1
  <2>2. CASE k.phase >= 5  BY <1>1, <1>2, <1>5, <2>2 DEF CoverOK
  <2> QED  BY <1>1, <1>3, <1>5, <2>1, <2>2
<1> QED  BY <1>1, <1>4, <1>5 DEF CoverOK

\* Both calls take five steps.
LEMMA FiveSteps ==
    ASSUME NEW op \in Renamers
    PROVE  Len(Browser!Steps[op]) = 5
<1>1. Len(Browser!Steps["deleteCategory"]) = 5 /\ Len(Browser!Steps["mergeMerchants"]) = 5
  BY StepsOf
<1>2. op = "deleteCategory" \/ op = "mergeMerchants"  BY DEF Renamers
<1> QED  BY <1>1, <1>2

\* The steps after which one more kind of documents does not name the entry.
Clears(op, phase) ==
    CASE op = "deleteCategory" /\ phase = 2 -> "transaction"
      [] op = "deleteCategory" /\ phase = 3 -> "rule"
      [] op = "mergeMerchants" /\ phase = 2 -> "transaction"
      [] op = "mergeMerchants" /\ phase = 3 -> "recurrence"
      [] op = "mergeMerchants" /\ phase = 4 -> "rule"
      [] OTHER -> "none"

\* A step clears one kind more, or none.
LEMMA ClearsMore ==
    ASSUME NEW k, k.op \in Renamers, k.phase \in 1..5,
           NEW next, next.op = k.op, next.phase = k.phase + 1
    PROVE  Cleared(next) \subseteq Cleared(k) \cup ({Clears(k.op, k.phase)} \ {"none"})
<1>1. CASE k.op = "deleteCategory"  BY <1>1 DEF Cleared, Clears, Renamers
<1>2. CASE k.op = "mergeMerchants"  BY <1>2 DEF Cleared, Clears, Renamers
<1> QED  BY <1>1, <1>2 DEF Renamers

\* Both calls: every document of a kind that names the entry.
LEMMA RenameKeeps ==
    ASSUME WritesInv, NEW s \in Slot, NEW op \in Renamers, NEW step, Browser!Ready(s, op, step),
           NEW kind \in {"transaction", "rule", "recurrence"}, Browser!Rename(s, kind),
           kind = Clears(op, writing[s].phase)
    PROVE  WritesInv'
<1> PICK k : k = writing[s]  OBVIOUS
<1>1. /\ Browser!Busy(s) /\ CallOK(k) /\ k.op = op /\ k.phase <= Len(Browser!Steps[k.op])
      /\ k.todo = {} /\ k.phase \in Nat /\ k.phase >= 1 /\ k.phase <= Len(Browser!Steps[op])
  BY ReadyIs
<1>2. k.phase \in 1..5
  <2>1. PICK last : last = Len(Browser!Steps[op])  OBVIOUS
  <2>2. last = 5 /\ k.phase <= last  BY <1>1, <2>1, FiveSteps
  <2> QED  BY <1>1, <2>2
<1>0. PICK writes : writes = {Browser!Renaming(x, k.id, k.arg) :
                                 x \in {y \in Browser!Of(kind) : Browser!Where(doc[y], k.id) # {}}}
  OBVIOUS
<1> PICK next : next = Planning(k, writes)  OBVIOUS
<1>3. Browser!Plan(s, writes)  BY <1>0 DEF Browser!Rename
<1>4. next.op = k.op /\ next.id = k.id /\ next.phase = k.phase + 1 /\ \A n : Held(next, n) <=> Held(k, n)
  BY <1>1, PlannedCall
<1>5. StoredOK  BY DEF WritesInv
<1>6. ASSUME NEW w \in writes  PROVE WriteOK(next, w) /\ w.do = "set"
  <2>1. PICK x \in Browser!Of(kind) : w = Browser!Renaming(x, k.id, k.arg)  BY <1>0, <1>6
  <2>2. /\ w = [do |-> "set", id |-> w.id, set |-> w.set, seen |-> w.seen] /\ w.do = "set"
        /\ w.id = x /\ DOMAIN w.set = Browser!Where(doc[x], k.id) /\ PatchOK(kind, w.set)
        /\ "splits" \in DOMAIN w.set => w.seen # None /\ SameAmounts(w.set.splits, w.seen.splits)
        /\ \A n \in Browser!Named(w.set) : n # k.id /\ Held(k, n)
    BY <1>1, <1>5, <2>1, RenamingIs
  <2>3. x \in DOMAIN Documents /\ Browser!KindOf[x] = kind /\ doc[x] # None
    <3>1. x \in Browser!Ids(kind) /\ Browser!Live(x)  BY <1>5, LiveIs
    <3> QED  BY <3>1 DEF Browser!Ids, Browser!Live
  <2>4. "amount" \notin DOMAIN w.set  BY <2>2 DEF Browser!Where, Browser!Naming
  <2>5. SetOK(next, w)
    <3>1. k.id \notin Browser!Named(w.set)  BY <2>2
    <3> QED  BY <1>4, <2>2, <2>3, <2>4, <3>1 DEF SetOK
  <2>6. \A n \in WriteNames(w) : Held(next, n)  BY <1>4, <2>2, WriteNamesOf
  <2> QED  BY <2>2, <2>5, <2>6 DEF WriteOK
<1>7. ASSUME NEW x \in Browser!Of(kind), Browser!Where(doc[x], k.id) # {}
      PROVE  \E w \in writes : /\ w.do = "set" /\ w.id = x
                               /\ Browser!Where(doc[x], k.id) \subseteq DOMAIN w.set
  <2> PICK w : w = Browser!Renaming(x, k.id, k.arg)  OBVIOUS
  <2>1. w \in writes  BY <1>0, <1>7
  <2>2. w.do = "set" /\ w.id = x /\ DOMAIN w.set = Browser!Where(doc[x], k.id)
    BY <1>1, <1>5, <1>7, RenamingIs
  <2> QED  BY <2>1, <2>2
<1>8. CoverOK(next)
  <2>0. PICK more : more = {kind}  OBVIOUS
  <2>1. Cleared(next) \subseteq Cleared(k) \cup more
    <3>1. Cleared(next) \subseteq Cleared(k) \cup ({Clears(k.op, k.phase)} \ {"none"})
      BY <1>1, <1>2, <1>4, ClearsMore
    <3> QED  BY <1>1, <2>0, <3>1
  <2>2. ~(k.op = "deleteCategory" /\ k.phase = 4)  BY <1>1 DEF Clears
  <2>3. Covered(k, more, writes)  BY <1>7, <2>0 DEF Covered
  <2>4. /\ CallOK(k) /\ k.todo = {} /\ k.phase <= Len(Browser!Steps[k.op])
        /\ k.op = "deleteCategory" /\ k.phase = 4 =>
              \A b \in budget : b[1] = k.id => Browser!Unbook(b) \in writes
    BY <1>1, <2>2
  <2> QED  BY <2>1, <2>3, <2>4, CoverNext
<1>9. k.op \notin Makers /\ k.op \notin {"updateCategory", "updateGroup"}
  BY <1>1 DEF Makers, Renamers
<1>10. \A w \in writes : WriteOK(next, w) /\ w.do \notin {"erase", "insert"}
  <2>1. \A w \in writes : WriteOK(next, w) /\ w.do = "set"  BY <1>6
  <2> QED  BY <2>1
<1> QED  BY <1>1, <1>3, <1>8, <1>9, <1>10, ChangesKeep

\* deleteCategory and mergeMerchants, their steps that rename.
LEMMA RenamesKeep ==
    ASSUME WritesInv, NEW s \in Slot,
           \/ Browser!MoveTransactions(s) \/ Browser!MoveRules(s)
           \/ Browser!RenameTransactions(s) \/ Browser!RenameRecurrences(s) \/ Browser!RenameRules(s)
    PROVE  WritesInv'
<1> PICK p : p = writing[s].phase  OBVIOUS
<1>0. /\ Len(Browser!Steps["deleteCategory"]) = 5 /\ Len(Browser!Steps["mergeMerchants"]) = 5
      /\ \A i \in 1..5 : /\ Browser!Steps["deleteCategory"][i] = "transactions" => i = 2
                         /\ Browser!Steps["deleteCategory"][i] = "rules" => i = 3
                         /\ Browser!Steps["mergeMerchants"][i] = "transactions" => i = 2
                         /\ Browser!Steps["mergeMerchants"][i] = "recurrences" => i = 3
                         /\ Browser!Steps["mergeMerchants"][i] = "rules" => i = 4
  BY StepsOf
<1>00. ASSUME NEW op \in Renamers, NEW step, Browser!Ready(s, op, step)
       PROVE  p \in 1..5 /\ Browser!Steps[op][p] = step
  <2>1. /\ p \in Nat /\ p >= 1 /\ p <= Len(Browser!Steps[op]) /\ Browser!Steps[op][p] = step
    BY <1>00, ReadyIs
  <2>2. Len(Browser!Steps[op]) = 5  BY <1>0 DEF Renamers
  <2> QED  BY <2>1, <2>2
<1>1. CASE Browser!MoveTransactions(s)
  <2>1. Browser!Ready(s, "deleteCategory", "transactions") /\ Browser!Rename(s, "transaction")
    BY <1>1 DEF Browser!MoveTransactions
  <2>2. p = 2  BY <1>0, <1>00, <2>1 DEF Renamers
  <2>3. Clears("deleteCategory", p) = "transaction"  BY <2>2 DEF Clears
  <2> QED  BY <2>1, <2>3, RenameKeeps DEF Renamers
<1>2. CASE Browser!MoveRules(s)
  <2>1. Browser!Ready(s, "deleteCategory", "rules") /\ Browser!Rename(s, "rule")
    BY <1>2 DEF Browser!MoveRules
  <2>2. p = 3  BY <1>0, <1>00, <2>1 DEF Renamers
  <2>3. Clears("deleteCategory", p) = "rule"  BY <2>2 DEF Clears
  <2> QED  BY <2>1, <2>3, RenameKeeps DEF Renamers
<1>3. CASE Browser!RenameTransactions(s)
  <2>1. Browser!Ready(s, "mergeMerchants", "transactions") /\ Browser!Rename(s, "transaction")
    BY <1>3 DEF Browser!RenameTransactions
  <2>2. p = 2  BY <1>0, <1>00, <2>1 DEF Renamers
  <2>3. Clears("mergeMerchants", p) = "transaction"  BY <2>2 DEF Clears
  <2> QED  BY <2>1, <2>3, RenameKeeps DEF Renamers
<1>4. CASE Browser!RenameRecurrences(s)
  <2>1. Browser!Ready(s, "mergeMerchants", "recurrences") /\ Browser!Rename(s, "recurrence")
    BY <1>4 DEF Browser!RenameRecurrences
  <2>2. p = 3  BY <1>0, <1>00, <2>1 DEF Renamers
  <2>3. Clears("mergeMerchants", p) = "recurrence"  BY <2>2 DEF Clears
  <2> QED  BY <2>1, <2>3, RenameKeeps DEF Renamers
<1>5. CASE Browser!RenameRules(s)
  <2>1. Browser!Ready(s, "mergeMerchants", "rules") /\ Browser!Rename(s, "rule")
    BY <1>5 DEF Browser!RenameRules
  <2>2. p = 4  BY <1>0, <1>00, <2>1 DEF Renamers
  <2>3. Clears("mergeMerchants", p) = "rule"  BY <2>2 DEF Clears
  <2> QED  BY <2>1, <2>3, RenameKeeps DEF Renamers
<1> QED  BY <1>1, <1>2, <1>3, <1>4, <1>5

\* Both calls: a step that renames nothing.
LEMMA OtherStepKeeps ==
    ASSUME WritesInv, NEW s \in Slot, NEW op \in Renamers, NEW step, Browser!Ready(s, op, step),
           NEW writes, Browser!Plan(s, writes), Clears(op, writing[s].phase) = "none",
           \A next : next.op = op /\ next.id = writing[s].id /\ next.phase = writing[s].phase + 1 =>
                        \A w \in writes : WriteOK(next, w),
           \/ \A v, w \in writes : v = w
           \/ \A w \in writes : w.do \notin {"erase", "insert"},
           op = "deleteCategory" /\ writing[s].phase = 4 =>
              \A b \in budget : b[1] = writing[s].id => Browser!Unbook(b) \in writes
    PROVE  WritesInv'
<1> PICK k : k = writing[s]  OBVIOUS
<1>1. /\ Browser!Busy(s) /\ CallOK(k) /\ k.op = op /\ k.phase <= Len(Browser!Steps[k.op])
      /\ k.todo = {} /\ k.phase \in Nat /\ k.phase >= 1 /\ k.phase <= Len(Browser!Steps[op])
  BY ReadyIs
<1>2. k.phase \in 1..5
  <2>1. PICK last : last = Len(Browser!Steps[op])  OBVIOUS
  <2>2. last = 5 /\ k.phase <= last  BY <1>1, <2>1, FiveSteps
  <2> QED  BY <1>1, <2>2
<1> PICK next : next = Planning(k, writes)  OBVIOUS
<1>3. next.op = k.op /\ next.id = k.id /\ next.phase = k.phase + 1
  BY <1>1, PlannedCall
<1>4. CoverOK(next)
  <2>1. Cleared(next) \subseteq Cleared(k) \cup {}
    <3>1. Cleared(next) \subseteq Cleared(k) \cup ({Clears(k.op, k.phase)} \ {"none"})
      BY <1>1, <1>2, <1>3, ClearsMore
    <3> QED  BY <1>1, <3>1
  <2>2. k.op = "deleteCategory" /\ k.phase = 4 =>
           \A b \in budget : b[1] = k.id => Browser!Unbook(b) \in writes
    BY <1>1
  <2>3. Covered(k, {}, writes)  BY DEF Covered
  <2> QED  BY <1>1, <2>1, <2>2, <2>3, CoverNext
<1>5. \A w \in writes : WriteOK(next, w)  BY <1>1, <1>3
<1>6. k.op \notin Makers /\ k.op \notin {"updateCategory", "updateGroup"}
  BY <1>1 DEF Makers, Renamers
<1> QED  BY <1>1, <1>4, <1>5, <1>6, ChangesKeep

\* Both calls: the entry and the one that takes its place are there.
LEMMA ChecksKeep ==
    ASSUME WritesInv, NEW s \in Slot, Browser!CheckCategories(s) \/ Browser!CheckMerchants(s)
    PROVE  WritesInv'
<1>1. PICK op \in Renamers :
         /\ Browser!Ready(s, op, "check")
         /\ \/ Browser!Plan(s, {})
            \/ Browser!End(s) /\ UNCHANGED <<doc, budget, contested, outdated>>
  BY DEF Browser!CheckCategories, Browser!CheckMerchants, Browser!PlanIf, Renamers
<1> PICK p : p = writing[s].phase  OBVIOUS
<1>2. /\ p \in Nat /\ p >= 1 /\ p <= Len(Browser!Steps[op]) /\ Browser!Steps[op][p] = "check"
      /\ Browser!Busy(s)
  BY <1>1, ReadyIs
<1>3. p = 1
  <2>1. \A i \in 1..5 : /\ Browser!Steps["deleteCategory"][i] = "check" => i = 1
                        /\ Browser!Steps["mergeMerchants"][i] = "check" => i = 1
    BY StepsOf
  <2>2. Len(Browser!Steps[op]) = 5  BY FiveSteps
  <2>3. p \in 1..5  BY <1>2, <2>2
  <2> QED  BY <1>2, <2>1, <2>3 DEF Renamers
<1>4. CASE Browser!Plan(s, {})
  <2>1. Clears(op, p) = "none"  BY <1>3 DEF Clears
  <2>2. op = "deleteCategory" /\ p = 4 => \A b \in budget : b[1] = writing[s].id => Browser!Unbook(b) \in {}
    BY <1>3
  <2> QED  BY <1>1, <1>4, <2>1, <2>2, OtherStepKeeps
<1> QED  BY <1>1, <1>2, <1>4, EndKeeps

\* deleteCategory: every budget of the category.
LEMMA DropBudgetsKeeps ==
    ASSUME WritesInv, NEW s \in Slot, Browser!DropBudgets(s)
    PROVE  WritesInv'
<1> PICK p, id : p = writing[s].phase /\ id = writing[s].id  OBVIOUS
<1>1. Browser!Ready(s, "deleteCategory", "budgets") /\ "deleteCategory" \in Renamers
  BY DEF Browser!DropBudgets, Renamers
<1>2. p = 4
  <2>1. /\ p \in Nat /\ p >= 1 /\ p <= Len(Browser!Steps["deleteCategory"])
        /\ Browser!Steps["deleteCategory"][p] = "budgets"
    BY <1>1, ReadyIs
  <2>2. \A i \in 1..5 : Browser!Steps["deleteCategory"][i] = "budgets" => i = 4  BY StepsOf
  <2>3. Len(Browser!Steps["deleteCategory"]) = 5  BY <1>1, FiveSteps
  <2> QED  BY <2>1, <2>2, <2>3
<1>3. PICK writes : /\ Browser!Plan(s, writes)
                    /\ \A b \in budget : b[1] = id => Browser!Unbook(b) \in writes
                    /\ \A w \in writes : \E b : w = Browser!Unbook(b)
  <2>1. PICK writes : writes = {Browser!Unbook(b) : b \in {x \in budget : x[1] = id}}  OBVIOUS
  <2>2. Browser!Plan(s, writes)  BY <2>1 DEF Browser!DropBudgets
  <2>3. \A b \in budget : b[1] = id => Browser!Unbook(b) \in writes  BY <2>1
  <2>4. \A w \in writes : \E b : w = Browser!Unbook(b)  BY <2>1
  <2> QED  BY <2>2, <2>3, <2>4
<1>4. ASSUME NEW w \in writes  PROVE w.do = "unbook" /\ \A next : WriteOK(next, w)
  <2>1. w.do = "unbook" /\ w = [do |-> "unbook", budget |-> w.budget]
    BY <1>3 DEF Browser!Unbook
  <2> QED  BY <2>1, WriteNamesOf DEF WriteOK
<1>5. Clears("deleteCategory", p) = "none"  BY <1>2 DEF Clears
<1>6. \A w \in writes : w.do \notin {"erase", "insert"}
  <2>1. \A w \in writes : w.do = "unbook"  BY <1>4
  <2> QED  BY <2>1
<1>7. \A next : \A w \in writes : WriteOK(next, w)  BY <1>4
<1> QED  BY <1>1, <1>3, <1>5, <1>6, <1>7, OtherStepKeeps

\* Both calls: the entry itself, last of all.
LEMMA RemoveEntryKeeps ==
    ASSUME WritesInv, NEW s \in Slot, Browser!RemoveEntry(s)
    PROVE  WritesInv'
<1> PICK p, id, w : p = writing[s].phase /\ id = writing[s].id /\ w = Browser!Erase(writing[s].id)
  OBVIOUS
<1>1. PICK op \in Renamers :
         /\ Browser!Ready(s, op, "entry")
         /\ \/ Browser!Live(id) /\ Browser!Plan(s, {w})
            \/ Browser!End(s) /\ UNCHANGED <<doc, budget, contested, outdated>>
  BY DEF Browser!RemoveEntry, Browser!PlanIf, Renamers
<1>2. /\ p \in Nat /\ p >= 1 /\ p <= Len(Browser!Steps[op]) /\ Browser!Steps[op][p] = "entry"
      /\ Browser!Busy(s)
  BY <1>1, ReadyIs
<1>3. p = 5
  <2>1. \A i \in 1..5 : /\ Browser!Steps["deleteCategory"][i] = "entry" => i = 5
                        /\ Browser!Steps["mergeMerchants"][i] = "entry" => i = 5
    BY StepsOf
  <2>2. Len(Browser!Steps[op]) = 5  BY FiveSteps
  <2>3. p \in 1..5  BY <1>2, <2>2
  <2> QED  BY <1>2, <2>1, <2>3 DEF Renamers
<1>4. CASE Browser!Live(id) /\ Browser!Plan(s, {w})
  <2>1. Clears(op, p) = "none"  BY <1>3 DEF Clears
  <2>2. ~(op = "deleteCategory" /\ p = 4)  BY <1>3
  <2>3. ASSUME NEW next, next.op = op, next.id = id, next.phase = p + 1
        PROVE  WriteOK(next, w)
    <3>1. w.do = "erase" /\ w.id = id /\ w = [do |-> "erase", id |-> w.id]  BY DEF Browser!Erase
    <3>2. next.phase = Len(Browser!Steps[next.op]) + 1
      <4>1. PICK last : last = Len(Browser!Steps[next.op])  OBVIOUS
      <4>2. last = 5  BY <2>3, <4>1, FiveSteps
      <4> QED  BY <1>3, <2>3, <4>1, <4>2
    <3>3. EraseOK(next, w)  BY <1>4, <2>3, <3>1, <3>2 DEF EraseOK, Erasers, Browser!Live
    <3> QED  BY <3>1, <3>3, WriteNamesOf DEF WriteOK
  <2>4. \A next : next.op = op /\ next.id = id /\ next.phase = p + 1 => \A v \in {w} : WriteOK(next, v)
    BY <2>3
  <2> QED  BY <1>1, <1>4, <2>1, <2>2, <2>4, OtherStepKeeps
<1> QED  BY <1>1, <1>2, <1>4, EndKeeps

\* Every step of a call preserves the invariant.
LEMMA ContinueKeeps ==
    ASSUME WritesInv, NEW s \in Slot, Browser!Busy(s), Browser!Continue(s)
    PROVE  WritesInv'
<1>1. CASE Browser!ReviseNext(s) \/ Browser!InsertNew(s) \/ Browser!InsertBatch(s) \/ Browser!InsertRows(s)
  BY <1>1, ReviseNextKeeps, InsertNewKeeps, InsertBatchKeeps, InsertRowsKeeps
<1>2. CASE Browser!InsertRecurrence(s) \/ Browser!PointAtRecurrence(s) \/ Browser!RemoveIt(s)
  BY <1>2, InsertRecurrenceKeeps, PointAtRecurrenceKeeps, RemoveItKeeps
<1>3. CASE Browser!BookIt(s) \/ Browser!CopyMissing(s) \/ Browser!UnbookIt(s)
  BY <1>3, BookItKeeps, CopyMissingKeeps, UnbookItKeeps
<1>4. CASE Browser!Recategorize(s) \/ Browser!Regroup(s) \/ Browser!RemoveGroup(s)
  BY <1>4, RecategorizeKeeps, RegroupKeeps, RemoveGroupKeeps
<1>5. CASE \/ Browser!MoveTransactions(s) \/ Browser!MoveRules(s)
           \/ Browser!RenameTransactions(s) \/ Browser!RenameRecurrences(s) \/ Browser!RenameRules(s)
  BY <1>5, RenamesKeep
<1>6. CASE \/ Browser!CheckCategories(s) \/ Browser!CheckMerchants(s)
           \/ Browser!DropBudgets(s) \/ Browser!RemoveEntry(s)
  BY <1>6, ChecksKeep, DropBudgetsKeeps, RemoveEntryKeeps
<1>7. CASE \E w \in writing[s].todo : Browser!Write(s, w)  BY <1>7, WriteKeeps
<1>8. CASE Browser!Return(s) \/ Browser!Close(s)
  BY <1>8, EndKeeps DEF Browser!Return, Browser!Close
<1> QED  BY <1>1, <1>2, <1>3, <1>4, <1>5, <1>6, <1>7, <1>8 DEF Browser!Continue

-----------------------------------------------------------------------------
(* HouseholdWrites: calls that begin *)

\* The call a member begins.
Begun(op, id, arg) == [op |-> op, id |-> id, arg |-> arg, phase |-> 1, todo |-> {}]

\* Its parts, and what its first phase is.
LEMMA BegunIs ==
    ASSUME NEW op \in DOMAIN Browser!Steps, NEW id, NEW arg, NEW k, k = Begun(op, id, arg)
    PROVE  /\ k.op = op /\ k.id = id /\ k.arg = arg /\ k.phase = 1 /\ k.todo = {}
           /\ k = [op |-> k.op, id |-> k.id, arg |-> k.arg, phase |-> k.phase, todo |-> k.todo]
           /\ k.phase \in 1..(Len(Browser!Steps[k.op]) + 1)
<1>1. /\ k.op = op /\ k.id = id /\ k.arg = arg /\ k.phase = 1 /\ k.todo = {}
      /\ k = [op |-> k.op, id |-> k.id, arg |-> k.arg, phase |-> k.phase, todo |-> k.todo]
  BY DEF Begun
<1>2. k.phase \in 1..(Len(Browser!Steps[k.op]) + 1)
  <2>1. \A o \in DOMAIN Browser!Steps : Len(Browser!Steps[o]) \in Nat  BY StepsOf
  <2> QED  BY <1>1, <2>1
<1> QED  BY <1>1, <1>2

\* A call that is given what its operation takes, and to name what is there,
\* begins with the invariant.
LEMMA BeginKeeps ==
    ASSUME WritesInv, NEW s \in Slot, ~Browser!Busy(s), NEW op \in DOMAIN Browser!Steps, NEW id, NEW arg,
           Browser!Start(s, op, id, arg), NEW k, k = Begun(op, id, arg), Given(k),
           \A n \in ArgNames(k) : Held(k, n), \A n \in Browser!Reshaped(k) : Browser!Live(n),
           op \in Makers => \A i \in Browser!Taken(k) : Browser!Unwritten(i)
    PROVE  WritesInv'
<1>1. /\ k.op = op /\ k.id = id /\ k.arg = arg /\ k.phase = 1 /\ k.todo = {}
      /\ k = [op |-> op, id |-> id, arg |-> arg, phase |-> 1, todo |-> {}]
  BY BegunIs DEF Begun
<1>2. TodoOK(k)  BY <1>1 DEF TodoOK
<1>3. FreshOK(k)
  <2>1. k.op \in Makers => \A i \in Browser!Taken(k) : doc[i] = None  BY <1>1 DEF Browser!Unwritten
  <2>2. k.phase = 1  BY <1>1
  <2> QED  BY <2>1, <2>2 DEF FreshOK
<1>4. CoverOK(k)  BY <1>1 DEF CoverOK, Cleared
<1>5. \A n \in Browser!Reshaped(k) : doc[n] # None  BY DEF Browser!Live
<1>6. CallOK(k)  BY <1>1, <1>2, <1>3, <1>4, <1>5 DEF CallOK
<1> QED  BY <1>1, <1>6, CallStarts

\* updateTransaction, bulkPatchTransactions and setMerchant.
LEMMA UpdateBegins ==
    ASSUME WritesInv, NEW s \in Slot, ~Browser!Busy(s), Browser!Update(s)
    PROVE  WritesInv'
<1>1. PICK ids \in SUBSET Browser!Of("transaction"), p \in Patches :
         Browser!OnScreen(p) /\ Browser!Start(s, "update", None, [ids |-> ids, patch |-> p])
  BY DEF Browser!Update
<1>2. PICK arg : arg = [ids |-> ids, patch |-> p]  OBVIOUS
<1> PICK k : k = Begun("update", None, arg)  OBVIOUS
<1>3. arg.patch = p /\ arg.ids = ids /\ arg = [ids |-> arg.ids, patch |-> arg.patch]  BY <1>2
<1>4. "update" \in DOMAIN Browser!Steps  BY StepsOf
<1>5. /\ k.op = "update" /\ k.id = None /\ k.arg = arg
      /\ k = [op |-> k.op, id |-> k.id, arg |-> k.arg, phase |-> k.phase, todo |-> k.todo]
      /\ k.phase \in 1..(Len(Browser!Steps[k.op]) + 1)
  BY <1>4, BegunIs
<1>6. StoredOK  BY DEF WritesInv
<1>7. Given(k)
  <2>1. ids \subseteq Browser!Ids("transaction")  BY <1>6, LiveIs
  <2> QED  BY <1>3, <1>4, <1>5, <2>1 DEF Given
<1>8. ASSUME NEW n \in ArgNames(k)  PROVE Held(k, n)
  <2>1. n \in Browser!Named(p)  BY <1>3, <1>5, <1>8, ArgNamesOf
  <2>2. n \in DOMAIN Documents /\ Browser!KindOf[n] \notin {"transaction", "rule"}
    BY <2>1, PatchIs, NamedTarget, WhoNames DEF Browser!Kinds
  <2>3. Browser!Live(n)  BY <1>1, <2>1 DEF Browser!OnScreen, Browser!Mentioned
  <2> QED  BY <1>5, <2>2, <2>3 DEF Held, MayHold
<1>9. Browser!Reshaped(k) = {}  BY <1>5 DEF Browser!Reshaped
<1>10. Browser!Start(s, "update", None, arg)  BY <1>1, <1>2
<1> QED  BY <1>4, <1>7, <1>8, <1>9, <1>10, BeginKeeps DEF Makers

\* createTransaction, createCategory and the others that enter one document.
LEMMA CreateBegins ==
    ASSUME WritesInv, NEW s \in Slot, ~Browser!Busy(s), Browser!Create(s)
    PROVE  WritesInv'
<1>0. PICK id \in DOMAIN Drafts : \E d \in Drafts[id] :
         Browser!Unwritten(id) /\ Browser!OnScreen(d) /\ Browser!Start(s, "create", id, d)
  BY DEF Browser!Create
<1>1. PICK d \in Drafts[id] :
         Browser!Unwritten(id) /\ Browser!OnScreen(d) /\ Browser!Start(s, "create", id, d)
  BY <1>0
<1> PICK k : k = Begun("create", id, d)  OBVIOUS
<1>2. "create" \in DOMAIN Browser!Steps  BY StepsOf
<1>3. /\ k.op = "create" /\ k.id = id /\ k.arg = d
      /\ k = [op |-> k.op, id |-> k.id, arg |-> k.arg, phase |-> k.phase, todo |-> k.todo]
      /\ k.phase \in 1..(Len(Browser!Steps[k.op]) + 1)
  BY <1>2, BegunIs
<1>4. Given(k)  BY <1>2, <1>3 DEF Given
<1>5. ASSUME NEW n \in ArgNames(k)  PROVE Held(k, n)
  <2>1. n \in Browser!Named(d)  BY <1>3, <1>5, ArgNamesOf
  <2>2. n \in DOMAIN Documents /\ Browser!KindOf[n] \notin {"transaction", "rule"}
    BY <2>1, DraftIs, NamedTarget, WhoNames
  <2>3. Browser!Live(n)  BY <1>1, <2>1 DEF Browser!OnScreen, Browser!Mentioned
  <2> QED  BY <1>3, <2>2, <2>3 DEF Held, MayHold
<1>6. Browser!Reshaped(k) = {} /\ Browser!Taken(k) = {id}
  BY <1>3 DEF Browser!Reshaped, Browser!Taken
<1> QED  BY <1>1, <1>2, <1>4, <1>5, <1>6, BeginKeeps

\* importTransactions.
LEMMA ImportBegins ==
    ASSUME WritesInv, NEW s \in Slot, ~Browser!Busy(s), Browser!Import(s)
    PROVE  WritesInv'
<1>0. PICK id \in DOMAIN Drafts : \E d \in Drafts[id] :
         /\ d.kind = "batch" /\ Browser!Unwritten(id)
         /\ \E rows \in SUBSET {e \in Browser!Rows : Browser!Unwritten(e[1]) /\ Browser!OnScreen(e[2])} :
               (\A e, f \in rows : e[1] = f[1] => e = f) /\ Browser!Start(s, "import", id, rows)
  BY DEF Browser!Import
<1>1. PICK d \in Drafts[id] :
         /\ d.kind = "batch" /\ Browser!Unwritten(id)
         /\ \E rows \in SUBSET {e \in Browser!Rows : Browser!Unwritten(e[1]) /\ Browser!OnScreen(e[2])} :
               (\A e, f \in rows : e[1] = f[1] => e = f) /\ Browser!Start(s, "import", id, rows)
  BY <1>0
<1>2. PICK rows : /\ rows \subseteq Browser!Rows
                  /\ \A e \in rows : Browser!Unwritten(e[1]) /\ Browser!OnScreen(e[2])
                  /\ \A e, f \in rows : e[1] = f[1] => e = f
                  /\ Browser!Start(s, "import", id, rows)
  BY <1>1
<1> PICK k : k = Begun("import", id, rows)  OBVIOUS
<1>3. "import" \in DOMAIN Browser!Steps  BY StepsOf
<1>4. /\ k.op = "import" /\ k.id = id /\ k.arg = rows
      /\ k = [op |-> k.op, id |-> k.id, arg |-> k.arg, phase |-> k.phase, todo |-> k.todo]
      /\ k.phase \in 1..(Len(Browser!Steps[k.op]) + 1)
  BY <1>3, BegunIs
<1>5. Browser!KindOf[id] = "batch"  BY <1>1, DraftIs
<1>6. Given(k)  BY <1>2, <1>3, <1>4, <1>5 DEF Given
<1>7. ASSUME NEW n \in ArgNames(k)  PROVE Held(k, n)
  <2>1. PICK r \in rows : n \in Browser!Named(r[2])  BY <1>4, <1>7, ArgNamesOf DEF RowNames
  <2>2. r[2] \in Browser!Document("transaction") /\ "transaction" \in Browser!Kinds
    BY <1>2, RowsAre DEF Browser!Kinds
  <2>3. n \in DOMAIN Documents /\ Browser!KindOf[n] \notin {"transaction", "rule"}
    BY <2>1, <2>2, NamedTarget, WhoNames
  <2>4. Browser!Live(n)  BY <1>2, <2>1 DEF Browser!OnScreen, Browser!Mentioned
  <2> QED  BY <1>4, <2>3, <2>4 DEF Held, MayHold
<1>8. Browser!Reshaped(k) = {}  BY <1>4 DEF Browser!Reshaped
<1>9. \A i \in Browser!Taken(k) : Browser!Unwritten(i)  BY <1>1, <1>2, <1>4 DEF Browser!Taken
<1> QED  BY <1>2, <1>3, <1>6, <1>7, <1>8, <1>9, BeginKeeps

\* markRecurring.
LEMMA MarkRecurringBegins ==
    ASSUME WritesInv, NEW s \in Slot, ~Browser!Busy(s), Browser!MarkRecurring(s)
    PROVE  WritesInv'
<1>0. PICK t \in Browser!Of("transaction"), id \in DOMAIN Drafts : \E d \in Drafts[id] :
         /\ d.kind = "recurrence" /\ Browser!Unwritten(id)
         /\ Browser!Start(s, "markRecurring", id, [tx |-> t, merchant |-> doc[t].merchant,
                                                   category |-> doc[t].category])
  BY DEF Browser!MarkRecurring
<1>1. PICK d \in Drafts[id] :
         /\ d.kind = "recurrence" /\ Browser!Unwritten(id)
         /\ Browser!Start(s, "markRecurring", id, [tx |-> t, merchant |-> doc[t].merchant,
                                                   category |-> doc[t].category])
  BY <1>0
<1>2. PICK arg : arg = [tx |-> t, merchant |-> doc[t].merchant, category |-> doc[t].category]  OBVIOUS
<1> PICK k : k = Begun("markRecurring", id, arg)  OBVIOUS
<1>3. "markRecurring" \in DOMAIN Browser!Steps  BY StepsOf
<1>4. /\ k.op = "markRecurring" /\ k.id = id /\ k.arg = arg
      /\ k = [op |-> k.op, id |-> k.id, arg |-> k.arg, phase |-> k.phase, todo |-> k.todo]
      /\ k.phase \in 1..(Len(Browser!Steps[k.op]) + 1)
  BY <1>3, BegunIs
<1>5. Browser!KindOf[id] = "recurrence"  BY <1>1, DraftIs
<1>6. arg.tx = t /\ arg.merchant = doc[t].merchant /\ arg.category = doc[t].category  BY <1>2
<1>7. StoredOK  BY DEF WritesInv
<1>8. /\ t \in Browser!Ids("transaction") /\ t \in DOMAIN Documents /\ Browser!Live(t)
      /\ Browser!KindOf[t] = "transaction" /\ doc[t] \in Browser!Document("transaction")
  <2>1. t \in Browser!Ids("transaction") /\ Browser!Live(t)  BY <1>7, LiveIs
  <2> QED  BY <1>7, <2>1, LiveIs DEF Browser!Ids
<1>9. /\ doc[t].merchant \in Browser!Ref("merchant") /\ doc[t].category \in Browser!Ref("category")
      /\ "merchant" \in Browser!Naming \cap DOMAIN doc[t]
  BY <1>8 DEF Browser!Document, Browser!Naming
<1>10. Given(k)  BY <1>3, <1>4, <1>5, <1>6, <1>8, <1>9 DEF Given
<1>11. ASSUME NEW n \in ArgNames(k)  PROVE Held(k, n)
  <2>1. n = doc[t].merchant /\ n # None  BY <1>4, <1>6, <1>11, ArgNamesOf
  <2>2. n \in Browser!Named(doc[t])  BY <1>9, <2>1 DEF Browser!Named, Browser!Names
  <2>3. n \in DOMAIN Documents /\ (n \in contested \/ Browser!Live(n))
    BY <1>7, <1>8, <2>2, StoredNames
  <2>4. Browser!KindOf[n] = "merchant"  BY <1>9, <2>1 DEF Browser!Ref, Browser!Ids
  <2> QED  BY <1>4, <2>3, <2>4 DEF Held, MayHold
<1>12. Browser!Reshaped(k) = {} /\ Browser!Taken(k) = {id}
  BY <1>4 DEF Browser!Reshaped, Browser!Taken
<1>13. Browser!Start(s, "markRecurring", id, arg)  BY <1>1, <1>2
<1> QED  BY <1>1, <1>3, <1>10, <1>11, <1>12, <1>13, BeginKeeps

\* deleteTransaction and deleteRule, copyBudgets, deleteBudget.
LEMMA PlainBegins ==
    ASSUME WritesInv, NEW s \in Slot, ~Browser!Busy(s),
           Browser!Delete(s) \/ Browser!CopyBudgets(s) \/ Browser!DeleteBudget(s)
    PROVE  WritesInv'
<1>0. PICK op \in {"delete", "copyBudgets", "deleteBudget"} : \E id, arg :
         /\ Browser!Start(s, op, id, arg)
         /\ op = "delete" => id \in Browser!Of("transaction") \cup Browser!Of("rule")
  <2>1. CASE Browser!Delete(s)  BY <2>1 DEF Browser!Delete
  <2>2. CASE Browser!CopyBudgets(s)  BY <2>2 DEF Browser!CopyBudgets
  <2>3. CASE Browser!DeleteBudget(s)  BY <2>3 DEF Browser!DeleteBudget
  <2> QED  BY <2>1, <2>2, <2>3
<1>1. PICK id, arg : /\ Browser!Start(s, op, id, arg)
                     /\ op = "delete" => id \in Browser!Of("transaction") \cup Browser!Of("rule")
  BY <1>0
<1> PICK k : k = Begun(op, id, arg)  OBVIOUS
<1>2. op \in DOMAIN Browser!Steps  BY StepsOf
<1>3. /\ k.op = op /\ k.id = id
      /\ k = [op |-> k.op, id |-> k.id, arg |-> k.arg, phase |-> k.phase, todo |-> k.todo]
      /\ k.phase \in 1..(Len(Browser!Steps[k.op]) + 1)
  BY <1>2, BegunIs
<1>4. op = "delete" => id \in Browser!Ids("transaction") \cup Browser!Ids("rule")
  BY <1>1, LiveIs DEF WritesInv
<1>5. Given(k)  BY <1>2, <1>3, <1>4 DEF Given
<1>6. ArgNames(k) = {} /\ Browser!Reshaped(k) = {}
  BY <1>3 DEF ArgNames, Renamers, Browser!Reshaped
<1> QED  BY <1>1, <1>2, <1>5, <1>6, BeginKeeps DEF Makers

\* setBudget.
LEMMA SetBudgetBegins ==
    ASSUME WritesInv, NEW s \in Slot, ~Browser!Busy(s), Browser!SetBudget(s)
    PROVE  WritesInv'
<1>1. PICK c \in Browser!Of("category") \cup Browser!Of("group"), m \in Months :
         Browser!Start(s, "setBudget", c, m)
  BY DEF Browser!SetBudget
<1> PICK k : k = Begun("setBudget", c, m)  OBVIOUS
<1>2. "setBudget" \in DOMAIN Browser!Steps  BY StepsOf
<1>3. /\ k.op = "setBudget" /\ k.id = c
      /\ k = [op |-> k.op, id |-> k.id, arg |-> k.arg, phase |-> k.phase, todo |-> k.todo]
      /\ k.phase \in 1..(Len(Browser!Steps[k.op]) + 1)
  BY <1>2, BegunIs
<1>4. c \in Browser!Ids("category") \cup Browser!Ids("group") /\ Browser!Live(c)
  BY LiveIs DEF WritesInv
<1>5. Given(k)  BY <1>2, <1>3, <1>4 DEF Given
<1>6. Held(k, c)  BY <1>3, <1>4 DEF Held, MayHold, Browser!Ids
<1>7. ArgNames(k) \subseteq {c} /\ Browser!Reshaped(k) = {}
  BY <1>3, ArgNamesOf DEF Browser!Reshaped
<1> QED  BY <1>1, <1>2, <1>5, <1>6, <1>7, BeginKeeps DEF Makers

\* updateCategory.
LEMMA UpdateCategoryBegins ==
    ASSUME WritesInv, NEW s \in Slot, ~Browser!Busy(s), Browser!UpdateCategory(s)
    PROVE  WritesInv'
<1>0. PICK c \in Browser!Of("category") : \E arg :
         /\ Browser!Start(s, "updateCategory", c, arg)
         /\ \/ \E g \in Browser!Of("group") \cup {None} : arg = [parent |-> g]
            \/ \E kind \in Browser!CategoryKind : arg = [categoryKind |-> kind]
  BY DEF Browser!UpdateCategory
<1>1. PICK arg :
         /\ Browser!Start(s, "updateCategory", c, arg)
         /\ \/ \E g \in Browser!Of("group") \cup {None} : arg = [parent |-> g]
            \/ \E kind \in Browser!CategoryKind : arg = [categoryKind |-> kind]
  BY <1>0
<1> PICK k : k = Begun("updateCategory", c, arg)  OBVIOUS
<1>2. "updateCategory" \in DOMAIN Browser!Steps  BY StepsOf
<1>3. /\ k.op = "updateCategory" /\ k.id = c /\ k.arg = arg
      /\ k = [op |-> k.op, id |-> k.id, arg |-> k.arg, phase |-> k.phase, todo |-> k.todo]
      /\ k.phase \in 1..(Len(Browser!Steps[k.op]) + 1)
  BY <1>2, BegunIs
<1>4. c \in Browser!Ids("category") /\ Browser!Live(c)  BY LiveIs DEF WritesInv
<1>5. /\ Fields("category") = {"parent", "categoryKind"} /\ Values("parent") = Browser!Ref("group")
      /\ Values("categoryKind") = Browser!CategoryKind
  BY DEF Fields, Values
<1>6. /\ PatchOK("category", arg)
      /\ \A n \in Browser!Named(arg) : n \in Browser!Ids("group") /\ Browser!Live(n)
  <2>1. CASE \E g \in Browser!Of("group") \cup {None} : arg = [parent |-> g]
    <3>1. PICK g \in Browser!Of("group") \cup {None} : arg = [parent |-> g]  BY <2>1
    <3>2. g # None => g \in Browser!Ids("group") /\ Browser!Live(g)
      BY <3>1, LiveIs DEF WritesInv
    <3>3. DOMAIN arg = {"parent"} /\ arg["parent"] = g  BY <3>1
    <3>4. PatchOK("category", arg)  BY <1>5, <3>2, <3>3 DEF PatchOK, Browser!Ref
    <3>5. \A n \in Browser!Named(arg) : n = g /\ n # None
      BY <3>3, NamedBy DEF Browser!Naming, Browser!Names
    <3> QED  BY <3>2, <3>4, <3>5
  <2>2. CASE \E kind \in Browser!CategoryKind : arg = [categoryKind |-> kind]
    <3>1. PICK kind \in Browser!CategoryKind : arg = [categoryKind |-> kind]  BY <2>2
    <3>2. DOMAIN arg = {"categoryKind"} /\ arg["categoryKind"] = kind  BY <3>1
    <3>3. PatchOK("category", arg)  BY <1>5, <3>1, <3>2 DEF PatchOK
    <3>4. Browser!Named(arg) = {}  BY <3>2, NamedBy DEF Browser!Naming
    <3> QED  BY <3>3, <3>4
  <2> QED  BY <1>1, <2>1, <2>2
<1>7. Given(k)  BY <1>2, <1>3, <1>4, <1>6 DEF Given
<1>8. ASSUME NEW n \in ArgNames(k)  PROVE Held(k, n)
  <2>1. n \in Browser!Named(arg)  BY <1>3, <1>8, ArgNamesOf
  <2> QED  BY <1>3, <1>6, <2>1 DEF Held, MayHold, Browser!Ids
<1>9. Browser!Reshaped(k) = {c}  BY <1>3 DEF Browser!Reshaped
<1> QED  BY <1>1, <1>2, <1>4, <1>7, <1>8, <1>9, BeginKeeps DEF Makers

\* updateGroup and deleteGroup.
LEMMA GroupBegins ==
    ASSUME WritesInv, NEW s \in Slot, ~Browser!Busy(s), Browser!UpdateGroup(s) \/ Browser!DeleteGroup(s)
    PROVE  WritesInv'
<1>0. PICK op \in {"updateGroup", "deleteGroup"}, g \in Browser!Of("group") : \E arg :
         Browser!Start(s, op, g, arg) /\ (op = "updateGroup" => arg \in Browser!CategoryKind)
  <2>1. CASE Browser!UpdateGroup(s)  BY <2>1 DEF Browser!UpdateGroup
  <2>2. CASE Browser!DeleteGroup(s)  BY <2>2 DEF Browser!DeleteGroup
  <2> QED  BY <2>1, <2>2
<1>1. PICK arg : Browser!Start(s, op, g, arg) /\ (op = "updateGroup" => arg \in Browser!CategoryKind)
  BY <1>0
<1> PICK k : k = Begun(op, g, arg)  OBVIOUS
<1>2. op \in DOMAIN Browser!Steps  BY StepsOf
<1>3. /\ k.op = op /\ k.id = g /\ k.arg = arg
      /\ k = [op |-> k.op, id |-> k.id, arg |-> k.arg, phase |-> k.phase, todo |-> k.todo]
      /\ k.phase \in 1..(Len(Browser!Steps[k.op]) + 1)
  BY <1>2, BegunIs
<1>4. g \in Browser!Ids("group") /\ Browser!Live(g)  BY LiveIs DEF WritesInv
<1>5. Given(k)  BY <1>1, <1>2, <1>3, <1>4 DEF Given
<1>6. ArgNames(k) = {} /\ Browser!Reshaped(k) = {g}
  BY <1>3 DEF ArgNames, Renamers, Browser!Reshaped
<1> QED  BY <1>1, <1>2, <1>4, <1>5, <1>6, BeginKeeps DEF Makers

\* deleteCategory and mergeMerchants.
LEMMA RenamerBegins ==
    ASSUME WritesInv, NEW s \in Slot, ~Browser!Busy(s),
           Browser!DeleteCategory(s) \/ Browser!MergeMerchants(s)
    PROVE  WritesInv'
<1>0. PICK op \in Renamers : \E id, into :
         /\ Browser!Start(s, op, id, into) /\ into # id
         /\ op = "deleteCategory" =>
               id \in Browser!Of("category") /\ into \in Browser!Of("category") \cup {None}
         /\ op = "mergeMerchants" =>
               id \in Browser!Of("merchant") /\ into \in Browser!Of("merchant")
  <2>1. CASE Browser!DeleteCategory(s)  BY <2>1 DEF Browser!DeleteCategory, Renamers
  <2>2. CASE Browser!MergeMerchants(s)  BY <2>2 DEF Browser!MergeMerchants, Renamers
  <2> QED  BY <2>1, <2>2
<1>1. PICK id, into :
         /\ Browser!Start(s, op, id, into) /\ into # id
         /\ op = "deleteCategory" =>
               id \in Browser!Of("category") /\ into \in Browser!Of("category") \cup {None}
         /\ op = "mergeMerchants" =>
               id \in Browser!Of("merchant") /\ into \in Browser!Of("merchant")
  BY <1>0
<1> PICK k : k = Begun(op, id, into)  OBVIOUS
<1>2. op \in DOMAIN Browser!Steps  BY StepsOf DEF Renamers
<1>3. /\ k.op = op /\ k.id = id /\ k.arg = into
      /\ k = [op |-> k.op, id |-> k.id, arg |-> k.arg, phase |-> k.phase, todo |-> k.todo]
      /\ k.phase \in 1..(Len(Browser!Steps[k.op]) + 1)
  BY <1>2, BegunIs
<1>4. \A kind : \A n \in Browser!Of(kind) : n \in Browser!Ids(kind) /\ Browser!Live(n)
  BY LiveIs DEF WritesInv
<1>5. Given(k)
  <2>1. CASE op = "deleteCategory"  BY <1>1, <1>2, <1>3, <1>4, <2>1 DEF Given, Browser!Ref
  <2>2. CASE op = "mergeMerchants"  BY <1>1, <1>2, <1>3, <1>4, <2>2 DEF Given
  <2> QED  BY <2>1, <2>2 DEF Renamers
<1>6. into # None => Held(k, into)
  BY <1>1, <1>3, <1>4 DEF Held, MayHold, Browser!Ids, Renamers
<1>7. ArgNames(k) = {into} \ {None}  BY <1>3, ArgNamesOf
<1>8. Browser!Reshaped(k) = {id} /\ Browser!Live(id)
  BY <1>1, <1>3, <1>4 DEF Browser!Reshaped, Renamers
<1> QED  BY <1>1, <1>2, <1>5, <1>6, <1>7, <1>8, BeginKeeps DEF Makers, Renamers

\* Whatever call a member begins preserves the invariant.
LEMMA EnterKeeps ==
    ASSUME WritesInv, NEW s \in Slot, ~Browser!Busy(s), Browser!Enter(s)
    PROVE  WritesInv'
<1>1. CASE Browser!Update(s) \/ Browser!Create(s) \/ Browser!Import(s) \/ Browser!MarkRecurring(s)
  BY <1>1, UpdateBegins, CreateBegins, ImportBegins, MarkRecurringBegins
<1>2. CASE \/ Browser!Delete(s) \/ Browser!SetBudget(s) \/ Browser!CopyBudgets(s)
           \/ Browser!DeleteBudget(s)
  BY <1>2, PlainBegins, SetBudgetBegins
<1>3. CASE Browser!UpdateCategory(s) \/ Browser!UpdateGroup(s) \/ Browser!DeleteGroup(s)
  BY <1>3, UpdateCategoryBegins, GroupBegins
<1>4. CASE Browser!DeleteCategory(s) \/ Browser!MergeMerchants(s)  BY <1>4, RenamerBegins
<1> QED  BY <1>1, <1>2, <1>3, <1>4 DEF Browser!Enter

-----------------------------------------------------------------------------
(* HouseholdWrites: the theorems *)

\* A household in use starts with the invariant.
LEMMA WritesStart ==
    ASSUME Browser!Init  PROVE WritesInv
<1>1. /\ doc = Documents /\ budget = Budgets /\ contested = {} /\ outdated = {}
      /\ writing = [s \in Slot |-> Browser!NoCall]
  BY DEF Browser!Init
<1>2. \A id \in DOMAIN Documents : Browser!Live(id) =>
         LET d == doc[id]
         IN  /\ id \notin DOMAIN Drafts
             /\ Browser!KindOf[id] \in Browser!Kinds /\ d \in Browser!Document(Browser!KindOf[id])
             /\ \A named \in Browser!Named(d) : doc[named] # None
             /\ d.kind = "transaction" => Browser!SplitsFit(d)
             /\ d.kind = "category" /\ d.parent # None => doc[d.parent].categoryKind = d.categoryKind
  BY <1>1, WritesAssumption DEF Browser!InUse, Browser!Live, Browser!Mentioned
<1>3. \A id \in DOMAIN Documents : doc[id] # None => Browser!Live(id)
  BY <1>1, NoDocument, WritesAssumption DEF Browser!InUse, Browser!Live
<1>4. \A id \in DOMAIN Documents : Browser!Live(id) => \A n \in Browser!Named(doc[id]) : Browser!Live(n)
  <2>1. SUFFICES ASSUME NEW id \in DOMAIN Documents, Browser!Live(id), NEW n \in Browser!Named(doc[id])
                 PROVE  Browser!Live(n)
    OBVIOUS
  <2>2. n \in DOMAIN Documents  BY <1>2, <2>1, NamedTarget
  <2> QED  BY <1>2, <1>3, <2>1, <2>2
<1>5. \A b \in budget : b[1] \in Browser!Ids("category") \cup Browser!Ids("group") /\ Browser!Live(b[1])
  <2>1. \A b \in budget : b[1] \in Browser!Ids("category") \cup Browser!Ids("group") /\ doc[b[1]] # None
    BY <1>1, WritesAssumption DEF Browser!InUse
  <2> QED  BY <1>3, <2>1 DEF Browser!Ids
<1>6. DOMAIN doc = DOMAIN Documents  BY <1>1
<1>7. Browser!ReferencesResolve
  <2>1. ASSUME NEW id \in DOMAIN Documents, Browser!Live(id), "parent" \in DOMAIN doc[id]
        PROVE  Browser!GroupFits(doc[id])
    <3> PICK d, kind : d = doc[id] /\ kind = Browser!KindOf[id]  OBVIOUS
    <3>1. kind \in Browser!Kinds /\ d \in Browser!Document(kind)  BY <1>2, <2>1
    <3>2. d.kind = kind /\ DOMAIN d = {"kind"} \cup Fields(kind)  BY <3>1, FieldsOf
    <3>3. kind = "category"  BY <2>1, <3>1, <3>2 DEF Fields, Browser!Kinds
    <3>4. d.parent # None => d.parent \in Browser!Named(d)
      BY <2>1 DEF Browser!Named, Browser!Names, Browser!Naming
    <3>5. d.parent # None => Browser!Live(d.parent)  BY <1>4, <2>1, <3>4
    <3>6. d.parent # None => doc[d.parent].categoryKind = d.categoryKind
      BY <1>2, <2>1, <3>2, <3>3
    <3> QED  BY <3>5, <3>6 DEF Browser!GroupFits
  <2> QED  BY <1>4, <1>5, <1>6, <2>1 DEF Browser!ReferencesResolve
<1>8. Browser!SplitsAddUp
  <2>1. \A t \in Browser!Of("transaction") :
           t \in DOMAIN Documents /\ Browser!Live(t) /\ doc[t].kind = "transaction"
    BY <1>6 DEF Browser!Of
  <2> QED  BY <1>2, <2>1 DEF Browser!SplitsAddUp
<1>9. doc = [id \in DOMAIN Documents |-> doc[id]]
  BY <1>1, WritesAssumption DEF Browser!InUse
<1>10. StoredOK  BY <1>1, <1>2, <1>5, <1>7, <1>8, <1>9 DEF StoredOK
<1>11. \A s \in Slot : ~Browser!Busy(s)  BY <1>1 DEF Browser!Busy
<1> QED  BY <1>10, <1>11 DEF WritesInv

\* A step that is no call's leaves the invariant alone.
LEMMA WritesRest ==
    ASSUME WritesInv, UNCHANGED writesVars  PROVE WritesInv'
<1>1. UNCHANGED <<doc, budget, writing, contested, outdated>>  BY DEF writesVars
<1>2. StoredOK'  BY <1>1, StoredStays DEF WritesInv, StoredOK
<1>3. ASSUME NEW s \in Slot, Browser!Busy(s)'  PROVE CallOK(writing[s])'
  <2> PICK k : k = writing[s]  OBVIOUS
  <2>1. CallOK(k)  BY <1>1, <1>3 DEF WritesInv, Browser!Busy
  <2>2. CallOK(k)'  BY <1>1, <2>1, CallStays
  <2>3. k = writing'[s]  BY <1>1
  <2> QED  BY <2>2, <2>3
<1>4. ASSUME NEW s \in Slot, NEW u \in Slot, s # u, Browser!Busy(s)', Browser!Busy(u)'
      PROVE  ApartOK(writing[s], writing[u])'
  <2> PICK k, x : k = writing[s] /\ x = writing[u]  OBVIOUS
  <2>1. ApartOK(k, x)  BY <1>1, <1>4 DEF WritesInv, Browser!Busy
  <2>2. ApartOK(k, x)'  BY <1>1, <2>1 DEF ApartOK, MayHold, Browser!Live
  <2>3. k = writing'[s] /\ x = writing'[u]  BY <1>1
  <2> QED  BY <2>2, <2>3
<1> QED  BY <1>2, <1>3, <1>4 DEF WritesInv

\* The part of the household application that runs.
WritesKept == part = "writes" => WritesInv

\* The invariant holds at the start and is preserved by every step.
LEMMA WritesKeeps == HouseholdSpec => []WritesKept
<1>1. HouseholdInit => WritesKept  BY WritesStart DEF HouseholdInit, WritesKept
<1>2. WritesKept /\ [HouseholdNext]_<<part, nightVars, accessVars, replicaVars, writesVars>> => WritesKept'
  <2> SUFFICES ASSUME WritesKept, [HouseholdNext]_<<part, nightVars, accessVars, replicaVars, writesVars>>
               PROVE  WritesKept'
    OBVIOUS
  <2>1. CASE part = "writes" /\ Browser!Next /\ part' = part
    <3>1. WritesInv  BY <2>1 DEF WritesKept
    <3>2. PICK s \in Slot : \/ Browser!Free(s) /\ Browser!Enter(s)
                            \/ Browser!Busy(s) /\ Browser!Continue(s)
      BY <2>1 DEF Browser!Next
    <3>3. WritesInv'  BY <3>1, <3>2, EnterKeeps, ContinueKeeps DEF Browser!Free
    <3> QED  BY <3>3 DEF WritesKept
  <2>2. CASE UNCHANGED <<part, writesVars>>
    <3>1. CASE part = "writes"
      <4>1. WritesInv /\ UNCHANGED writesVars  BY <2>2, <3>1 DEF WritesKept
      <4>2. WritesInv'  BY <4>1, WritesRest
      <4> QED  BY <4>2 DEF WritesKept
    <3>2. CASE part # "writes"  BY <2>2, <3>2 DEF WritesKept
    <3> QED  BY <3>1, <3>2
  <2>3. (part = "writes" /\ Browser!Next /\ part' = part) \/ UNCHANGED <<part, writesVars>>
    BY DEF HouseholdNext, Done
  <2> QED  BY <2>1, <2>2, <2>3
<1> QED  BY <1>1, <1>2, PTL DEF HouseholdSpec

\* Whatever calls overlap and wherever they stop, the references that the calls
\* rewrite lead to documents that are there: the categories, splits, merchant,
\* batch and recurrence of a transaction, what a rule sets and the merchant it
\* asks for, the merchant of a recurrence, the group of a category and the
\* budgets of a category; and every category is in a group of its own kind.
\* Only what was removed or regrouped while another call was under way is left
\* aside.  The category a rule asks for, the one a recurrence was marked with
\* and the budgets of a group are no part of it: they are left behind
\* (NothingPointsAtTheDeleted).
THEOREM CallsLeaveReferences == HouseholdSpec => []ReferencesResolve
<1>1. WritesKept => ReferencesResolve
  BY DEF WritesKept, WritesInv, StoredOK, ReferencesResolve
<1> QED  BY <1>1, WritesKeeps, PTL

\* The splits of a transaction add up to its amount, unless deleteCategory
\* rewrote them from an older reading.
THEOREM SplitsAlwaysAddUp == HouseholdSpec => []SplitsAddUp
<1>1. WritesKept => SplitsAddUp
  BY DEF WritesKept, WritesInv, StoredOK, SplitsAddUp
<1> QED  BY <1>1, WritesKeeps, PTL
=============================================================================
