----------------------- MODULE PortfolioRepositoryProof -----------------------
(***************************************************************************)
(* Proofs about PortfolioRepository for every number of requests, commands *)
(* and attempts.  The safety invariants are proved together, from the      *)
(* inductive invariant IInv: they lean on what each request in flight      *)
(* knows about the head it pinned, and that is only as good as the head's  *)
(* only ever growing.                                                      *)
(***************************************************************************)
EXTENDS PortfolioRepository, ChainLemmas

\* Every chain a request pinned, and every chain the store remembers having
\* published, is a beginning of the published one.
HeadOnlyGrows ==
    /\ \A r \in Request : Begins(pinned[r], head)
    /\ \A c \in receipts : Begins(c, head)

\* Past its replay check a request knows the pinned chain lacks its identity;
\* at each staging step it knows what it has staged before.
Checked(r) == \A k \in 1..Len(pinned[r]) : pinned[r][k].id # IdOf[r]
InFlight(r) ==
    /\ pc[r] \in {"content", "command", "publish"} => Checked(r)
    /\ pc[r] \in {"command", "publish"} => <<"content", Prepared(r)>> \in stored
    /\ pc[r] = "publish" => <<"command", Prepared(r)>> \in stored
    /\ pc[r] # "done" => reply[r] = NoReply

\* Each failed attempt was overtaken by one more command.
Overtaken(r) ==
    /\ pc[r] = "head" /\ attempt[r] > 0 => Len(head) >= begun[r] + attempt[r]
    /\ pc[r] \notin {"head", "done"} => Len(pinned[r]) >= begun[r] + attempt[r]
    /\ reply[r].status = "busy" => Len(head) >= begun[r] + MaxAttempts

AnswerCommitted(r) ==
    reply[r].status = "ok" =>
        /\ reply[r].version \in 1..Len(head)
        /\ head[reply[r].version].id = IdOf[r]
        /\ head[reply[r].version].hash = HashOf[r]

IInv ==
    /\ TypeOK
    /\ CommandsAppliedOnce
    /\ HeadOnlyGrows
    /\ HeadContentDurable
    /\ Len(head) > 0
    /\ \A r \in Request : InFlight(r) /\ Overtaken(r) /\ AnswerCommitted(r)
-----------------------------------------------------------------------------
\* The record a request would add, and the chain it would publish.
OwnEntry(r) == [id |-> IdOf[r], hash |-> HashOf[r], stamp |-> StampOf[r]]

\* What Prepared(r) is: the pinned chain and one record of the request's own.
LEMMA PreparedExtends ==
    ASSUME TypeOK, NEW r \in Request
    PROVE  /\ OwnEntry(r) \in Entry
           /\ Prepared(r) = Append(pinned[r], OwnEntry(r))
           /\ Prepared(r) \in Seq(Entry)
           /\ Len(Prepared(r)) = Len(pinned[r]) + 1
           /\ Prepared(r)[Len(Prepared(r))] = OwnEntry(r)
  <1>1. OwnEntry(r) \in Entry
    BY RequestAssumption DEF OwnEntry, Entry
  <1>2. pinned[r] \in Seq(Entry)
    BY DEF TypeOK
  <1>3. Prepared(r) = Append(pinned[r], OwnEntry(r))
    BY DEF Prepared, OwnEntry
  <1> QED
    BY <1>1, <1>2, <1>3, AppendExtends

\* The conditional write, whoever issues it: it only ever lengthens the head,
\* keeps it free of repeated identities and fully staged, and a request that
\* is not told "conflict" finds its own record in it.
LEMMA WriteHeadSafe ==
    ASSUME IInv, NEW r \in Request, pc[r] = "publish", WriteHead(r)
    PROVE  /\ head' \in Seq(Entry) /\ receipts' \subseteq Seq(Entry)
           /\ Begins(head, head')
           /\ \A q \in Request : Begins(pinned[q], head')
           /\ \A c \in receipts' : Begins(c, head')
           /\ Unique(head')
           /\ \A kind \in Kind : <<kind, head'>> \in stored
           /\ \A n \in 1..Len(head') : <<"command", SubSeq(head', 1, n)>> \in stored
           /\ HeadOutcome(Prepared(r), pinned[r]) # "conflict" =>
                /\ Len(Prepared(r)) \in 1..Len(head')
                /\ head'[Len(Prepared(r))] = OwnEntry(r)
           /\ HeadOutcome(Prepared(r), pinned[r]) = "conflict" =>
                head' = head /\ Len(pinned[r]) < Len(head)
  <1> DEFINE e == OwnEntry(r)
             outcome == HeadOutcome(Prepared(r), pinned[r])
  <1>1. /\ head \in Seq(Entry) /\ receipts \subseteq Seq(Entry) /\ pinned[r] \in Seq(Entry)
        /\ \A q \in Request : pinned[q] \in Seq(Entry)
        /\ Len(head) \in Nat /\ Len(pinned[r]) \in Nat
    BY DEF IInv, TypeOK
  <1>2. /\ e \in Entry
        /\ Prepared(r) = Append(pinned[r], e)
        /\ Prepared(r) \in Seq(Entry)
        /\ Len(Prepared(r)) = Len(pinned[r]) + 1
        /\ Prepared(r)[Len(Prepared(r))] = e
    BY PreparedExtends DEF IInv
  <1>3. Begins(pinned[r], head) /\ Begins(head, head)
    BY DEF IInv, HeadOnlyGrows, Begins
  <1>4. CASE outcome = "applied"
    <2>1. pinned[r] = head /\ head' = Append(head, e) /\ receipts' = receipts \cup {head'}
      BY <1>2, <1>4 DEF WriteHead, HeadOutcome
    <2>2. /\ Len(head') = Len(head) + 1
          /\ head'[Len(head) + 1] = e
          /\ \A i \in 1..Len(head) : head'[i] = head[i]
          /\ head' \in Seq(Entry)
          /\ Begins(head, head')
      BY <1>1, <1>2, <2>1, AppendExtends
    <2>3. \A q \in Request : Begins(pinned[q], head')
      BY <1>1, <1>2, <2>1, BeginsExtended DEF IInv, HeadOnlyGrows
    <2>4. \A c \in receipts' : Begins(c, head')
      <3>1. \A c \in receipts : Begins(c, head')
        BY <1>1, <1>2, <2>1, BeginsExtended DEF IInv, HeadOnlyGrows
      <3>2. Begins(head', head')
        BY <1>1, <2>2 DEF Begins
      <3> QED
        BY <2>1, <3>1, <3>2
    <2>5. Unique(head')
      <3>1. \A i \in 1..Len(head) : head[i].id # e.id
        BY <2>1 DEF IInv, InFlight, Checked, OwnEntry
      <3>2. \A i, j \in 1..Len(head) : head[i].id = head[j].id => i = j
        BY DEF IInv, CommandsAppliedOnce, Unique
      <3>3. 1..Len(head') = 1..Len(head) \cup {Len(head) + 1}
        BY <1>1, <2>2
      <3> QED
        BY <2>2, <3>1, <3>2, <3>3 DEF Unique
    <2>6. \A kind \in Kind : <<kind, head'>> \in stored
      BY <1>2, <2>1 DEF IInv, InFlight, Kind
    <2>7. \A n \in 1..Len(head') : <<"command", SubSeq(head', 1, n)>> \in stored
      <3>1. /\ \A n \in 1..Len(head) : SubSeq(head', 1, n) = SubSeq(head, 1, n)
            /\ SubSeq(head', 1, Len(head) + 1) = head'
        BY <1>1, <1>2, <2>1, BehindIsKept
      <3>2. \A n \in 1..Len(head) : <<"command", SubSeq(head, 1, n)>> \in stored
        BY DEF IInv, HeadContentDurable
      <3>3. 1..Len(head') = 1..Len(head) \cup {Len(head) + 1}
        BY <1>1, <2>2
      <3>4. <<"command", head'>> \in stored
        BY <2>6 DEF Kind
      <3> QED
        BY <3>1, <3>2, <3>3, <3>4
    <2> QED
      BY SMTT(20), <1>1, <1>2, <1>4, <2>1, <2>2, <2>3, <2>4, <2>5, <2>6, <2>7
  <1>5. CASE outcome = "replayed"
    <2>1. Prepared(r) \in receipts
      BY <1>5 DEF HeadOutcome
    <2>2. head' = head /\ receipts' = receipts
      BY <1>5 DEF WriteHead
    <2>3. Begins(Prepared(r), head)
      BY <2>1 DEF IInv, HeadOnlyGrows
    <2>4. Len(Prepared(r)) \in 1..Len(head) /\ head[Len(Prepared(r))] = e
      BY <1>1, <1>2, <2>3 DEF Begins
    <2> QED
      BY <1>1, <1>3, <1>5, <2>2, <2>4
         DEF IInv, HeadOnlyGrows, HeadContentDurable, CommandsAppliedOnce
  <1>6. CASE outcome = "conflict"
    <2>1. head' = head /\ receipts' = receipts /\ pinned[r] # head
      BY <1>6 DEF WriteHead, HeadOutcome
    <2>2. Len(pinned[r]) < Len(head)
      BY <1>1, <1>3, <2>1, OvertakenIsShorter
    <2> QED
      BY <1>1, <1>3, <1>6, <2>1, <2>2
         DEF IInv, HeadOnlyGrows, HeadContentDurable, CommandsAppliedOnce
  <1> QED
    BY <1>4, <1>5, <1>6 DEF HeadOutcome

\* What holds of a request is not disturbed by the steps of the others.
LEMMA OthersUndisturbed ==
    ASSUME IInv, NEW q \in Request,
           Begins(head, head'), head' \in Seq(Entry), stored \subseteq stored',
           pc'[q] = pc[q], pinned'[q] = pinned[q], attempt'[q] = attempt[q],
           reply'[q] = reply[q], begun'[q] = begun[q]
    PROVE  InFlight(q)' /\ Overtaken(q)' /\ AnswerCommitted(q)'
  <1>1. /\ Len(head) \in Nat /\ Len(head') \in Nat /\ Len(head) <= Len(head')
        /\ \A i \in 1..Len(head) : head'[i] = head[i]
    BY DEF IInv, TypeOK, Begins
  <1>2. InFlight(q) /\ Overtaken(q) /\ AnswerCommitted(q)
    BY DEF IInv
  <1>3. InFlight(q)'
    BY <1>2 DEF InFlight, Checked, Prepared
  <1>4. Overtaken(q)'
    <2>1. begun[q] \in Nat /\ attempt[q] \in Nat /\ MaxAttempts \in Nat
      BY MaxAttemptsAssumption DEF IInv, TypeOK
    <2> QED
      BY <1>1, <1>2, <2>1 DEF Overtaken
  <1>5. AnswerCommitted(q)'
    BY <1>1, <1>2 DEF AnswerCommitted
  <1> QED
    BY <1>3, <1>4, <1>5

\* A request that returns leaves the invariant as it was, provided its answer
\* is true of the head at that moment.
LEMMA FinishSafe ==
    ASSUME IInv, NEW r \in Request, NEW answer \in Reply, Finish(r, answer),
           answer.status = "ok" =>
             /\ answer.version \in 1..Len(head')
             /\ head'[answer.version].id = IdOf[r]
             /\ head'[answer.version].hash = HashOf[r],
           answer.status = "busy" => Len(head') >= begun[r] + MaxAttempts,
           begun' = begun, stored' = stored,
           head' \in Seq(Entry), receipts' \subseteq Seq(Entry), Begins(head, head'),
           \A q \in Request : Begins(pinned[q], head'),
           \A c \in receipts' : Begins(c, head')
    PROVE  TypeOK' /\ HeadOnlyGrows' /\ \A q \in Request : (InFlight(q) /\ Overtaken(q) /\ AnswerCommitted(q))'
  <1>1. /\ pc' = [pc EXCEPT ![r] = "done"]
        /\ pinned' = [pinned EXCEPT ![r] = <<>>]
        /\ attempt' = [attempt EXCEPT ![r] = 0]
        /\ reply' = [reply EXCEPT ![r] = answer]
    BY DEF Finish
  <1>2. TypeOK'
    <2>1. <<>> \in Seq(Entry) /\ 0 \in 0..(MaxAttempts - 1) /\ "done" \in Point
      BY MaxAttemptsAssumption DEF Point
    <2> QED
      BY <1>1, <2>1 DEF IInv, TypeOK
  <1>3. HeadOnlyGrows'
    <2>1. Begins(<<>>, head')
      BY DEF Begins
    <2>2. \A q \in Request : pinned'[q] = <<>> \/ pinned'[q] = pinned[q]
      BY <1>1 DEF IInv, TypeOK
    <2> QED
      BY <2>1, <2>2 DEF HeadOnlyGrows
  <1>4. InFlight(r)' /\ Overtaken(r)' /\ AnswerCommitted(r)'
    BY <1>1 DEF IInv, TypeOK, InFlight, Overtaken, AnswerCommitted
  <1>5. ASSUME NEW q \in Request, q # r
        PROVE  InFlight(q)' /\ Overtaken(q)' /\ AnswerCommitted(q)'
    <2>1. /\ pc'[q] = pc[q] /\ pinned'[q] = pinned[q] /\ attempt'[q] = attempt[q]
          /\ reply'[q] = reply[q] /\ begun'[q] = begun[q]
      BY <1>1, <1>5 DEF IInv, TypeOK
    <2> QED
      BY <2>1, OthersUndisturbed
  <1> QED
    BY <1>2, <1>3, <1>4, <1>5

\* Nothing changes for a head that stays.
LEMMA HeadStays ==
    ASSUME IInv
    PROVE  /\ head \in Seq(Entry) /\ receipts \subseteq Seq(Entry) /\ Begins(head, head)
           /\ \A q \in Request : Begins(pinned[q], head)
           /\ \A c \in receipts : Begins(c, head)
  BY DEF IInv, TypeOK, HeadOnlyGrows, Begins

\* head(): pinning the current head.
LEMMA ReadHeadInductive ==
    ASSUME IInv, NEW r \in Request, ReadHead(r)
    PROVE  IInv'
  <1>1. /\ pc[r] = "head" /\ reply[r] = NoReply
        /\ pinned' = [pinned EXCEPT ![r] = head]
        /\ begun' = [begun EXCEPT ![r] = IF attempt[r] = 0 THEN Len(head) ELSE @]
        /\ pc' = [pc EXCEPT ![r] = "replay"]
        /\ UNCHANGED <<head, stored, receipts, attempt, reply>>
    BY DEF ReadHead, IInv, InFlight
  <1>2. TypeOK'
    BY <1>1 DEF IInv, TypeOK, Point
  <1>3. HeadOnlyGrows'
    <2>1. \A q \in Request : pinned'[q] = head \/ pinned'[q] = pinned[q]
      BY <1>1 DEF IInv, TypeOK
    <2> QED
      BY <1>1, <2>1, HeadStays DEF HeadOnlyGrows
  <1>4. InFlight(r)' /\ Overtaken(r)' /\ AnswerCommitted(r)'
    <2>1. /\ pc'[r] = "replay" /\ pinned'[r] = head /\ reply'[r] = NoReply
          /\ begun'[r] = IF attempt[r] = 0 THEN Len(head) ELSE begun[r]
          /\ attempt'[r] = attempt[r] /\ attempt[r] \in Nat /\ Len(head) \in Nat
      BY <1>1, MaxAttemptsAssumption DEF IInv, TypeOK
    <2>2. attempt[r] > 0 => Len(head) >= begun[r] + attempt[r]
      BY <1>1 DEF IInv, Overtaken
    <2> QED
      BY <2>1, <2>2 DEF InFlight, Overtaken, AnswerCommitted, NoReply
  <1>5. ASSUME NEW q \in Request, q # r
        PROVE  InFlight(q)' /\ Overtaken(q)' /\ AnswerCommitted(q)'
    <2>1. /\ pc'[q] = pc[q] /\ pinned'[q] = pinned[q] /\ attempt'[q] = attempt[q]
          /\ reply'[q] = reply[q] /\ begun'[q] = begun[q]
      BY <1>1, <1>5 DEF IInv, TypeOK
    <2> QED
      BY <1>1, <2>1, HeadStays, OthersUndisturbed
  <1> QED
    BY <1>1, <1>2, <1>3, <1>4, <1>5 DEF IInv, CommandsAppliedOnce, HeadContentDurable

\* Answers are replies, and of failures nothing has to be true.
LEMMA ReplyForms ==
    /\ \A n \in Nat : Accepted(n) \in Reply
    /\ \A status \in {"reused", "busy", "unavailable"} : Failed(status) \in Reply
  BY DEF Accepted, Failed, Reply

\* replay(): going on without a record of the identity, or answering with it.
LEMMA ReplayInductive ==
    ASSUME IInv, NEW r \in Request, Replay(r)
    PROVE  IInv'
  <1>1. pc[r] = "replay" /\ UNCHANGED <<head, stored, receipts, begun>>
    BY DEF Replay
  <1>2. CASE /\ RecordsOf(pinned[r], IdOf[r]) = {}
             /\ pc' = [pc EXCEPT ![r] = "content"]
             /\ UNCHANGED <<pinned, attempt, reply>>
    <2>1. TypeOK' /\ HeadOnlyGrows'
      BY <1>1, <1>2 DEF IInv, TypeOK, Point, HeadOnlyGrows
    <2>2. InFlight(r)' /\ Overtaken(r)' /\ AnswerCommitted(r)'
      <3>1. Checked(r)
        BY <1>2 DEF RecordsOf, Checked
      <3>2. pc'[r] = "content"
        BY <1>2 DEF IInv, TypeOK
      <3> QED
        BY <1>1, <1>2, <3>1, <3>2
           DEF IInv, InFlight, Checked, Overtaken, AnswerCommitted
    <2>3. ASSUME NEW q \in Request, q # r
          PROVE  InFlight(q)' /\ Overtaken(q)' /\ AnswerCommitted(q)'
      <3>1. pc'[q] = pc[q]
        BY <1>2, <2>3 DEF IInv, TypeOK
      <3> QED
        BY <1>1, <1>2, <3>1, HeadStays, OthersUndisturbed
    <2> QED
      BY <1>1, <2>1, <2>2, <2>3 DEF IInv, CommandsAppliedOnce, HeadContentDurable
  <1>3. ASSUME NEW k \in RecordsOf(pinned[r], IdOf[r]), Finish(r, ReplayAnswer(r, k))
        PROVE  IInv'
    <2> DEFINE answer == ReplayAnswer(r, k)
    <2>1. k \in 1..Len(pinned[r]) /\ pinned[r][k].id = IdOf[r]
      BY <1>3 DEF RecordsOf
    <2>2. /\ Len(pinned[r]) \in Nat /\ Len(head) \in Nat /\ Len(pinned[r]) <= Len(head)
          /\ head[k] = pinned[r][k]
      BY <2>1 DEF IInv, TypeOK, HeadOnlyGrows, Begins
    <2>3. answer \in Reply /\ answer.status # "busy"
      <3>1. k \in Nat
        BY <2>1, <2>2
      <3> QED
        BY <3>1, ReplyForms DEF ReplayAnswer, Accepted, Failed
    <2>4. answer.status = "ok" =>
            /\ answer.version \in 1..Len(head')
            /\ head'[answer.version].id = IdOf[r]
            /\ head'[answer.version].hash = HashOf[r]
      BY <1>1, <2>1, <2>2 DEF ReplayAnswer, Accepted, Failed
    <2>5. TypeOK' /\ HeadOnlyGrows'
          /\ \A q \in Request : (InFlight(q) /\ Overtaken(q) /\ AnswerCommitted(q))'
      <3> HIDE DEF answer
      <3>1. Finish(r, answer)
        BY <1>3 DEF answer
      <3> QED
        BY <1>1, <2>3, <2>4, <3>1, HeadStays, FinishSafe
    <2> QED
      BY <1>1, <2>5 DEF IInv, CommandsAppliedOnce, HeadContentDurable
  <1> QED
    BY <1>2, <1>3 DEF Replay

\* stage(): another document of the prepared generation becomes durable.
LEMMA StageInductive ==
    ASSUME IInv, NEW r \in Request, StageContent(r)
    PROVE  IInv'
  <1>1. /\ UNCHANGED <<head, receipts, pinned, attempt, reply, begun>>
        /\ \/ pc[r] = "content" /\ pc' = [pc EXCEPT ![r] = "command"]
              /\ stored' = stored \cup {<<"content", Prepared(r)>>}
           \/ pc[r] = "command" /\ pc' = [pc EXCEPT ![r] = "publish"]
              /\ stored' = stored \cup {<<"command", Prepared(r)>>}
    BY DEF StageContent, Stage
  <1>2. Prepared(r) \in Seq(Entry)
    BY PreparedExtends DEF IInv
  <1>3. TypeOK' /\ HeadOnlyGrows'
    <2>1. stored' \subseteq Kind \X Seq(Entry)
      BY <1>1, <1>2 DEF IInv, TypeOK, Kind
    <2>2. pc' \in [Request -> Point]
      BY <1>1 DEF IInv, TypeOK, Point
    <2> QED
      BY <1>1, <2>1, <2>2 DEF IInv, TypeOK, HeadOnlyGrows
  <1>4. InFlight(r)' /\ Overtaken(r)' /\ AnswerCommitted(r)'
    <2>1. Prepared(r)' = Prepared(r)
      BY <1>1 DEF Prepared
    <2>2. pc'[r] \in {"command", "publish"} /\ (pc'[r] = "publish" <=> pc[r] = "command")
          /\ (pc'[r] = "command" <=> pc[r] = "content")
      BY <1>1 DEF IInv, TypeOK
    <2> QED
      BY <1>1, <2>1, <2>2 DEF IInv, InFlight, Checked, Overtaken, AnswerCommitted
  <1>5. ASSUME NEW q \in Request, q # r
        PROVE  InFlight(q)' /\ Overtaken(q)' /\ AnswerCommitted(q)'
    <2>1. pc'[q] = pc[q] /\ stored \subseteq stored'
      BY <1>1, <1>5 DEF IInv, TypeOK
    <2> QED
      BY <1>1, <2>1, HeadStays, OthersUndisturbed
  <1> QED
    BY <1>1, <1>3, <1>4, <1>5 DEF IInv, CommandsAppliedOnce, HeadContentDurable

\* A request that is told "conflict" goes on to its next attempt.
LEMMA NextAttemptInductive ==
    ASSUME IInv, NEW r \in Request, pc[r] = "publish", MayRetry(r),
           Len(pinned[r]) < Len(head),
           attempt' = [attempt EXCEPT ![r] = @ + 1],
           pc' = [pc EXCEPT ![r] = "head"],
           UNCHANGED <<head, stored, receipts, pinned, reply, begun>>
    PROVE  IInv'
  <1>1. /\ pc'[r] = "head" /\ attempt'[r] = attempt[r] + 1
        /\ attempt[r] \in Nat /\ begun[r] \in Nat /\ MaxAttempts \in Nat
        /\ Len(pinned[r]) \in Nat /\ Len(head) \in Nat
    BY MaxAttemptsAssumption DEF IInv, TypeOK
  <1>2. TypeOK' /\ HeadOnlyGrows'
    <2>1. attempt[r] + 1 \in 0..(MaxAttempts - 1)
      BY <1>1 DEF MayRetry
    <2> QED
      BY <2>1 DEF IInv, TypeOK, Point, HeadOnlyGrows
  <1>3. InFlight(r)' /\ Overtaken(r)' /\ AnswerCommitted(r)'
    <2>1. Len(pinned[r]) >= begun[r] + attempt[r]
      BY DEF IInv, Overtaken
    <2>2. reply[r] = NoReply
      BY DEF IInv, InFlight
    <2> QED
      BY <1>1, <2>1, <2>2 DEF InFlight, Overtaken, AnswerCommitted, NoReply
  <1>4. ASSUME NEW q \in Request, q # r
        PROVE  InFlight(q)' /\ Overtaken(q)' /\ AnswerCommitted(q)'
    <2>1. pc'[q] = pc[q] /\ attempt'[q] = attempt[q]
      BY <1>4 DEF IInv, TypeOK
    <2> QED
      BY <2>1, HeadStays, OthersUndisturbed
  <1> QED
    BY <1>2, <1>3, <1>4 DEF IInv, CommandsAppliedOnce, HeadContentDurable

\* publishHead(): accepted, another attempt, or out of attempts.
LEMMA PublishHeadInductive ==
    ASSUME IInv, NEW r \in Request, PublishHead(r)
    PROVE  IInv'
  <1> DEFINE outcome == HeadOutcome(Prepared(r), pinned[r])
             version == Len(Prepared(r))
  <1>1. pc[r] = "publish" /\ WriteHead(r) /\ UNCHANGED <<stored, begun>>
    BY DEF PublishHead
  <1>2. /\ head' \in Seq(Entry) /\ receipts' \subseteq Seq(Entry)
        /\ Begins(head, head')
        /\ \A q \in Request : Begins(pinned[q], head')
        /\ \A c \in receipts' : Begins(c, head')
    BY <1>1, WriteHeadSafe
  <1>3. CommandsAppliedOnce' /\ HeadContentDurable' /\ Len(head') > 0
    <2>1. Len(head') > 0
      BY <1>2 DEF IInv, TypeOK, Begins
    <2> QED
      BY <1>1, <2>1, WriteHeadSafe DEF CommandsAppliedOnce, HeadContentDurable
  <1>4. CASE outcome # "conflict" /\ Finish(r, Accepted(version))
    <2>1. /\ version \in 1..Len(head')
          /\ head'[version].id = IdOf[r] /\ head'[version].hash = HashOf[r]
      <3>1. version \in 1..Len(head') /\ head'[version] = OwnEntry(r)
        BY <1>1, <1>4, WriteHeadSafe
      <3> QED
        BY <3>1 DEF OwnEntry
    <2>2. Accepted(version) \in Reply
      <3>1. Len(head') \in Nat
        BY <1>2
      <3> QED
        BY <2>1, <3>1, ReplyForms
    <2>3. Accepted(version).status # "busy" /\ Accepted(version).version = version
      BY DEF Accepted
    <2> QED
      BY <1>1, <1>2, <1>3, <1>4, <2>1, <2>2, <2>3, FinishSafe DEF IInv
  <1>5. CASE /\ outcome = "conflict" /\ MayRetry(r)
             /\ attempt' = [attempt EXCEPT ![r] = @ + 1]
             /\ pc' = [pc EXCEPT ![r] = "head"]
             /\ UNCHANGED <<pinned, reply>>
    <2>1. UNCHANGED <<head, receipts>> /\ Len(pinned[r]) < Len(head)
      BY <1>1, <1>5, WriteHeadSafe DEF WriteHead
    <2> QED
      BY <1>1, <1>5, <2>1, NextAttemptInductive
  <1>6. CASE outcome = "conflict" /\ ~MayRetry(r) /\ Finish(r, Failed("busy"))
    <2>1. head' = head /\ Len(pinned[r]) < Len(head)
      BY <1>1, <1>6, WriteHeadSafe
    <2>2. /\ attempt[r] \in 0..(MaxAttempts - 1) /\ begun[r] \in Nat
          /\ Len(pinned[r]) \in Nat /\ Len(head) \in Nat /\ MaxAttempts \in Nat
      BY MaxAttemptsAssumption DEF IInv, TypeOK
    <2>3. Len(head') >= begun[r] + MaxAttempts
      <3>1. Len(pinned[r]) >= begun[r] + attempt[r]
        BY <1>1 DEF IInv, Overtaken
      <3> QED
        BY <1>6, <2>1, <2>2, <3>1 DEF MayRetry
    <2>4. Failed("busy") \in Reply /\ Failed("busy").status # "ok"
      BY ReplyForms DEF Failed
    <2> QED
      BY <1>1, <1>2, <1>3, <1>6, <2>3, <2>4, FinishSafe DEF IInv
  <1> QED
    BY <1>4, <1>5, <1>6 DEF PublishHead

\* The head write lands, or not, and the request does not learn which.
LEMMA LoseResponseInductive ==
    ASSUME IInv, NEW r \in Request, LoseResponse(r)
    PROVE  IInv'
  <1>1. /\ pc[r] = "publish" /\ WriteHead(r) /\ UNCHANGED <<stored, begun>>
        /\ Finish(r, Failed("unavailable"))
    BY DEF LoseResponse
  <1>2. /\ head' \in Seq(Entry) /\ receipts' \subseteq Seq(Entry)
        /\ Begins(head, head')
        /\ \A q \in Request : Begins(pinned[q], head')
        /\ \A c \in receipts' : Begins(c, head')
    BY <1>1, WriteHeadSafe
  <1>3. CommandsAppliedOnce' /\ HeadContentDurable' /\ Len(head') > 0
    <2>1. Len(head') > 0
      BY <1>2 DEF IInv, TypeOK, Begins
    <2> QED
      BY <1>1, <2>1, WriteHeadSafe DEF CommandsAppliedOnce, HeadContentDurable
  <1>4. Failed("unavailable") \in Reply /\ Failed("unavailable").status \notin {"ok", "busy"}
    BY ReplyForms DEF Failed
  <1> QED
    BY <1>1, <1>2, <1>3, <1>4, FinishSafe DEF IInv

\* A request that stops anywhere else leaves nothing behind it.
LEMMA GiveUpInductive ==
    ASSUME IInv, NEW r \in Request, GiveUp(r)
    PROVE  IInv'
  <1>1. Finish(r, Failed("unavailable")) /\ UNCHANGED <<head, stored, receipts, begun>>
    BY DEF GiveUp
  <1>2. Failed("unavailable") \in Reply /\ Failed("unavailable").status \notin {"ok", "busy"}
    BY ReplyForms DEF Failed
  <1>3. TypeOK' /\ HeadOnlyGrows'
        /\ \A q \in Request : (InFlight(q) /\ Overtaken(q) /\ AnswerCommitted(q))'
    BY <1>1, <1>2, HeadStays, FinishSafe
  <1> QED
    BY <1>1, <1>3 DEF IInv, CommandsAppliedOnce, HeadContentDurable

-----------------------------------------------------------------------------
\* The published portfolio before the first request satisfies the invariant.
LEMMA InitEstablishes == Init => IInv
  <1> SUFFICES ASSUME Init
               PROVE  IInv
    OBVIOUS
  <1>1. head = InitialHead /\ InitialHead \in Seq(Entry) /\ Len(InitialHead) > 0
    BY InitialHeadAssumption DEF Init
  <1>2. \A n \in 1..Len(InitialHead) : SubSeq(InitialHead, 1, n) \in Seq(Entry)
    <2>1. ASSUME NEW n \in 1..Len(InitialHead)
          PROVE  SubSeq(InitialHead, 1, n) \in Seq(Entry)
      <3>1. n \in Int /\ \A i \in 1..n : InitialHead[i] \in Entry
        BY <1>1, ElementOfSeq
      <3> QED
        BY <3>1, SubSeqProperties
    <2> QED
      BY <2>1
  <1>3. SubSeq(InitialHead, 1, Len(InitialHead)) = InitialHead
    BY <1>1, SubSeqFull
  <1>4. TypeOK
    <2>1. stored \subseteq Kind \X Seq(Entry)
      BY <1>2 DEF Init
    <2>2. reply \in [Request -> Reply] /\ pinned \in [Request -> Seq(Entry)]
      BY DEF Init, Reply, NoReply
    <2>3. attempt \in [Request -> 0..(MaxAttempts - 1)]
      BY MaxAttemptsAssumption DEF Init
    <2> QED
      BY <1>1, <2>1, <2>2, <2>3 DEF Init, TypeOK, Point
  <1>5. HeadOnlyGrows
    BY <1>1 DEF Init, HeadOnlyGrows, Begins
  <1>6. HeadContentDurable
    <2>1. \A kind \in Kind, n \in 1..Len(head) : <<kind, SubSeq(head, 1, n)>> \in stored
      BY <1>1 DEF Init
    <2>2. Len(head) \in 1..Len(head) /\ SubSeq(head, 1, Len(head)) = head
      BY <1>1, <1>3
    <2>3. "command" \in Kind
      BY DEF Kind
    <2> QED
      BY <2>1, <2>2, <2>3, Zenon DEF HeadContentDurable
  <1>7. \A r \in Request : InFlight(r) /\ Overtaken(r) /\ AnswerCommitted(r)
    BY DEF Init, InFlight, Overtaken, AnswerCommitted, NoReply
  <1> QED
    BY <1>1, <1>4, <1>5, <1>6, <1>7, InitialHeadAssumption DEF IInv, CommandsAppliedOnce

\* Every step of Next preserves it.
LEMMA NextPreserves == IInv /\ [Next]_vars => IInv'
  <1> SUFFICES ASSUME IInv, [Next]_vars
               PROVE  IInv'
    OBVIOUS
  <1>1. ASSUME NEW r \in Request, RequestStep(r)
        PROVE  IInv'
    BY <1>1, ReadHeadInductive, ReplayInductive, StageInductive, PublishHeadInductive,
       LoseResponseInductive, GiveUpInductive DEF RequestStep
  <1>2. CASE UNCHANGED vars
    BY <1>2 DEF vars, IInv, TypeOK, CommandsAppliedOnce, HeadOnlyGrows, HeadContentDurable,
                InFlight, Checked, Prepared, Overtaken, AnswerCommitted
  <1> QED
    BY <1>1, <1>2 DEF Next, AllDone

\* The inductive invariant holds in every reachable state.
THEOREM Invariance == Spec => []IInv
  BY InitEstablishes, NextPreserves, PTL DEF Spec

\* Every variable keeps its type (repository.js as modelled).
THEOREM TypeCorrect == Spec => []TypeOK
  <1>1. IInv => TypeOK
    BY DEF IInv
  <1> QED
    BY <1>1, Invariance, PTL

\* An identity enters the published chain at most once, whatever requests
\* carry it, resent, interleaved or interrupted (repository.js:171-183).
THEOREM AppliedOnce == Spec => []CommandsAppliedOnce
  <1>1. IInv => CommandsAppliedOnce
    BY DEF IInv
  <1> QED
    BY <1>1, Invariance, PTL

\* The head never names a document that is not durable (repository.js:154-162).
THEOREM ContentDurable == Spec => []HeadContentDurable
  <1>1. IInv => HeadContentDurable
    BY DEF IInv
  <1> QED
    BY <1>1, Invariance, PTL

\* A version told to a caller is, and stays, that of its own request.
THEOREM AnswersCommitted == Spec => []AnswersAreCommitted
  <1>1. IInv => AnswersAreCommitted
    BY DEF IInv, AnswerCommitted, AnswersAreCommitted
  <1> QED
    BY <1>1, Invariance, PTL

\* "Concurrent portfolio update" is only said after MaxAttempts overtakings.
THEOREM BusyOvertaken == Spec => []BusyMeansOvertaken
  <1>1. IInv => BusyMeansOvertaken
    BY DEF IInv, Overtaken, BusyMeansOvertaken
  <1> QED
    BY <1>1, Invariance, PTL

-----------------------------------------------------------------------------
(* PortfolioRepository implements CommandLedger, with the published chain as journal and *)
(* the replies as answers: each step is a commit, an answer or no step of the journal. *)

\* What has been answered, as a function of the replies.
AnswersIn(replies) ==
    {[id |-> IdOf[r], hash |-> HashOf[r], version |-> replies[r].version] :
        r \in {q \in Request : replies[q].status = "ok"}}
OwnAnswer(r, answer) == [id |-> IdOf[r], hash |-> HashOf[r], version |-> answer.version]

\* The refinement mapping, before and after a step.
LEMMA AnswersAreReplies == Answers = AnswersIn(reply) /\ Answers' = AnswersIn(reply')
  BY DEF Answers, AnswersIn

\* A request that returns adds its answer, if it got one.
LEMMA FinishAnswers ==
    ASSUME IInv, NEW r \in Request, NEW answer \in Reply, pc[r] # "done", Finish(r, answer)
    PROVE  Answers' = IF answer.status = "ok" THEN Answers \cup {OwnAnswer(r, answer)} ELSE Answers
  <1>1. reply \in [Request -> Reply] /\ reply[r].status # "ok"
    <2>1. reply[r] = NoReply
      BY DEF IInv, InFlight
    <2> QED
      BY <2>1 DEF IInv, TypeOK, NoReply
  <1>2. /\ reply'[r] = answer
        /\ \A q \in Request \ {r} : reply'[q] = reply[q]
    BY <1>1 DEF Finish
  <1>3. CASE answer.status = "ok"
    <2>1. {q \in Request : reply'[q].status = "ok"}
            = {q \in Request : reply[q].status = "ok"} \cup {r}
      BY <1>1, <1>2, <1>3
    <2> QED
      BY <1>1, <1>2, <1>3, <2>1, AnswersAreReplies DEF AnswersIn, OwnAnswer
  <1>4. CASE answer.status # "ok"
    <2>1. {q \in Request : reply'[q].status = "ok"} = {q \in Request : reply[q].status = "ok"}
      BY <1>1, <1>2, <1>4
    <2> QED
      BY <1>1, <1>2, <1>4, <2>1, AnswersAreReplies DEF AnswersIn
  <1> QED
    BY <1>3, <1>4

\* The conditional write is a commit that may be answered, or changes nothing.
LEMMA WriteHeadRefines ==
    ASSUME IInv, NEW r \in Request, pc[r] = "publish", WriteHead(r), NEW answer \in Reply,
           Finish(r, answer),
           answer.status = "ok" =>
             /\ HeadOutcome(Prepared(r), pinned[r]) # "conflict"
             /\ answer.version = Len(Prepared(r))
    PROVE  [Ledger!LedgerNext]_(Ledger!ledgerVars)
  <1> DEFINE e == OwnEntry(r)
             outcome == HeadOutcome(Prepared(r), pinned[r])
  <1>1. /\ e \in Entry /\ e.id = IdOf[r] /\ e.hash = HashOf[r]
        /\ Prepared(r) = Append(pinned[r], e)
        /\ Len(Prepared(r)) = Len(pinned[r]) + 1
    <2>1. e.id = IdOf[r] /\ e.hash = HashOf[r]
      BY DEF OwnEntry
    <2> QED
      BY <2>1, PreparedExtends DEF IInv
  <1>2. Answers' = IF answer.status = "ok" THEN Answers \cup {OwnAnswer(r, answer)} ELSE Answers
    BY FinishAnswers
  <1>3. answer.status = "ok" => OwnAnswer(r, answer) = Ledger!AnswerFor(e, Len(Prepared(r)))
    BY <1>1 DEF OwnAnswer, Ledger!AnswerFor
  <1>4. CASE outcome = "applied"
    <2>1. pinned[r] = head /\ head' = Append(head, e)
      BY <1>1, <1>4 DEF WriteHead, HeadOutcome
    <2>2. \A v \in 1..Len(head) : head[v].id # e.id
      BY <1>1, <2>1 DEF IInv, InFlight, Checked
    <2>3. Answers' \in {Answers, Answers \cup {Ledger!AnswerFor(e, Len(head) + 1)}}
      BY <1>1, <1>2, <1>3, <2>1
    <2>4. Ledger!Commit(e)
      BY <2>1, <2>2, <2>3 DEF Ledger!Commit
    <2> QED
      BY <1>1, <2>4 DEF Ledger!LedgerNext
  <1>5. CASE outcome = "replayed"
    <2>1. head' = head
      BY <1>5 DEF WriteHead
    <2>2. Len(Prepared(r)) \in 1..Len(head') /\ head'[Len(Prepared(r))] = e
      BY <1>5, WriteHeadSafe
    <2>3. CASE answer.status = "ok"
      <3>1. Ledger!Answer(Len(Prepared(r)))
        BY <1>2, <1>3, <2>1, <2>2, <2>3 DEF Ledger!Answer
      <3> QED
        BY <2>1, <2>2, <3>1 DEF Ledger!LedgerNext
    <2>4. CASE answer.status # "ok"
      BY <1>2, <2>1, <2>4 DEF Ledger!ledgerVars
    <2> QED
      BY <2>3, <2>4
  <1>6. CASE outcome = "conflict"
    <2>1. head' = head
      BY <1>6 DEF WriteHead
    <2> QED
      BY <1>2, <1>6, <2>1 DEF Ledger!ledgerVars
  <1> QED
    BY <1>4, <1>5, <1>6 DEF HeadOutcome

\* Steps that neither write the head nor return change nothing of the journal.
LEMMA SilentStep ==
    ASSUME UNCHANGED <<head, reply>>
    PROVE  UNCHANGED Ledger!ledgerVars
  BY DEF Ledger!ledgerVars, Answers

\* A request that finds its identity quotes the journal, or is refused.
LEMMA ReplayRefines ==
    ASSUME IInv, NEW r \in Request, Replay(r)
    PROVE  [Ledger!LedgerNext]_(Ledger!ledgerVars)
  <1>1. pc[r] = "replay" /\ head' = head
    BY DEF Replay
  <1>2. CASE UNCHANGED reply
    BY <1>1, <1>2, SilentStep
  <1>3. ASSUME NEW k \in RecordsOf(pinned[r], IdOf[r]), Finish(r, ReplayAnswer(r, k))
        PROVE  [Ledger!LedgerNext]_(Ledger!ledgerVars)
    <2>1. k \in 1..Len(pinned[r]) /\ pinned[r][k].id = IdOf[r]
      BY <1>3 DEF RecordsOf
    <2>2. k \in 1..Len(head) /\ head[k] = pinned[r][k] /\ k \in Nat
      BY <2>1 DEF IInv, TypeOK, HeadOnlyGrows, Begins
    <2>3. CASE pinned[r][k].hash = HashOf[r]
      <3>1. ReplayAnswer(r, k) = Accepted(k) /\ Accepted(k) \in Reply
        BY <2>2, <2>3, ReplyForms DEF ReplayAnswer
      <3>2. Answers' = Answers \cup {OwnAnswer(r, Accepted(k))}
        <4>1. Accepted(k).status = "ok"
          BY DEF Accepted
        <4> QED
          BY <1>1, <1>3, <3>1, <4>1, FinishAnswers
      <3>3. OwnAnswer(r, Accepted(k)) = Ledger!AnswerFor(head[k], k)
        BY <2>1, <2>2, <2>3 DEF OwnAnswer, Accepted, Ledger!AnswerFor
      <3>4. Ledger!Answer(k)
        BY <1>1, <3>2, <3>3 DEF Ledger!Answer
      <3> QED
        BY <2>2, <3>4 DEF Ledger!LedgerNext
    <2>4. CASE pinned[r][k].hash # HashOf[r]
      <3>1. ReplayAnswer(r, k) = Failed("reused") /\ Failed("reused") \in Reply
            /\ Failed("reused").status # "ok"
        BY <2>4, ReplyForms DEF ReplayAnswer, Failed
      <3>2. Answers' = Answers
        BY <1>1, <1>3, <3>1, FinishAnswers
      <3> QED
        BY <1>1, <3>2 DEF Ledger!ledgerVars
    <2> QED
      BY <2>3, <2>4
  <1> QED
    BY <1>2, <1>3 DEF Replay

\* A request that publishes commits, is answered from the journal, or goes on.
LEMMA PublishHeadRefines ==
    ASSUME IInv, NEW r \in Request, PublishHead(r)
    PROVE  [Ledger!LedgerNext]_(Ledger!ledgerVars)
  <1>1. pc[r] = "publish" /\ WriteHead(r)
    BY DEF PublishHead
  <1>2. CASE /\ HeadOutcome(Prepared(r), pinned[r]) # "conflict"
             /\ Finish(r, Accepted(Len(Prepared(r))))
    <2>1. Accepted(Len(Prepared(r))) \in Reply
      <3>1. Len(Prepared(r)) \in Nat
        BY PreparedExtends DEF IInv
      <3> QED
        BY <3>1, ReplyForms
    <2>2. Accepted(Len(Prepared(r))).version = Len(Prepared(r))
      BY DEF Accepted
    <2> QED
      BY <1>1, <1>2, <2>1, <2>2, WriteHeadRefines
  <1>3. CASE HeadOutcome(Prepared(r), pinned[r]) = "conflict" /\ UNCHANGED reply
    BY <1>1, <1>3, SilentStep DEF WriteHead
  <1>4. CASE HeadOutcome(Prepared(r), pinned[r]) = "conflict" /\ Finish(r, Failed("busy"))
    <2>1. Failed("busy") \in Reply /\ Failed("busy").status # "ok"
      BY ReplyForms DEF Failed
    <2> QED
      BY <1>1, <1>4, <2>1, WriteHeadRefines
  <1> QED
    BY <1>2, <1>3, <1>4 DEF PublishHead

\* Every step of the requests is one of the journal, or none.
LEMMA StepRefines ==
    ASSUME IInv, [Next]_vars
    PROVE  [Ledger!LedgerNext]_(Ledger!ledgerVars)
  <1>1. ASSUME NEW r \in Request, ReadHead(r) \/ StageContent(r)
        PROVE  UNCHANGED <<head, reply>>
    BY <1>1 DEF ReadHead, StageContent, Stage
  <1>2. ASSUME NEW r \in Request, LoseResponse(r)
        PROVE  [Ledger!LedgerNext]_(Ledger!ledgerVars)
    <2>1. Failed("unavailable") \in Reply /\ Failed("unavailable").status # "ok"
      BY ReplyForms DEF Failed
    <2> QED
      BY <1>2, <2>1, WriteHeadRefines DEF LoseResponse
  <1>3. ASSUME NEW r \in Request, GiveUp(r)
        PROVE  UNCHANGED Ledger!ledgerVars
    <2>1. Failed("unavailable") \in Reply /\ Failed("unavailable").status # "ok"
      BY ReplyForms DEF Failed
    <2>2. Answers' = Answers /\ head' = head
      BY <1>3, <2>1, FinishAnswers DEF GiveUp
    <2> QED
      BY <2>2 DEF Ledger!ledgerVars
  <1>4. CASE UNCHANGED vars
    BY <1>4, SilentStep DEF vars
  <1>5. ASSUME NEW r \in Request, RequestStep(r)
        PROVE  [Ledger!LedgerNext]_(Ledger!ledgerVars)
    BY <1>1, <1>2, <1>3, <1>5, SilentStep, ReplayRefines, PublishHeadRefines DEF RequestStep
  <1> QED
    BY <1>4, <1>5 DEF Next, AllDone

\* Nothing has been answered at the start.
LEMMA InitRefines == Init => Ledger!LedgerInit
  <1> SUFFICES ASSUME Init
               PROVE  Ledger!LedgerInit
    OBVIOUS
  <1>1. \A r \in Request : reply[r].status # "ok"
    BY DEF Init, NoReply
  <1>2. Answers = {}
    BY <1>1 DEF Answers
  <1> QED
    BY <1>2 DEF Init, Ledger!LedgerInit

\* Every behaviour of concurrent, interrupted, resent requests is one of a
\* journal that takes each command once and only quotes what it holds.
THEOREM RepositoryImplementsLedger == Spec => ImplementsLedger
  <1>1. IInv /\ [Next]_vars => [Ledger!LedgerNext]_(Ledger!ledgerVars)
    BY StepRefines
  <1> QED
    BY <1>1, InitRefines, Invariance, PTL DEF Spec, ImplementsLedger, Ledger!LedgerSpec
=============================================================================
