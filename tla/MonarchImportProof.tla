-------------------------- MODULE MonarchImportProof --------------------------
(***************************************************************************)
(* Proofs about MonarchImport for every number of imports, accounts,       *)
(* chunks, rows, stops and edits, every size of batch and every choice of  *)
(* source ids and legacy keys.                                             *)
(*                                                                         *)
(* The inductive invariant says what is known of the rows an import has    *)
(* left behind, in its document and in the copy an invocation works on.    *)
(* What is known is never taken back, so an invocation may stop anywhere.  *)
(***************************************************************************)
EXTENDS MonarchImport, FiniteSetTheorems, SequenceTheorems, TLAPS

-----------------------------------------------------------------------------
(* The inductive invariant *)

\* How far an import has come; a cancelled one will resume where it was.
Stage(j) == IF job[j].state = "cancelled" THEN job[j].resume ELSE job[j].state
After == {"reconciling", "needs-review", "complete"}
Past == {"importing"} \cup After

\* The rows a job document, or the copy of an invocation, has left behind.
UpTo(j, c, r) == {p \in Pos(j) : Before(p, <<c, r + 1>>)}
Behind(j, doc) == UpTo(j, doc.chunk, doc.row)
LeftBehind(j) == IF Stage(j) \in {"validating", "importing"} THEN Behind(j, job[j])
                 ELSE IF Stage(j) \in After THEN Pos(j) ELSE {}
\* The rows an invocation is through with.
Through == Behind(run.job, run.doc) \cup (run.batch \ Todo)

\* What validation leaves of a row, and what importing leaves of it.
Valid(j, p) ==
    IF Sourced(j, p) THEN /\ seen[j][RowKey(j, p)] # Absent
                          /\ seen[j][RowKey(j, p)].content = Row(j, p).content
    ELSE ordinal[j][p] \in 1..counter[j][RowKey(j, p)]
Imported(j, p) ==
    LET t == Identity(j, p)
    IN  /\ source[t] # Absent /\ source[t].state = "complete"
        /\ source[t].content # Row(j, p).content => <<j, t, Row(j, p).content>> \in DOMAIN review
\* Row p is the one this import is the source of.
Creates(j, p) == LET s == source[Identity(j, p)]
                 IN  s # Absent /\ s.job = j /\ s.pos = p /\ s.state = "complete"

JobFields == {"state", "resume", "chunk", "row", "created", "duplicates", "conflicts", "totals"}
RunFields == {"op", "job", "doc", "todo", "batch", "counted", "ensured", "account"}
MarkerFields == {"job", "state", "verified", "opening", "rev"}

DocOK(j, doc) ==
    /\ DOMAIN doc = JobFields
    /\ doc.chunk \in Nat /\ doc.row \in Nat /\ doc.created \in Nat
StoredTypes ==
    /\ DOMAIN job = Job /\ DOMAIN uploaded = Job
    /\ DOMAIN seen = Job /\ DOMAIN ordinal = Job /\ DOMAIN counter = Job
    /\ \A j \in Job :
          /\ DocOK(j, job[j])
          /\ job[j].state \in Phase /\ job[j].resume \in Phase \ {"cancelled"}
          /\ uploaded[j] \subseteq 1..Len(Chunks[j])
          /\ seen[j] \in [KeysOf(j) -> Sighting \cup {Absent}]
          /\ ordinal[j] \in [Pos(j) -> Nat] /\ counter[j] \in [KeysOf(j) -> Nat]
    /\ source \in [Transaction -> Provenance \cup {Absent}]
    /\ tx \in [Transaction -> {"absent", "intact", "noted", "deleted"}]
    /\ \A r \in DOMAIN review : r[1] \in Job
    /\ DOMAIN marker = Account
    /\ \A a \in Account : marker[a] # Absent => DOMAIN marker[a] = MarkerFields

\* Occurrence numbers: each up to the counter is given, none twice, and a
\* number above the counter is given to the first row that is not counted.
NumbersOK(j) ==
    /\ \A p \in Pos(j) : ordinal[j][p] # 0 =>
          /\ ~Sourced(j, p) /\ ordinal[j][p] <= counter[j][RowKey(j, p)] + 1
          /\ \A q \in Pos(j) : Before(q, p) /\ RowKey(j, q) = RowKey(j, p) => Valid(j, q)
    /\ \A p, q \in Pos(j) : p # q /\ RowKey(j, p) = RowKey(j, q) /\ ordinal[j][p] # 0
                               => ordinal[j][p] # ordinal[j][q]
    /\ \A k \in KeysOf(j) : \A m \in 1..counter[j][k] : \E p \in Pos(j) : ordinal[j][p] = m

JobOK(j) ==
    /\ Stage(j) \in {"absent", "uploading"} => job[j].chunk = 1 /\ job[j].row = 0
    /\ Stage(j) \in {"validating", "importing"} /\ job[j].chunk \in 1..Len(Chunks[j])
          => job[j].row <= Len(Chunks[j][job[j].chunk])
    /\ \A p \in Pos(j) : Stage(j) \in Past \/ (Stage(j) = "validating" /\ p \in LeftBehind(j))
                            => Valid(j, p)
    /\ Stage(j) \in Past => \A p \in LeftBehind(j) : Imported(j, p)
    /\ job[j].created = IF Stage(j) \in Past THEN Cardinality({p \in LeftBehind(j) : Creates(j, p)})
                        ELSE 0

\* A provenance names the first row of its transaction.  An intent keeps its
\* account for its import, and what is completed was booked.
SourceOK(t) == source[t] # Absent =>
    LET s == source[t]
    IN  /\ s.pos \in Pos(s.job) /\ Stage(s.job) \in Past
        /\ t = Identity(s.job, s.pos) /\ s.content = Row(s.job, s.pos).content
        /\ \A p \in Pos(s.job) : Before(p, s.pos) => Identity(s.job, p) # t
        /\ s.state = "intent" =>
              /\ t[1] \in Account /\ marker[t[1]] # Absent
              /\ marker[t[1]].job = s.job /\ marker[t[1]].state # "complete"
        /\ s.state = "complete" => tx[t] # "absent"

MarkerOK(a) == marker[a] # Absent /\ marker[a].state = "complete" => Stage(marker[a].job) \in After

\* The row an invocation is at.
StepOK(p) ==
    LET j == run.job  t == Identity(j, p)  s == source[t]
    IN  /\ run.todo[p] = "numbered" => Busy("validating") /\ ~Sourced(j, p) /\ ordinal[j][p] # 0
        /\ run.todo[p] \in {"intent", "written"} =>
              /\ Busy("importing") /\ (Sourced(j, p) \/ ordinal[j][p] # 0)
              /\ s # Absent /\ s.state = "intent" /\ s.job = j /\ s.pos = p
        /\ run.todo[p] = "written" => tx[t] # "absent"
Rows(c, r, n) == {<<c, r + i>> : i \in 1..n}
Batch(n) == Rows(run.doc.chunk, run.doc.row, n)
RowsOK ==
    /\ run.doc.chunk \in 1..Len(Chunks[run.job]) /\ run.doc.row <= Len(Chunk)
    /\ \E n \in 0..(Len(Chunk) - run.doc.row) : run.batch = Batch(n)
    /\ run.todo \in [Todo -> {"start", "numbered", "intent", "written"}] /\ Todo \subseteq run.batch
    /\ \A p \in Todo : StepOK(p)
    /\ Busy("validating") => run.doc.created = 0 /\ \A p \in Through : Valid(run.job, p)
    /\ Busy("importing") =>
          /\ \A p \in Through : Imported(run.job, p)
          /\ run.doc.created = Cardinality({p \in Through : Creates(run.job, p)})
AtWork ==
    /\ DOMAIN run = RunFields /\ run.job \in Job
    /\ DocOK(run.job, run.doc)
    /\ job[run.job].state = run.op /\ run.doc.state = run.op
    /\ run.doc.resume \in Phase \ {"cancelled"}
    /\ run.op \in {"validating", "importing"} => RowsOK
    /\ Busy("reconciling") => run.doc.created = job[run.job].created
    /\ \A a \in run.ensured : /\ a \in Account /\ DOMAIN marker[a] = MarkerFields
                              /\ marker[a].job = run.job
                              /\ Busy("importing") => marker[a] # Absent /\ marker[a].state # "complete"
RunOK == /\ Busy("keep") => run.job \in Job
         /\ run.op \in Working => AtWork

ImportInv ==
    /\ StoredTypes
    /\ \A j \in Job : NumbersOK(j) /\ JobOK(j)
    /\ \A t \in Transaction : SourceOK(t)
    /\ \A a \in Account : MarkerOK(a)
    /\ RunOK

-----------------------------------------------------------------------------
(* Positions, keys and identities *)

\* A position is a chunk of the manifest and a row of that chunk.
LEMMA Places ==
    ASSUME NEW j \in Job
    PROVE  /\ Len(Chunks[j]) \in Nat
           /\ \A c \in 1..Len(Chunks[j]) : Len(Chunks[j][c]) \in Nat
           /\ \A p \in Pos(j) : /\ p = <<p[1], p[2]>>
                                /\ p[1] \in 1..Len(Chunks[j]) /\ p[2] \in 1..Len(Chunks[j][p[1]])
           /\ \A c \in 1..Len(Chunks[j]) : \A r \in 1..Len(Chunks[j][c]) : <<c, r>> \in Pos(j)
  <1>1. Chunks[j] \in Seq(Seq(ExportRow))
    BY ChunkAssumption
  <1>2. \A c \in 1..Len(Chunks[j]) : Chunks[j][c] \in Seq(ExportRow)
    BY <1>1
  <1>3. Pos(j) = UNION {{c} \X (1..Len(Chunks[j][c])) : c \in 1..Len(Chunks[j])}
    BY DEF Pos, Positions
  <1> QED
    BY <1>1, <1>2, <1>3

\* Rows are worked in an order without ties.
LEMMA InOrder ==
    ASSUME NEW j \in Job, NEW p \in Pos(j), NEW q \in Pos(j)
    PROVE  /\ p # q => Before(p, q) \/ Before(q, p)
           /\ ~(Before(p, q) /\ Before(q, p)) /\ ~Before(p, p)
  <1>1. \A r \in {p, q} : r = <<r[1], r[2]>> /\ r[1] \in Int /\ r[2] \in Int
    BY Places
  <1> QED
    BY <1>1 DEF Before

\* An import has finitely many rows: chunks are finite sequences.
LEMMA FinitelyManyRows == ASSUME NEW j \in Job PROVE IsFiniteSet(Pos(j))
  <1> DEFINE Slice(c) == {c} \X (1..Len(Chunks[j][c]))
             All == {Slice(c) : c \in 1..Len(Chunks[j])}
  <1>1. \A c \in 1..Len(Chunks[j]) : IsFiniteSet(Slice(c))
    <2> SUFFICES ASSUME NEW c \in 1..Len(Chunks[j]) PROVE IsFiniteSet(Slice(c))
      OBVIOUS
    <2>1. Len(Chunks[j][c]) \in Int
      BY Places
    <2>2. IsFiniteSet(1..Len(Chunks[j][c])) /\ IsFiniteSet({c})
      <3>1. IsFiniteSet(1..Len(Chunks[j][c]))
        BY <2>1, FS_Interval
      <3>2. IsFiniteSet({c})
        BY FS_Singleton
      <3> QED
        BY <3>1, <3>2
    <2> QED
      BY <2>2, FS_Product
  <1>2. IsFiniteSet(All)
    <2> DEFINE f == [c \in 1..Len(Chunks[j]) |-> Slice(c)]
    <2>1. f \in Surjection(1..Len(Chunks[j]), All)
      BY DEF Surjection
    <2>2. IsFiniteSet(1..Len(Chunks[j]))
      <3>1. Len(Chunks[j]) \in Int
        BY Places
      <3> QED
        BY <3>1, FS_Interval
    <2> QED
      BY <2>1, <2>2, FS_Surjection
  <1>3. IsFiniteSet(UNION All)
    BY <1>1, <1>2, FS_UNION
  <1> QED
    BY <1>3 DEF Pos, Positions

\* A key is an account and a source id or a legacy key.
LEMMA KeysArePairs ==
    ASSUME NEW j \in Job, NEW p \in Pos(j)
    PROVE  /\ RowKey(j, p) = <<Row(j, p).account, IF Sourced(j, p) THEN Row(j, p).id ELSE Row(j, p).key>>
           /\ RowKey(j, p) \in KeysOf(j)
           /\ Row(j, p).content \in Content /\ p \in Position
  BY DEF RowKey, Keys, KeysOf, Range, Content, ExportRow, Position

Number(j, p) == IF Sourced(j, p) THEN 0 ELSE ordinal[j][p]

\* Two rows have one identity when they have one key and one number.
LEMMA IdentitiesAreTriples ==
    ASSUME NEW j \in Job, NEW p \in Pos(j)
    PROVE  Identity(j, p) = <<RowKey(j, p)[1], RowKey(j, p)[2], Number(j, p)>>
  <1>1. ASSUME NEW a, NEW b, NEW n PROVE Append(<<a, b>>, n) = <<a, b, n>>
    <2> DEFINE S == {a, b, n}
               s == Append(<<a, b>>, n)
               t == <<a, b, n>>
    <2>1. <<a, b>> \in Seq(S) /\ t \in Seq(S)
      OBVIOUS
    <2>2. s \in Seq(S) /\ Len(s) = 3 /\ s[1] = a /\ s[2] = b /\ s[3] = n
      BY <2>1
    <2>3. Len(s) = Len(t) /\ \A i \in 1..Len(s) : s[i] = t[i]
      BY <2>2
    <2>4. s = t
      <3> HIDE DEF s, t, S
      <3> QED
        BY <2>1, <2>2, <2>3, SeqEqual
    <2> QED
      BY <2>4
  <1>2. RowKey(j, p) = <<RowKey(j, p)[1], RowKey(j, p)[2]>>
    BY KeysArePairs
  <1> QED
    BY <1>1, <1>2 DEF Identity, Number

\* The numbers up to the counter are borne by as many rows, so there are not
\* more numbers than rows.
LEMMA NumbersAreFew ==
    ASSUME StoredTypes, NEW j \in Job, NumbersOK(j), NEW p \in Pos(j),
           ordinal[j][p] <= counter[j][RowKey(j, p)]
    PROVE  ordinal[j][p] \in 0..Cardinality(Pos(j))
  <1> DEFINE n == counter[j][RowKey(j, p)]
             S == {q \in Pos(j) : ordinal[j][q] \in 1..n}
             f == [q \in S |-> ordinal[j][q]]
  <1>1. n \in Nat /\ ordinal[j] \in [Pos(j) -> Nat]
    BY KeysArePairs DEF StoredTypes
  <1>2. \A m \in 1..n : \E q \in S : f[q] = m
    BY <1>1, KeysArePairs DEF NumbersOK
  <1>3. f \in Surjection(S, 1..n)
    BY <1>2 DEF Surjection
  <1>4. IsFiniteSet(S) /\ Cardinality(S) <= Cardinality(Pos(j)) /\ Cardinality(Pos(j)) \in Nat
        /\ Cardinality(S) \in Nat
    <2>1. S \subseteq Pos(j)
      OBVIOUS
    <2> HIDE DEF S
    <2> QED
      BY <2>1, FinitelyManyRows, FS_Subset, FS_CardinalityType
  <1>5. Cardinality(1..n) <= Cardinality(S)
    <2> HIDE DEF f, S
    <2> QED
      BY <1>3, <1>4, FS_Surjection
  <1>6. Cardinality(1..n) = n
    <2> HIDE DEF n
    <2>1. n \in Int /\ 1 \in Int
      BY <1>1
    <2>2. Cardinality(1..n) = IF 1 > n THEN 0 ELSE n - 1 + 1
      BY <2>1, FS_Interval
    <2> QED
      BY <1>1, <2>2
  <1> QED
    BY <1>1, <1>4, <1>5, <1>6

\* A validated row has a place in the ledger.
LEMMA RowsHaveTransactions ==
    ASSUME StoredTypes, NEW j \in Job, NumbersOK(j), NEW p \in Pos(j), Valid(j, p)
    PROVE  Identity(j, p) \in Transaction
  <1> DEFINE N == 1..Cardinality(Pos(j))
  <1>1. Cardinality(Pos(j)) \in Nat /\ Cardinality(Pos(j)) # 0
    BY FinitelyManyRows, FS_CardinalityType, FS_EmptySet
  <1>2. CASE Sourced(j, p)
    <2>1. 1 \in N /\ Identity(j, p) = Append(RowKey(j, p), 0)
      BY <1>1, <1>2 DEF Identity
    <2> QED
      BY <1>2, <2>1 DEF Transaction
  <1>3. CASE ~Sourced(j, p)
    <2>1. ordinal[j][p] \in N
      <3>1. ordinal[j][p] \in 1..counter[j][RowKey(j, p)] /\ counter[j][RowKey(j, p)] \in Nat
        BY <1>3, KeysArePairs DEF Valid, StoredTypes
      <3>2. ordinal[j][p] \in 0..Cardinality(Pos(j))
        BY <3>1, NumbersAreFew
      <3> QED
        BY <1>1, <3>1, <3>2
    <2>2. Identity(j, p) = Append(RowKey(j, p), ordinal[j][p])
      BY <1>3 DEF Identity
    <2> QED
      BY <1>3, <2>1, <2>2 DEF Transaction
  <1> QED
    BY <1>2, <1>3

\* What is known of the rows of an import that is past validation.
LEMMA PastIsValid ==
    ASSUME ImportInv, NEW j \in Job, Stage(j) \in Past, NEW p \in Pos(j)
    PROVE  /\ Valid(j, p) /\ Identity(j, p) \in Transaction
           /\ Sourced(j, p) \/ ordinal[j][p] \in Nat \ {0}
           /\ Identity(j, p)[1] = Row(j, p).account
  <1>1. Valid(j, p) /\ NumbersOK(j) /\ StoredTypes
    BY DEF ImportInv, JobOK
  <1>2. Identity(j, p) \in Transaction
    BY <1>1, RowsHaveTransactions
  <1>3. Sourced(j, p) \/ ordinal[j][p] \in Nat \ {0}
    BY <1>1, KeysArePairs DEF Valid, StoredTypes
  <1>4. Identity(j, p)[1] = Row(j, p).account
    BY IdentitiesAreTriples, KeysArePairs
  <1> QED
    BY <1>1, <1>2, <1>3, <1>4

\* Rows of one import with one identity have one key and one content.
LEMMA OneIdentityOneContent ==
    ASSUME ImportInv, NEW j \in Job, Stage(j) \in Past, NEW p \in Pos(j), NEW q \in Pos(j),
           Identity(j, p) = Identity(j, q)
    PROVE  RowKey(j, p) = RowKey(j, q) /\ Row(j, p).content = Row(j, q).content
  <1>1. RowKey(j, p) = RowKey(j, q) /\ Number(j, p) = Number(j, q)
    BY IdentitiesAreTriples, KeysArePairs
  <1>2. CASE Sourced(j, p)
    <2>1. Sourced(j, q)
      BY <1>1, <1>2, PastIsValid DEF Number
    <2> QED
      BY <1>1, <1>2, <2>1, PastIsValid DEF Valid
  <1>3. CASE ~Sourced(j, p)
    <2>1. ~Sourced(j, q) /\ ordinal[j][p] = ordinal[j][q] /\ ordinal[j][p] # 0
      BY <1>1, <1>3, PastIsValid DEF Number
    <2>2. p = q
      BY <1>1, <2>1 DEF ImportInv, NumbersOK
    <2> QED
      BY <2>2
  <1> QED
    BY <1>2, <1>3

-----------------------------------------------------------------------------
(* What a step leaves alone *)

\* The invariant but for the invocation.
StoreInv ==
    /\ StoredTypes
    /\ \A j \in Job : NumbersOK(j) /\ JobOK(j)
    /\ \A t \in Transaction : SourceOK(t)
    /\ \A a \in Account : MarkerOK(a)

\* The ledger may move on under an import, but nothing booked becomes absent.
LedgerMoves == /\ tx' \in [Transaction -> {"absent", "intact", "noted", "deleted"}]
               /\ \A t \in Transaction : tx[t] # "absent" => tx'[t] # "absent"

UploadsOK == DOMAIN uploaded = Job /\ \A j \in Job : uploaded[j] \subseteq 1..Len(Chunks[j])

\* A step that writes none of the documents the invariant is about keeps it.
LEMMA ImportsKept ==
    ASSUME ImportInv, UNCHANGED <<job, seen, ordinal, counter, source, marker>>,
           UploadsOK', DOMAIN review' = DOMAIN review, LedgerMoves
    PROVE  StoreInv'
  <1>1. StoredTypes'
    BY DEF ImportInv, StoredTypes, UploadsOK, LedgerMoves, DocOK
  <1>2. ASSUME NEW j \in Job PROVE NumbersOK(j)' /\ JobOK(j)'
    <2>1. NumbersOK(j)'
      BY DEF ImportInv, NumbersOK, Valid
    <2>2. JobOK(j)'
      BY DEF ImportInv, JobOK, Valid, Imported, Creates, Stage, LeftBehind, Behind, UpTo, Identity
    <2> QED
      BY <2>1, <2>2
  <1>3. ASSUME NEW t \in Transaction PROVE SourceOK(t)'
    BY DEF ImportInv, SourceOK, Stage, Identity, LedgerMoves
  <1>4. ASSUME NEW a \in Account PROVE MarkerOK(a)'
    BY DEF ImportInv, MarkerOK, Stage
  <1> QED
    BY <1>1, <1>2, <1>3, <1>4 DEF StoreInv

\* What a job document says stays true while what is known of its rows does.
LEMMA JobKept ==
    ASSUME NEW j \in Job, JobOK(j), job'[j] = job[j],
           \A p \in Pos(j) : Valid(j, p) => Valid(j, p)',
           Stage(j) \in Past => \A p \in LeftBehind(j) :
               (Imported(j, p) => Imported(j, p)') /\ (Creates(j, p)' <=> Creates(j, p))
    PROVE  JobOK(j)'
  <1>1. Stage(j)' = Stage(j) /\ LeftBehind(j)' = LeftBehind(j)
    BY DEF Stage, LeftBehind, Behind, UpTo
  <1>2. Stage(j) \in Past =>
           {p \in LeftBehind(j) : Creates(j, p)}' = {p \in LeftBehind(j) : Creates(j, p)}
    BY <1>1
  <1> QED
    BY <1>1, <1>2 DEF JobOK

\* A job document may be written that says no more than the rows bear out and
\* that does not go back behind what is done.
LEMMA JobWritten ==
    ASSUME ImportInv, NEW j \in Job, NEW doc, job' = [job EXCEPT ![j] = doc],
           UNCHANGED <<uploaded, seen, ordinal, counter, source, marker, ledger>>,
           DOMAIN review' = DOMAIN review,
           DocOK(j, doc), doc.state \in Phase, doc.resume \in Phase \ {"cancelled"},
           Stage(j) \in Past => Stage(j)' \in Past, Stage(j) \in After => Stage(j)' \in After,
           JobOK(j)'
    PROVE  StoreInv'
  <1>1. job'[j] = doc /\ \A i \in Job \ {j} : job'[i] = job[i]
    BY DEF ImportInv, StoredTypes
  <1>2. StoredTypes'
    BY <1>1 DEF ImportInv, StoredTypes, DocOK, ledger
  <1>3. ASSUME NEW i \in Job PROVE Stage(i) \in Past => Stage(i)' \in Past
    BY <1>1 DEF Stage
  <1>4. ASSUME NEW i \in Job PROVE Stage(i) \in After => Stage(i)' \in After
    BY <1>1 DEF Stage
  <1>5. ASSUME NEW i \in Job PROVE NumbersOK(i)' /\ JobOK(i)'
    <2>1. NumbersOK(i)'
      BY DEF ImportInv, NumbersOK, Valid
    <2>2. CASE i # j
      <3>1. \A p \in Pos(i) : /\ Valid(i, p)' <=> Valid(i, p)
                              /\ Imported(i, p)' <=> Imported(i, p)
                              /\ Creates(i, p)' <=> Creates(i, p)
        BY DEF Valid, Imported, Creates, Identity
      <3>2. LeftBehind(i) \subseteq Pos(i)
        BY DEF LeftBehind, Behind, UpTo
      <3> QED
        BY <1>1, <2>1, <2>2, <3>1, <3>2, JobKept DEF ImportInv
    <2> QED
      BY <2>1, <2>2
  <1>6. ASSUME NEW t \in Transaction PROVE SourceOK(t)'
    <2>1. source[t] # Absent => source[t].job \in Job
      BY DEF ImportInv, StoredTypes, Provenance
    <2> QED
      BY <1>3, <2>1 DEF ImportInv, SourceOK, Identity, ledger
  <1>7. ASSUME NEW a \in Account PROVE MarkerOK(a)'
    <2>1. CASE marker[a].job \in Job
      BY <1>4, <2>1 DEF ImportInv, MarkerOK
    <2>2. CASE marker[a].job \notin Job
      BY <2>2 DEF ImportInv, MarkerOK, Stage, StoredTypes
    <2> QED
      BY <2>1, <2>2
  <1> QED
    BY <1>2, <1>5, <1>6, <1>7 DEF StoreInv

\* A step of the ledger alone, or none.
LEMMA LedgerKept == ASSUME ImportInv, UNCHANGED tx PROVE LedgerMoves
  BY DEF ImportInv, StoredTypes, LedgerMoves

\* With no invocation at work there is nothing it would have to know.
LEMMA Resting == ASSUME run' = Idle PROVE RunOK'
  BY DEF RunOK, Idle, Busy, Working

\* The invariant is what is stored and what the invocation knows.
LEMMA Parts == /\ ImportInv <=> StoreInv /\ RunOK
               /\ ImportInv' <=> StoreInv' /\ RunOK'
  BY DEF ImportInv, StoreInv

-----------------------------------------------------------------------------
(* Routes and decisions of a member *)

\* A route of one write keeps the invariant when the document it writes does.
LEMMA RouteSafe ==
    ASSUME ImportInv, NEW j \in Job, NEW doc, Route(j, doc),
           DocOK(j, doc), doc.state \in Phase, doc.resume \in Phase \ {"cancelled"},
           Stage(j) \in Past => Stage(j)' \in Past, Stage(j) \in After => Stage(j)' \in After,
           JobOK(j)'
    PROVE  ImportInv'
  <1>1. StoreInv'
    BY JobWritten DEF Route
  <1>2. RunOK'
    BY Resting DEF Route
  <1> QED
    BY <1>1, <1>2, Parts

\* A job document that keeps its place, its counter and its stage.
LEMMA StageKept ==
    ASSUME ImportInv, NEW j \in Job, Stage(j)' = Stage(j), job'[j].chunk = job[j].chunk,
           job'[j].row = job[j].row, job'[j].created = job[j].created,
           UNCHANGED <<seen, ordinal, counter, source>>, DOMAIN review' = DOMAIN review
    PROVE  JobOK(j)'
  <1>1. LeftBehind(j)' = LeftBehind(j) /\ LeftBehind(j) \subseteq Pos(j)
    BY DEF LeftBehind, Behind, UpTo
  <1>2. \A p \in Pos(j) : /\ Valid(j, p)' <=> Valid(j, p)
                          /\ Imported(j, p)' <=> Imported(j, p)
                          /\ Creates(j, p)' <=> Creates(j, p)
    BY DEF Valid, Imported, Creates, Identity
  <1>3. {p \in LeftBehind(j) : Creates(j, p)}' = {p \in LeftBehind(j) : Creates(j, p)}
    BY <1>1, <1>2
  <1>4. JobOK(j)
    BY DEF ImportInv
  <1> QED
    BY <1>1, <1>2, <1>3, <1>4 DEF JobOK

\* A job is started and sealed at its first row, with nothing behind it.
LEMMA StartAndSealSafe ==
    ASSUME ImportInv, NEW j \in Job, Start(j) \/ Seal(j)
    PROVE  ImportInv'
  <1> PICK s \in {"uploading", "validating"} :
          /\ Route(j, [job[j] EXCEPT !.state = s])
          /\ job[j].state \in {"absent", "uploading"}
    BY DEF Start, Seal
  <1> DEFINE doc == [job[j] EXCEPT !.state = s]
  <1>1. DocOK(j, job[j]) /\ JobOK(j) /\ DOMAIN job = Job /\ job[j].resume \in Phase \ {"cancelled"}
    BY DEF ImportInv, StoredTypes
  <1>2. /\ doc.state = s /\ doc.chunk = 1 /\ doc.row = 0 /\ doc.created = 0 /\ DOMAIN doc = JobFields
        /\ doc.resume = job[j].resume
    BY <1>1 DEF DocOK, JobFields, JobOK, Stage, Past, After
  <1>3. DocOK(j, doc) /\ doc.state \in Phase
    BY <1>2 DEF DocOK, Phase, Working
  <1>4. job'[j] = doc /\ Stage(j)' = s /\ Stage(j) \notin Past
    BY <1>1, <1>2 DEF Route, Stage, Past, After
  <1>5. JobOK(j)'
    <2>1. \A p \in Pos(j) : ~Before(p, <<1, 0 + 1>>)
      BY Places DEF Before
    <2>2. LeftBehind(j)' = {}
      BY <1>2, <1>4, <2>1 DEF LeftBehind, Behind, UpTo, After
    <2>3. \A c \in 1..Len(Chunks[j]) : 0 <= Len(Chunks[j][c])
      BY Places
    <2> QED
      BY <1>2, <1>4, <2>2, <2>3 DEF JobOK, Past, After
  <1>6. Stage(j) \notin After
    BY <1>4 DEF Past
  <1> QED
    BY <1>1, <1>2, <1>3, <1>4, <1>5, <1>6, RouteSafe

\* A cancelled job keeps its place and its stage, and is resumed there.
LEMMA CancelAndResumeSafe ==
    ASSUME ImportInv, NEW j \in Job, Cancel(j) \/ Resume(j)
    PROVE  ImportInv'
  <1> PICK s \in Phase, resume \in Phase \ {"cancelled"} :
          /\ Route(j, [job[j] EXCEPT !.state = s, !.resume = resume])
          /\ Stage(j) = IF s = "cancelled" THEN resume ELSE s
    BY DEF Cancel, Resume, ImportInv, StoredTypes, Stage, Phase
  <1> DEFINE doc == [job[j] EXCEPT !.state = s, !.resume = resume]
  <1>1. DocOK(j, job[j]) /\ DOMAIN job = Job
    BY DEF ImportInv, StoredTypes
  <1>2. /\ doc.state = s /\ doc.resume = resume /\ DOMAIN doc = JobFields
        /\ doc.chunk = job[j].chunk /\ doc.row = job[j].row /\ doc.created = job[j].created
    BY <1>1 DEF DocOK, JobFields
  <1>3. DocOK(j, doc)
    BY <1>1, <1>2 DEF DocOK
  <1>4. job'[j] = doc /\ Stage(j)' = Stage(j)
    BY <1>1, <1>2 DEF Route, Stage
  <1>5. JobOK(j)'
    BY <1>2, <1>4, StageKept DEF Route
  <1> QED
    BY <1>2, <1>3, <1>4, <1>5, RouteSafe

\* A chunk is stored under its index; nothing is known of its rows yet.
LEMMA UploadSafe ==
    ASSUME ImportInv, NEW j \in Job, NEW c \in 1..Len(Chunks[j]), Upload(j, c)
    PROVE  ImportInv'
  <1>1. UploadsOK'
    BY DEF Upload, UploadsOK, ImportInv, StoredTypes
  <1>2. StoreInv'
    BY <1>1, ImportsKept, LedgerKept DEF Upload, ledger
  <1>3. RunOK'
    BY Resting DEF Upload
  <1> QED
    BY <1>2, <1>3, Parts

\* The chunks that are stored lie in the manifest.
LEMMA UploadsKept == ASSUME ImportInv, UNCHANGED uploaded PROVE UploadsOK'
  BY DEF ImportInv, StoredTypes, UploadsOK

\* A review is resolved in place; the job is counted again after it.
LEMMA KeepReviewSafe ==
    ASSUME ImportInv, NEW r \in DOMAIN review, KeepReview(r)
    PROVE  ImportInv'
  <1>1. StoreInv'
    BY ImportsKept, LedgerKept, UploadsKept DEF KeepReview, ledger
  <1>2. RunOK'
    <2>1. run'.op = "keep" /\ run'.job = r[1] /\ r[1] \in Job
      BY DEF KeepReview, ImportInv, StoredTypes
    <2> QED
      BY <2>1 DEF RunOK, Working
  <1> QED
    BY <1>1, <1>2, Parts

\* The last resolved review sends the job back to reconciling: its rows are
\* all behind it, before and after.
LEMMA KeepJobSafe == ASSUME ImportInv, KeepJob PROVE ImportInv'
  <1> PICK j \in Job : j = run.job
    BY DEF ImportInv, RunOK, KeepJob
  <1> DEFINE n == Cardinality(Pending(j))
             new == [job[j] EXCEPT !.conflicts = n]
  <1>1. /\ j \in Job /\ DocOK(j, job[j]) /\ DOMAIN job = Job
        /\ job[j].state \in Phase /\ job[j].resume \in Phase \ {"cancelled"}
    BY DEF ImportInv, StoredTypes, RunOK, KeepJob
  <1>2. /\ DOMAIN new = JobFields /\ new.state = job[j].state /\ new.resume = job[j].resume
        /\ new.chunk = job[j].chunk /\ new.row = job[j].row /\ new.created = job[j].created
    BY <1>1 DEF DocOK, JobFields
  <1> HIDE DEF new, n
  <1>3. CASE Pending(j) = {} /\ new.state = "needs-review"
    <2> DEFINE doc == [new EXCEPT !.state = "reconciling", !.chunk = 1]
    <2>1. /\ DOMAIN doc = JobFields /\ doc.state = "reconciling" /\ doc.resume = job[j].resume
          /\ doc.chunk = 1 /\ doc.row = job[j].row /\ doc.created = job[j].created
      BY <1>2 DEF JobFields
    <2>2. job' = [job EXCEPT ![j] = doc]
      BY <1>3 DEF KeepJob, new, n
    <2> HIDE DEF doc
    <2>3. DocOK(j, doc)
      BY <1>1, <2>1 DEF DocOK
    <2>4. job'[j] = doc /\ Stage(j) = "needs-review" /\ Stage(j)' = "reconciling"
      BY <1>1, <1>2, <1>3, <2>1, <2>2 DEF Stage
    <2>5. JobOK(j)'
      <3>1. LeftBehind(j) = Pos(j) /\ LeftBehind(j)' = Pos(j)
        BY <2>4 DEF LeftBehind, After
      <3>2. \A p \in Pos(j) : /\ Valid(j, p)' <=> Valid(j, p)
                              /\ Imported(j, p)' <=> Imported(j, p)
                              /\ Creates(j, p)' <=> Creates(j, p)
        BY DEF Valid, Imported, Creates, Identity, KeepJob
      <3>3. {p \in LeftBehind(j) : Creates(j, p)}' = {p \in LeftBehind(j) : Creates(j, p)}
        BY <3>1, <3>2
      <3>4. JobOK(j)
        BY <1>1 DEF ImportInv
      <3> QED
        BY <2>1, <2>4, <3>1, <3>2, <3>3, <3>4 DEF JobOK, Past, After
    <2>6. StoreInv'
      <3>1. doc.state \in Phase /\ doc.resume \in Phase \ {"cancelled"}
        BY <1>1, <2>1 DEF Phase, Working
      <3>2. Stage(j)' \in Past /\ Stage(j)' \in After
        BY <2>4 DEF Past, After
      <3> QED
        BY <1>1, <2>2, <2>3, <2>5, <3>1, <3>2, JobWritten DEF KeepJob
    <2> QED
      BY <2>6, Resting, Parts DEF KeepJob
  <1>4. CASE ~(Pending(j) = {} /\ new.state = "needs-review")
    <2>1. job' = [job EXCEPT ![j] = new]
      BY <1>4 DEF KeepJob, new, n
    <2>2. job'[j] = new /\ Stage(j)' = Stage(j) /\ DocOK(j, new)
      BY <1>1, <1>2, <2>1 DEF Stage, DocOK
    <2>3. JobOK(j)'
      BY <1>1, <1>2, <2>2, StageKept DEF KeepJob
    <2>4. StoreInv'
      BY <1>1, <1>2, <2>1, <2>2, <2>3, JobWritten DEF KeepJob
    <2> QED
      BY <2>4, Resting, Parts DEF KeepJob
  <1> QED
    BY <1>3, <1>4

-----------------------------------------------------------------------------
(* An invocation begins, and may end anywhere *)

\* An invocation that stops or refuses leaves what it wrote, and that is sound.
LEMMA LeaveSafe == ASSUME ImportInv, Refuse \/ Stop PROVE ImportInv'
  <1>1. UNCHANGED <<imports, ledger>> /\ run' = Idle
    BY DEF Refuse, Stop
  <1>2. StoreInv'
    BY <1>1, ImportsKept, LedgerKept, UploadsKept DEF imports, ledger
  <1> QED
    BY <1>1, <1>2, Resting, Parts

\* An invocation takes its copy from the document and starts with no batch.
LEMMA BeginPhaseSafe == ASSUME ImportInv, NEW j \in Job, BeginPhase(j) PROVE ImportInv'
  <1>1. StoreInv'
    BY ImportsKept, LedgerKept, UploadsKept DEF BeginPhase, imports, ledger
  <1>2. /\ run' = Advancing(j) /\ DocOK(j, job[j]) /\ JobOK(j)
        /\ job[j].state \in Working /\ job[j].resume \in Phase \ {"cancelled"}
        /\ Stage(j) = job[j].state /\ UNCHANGED <<imports, ledger>>
    BY DEF BeginPhase, ImportInv, StoredTypes, Stage, Working
  <1>3. /\ run'.op = job[j].state /\ run'.job = j /\ run'.doc = job[j] /\ run'.todo = <<>>
        /\ run'.batch = {} /\ run'.ensured = {} /\ DOMAIN run' = RunFields
    BY <1>2 DEF Advancing, RunFields
  <1>4. Todo' = {}
    BY <1>3 DEF Todo
  <1>5. ASSUME job[j].state \in {"validating", "importing"} PROVE RowsOK'
    <2>1. job[j].chunk \in 1..Len(Chunks[j])
      BY <1>5 DEF BeginPhase, ImportInv, StoredTypes
    <2>2. job[j].row <= Len(Chunks[j][job[j].chunk]) /\ job[j].row \in Nat
          /\ Len(Chunks[j][job[j].chunk]) \in Nat
      BY <1>2, <1>5, <2>1, Places DEF JobOK, DocOK
    <2>3. Batch(0)' = {}
      BY DEF Batch, Rows
    <2>4. \E n \in 0..(Len(Chunk) - run.doc.row)' : run'.batch = Batch(n)'
      BY <1>3, <2>2, <2>3 DEF Chunk
    <2>5. run'.todo \in [Todo' -> {"start", "numbered", "intent", "written"}]
      BY <1>3, <1>4
    <2>6. Through' = Behind(j, job[j]) /\ Through' = LeftBehind(j)
      BY <1>2, <1>3, <1>4, <1>5 DEF Through, LeftBehind, Behind, UpTo
    <2>7. \A p \in Pos(j) : /\ Valid(j, p)' <=> Valid(j, p)
                            /\ Imported(j, p)' <=> Imported(j, p)
                            /\ Creates(j, p)' <=> Creates(j, p)
      BY <1>2 DEF Valid, Imported, Creates, Identity, imports
    <2>8. Through' \subseteq Pos(j)
      BY <2>6 DEF Behind, UpTo
    <2>9. Busy("validating")' => job[j].created = 0 /\ \A p \in Through' : Valid(j, p)'
      BY <1>2, <1>3, <2>6, <2>7, <2>8 DEF Busy, JobOK, Past, After
    <2>10. Busy("importing")' => \A p \in Through' : Imported(j, p)'
      BY <1>2, <1>3, <2>6, <2>7, <2>8 DEF Busy, JobOK, Past
    <2>11. Busy("importing")' => job[j].created = Cardinality({p \in Through' : Creates(j, p)'})
      <3>1. {p \in Through' : Creates(j, p)'} = {p \in LeftBehind(j) : Creates(j, p)}
        BY <2>6, <2>7, <2>8
      <3> QED
        BY <1>2, <1>3, <3>1 DEF Busy, JobOK, Past
    <2> QED
      BY <1>3, <1>4, <2>1, <2>2, <2>4, <2>5, <2>9, <2>10, <2>11 DEF RowsOK, Chunk
  <1>6. AtWork'
    BY <1>2, <1>3, <1>5 DEF AtWork, Busy, imports
  <1>7. ~Busy("keep")'
    BY <1>2, <1>3 DEF Busy, Working
  <1>8. RunOK'
    BY <1>6, <1>7 DEF RunOK
  <1> QED
    BY <1>1, <1>8, Parts

-----------------------------------------------------------------------------
(* Batches *)

\* What is known of rows depends on these documents only.
LEMMA SameKnowledge ==
    ASSUME UNCHANGED <<seen, ordinal, counter, source>>, DOMAIN review' = DOMAIN review,
           NEW j \in Job, NEW p \in Pos(j)
    PROVE  /\ Valid(j, p)' <=> Valid(j, p)
           /\ Imported(j, p)' <=> Imported(j, p)
           /\ Creates(j, p)' <=> Creates(j, p)
           /\ Identity(j, p)' = Identity(j, p)
  BY DEF Valid, Imported, Creates, Identity

Fits(j, c, last) == last <= Len(Chunks[j][c])

\* Rows r+1 to r+n of chunk c are those that follow row r.
LEMMA Further ==
    ASSUME NEW j \in Job, NEW c \in 1..Len(Chunks[j]), NEW r \in Nat, NEW n \in Nat,
           NEW last, last = r + n, Fits(j, c, last)
    PROVE  UpTo(j, c, last) = UpTo(j, c, r) \cup Rows(c, r, n)
  <1> USE DEF Fits
  <1> DEFINE Old == {p \in Pos(j) : Before(p, <<c, r + 1>>)}
             New == {p \in Pos(j) : Before(p, <<c, (r + n) + 1>>)}
             More == {<<c, r + i>> : i \in 1..n}
  <1>1. ASSUME NEW p \in New PROVE p \in Old \cup More
    <2>1. /\ p \in Pos(j) /\ p = <<p[1], p[2]>> /\ p[1] \in Nat /\ p[2] \in Nat \ {0}
          /\ p[1] < c \/ (p[1] = c /\ p[2] < r + n + 1)
      BY Places DEF Before
    <2>2. CASE p[1] = c /\ p[2] > r
      <3>1. p[2] - r \in 1..n /\ p = <<c, r + (p[2] - r)>>
        BY <2>1, <2>2
      <3> QED
        BY <3>1
    <2>3. CASE ~(p[1] = c /\ p[2] > r)
      BY <2>1, <2>3 DEF Before
    <2> QED
      BY <2>2, <2>3
  <1>2. ASSUME NEW p \in Old PROVE p \in New
    <2>1. p \in Pos(j) /\ p[1] \in Nat /\ p[2] \in Nat
      BY Places
    <2> QED
      BY <2>1 DEF Before
  <1>3. ASSUME NEW i \in 1..n PROVE <<c, r + i>> \in New
    <2>1. r + i \in 1..Len(Chunks[j][c])
      BY Places
    <2>2. <<c, r + i>> \in Pos(j)
      BY <2>1, Places
    <2> QED
      BY <2>2 DEF Before
  <1> QED
    BY <1>1, <1>2, <1>3 DEF UpTo, Rows

\* A batch has as many rows as it was opened with.
LEMMA BatchSize ==
    ASSUME NEW c \in Nat, NEW r \in Nat, NEW n \in Nat
    PROVE  Cardinality(Rows(c, r, n)) = n
  <1> DEFINE T == {<<c, r + i>> : i \in 1..n}
             f == [i \in 1..n |-> <<c, r + i>>]
  <1>1. f \in Bijection(1..n, T)
    <2>1. f \in [1..n -> T] /\ \A t \in T : \E i \in 1..n : f[i] = t
      OBVIOUS
    <2>2. \A a, b \in DOMAIN f : f[a] = f[b] => a = b
      OBVIOUS
    <2> HIDE DEF f, T
    <2> QED
      BY <2>1, <2>2 DEF Bijection, Injection, Surjection, IsInjective
  <1>2. ExistsBijection(1..n, T)
    BY <1>1 DEF ExistsBijection
  <1> HIDE DEF T
  <1>3. Cardinality(T) = n
    BY <1>2, FS_CountingElements
  <1> QED
    BY <1>3 DEF T, Rows

\* A batch is opened with the rows that follow; none of them is through yet.
LEMMA OpenBatchSafe == ASSUME ImportInv, OpenBatch PROVE ImportInv'
  <1> PICK j \in Job : j = run.job
    BY DEF ImportInv, RunOK, AtWork, OpenBatch, Working
  <1>1. StoreInv'
    BY ImportsKept, LedgerKept, UploadsKept DEF OpenBatch, imports, ledger
  <1>2. /\ AtWork /\ RowsOK /\ run.op \in {"validating", "importing"} /\ run.batch = {}
        /\ Todo \subseteq {} /\ UNCHANGED <<imports, ledger>>
    BY DEF ImportInv, RunOK, AtWork, OpenBatch, Working, RowsOK
  <1>3. /\ run.doc.row \in Nat /\ Len(Chunk) \in Nat /\ run.doc.row < Len(Chunk)
    BY <1>2, Places DEF OpenBatch, AtWork, DocOK, RowsOK, Chunk
  <1>4. PICK n \in 1..Min({BatchRows, Len(Chunk) - run.doc.row}) :
           run' = [run EXCEPT !.batch = Batch(n), !.todo = [p \in Batch(n) |-> "start"]]
    BY DEF OpenBatch, Batch, Rows
  <1>5. n \in 0..(Len(Chunk) - run.doc.row)
    <2> DEFINE a == BatchRows
               b == Len(Chunk) - run.doc.row
    <2>1. a \in Int /\ b \in Int
      BY <1>3, ChunkAssumption
    <2> HIDE DEF a, b
    <2>2. \E x \in {a, b} : \A y \in {a, b} : x =< y
      BY <2>1
    <2>3. Min({a, b}) \in {a, b} /\ Min({a, b}) =< b
      BY <2>2 DEF Min
    <2>4. n \in 1..Min({a, b})
      BY DEF a, b
    <2> QED
      BY <2>1, <2>3, <2>4 DEF b
  <1>6. /\ run'.op = run.op /\ run'.job = j /\ run'.doc = run.doc /\ run'.ensured = run.ensured
        /\ run'.batch = Batch(n) /\ run'.todo = [p \in Batch(n) |-> "start"]
        /\ DOMAIN run' = RunFields
    BY <1>2, <1>4 DEF AtWork, RunFields
  <1>7. Todo' = Batch(n) /\ Batch(n)' = Batch(n) /\ Chunk' = Chunk
    BY <1>2, <1>6 DEF Todo, Working, Batch, Chunk
  <1>8. Through' = Through /\ Through \subseteq Pos(j)
    BY <1>2, <1>6, <1>7 DEF Through, Behind, UpTo
  <1>9. RowsOK'
    <2>1. \E m \in 0..(Len(Chunk)' - run'.doc.row) : run'.batch = Batch(m)'
      BY <1>5, <1>6, <1>7
    <2>2. \A p \in Todo' : StepOK(p)'
      BY <1>6, <1>7 DEF StepOK
    <2>3. \A p \in Through : /\ Valid(j, p)' <=> Valid(j, p)
                             /\ Imported(j, p)' <=> Imported(j, p)
                             /\ Creates(j, p)' <=> Creates(j, p)
      BY <1>2, <1>8, SameKnowledge DEF imports
    <2>4. {p \in Through : Creates(j, p)}' = {p \in Through : Creates(j, p)}
      BY <1>8, <2>3
    <2>5. run'.todo \in [Todo' -> {"start", "numbered", "intent", "written"}] /\ Todo' \subseteq run'.batch
      BY <1>6, <1>7
    <2>6. Busy("validating")' => run'.doc.created = 0 /\ \A p \in Through' : Valid(j, p)'
      BY <1>2, <1>6, <1>8, <2>3 DEF RowsOK, Busy
    <2>7. Busy("importing")' => /\ \A p \in Through' : Imported(j, p)'
                                /\ run'.doc.created = Cardinality({p \in Through : Creates(j, p)}')
      BY <1>2, <1>6, <1>8, <2>3, <2>4 DEF RowsOK, Busy
    <2> QED
      BY <1>2, <1>6, <1>7, <2>1, <2>2, <2>5, <2>6, <2>7 DEF RowsOK
  <1>10. AtWork'
    BY <1>2, <1>6, <1>9 DEF AtWork, Busy, imports
  <1> QED
    BY <1>1, <1>2, <1>6, <1>10, Parts DEF RunOK, Busy

\* A batch is closed when all its rows are through: they are behind the copy.
LEMMA CloseBatchSafe == ASSUME ImportInv, CloseBatch PROVE ImportInv'
  <1> PICK j \in Job : j = run.job
    BY DEF ImportInv, RunOK, AtWork, CloseBatch, Working
  <1>1. StoreInv'
    BY ImportsKept, LedgerKept, UploadsKept DEF CloseBatch, imports, ledger
  <1>2. /\ AtWork /\ RowsOK /\ run.op \in {"validating", "importing"} /\ run.todo = <<>>
        /\ UNCHANGED <<imports, ledger>>
    BY DEF ImportInv, RunOK, AtWork, CloseBatch, Working
  <1>3. PICK n \in 0..(Len(Chunk) - run.doc.row) : run.batch = Batch(n)
    BY <1>2 DEF RowsOK
  <1>4. /\ run.doc.row \in Nat /\ Len(Chunk) \in Nat /\ n \in Nat /\ run.doc.row + n <= Len(Chunk)
        /\ run.doc.chunk \in 1..Len(Chunks[j]) /\ run.doc.chunk \in Nat
        /\ Chunk = Chunks[j][run.doc.chunk] /\ DOMAIN run.doc = JobFields
    <2>1. /\ run.doc.row \in Nat /\ run.doc.chunk \in Nat /\ DOMAIN run.doc = JobFields
          /\ run.doc.chunk \in 1..Len(Chunks[j]) /\ Chunk = Chunks[j][run.doc.chunk]
      BY <1>2 DEF AtWork, DocOK, RowsOK, Chunk
    <2>2. Len(Chunk) \in Nat
      BY <2>1, Places
    <2> QED
      BY SMTT(20), <2>1, <2>2
  <1>5. Cardinality(run.batch) = n
    BY <1>3, <1>4, BatchSize DEF Batch
  <1>6. /\ run'.op = run.op /\ run'.job = j /\ run'.ensured = run.ensured
        /\ run'.batch = {} /\ run'.todo = <<>> /\ DOMAIN run' = RunFields
        /\ DOMAIN run'.doc = JobFields /\ run'.doc.chunk = run.doc.chunk
        /\ run'.doc.row = run.doc.row + n /\ run'.doc.created = run.doc.created
        /\ run'.doc.state = run.doc.state /\ run'.doc.resume = run.doc.resume
    BY <1>2, <1>4, <1>5 DEF CloseBatch, AtWork, RunFields, JobFields
  <1>7. Todo = {} /\ Todo' = {} /\ Chunk' = Chunk
    BY <1>2, <1>6 DEF Todo, Working, Chunk
  <1>8. Through' = Through /\ Through \subseteq Pos(j)
    <2>1. Behind(j, run.doc)' = Behind(j, run.doc) \cup Batch(n)
      <3>1. UpTo(j, run.doc.chunk, run.doc.row + n)
               = UpTo(j, run.doc.chunk, run.doc.row) \cup Rows(run.doc.chunk, run.doc.row, n)
        <4>1. PICK c \in 1..Len(Chunks[j]), r \in Nat : c = run.doc.chunk /\ r = run.doc.row
          BY <1>4
        <4>2. PICK last : last = r + n
          OBVIOUS
        <4>3. n \in Nat /\ Fits(j, c, last)
          BY <1>4, <4>1, <4>2 DEF Fits
        <4>4. UpTo(j, c, last) = UpTo(j, c, r) \cup Rows(c, r, n)
          BY <4>2, <4>3, Further
        <4> QED
          BY <4>1, <4>2, <4>4
      <3> QED
        BY <1>6, <3>1 DEF Behind, Batch
    <2>2. Through = Behind(j, run.doc) \cup Batch(n) /\ Through' = Behind(j, run.doc)'
      BY <1>3, <1>6, <1>7 DEF Through, Behind, UpTo
    <2> QED
      BY <2>1, <2>2 DEF Behind, UpTo
  <1>9. RowsOK'
    <2>1. Batch(0)' = {}
      BY DEF Batch, Rows
    <2>2. \E m \in 0..(Len(Chunk)' - run'.doc.row) : run'.batch = Batch(m)'
      BY SMTT(20), <1>4, <1>6, <1>7, <2>1
    <2>3. \A p \in Through : /\ Valid(j, p)' <=> Valid(j, p)
                             /\ Imported(j, p)' <=> Imported(j, p)
                             /\ Creates(j, p)' <=> Creates(j, p)
      BY <1>2, <1>8, SameKnowledge DEF imports
    <2>4. {p \in Through : Creates(j, p)}' = {p \in Through : Creates(j, p)}
      BY <1>8, <2>3
    <2>5. run'.todo \in [Todo' -> {"start", "numbered", "intent", "written"}]
      BY <1>6, <1>7
    <2>6. Busy("validating")' => run'.doc.created = 0 /\ \A p \in Through' : Valid(j, p)'
      BY <1>2, <1>6, <1>8, <2>3 DEF RowsOK, Busy
    <2>7. Busy("importing")' => /\ \A p \in Through' : Imported(j, p)'
                                /\ run'.doc.created = Cardinality({p \in Through : Creates(j, p)}')
      BY <1>2, <1>6, <1>8, <2>3, <2>4 DEF RowsOK, Busy
    <2> QED
      BY <1>4, <1>6, <1>7, <2>2, <2>5, <2>6, <2>7 DEF RowsOK
  <1>10. DocOK(j, run.doc)'
    BY <1>2, <1>4, <1>6 DEF DocOK, AtWork
  <1>11. AtWork'
    BY <1>2, <1>6, <1>9, <1>10 DEF AtWork, Busy, imports
  <1> QED
    BY <1>1, <1>2, <1>6, <1>11, Parts DEF RunOK, Busy

-----------------------------------------------------------------------------
(* The end of a phase *)

\* The rows behind the next chunk are those behind the end of this one, and
\* behind the end of the last chunk are all rows.
LEMMA NextChunk ==
    ASSUME NEW j \in Job, NEW doc, doc.chunk \in 1..Len(Chunks[j]), doc.row \in Nat,
           doc.row >= Len(Chunks[j][doc.chunk]), NEW next, next.row = 0
    PROVE  /\ next.chunk = doc.chunk + 1 => Behind(j, next) = Behind(j, doc)
           /\ doc.chunk >= Len(Chunks[j]) => Behind(j, doc) = Pos(j)
           /\ next.chunk = 1 => Behind(j, next) = {}
  <1>1. \A p \in Pos(j) : /\ p[1] \in 1..Len(Chunks[j]) /\ p[1] \in Nat /\ p[2] \in Nat \ {0}
                          /\ p[2] <= Len(Chunks[j][p[1]])
    BY Places
  <1>2. Len(Chunks[j]) \in Nat /\ Len(Chunks[j][doc.chunk]) \in Nat /\ doc.chunk \in Nat
    BY Places
  <1>3. ASSUME NEW p \in Pos(j), next.chunk = doc.chunk + 1
        PROVE  Before(p, <<next.chunk, next.row + 1>>) <=> Before(p, <<doc.chunk, doc.row + 1>>)
    BY SMTT(20), <1>1, <1>2, <1>3 DEF Before
  <1>4. ASSUME NEW p \in Pos(j), doc.chunk >= Len(Chunks[j])
        PROVE  Before(p, <<doc.chunk, doc.row + 1>>)
    BY <1>1, <1>2, <1>4 DEF Before
  <1>5. ASSUME NEW p \in Pos(j), next.chunk = 1
        PROVE  ~Before(p, <<next.chunk, next.row + 1>>)
    BY <1>1, <1>5 DEF Before
  <1> QED
    BY <1>3, <1>4, <1>5 DEF Behind, UpTo

\* The position is saved with the chunk, or the phase, that comes next; what
\* was left behind stays behind.
LEMMA SavePhaseSafe == ASSUME ImportInv, SavePhase PROVE ImportInv'
  <1> PICK j \in Job : j = run.job
    BY DEF ImportInv, RunOK, AtWork, SavePhase, Working
  <1> DEFINE c == run.doc.chunk
             r == run.doc.row
             last == Len(Chunks[j])
             size == Len(Chunks[j][c])
  <1>1. /\ AtWork /\ RowsOK /\ run.op \in {"validating", "importing"} /\ run.batch = {}
        /\ run' = Idle /\ UNCHANGED <<uploaded, seen, ordinal, counter, source, marker, review, ledger>>
        /\ job' = [job EXCEPT ![j] = Checkpointed(run.doc, last)]
    BY DEF ImportInv, RunOK, AtWork, SavePhase, Working
  <1>2. /\ c \in 1..last /\ last \in Nat /\ r \in Nat /\ size \in Nat /\ r <= size
        /\ Len(Chunk) = size
    <2>1. c \in 1..last /\ r \in Nat /\ r <= Len(Chunk) /\ Chunk = Chunks[j][c]
      BY <1>1 DEF AtWork, DocOK, RowsOK, Chunk
    <2> QED
      BY <2>1, Places
  <1>3. /\ DOMAIN run.doc = JobFields /\ run.doc.state = run.op /\ run.doc.created \in Nat
        /\ run.doc.resume \in Phase \ {"cancelled"} /\ Stage(j) = run.op
        /\ DOMAIN job = Job
    BY <1>1 DEF AtWork, DocOK, Stage, ImportInv, StoredTypes
  <1>4. Through = Behind(j, run.doc)
    BY <1>1 DEF Through
  <1> DEFINE doc == Checkpointed(run.doc, last)
  <1>5. /\ DOMAIN doc = JobFields /\ doc.resume = run.doc.resume /\ doc.created = run.doc.created
        /\ doc.chunk \in Nat /\ doc.row \in Nat
        /\ \/ doc.state = run.op /\ r < size /\ doc.chunk = c /\ doc.row = r
           \/ doc.state = run.op /\ r >= size /\ doc.chunk = c + 1 /\ doc.row = 0
           \/ doc.state = NextPhase(run.op) /\ r >= size /\ c >= last /\ doc.chunk = 1 /\ doc.row = 0
    BY <1>2, <1>3 DEF Checkpointed, JobFields
  <1> HIDE DEF doc
  <1>6. job'[j] = doc /\ Stage(j)' = doc.state /\ doc.state \in Phase
        /\ doc.state \in {run.op, NextPhase(run.op)}
    BY <1>1, <1>3, <1>5 DEF Stage, NextPhase, Phase, Working, doc
  <1>7. \A p \in Pos(j) : /\ Valid(j, p)' <=> Valid(j, p)
                          /\ Imported(j, p)' <=> Imported(j, p)
                          /\ Creates(j, p)' <=> Creates(j, p)
    BY <1>1, SameKnowledge
  <1>8. ASSUME doc.state = run.op PROVE JobOK(j)'
    <2>1. LeftBehind(j)' = Through
      <3>1. Behind(j, doc) = Behind(j, run.doc)
        <4>1. CASE doc.chunk = c /\ doc.row = r
          BY <4>1 DEF Behind
        <4>2. CASE r >= size /\ doc.chunk = c + 1 /\ doc.row = 0
          BY SMTT(20), <1>2, <4>2, NextChunk
        <4> QED
          BY <1>1, <1>5, <1>8, <4>1, <4>2 DEF NextPhase
      <3>2. LeftBehind(j)' = Behind(j, doc)
        BY <1>1, <1>6, <1>8 DEF LeftBehind, Behind, UpTo
      <3> QED
        BY <1>4, <3>1, <3>2
    <2>2. Through \subseteq Pos(j)
      BY <1>4 DEF Behind, UpTo
    <2>3. doc.chunk \in 1..last => doc.row <= Len(Chunks[j][doc.chunk])
      BY <1>1, <1>2, <1>5, <1>8, Places DEF NextPhase
    <2>4. {p \in LeftBehind(j) : Creates(j, p)}' = {p \in Through : Creates(j, p)}
      BY <1>7, <2>1, <2>2
    <2>5. CASE run.op = "validating"
      <3>1. doc.created = 0 /\ \A p \in Through : Valid(j, p)
        BY <1>1, <1>5, <2>5 DEF RowsOK, Busy
      <3> QED
        BY <1>6, <1>7, <1>8, <2>1, <2>2, <2>3, <2>5, <3>1 DEF JobOK, Past, After
    <2>6. CASE run.op = "importing"
      <3>1. /\ \A p \in Through : Imported(j, p)
            /\ doc.created = Cardinality({p \in Through : Creates(j, p)})
        BY <1>1, <1>5, <2>6 DEF RowsOK, Busy
      <3>2. \A p \in Pos(j) : Valid(j, p)
        BY <1>3, <2>6, PastIsValid DEF Past
      <3> QED
        BY <1>6, <1>7, <1>8, <2>1, <2>2, <2>3, <2>4, <2>6, <3>1, <3>2 DEF JobOK, Past, After
    <2> QED
      BY <1>1, <2>5, <2>6
  <1>9. ASSUME doc.state # run.op PROVE JobOK(j)'
    <2>1. doc.state = NextPhase(run.op) /\ doc.chunk = 1 /\ doc.row = 0
      BY <1>5, <1>9
    <2>2. Through = Pos(j)
      BY <1>2, <1>4, <1>5, <1>9, NextChunk
    <2>3. CASE run.op = "validating"
      <3>1. doc.state = "importing" /\ doc.created = 0 /\ \A p \in Pos(j) : Valid(j, p)
        BY <1>1, <1>5, <2>1, <2>2, <2>3 DEF RowsOK, Busy, NextPhase
      <3>2. LeftBehind(j)' = {}
        <4>1. LeftBehind(j)' = Behind(j, doc)
          BY <1>6, <3>1 DEF LeftBehind, Behind, UpTo
        <4> QED
          BY <1>2, <1>5, <1>9, <2>1, <4>1, NextChunk
      <3>3. {p \in LeftBehind(j) : Creates(j, p)}' = {} /\ Cardinality({}) = 0
        BY <3>2, FS_EmptySet
      <3>4. doc.row <= Len(Chunks[j][1]) \/ 1 \notin 1..last
        BY <2>1, Places
      <3> QED
        BY <1>6, <1>7, <2>1, <3>1, <3>2, <3>3, <3>4 DEF JobOK, Past, After
    <2>4. CASE run.op = "importing"
      <3>1. /\ doc.state = "reconciling" /\ \A p \in Pos(j) : Imported(j, p)
            /\ doc.created = Cardinality({p \in Pos(j) : Creates(j, p)})
        BY <1>1, <1>5, <2>1, <2>2, <2>4 DEF RowsOK, Busy, NextPhase
      <3>2. \A p \in Pos(j) : Valid(j, p)
        BY <1>3, <2>4, PastIsValid DEF Past
      <3>3. LeftBehind(j)' = Pos(j)
        BY <1>6, <3>1 DEF LeftBehind, After
      <3>4. {p \in LeftBehind(j) : Creates(j, p)}' = {p \in Pos(j) : Creates(j, p)}
        BY <1>7, <3>3
      <3> QED
        BY <1>6, <1>7, <3>1, <3>2, <3>3, <3>4 DEF JobOK, Past, After
    <2> QED
      BY <1>1, <2>3, <2>4
  <1>10. StoreInv'
    <2>1. DocOK(j, doc) /\ doc.resume \in Phase \ {"cancelled"}
      BY <1>3, <1>5 DEF DocOK
    <2>2. /\ Stage(j) \in Past => Stage(j)' \in Past
          /\ Stage(j) \in After => Stage(j)' \in After
      BY <1>1, <1>3, <1>6 DEF Past, After, NextPhase
    <2>3. job' = [job EXCEPT ![j] = doc]
      BY <1>1 DEF doc
    <2> QED
      BY <1>1, <1>6, <1>8, <1>9, <2>1, <2>2, <2>3, JobWritten
  <1> QED
    BY <1>1, <1>10, Resting, Parts

\* Reconciling saves its place, or the end of the import; no row is touched.
LEMMA SaveReconcileSafe == ASSUME ImportInv, SaveReconcile PROVE ImportInv'
  <1> PICK j \in Job : j = run.job
    BY DEF ImportInv, RunOK, AtWork, SaveReconcile, Busy, Working
  <1>1. /\ AtWork /\ run.op = "reconciling" /\ run' = Idle /\ Stage(j) = "reconciling"
        /\ UNCHANGED <<uploaded, seen, ordinal, counter, source, marker, review, ledger>>
    BY DEF ImportInv, RunOK, AtWork, SaveReconcile, Busy, Working, Stage
  <1> PICK s \in After :
          job' = [job EXCEPT ![j] = IF run.doc.chunk > Len(Accounts[j])
                                    THEN [run.doc EXCEPT !.state = s] ELSE run.doc]
    <2>1. PICK s \in After : Settled(j, run.doc) = [run.doc EXCEPT !.state = s]
      BY DEF Settled, After
    <2> QED
      BY <2>1 DEF SaveReconcile
  <1> PICK doc : /\ doc = IF run.doc.chunk > Len(Accounts[j])
                          THEN [run.doc EXCEPT !.state = s] ELSE run.doc
                 /\ job' = [job EXCEPT ![j] = doc]
    OBVIOUS
  <1>2. /\ DOMAIN run.doc = JobFields /\ run.doc.created = job[j].created /\ run.doc.state = "reconciling"
        /\ run.doc.resume \in Phase \ {"cancelled"}
        /\ run.doc.chunk \in Nat /\ run.doc.row \in Nat /\ run.doc.created \in Nat
    BY <1>1 DEF AtWork, DocOK, Busy
  <1>3. /\ DOMAIN doc = JobFields /\ doc.created = job[j].created /\ doc.state \in After
        /\ doc.resume = run.doc.resume /\ doc.chunk = run.doc.chunk /\ doc.row = run.doc.row
    BY <1>2 DEF JobFields, After
  <1>4. job'[j] = doc /\ Stage(j)' = doc.state /\ doc.state \in Phase /\ DocOK(j, doc)
    BY <1>2, <1>3 DEF ImportInv, StoredTypes, Stage, After, Phase, Working, DocOK
  <1>5. JobOK(j)'
    <2>1. LeftBehind(j) = Pos(j) /\ LeftBehind(j)' = Pos(j)
      BY <1>1, <1>3, <1>4 DEF LeftBehind, After
    <2>2. \A p \in Pos(j) : /\ Valid(j, p)' <=> Valid(j, p)
                            /\ Imported(j, p)' <=> Imported(j, p)
                            /\ Creates(j, p)' <=> Creates(j, p)
      BY <1>1, SameKnowledge
    <2>3. {p \in LeftBehind(j) : Creates(j, p)}' = {p \in LeftBehind(j) : Creates(j, p)}
      BY <2>1, <2>2
    <2>4. JobOK(j)
      BY DEF ImportInv
    <2> QED
      BY ZenonT(30), <1>1, <1>3, <1>4, <2>1, <2>2, <2>3, <2>4 DEF JobOK, Past, After
  <1>6. StoreInv'
    <2>1. Stage(j)' \in After /\ Stage(j)' \in Past
      BY <1>3, <1>4 DEF Past
    <2> QED
      BY <1>1, <1>2, <1>3, <1>4, <1>5, <2>1, JobWritten
  <1> QED
    BY <1>1, <1>6, Resting, Parts

-----------------------------------------------------------------------------
(* Accounts, and what members do *)

\* The batch at work follows the rows behind the copy, and the rows before one
\* of its rows are behind the copy or in the batch.
LEMMA WhereItIs ==
    ASSUME ImportInv, run.op \in {"validating", "importing"}
    PROVE  /\ run.job \in Job /\ AtWork /\ RowsOK /\ Stage(run.job) = run.op
           /\ run.batch \subseteq Pos(run.job) /\ Todo \subseteq Pos(run.job)
           /\ Through \subseteq Pos(run.job) /\ run.batch \cap Behind(run.job, run.doc) = {}
           /\ \A p, q \in run.batch : Before(q, p) \/ p = q \/ Before(p, q)
           /\ \A p \in run.batch : \A q \in Pos(run.job) :
                 Before(q, p) => q \in Behind(run.job, run.doc) \cup run.batch
  <1> PICK j \in Job : j = run.job
    BY DEF ImportInv, RunOK, AtWork, Working
  <1>1. AtWork /\ RowsOK /\ Stage(j) = run.op
    BY DEF ImportInv, RunOK, AtWork, Working, Stage
  <1>2. PICK n \in 0..(Len(Chunk) - run.doc.row) : run.batch = Batch(n)
    BY <1>1 DEF RowsOK
  <1>3. /\ run.doc.chunk \in 1..Len(Chunks[j]) /\ run.doc.row \in Nat
        /\ Chunk = Chunks[j][run.doc.chunk] /\ run.doc.chunk \in Nat
    BY <1>1 DEF RowsOK, AtWork, DocOK, Chunk
  <1>4. Len(Chunk) \in Nat
    BY <1>3, Places
  <1>5. n \in Nat /\ run.doc.row + n <= Len(Chunks[j][run.doc.chunk])
    BY SMTT(20), <1>3, <1>4
  <1>6. UpTo(j, run.doc.chunk, run.doc.row + n) = Behind(j, run.doc) \cup run.batch
    <2>1. PICK c \in 1..Len(Chunks[j]), r \in Nat : c = run.doc.chunk /\ r = run.doc.row
      BY <1>3
    <2>2. PICK last : last = r + n
      OBVIOUS
    <2>3. n \in Nat /\ Fits(j, c, last)
      BY <1>5, <2>1, <2>2 DEF Fits
    <2>4. UpTo(j, c, last) = UpTo(j, c, r) \cup Rows(c, r, n)
      BY <2>2, <2>3, Further
    <2> QED
      BY <1>2, <2>1, <2>2, <2>4 DEF Behind, Batch
  <1>7. Behind(j, run.doc) \cup run.batch \subseteq Pos(j)
    BY <1>6 DEF UpTo
  <1>8. Todo \subseteq run.batch
    BY <1>1 DEF RowsOK
  <1>11. ASSUME NEW p \in run.batch PROVE p \notin Behind(j, run.doc)
    <2> PICK i \in 1..n : p = <<run.doc.chunk, run.doc.row + i>>
      BY <1>2 DEF Batch, Rows
    <2>1. p[1] = run.doc.chunk /\ p[2] = run.doc.row + i /\ i > 0 /\ i \in Nat
      BY <1>3, <1>5
    <2> QED
      BY <1>3, <2>1 DEF Behind, UpTo, Before
  <1>9. \A p, q \in run.batch : Before(q, p) \/ p = q \/ Before(p, q)
    BY <1>7, InOrder
  <1>10. ASSUME NEW p \in run.batch, NEW q \in Pos(j), Before(q, p)
         PROVE  q \in Behind(j, run.doc) \cup run.batch
    <2>1. Before(p, <<run.doc.chunk, (run.doc.row + n) + 1>>) /\ p \in Pos(j)
      BY <1>6 DEF UpTo
    <2>2. p[1] \in Nat /\ p[2] \in Nat /\ q[1] \in Nat /\ q[2] \in Nat
      BY <2>1, Places
    <2>3. Before(q, <<run.doc.chunk, (run.doc.row + n) + 1>>)
      <3> DEFINE b == (run.doc.row + n) + 1
                 c == run.doc.chunk
      <3>1. p[1] < c \/ (p[1] = c /\ p[2] < b)
        BY <2>1 DEF Before
      <3>2. q[1] < p[1] \/ (q[1] = p[1] /\ q[2] < p[2])
        BY <1>10 DEF Before
      <3>3. b \in Nat /\ c \in Nat
        BY <1>3, <1>5
      <3> HIDE DEF b, c
      <3>4. q[1] < c \/ (q[1] = c /\ q[2] < b)
        BY <2>2, <3>1, <3>2, <3>3
      <3> QED
        BY <3>4 DEF Before, b, c
    <2> QED
      BY <1>6, <2>3 DEF UpTo
  <1> QED
    BY <1>1, <1>7, <1>8, <1>9, <1>10, <1>11 DEF Through

\* What an invocation knows of its rows stays true when the documents of the
\* import stay, whatever members do to the ledger.
LEMMA RowsKept ==
    ASSUME ImportInv, run.op \in {"validating", "importing"},
           UNCHANGED <<job, seen, ordinal, counter, source>>,
           DOMAIN review' = DOMAIN review, LedgerMoves,
           run'.op = run.op, run'.job = run.job, run'.doc = run.doc,
           run'.todo = run.todo, run'.batch = run.batch
    PROVE  RowsOK'
  <1> PICK j \in Job : j = run.job
    BY WhereItIs
  <1>1. RowsOK /\ Todo' = Todo /\ Through' = Through /\ Chunk' = Chunk
        /\ \A n : Batch(n)' = Batch(n)
    BY WhereItIs DEF Todo, Through, Chunk, Batch, Behind
  <1>2. \A p \in Pos(j) : /\ Valid(j, p)' <=> Valid(j, p)
                          /\ Imported(j, p)' <=> Imported(j, p)
                          /\ Creates(j, p)' <=> Creates(j, p)
                          /\ Identity(j, p)' = Identity(j, p)
    BY SameKnowledge
  <1>3. Todo \subseteq Pos(j) /\ Through \subseteq Pos(j) /\ Stage(j) = run.op
    BY WhereItIs
  <1>4. ASSUME NEW p \in Todo PROVE StepOK(p)'
    <2>1. StepOK(p) /\ p \in Pos(j)
      BY <1>1, <1>3 DEF RowsOK
    <2>2. Identity(j, p)' = Identity(j, p)
      BY <1>2, <2>1
    <2>3. Busy("importing") => Identity(j, p) \in Transaction
      BY <1>3, <2>1, PastIsValid DEF Busy, Past
    <2> QED
      BY <2>1, <2>2, <2>3 DEF StepOK, Busy, LedgerMoves
  <1>5. {p \in Through : Creates(j, p)}' = {p \in Through : Creates(j, p)}
    BY <1>1, <1>2, <1>3
  <1> QED
    BY <1>1, <1>2, <1>3, <1>4, <1>5 DEF RowsOK, Busy

\* A member may note or delete what was booked, and never makes it absent.
LEMMA EditSafe == ASSUME ImportInv, Edit PROVE ImportInv'
  <1>1. UNCHANGED <<imports, run>>
    BY DEF Edit
  <1>2. LedgerMoves
    BY DEF Edit, LedgerMoves, ImportInv, StoredTypes
  <1>3. StoreInv'
    BY <1>1, <1>2, ImportsKept, UploadsKept DEF imports
  <1>4. run.op \in {"validating", "importing"} => RowsOK'
    BY <1>1, <1>2, RowsKept DEF imports
  <1>5. RunOK'
    BY <1>1, <1>4 DEF ImportInv, RunOK, AtWork, imports, Busy
  <1> QED
    BY <1>3, <1>5, Parts

\* Reading the ledger writes nothing.
LEMMA SumAccountSafe == ASSUME ImportInv, NEW a \in Account, SumAccount(a) PROVE ImportInv'
  <1>1. /\ UNCHANGED <<imports, ledger>> /\ run.op = "reconciling" /\ AtWork
        /\ run' = [run EXCEPT !.account = "summed"]
    BY DEF SumAccount, Reconciling, Busy, ImportInv, RunOK, Working
  <1>2. /\ run'.op = run.op /\ run'.job = run.job /\ run'.doc = run.doc
        /\ run'.ensured = run.ensured /\ DOMAIN run' = RunFields
    BY <1>1 DEF AtWork, RunFields
  <1>3. StoreInv'
    BY <1>1, ImportsKept, LedgerKept, UploadsKept DEF imports, ledger
  <1>4. RunOK'
    BY <1>1, <1>2 DEF RunOK, AtWork, imports, Busy, Working
  <1> QED
    BY <1>3, <1>4, Parts

\* An account is ensured under a marker of this import that is not complete
\* while rows are imported.
LEMMA EnsureAccountSafe == ASSUME ImportInv, NEW a \in Account, EnsureAccount(a) PROVE ImportInv'
  <1>1. /\ UNCHANGED <<imports, tx>> /\ run.op \in Working /\ AtWork /\ Owned(a)
        /\ run' = [run EXCEPT !.ensured = @ \cup {a}]
    BY DEF EnsureAccount, Needed, Busy, ImportInv, RunOK, Working
  <1>2. /\ run'.op = run.op /\ run'.job = run.job /\ run'.doc = run.doc /\ run'.todo = run.todo
        /\ run'.batch = run.batch
        /\ run'.ensured = run.ensured \cup {a} /\ DOMAIN run' = RunFields
    BY <1>1 DEF AtWork, RunFields
  <1>3. StoreInv'
    BY <1>1, ImportsKept, LedgerKept, UploadsKept DEF imports
  <1>4. run.op \in {"validating", "importing"} => RowsOK'
    BY <1>1, <1>2, RowsKept, LedgerKept DEF imports
  <1>5. Busy("importing") => marker[a].state # "complete"
    BY <1>1 DEF Busy, AtWork, ImportInv, MarkerOK, Owned, Stage, After
  <1>6. marker[a] # Absent /\ marker[a].job = run.job /\ DOMAIN marker[a] = MarkerFields
    BY <1>1 DEF Owned, ImportInv, StoredTypes
  <1>7. \A b \in run'.ensured :
           /\ b \in Account /\ DOMAIN marker[b] = MarkerFields /\ marker[b].job = run.job
           /\ Busy("importing") => marker[b] # Absent /\ marker[b].state # "complete"
    BY <1>1, <1>2, <1>5, <1>6 DEF AtWork
  <1>8. AtWork'
    BY <1>1, <1>2, <1>4, <1>7 DEF AtWork, imports, Busy
  <1> QED
    BY <1>1, <1>2, <1>3, <1>8, Parts DEF RunOK, Busy, Working

\* A marker may be written of an account without intents, when it keeps to the
\* import at work.
LEMMA MarkerWritten ==
    ASSUME ImportInv, NEW a \in Account, NEW new, marker' = [marker EXCEPT ![a] = new],
           UNCHANGED <<job, uploaded, seen, ordinal, counter, source, review, ledger>>,
           DOMAIN new = MarkerFields, new.state = "complete" => Stage(new.job) \in After,
           \A t \in Transaction : source[t] # Absent /\ source[t].state = "intent" => t[1] # a
    PROVE  StoreInv'
  <1>1. marker'[a] = new /\ \A b \in Account \ {a} : marker'[b] = marker[b]
    BY DEF ImportInv, StoredTypes
  <1>2. StoredTypes'
    BY <1>1 DEF ImportInv, StoredTypes, DocOK, ledger
  <1>3. ASSUME NEW j \in Job PROVE NumbersOK(j)' /\ JobOK(j)'
    <2>1. NumbersOK(j)'
      BY DEF ImportInv, NumbersOK, Valid
    <2>2. \A p \in Pos(j) : /\ Valid(j, p)' <=> Valid(j, p)
                            /\ Imported(j, p)' <=> Imported(j, p)
                            /\ Creates(j, p)' <=> Creates(j, p)
      BY SameKnowledge
    <2>3. LeftBehind(j) \subseteq Pos(j)
      BY DEF LeftBehind, Behind, UpTo
    <2>4. JobOK(j)'
      BY <2>2, <2>3, JobKept DEF ImportInv
    <2> QED
      BY <2>1, <2>4
  <1>4. ASSUME NEW t \in Transaction PROVE SourceOK(t)'
    <2>1. SourceOK(t)
      BY DEF ImportInv
    <2>2. CASE source[t] # Absent /\ source[t].state = "intent"
      <3>1. t[1] \in Account
        BY <2>1, <2>2 DEF SourceOK
      <3> QED
        BY <1>1, <2>1, <2>2, <3>1 DEF SourceOK, Stage, Identity, ledger
    <2>3. CASE ~(source[t] # Absent /\ source[t].state = "intent")
      BY <2>1, <2>3 DEF SourceOK, Stage, Identity, ledger
    <2> QED
      BY <2>2, <2>3
  <1>5. ASSUME NEW b \in Account PROVE MarkerOK(b)'
    BY <1>1 DEF ImportInv, MarkerOK, Stage
  <1> QED
    BY <1>2, <1>3, <1>4, <1>5 DEF StoreInv

\* A marker is taken over only from an import that is through with the account.
LEMMA EnsureMarkerSafe == ASSUME ImportInv, NEW a \in Account, EnsureMarker(a) PROVE ImportInv'
  <1>1. /\ UNCHANGED <<job, uploaded, seen, ordinal, counter, source, review, ledger, run>>
        /\ run.op \in Working /\ AtWork /\ a \notin run.ensured /\ ~Owned(a) /\ MayOwn(a)
    BY DEF EnsureMarker, Needed, Busy, ImportInv, RunOK, Working
  <1> DEFINE new == [job |-> run.job, state |-> "importing",
                     verified |-> Evidence[run.job][a] # NoEvidence,
                     opening |-> IF account[a] = Absent \/ a \in ReplaceOpening THEN Opening(a)
                                 ELSE account[a].opening,
                     rev |-> IF account[a] = Absent THEN 0 ELSE account[a].rev]
  <1>2. marker' = [marker EXCEPT ![a] = new]
    BY DEF EnsureMarker
  <1>3. DOMAIN new = MarkerFields /\ new.state = "importing"
    BY DEF MarkerFields
  <1> HIDE DEF new
  <1>4. \A t \in Transaction : source[t] # Absent /\ source[t].state = "intent" => t[1] # a
    BY <1>1 DEF MayOwn, ImportInv, SourceOK
  <1>5. StoreInv'
    BY <1>1, <1>2, <1>3, <1>4, MarkerWritten
  <1>6. run.op \in {"validating", "importing"} => RowsOK'
    BY <1>1, RowsKept, LedgerKept DEF ledger
  <1>7. \A b \in run.ensured : marker'[b] = marker[b]
    BY <1>1, <1>2 DEF ImportInv, StoredTypes, AtWork
  <1>8. RunOK'
    BY <1>1, <1>6, <1>7 DEF RunOK, AtWork, Busy, Working
  <1> QED
    BY <1>5, <1>8, Parts

\* A marker is completed when every row is imported: no intent waits for it.
LEMMA ReconcileAccountSafe ==
    ASSUME ImportInv, NEW a \in Account, ReconcileAccount(a)
    PROVE  ImportInv'
  <1> PICK j \in Job : j = run.job
    BY DEF ReconcileAccount, Reconciling, ImportInv, RunOK, AtWork, Busy, Working
  <1>1. /\ run.op = "reconciling" /\ AtWork /\ a \in run.ensured /\ Stage(j) = "reconciling"
        /\ UNCHANGED <<job, uploaded, seen, ordinal, counter, source, review, ledger>>
    BY DEF ReconcileAccount, Reconciling, Busy, ImportInv, RunOK, AtWork, Working, Stage
  <1> PICK new : /\ marker' = [marker EXCEPT ![a] = new]
                 /\ new = [marker[a] EXCEPT
                       !.state = IF run.doc.conflicts > 0 THEN "needs-review" ELSE "complete",
                       !.verified = Verifiable(run.job, a)]
    <2> DEFINE s == IF run.doc.conflicts > 0 THEN "needs-review" ELSE "complete"
               v == Verifiable(run.job, a)
               n == [marker[a] EXCEPT !.state = s, !.verified = v]
    <2>1. marker' = [marker EXCEPT ![a].state = s, ![a].verified = v]
      BY DEF ReconcileAccount
    <2>2. DOMAIN marker = Account
      BY DEF ImportInv, StoredTypes
    <2> HIDE DEF s, v
    <2>3. marker' = [marker EXCEPT ![a] = n]
      BY <2>1, <2>2
    <2> QED
      BY <2>3 DEF s, v
  <1>2. DOMAIN marker[a] = MarkerFields /\ marker[a].job = j
    BY <1>1 DEF AtWork
  <1>3. DOMAIN new = MarkerFields /\ new.job = j
    BY <1>2 DEF MarkerFields
  <1>4. ASSUME NEW t \in Transaction, source[t] # Absent, source[t].state = "intent", t[1] = a
        PROVE  FALSE
    <2>1. source[t].job = j /\ source[t].pos \in Pos(j) /\ t = Identity(j, source[t].pos)
      BY <1>2, <1>4 DEF ImportInv, SourceOK
    <2>2. Imported(j, source[t].pos)
      BY <1>1, <2>1 DEF ImportInv, JobOK, Past, After, LeftBehind
    <2> QED
      BY <1>4, <2>1, <2>2 DEF Imported
  <1>5. StoreInv'
    <2>1. Stage(new.job) \in After
      BY <1>1, <1>3 DEF After
    <2>2. \A t \in Transaction : source[t] # Absent /\ source[t].state = "intent" => t[1] # a
      BY <1>4
    <2> QED
      BY <1>1, <1>3, <2>1, <2>2, MarkerWritten
  <1>6. /\ run'.op = run.op /\ run'.job = run.job /\ run'.ensured = run.ensured
        /\ DOMAIN run' = RunFields /\ DOMAIN run'.doc = JobFields
        /\ run'.doc.chunk = run.doc.chunk + 1 /\ run'.doc.row = run.doc.row
        /\ run'.doc.created = run.doc.created /\ run'.doc.state = run.doc.state
        /\ run'.doc.resume = run.doc.resume
    BY <1>1 DEF ReconcileAccount, AtWork, DocOK, RunFields, JobFields
  <1>7. DocOK(j, run.doc)'
    BY <1>1, <1>6 DEF AtWork, DocOK
  <1>8. \A b \in run.ensured : DOMAIN marker'[b] = MarkerFields /\ marker'[b].job = run.job
    BY <1>1, <1>3 DEF ImportInv, StoredTypes, AtWork
  <1>9. AtWork'
    BY <1>1, <1>6, <1>7, <1>8 DEF AtWork, Busy
  <1> QED
    BY <1>1, <1>5, <1>6, <1>9, Parts DEF RunOK, Busy, Working

-----------------------------------------------------------------------------
(* What the steps of a row have in common *)

RowStages == {"start", "numbered", "intent", "written"}

\* A row waits for the earlier rows of its key.
LEMMA EarlierIsDone ==
    ASSUME ImportInv, run.op \in {"validating", "importing"}, NEW p, NEW stage, Ready(p, stage),
           NEW q \in Pos(run.job), Before(q, p), RowKey(run.job, q) = RowKey(run.job, p)
    PROVE  q \in Through
  <1>1. p \in Todo /\ p \in run.batch /\ q \notin Todo
    BY WhereItIs DEF Ready, RowsOK
  <1>2. q \in Behind(run.job, run.doc) \cup run.batch
    BY <1>1, WhereItIs
  <1> QED
    BY <1>1, <1>2 DEF Through

\* Row p moves on to its next stage, or is through: then it must be known to
\* be validated or imported, and the counter must count it if it was created.
LEMMA RowMoves ==
    ASSUME ImportInv, run.op \in {"validating", "importing"}, NEW j \in Job, j = run.job,
           NEW p \in Todo, NEW D, D = Todo \/ D = Todo \ {p},
           job' = job, marker' = marker,
           run'.op = run.op, run'.job = j, run'.batch = run.batch, run'.ensured = run.ensured,
           DOMAIN run' = RunFields, DOMAIN run'.doc = JobFields,
           run'.doc.chunk = run.doc.chunk, run'.doc.row = run.doc.row,
           run'.doc.state = run.doc.state, run'.doc.resume = run.doc.resume,
           run'.todo \in [D -> RowStages], \A q \in D : StepOK(q)',
           Busy("validating") =>
               /\ run'.doc.created = 0 /\ \A q \in Through : Valid(j, q)'
               /\ p \notin D => Valid(j, p)',
           Busy("importing") =>
               /\ \A q \in Through : Imported(j, q)' /\ (Creates(j, q)' <=> Creates(j, q))
               /\ p \notin D => Imported(j, p)'
               /\ run'.doc.created = IF p \notin D /\ Creates(j, p)' THEN run.doc.created + 1
                                     ELSE run.doc.created
    PROVE  RunOK'
  <1>1. /\ AtWork /\ RowsOK /\ Through \subseteq Pos(j) /\ p \in run.batch /\ p \notin Through
        /\ p \in Pos(j)
    BY WhereItIs DEF RowsOK, Through
  <1>2. Todo' = D /\ Chunk' = Chunk /\ \A n : Batch(n)' = Batch(n)
    BY DEF Todo, Working, Chunk, Batch
  <1>3. Through' = IF p \in D THEN Through ELSE Through \cup {p}
    <2>1. Through' = Behind(j, run.doc) \cup (run.batch \ D)
      BY <1>2 DEF Through, Behind
    <2> QED
      BY <1>1, <2>1 DEF Through
  <1> DEFINE old == {q \in Through : Creates(j, q)}
             new == {q \in Through : Creates(j, q)}'
  <1>4. Busy("importing") => run'.doc.created = Cardinality(new)
    <2> HAVE Busy("importing")
    <2>1. run.doc.created = Cardinality(old) /\ run.doc.created \in Nat
      BY <1>1 DEF RowsOK, AtWork, DocOK
    <2>2. new = IF p \notin D /\ Creates(j, p)' THEN old \cup {p} ELSE old
      BY <1>1, <1>3
    <2>3. IsFiniteSet(old) /\ p \notin old
      <3>1. old \subseteq Pos(j)
        BY <1>1
      <3> HIDE DEF old
      <3>2. IsFiniteSet(old)
        BY <3>1, FinitelyManyRows, FS_Subset
      <3> QED
        BY <1>1, <3>2 DEF old
    <2> HIDE DEF old, new
    <2>4. Cardinality(old \cup {p}) = Cardinality(old) + 1
      BY <2>3, FS_AddElement
    <2> QED
      BY <2>1, <2>2, <2>4
  <1>5. run'.doc.created \in Nat
    BY <1>1 DEF AtWork, DocOK, Busy
  <1>6. RowsOK'
    <2>1. Todo' \subseteq run'.batch
      BY <1>1, <1>2 DEF RowsOK
    <2>2. Busy("validating")' => run'.doc.created = 0 /\ \A q \in Through' : Valid(j, q)'
      BY <1>3 DEF Busy
    <2>3. Busy("importing")' => \A q \in Through' : Imported(j, q)'
      BY <1>3 DEF Busy
    <2>4. Busy("importing")' => run'.doc.created = Cardinality(new)
      BY <1>4 DEF Busy
    <2> QED
      BY <1>1, <1>2, <2>1, <2>2, <2>3, <2>4 DEF RowsOK, RowStages
  <1>7. AtWork'
    BY <1>1, <1>5, <1>6 DEF AtWork, DocOK, Busy
  <1> QED
    BY <1>7 DEF RunOK, Busy

\* The invocation after row p moved to a stage.
LEMMA RunMoved ==
    ASSUME ImportInv, run.op \in {"validating", "importing"}, NEW p \in Todo,
           NEW stage \in RowStages, run' = Move(p, stage)
    PROVE  /\ DOMAIN run' = RunFields /\ DOMAIN run'.doc = JobFields
           /\ run'.op = run.op /\ run'.job = run.job /\ run'.doc = run.doc
           /\ run'.batch = run.batch /\ run'.ensured = run.ensured
           /\ run'.todo \in [Todo -> RowStages]
           /\ \A q \in Todo : run'.todo[q] = IF q = p THEN stage ELSE run.todo[q]
  <1>1. /\ DOMAIN run = RunFields /\ DOMAIN run.doc = JobFields /\ run.todo \in [Todo -> RowStages]
    BY WhereItIs DEF AtWork, RowsOK, DocOK, RowStages
  <1>2. /\ DOMAIN run' = RunFields /\ DOMAIN run'.doc = JobFields
        /\ run'.op = run.op /\ run'.job = run.job /\ run'.doc = run.doc
        /\ run'.batch = run.batch /\ run'.ensured = run.ensured
        /\ run'.todo = [run.todo EXCEPT ![p] = stage]
    BY <1>1 DEF Move, RunFields
  <1> QED
    BY <1>1, <1>2

\* The invocation after row p was done, before its result is counted.
LEMMA RunDone ==
    ASSUME ImportInv, run.op \in {"validating", "importing"}, NEW p \in Todo
    PROVE  /\ DOMAIN Done(p) = RunFields /\ DOMAIN Done(p).doc = JobFields
           /\ Done(p).op = run.op /\ Done(p).job = run.job /\ Done(p).doc = run.doc
           /\ Done(p).batch = run.batch /\ Done(p).ensured = run.ensured
           /\ Done(p).todo \in [Todo \ {p} -> RowStages]
           /\ \A q \in Todo \ {p} : Done(p).todo[q] = run.todo[q]
  <1>1. /\ DOMAIN run = RunFields /\ DOMAIN run.doc = JobFields /\ run.todo \in [Todo -> RowStages]
    BY WhereItIs DEF AtWork, RowsOK, DocOK, RowStages
  <1>2. /\ DOMAIN Done(p) = RunFields /\ DOMAIN Done(p).doc = JobFields
        /\ Done(p).op = run.op /\ Done(p).job = run.job /\ Done(p).doc = run.doc
        /\ Done(p).batch = run.batch /\ Done(p).ensured = run.ensured
        /\ Done(p).todo = [q \in Todo \ {p} |-> run.todo[q]]
    BY <1>1 DEF Done, Restrict, RunFields
  <1> QED
    BY <1>1, <1>2

-----------------------------------------------------------------------------
(* Validation *)

\* A validation step writes the records of the import at work only.  It keeps
\* what is known of validated rows and every number that is given.
LEMMA ValidationStep ==
    ASSUME ImportInv, Busy("validating"), NEW j \in Job, j = run.job, NEW p \in Todo,
           UNCHANGED <<job, uploaded, source, marker, review, ledger>>,
           DOMAIN seen' = Job, DOMAIN ordinal' = Job, DOMAIN counter' = Job,
           \A i \in Job \ {j} : /\ seen'[i] = seen[i] /\ ordinal'[i] = ordinal[i]
                                /\ counter'[i] = counter[i],
           seen'[j] \in [KeysOf(j) -> Sighting \cup {Absent}],
           ordinal'[j] \in [Pos(j) -> Nat], counter'[j] \in [KeysOf(j) -> Nat],
           \A q \in Pos(j) : /\ Valid(j, q) => Valid(j, q)'
                             /\ ordinal[j][q] # 0 => ordinal'[j][q] = ordinal[j][q],
           NumbersOK(j)',
           \/ run' = Move(p, "numbered") /\ ~Sourced(j, p) /\ ordinal'[j][p] # 0
           \/ run' \in {Done(p), Counted(p)} /\ Valid(j, p)'
    PROVE  ImportInv'
  <1>1. /\ AtWork /\ RowsOK /\ Stage(j) = "validating" /\ Todo \subseteq Pos(j)
        /\ Through \subseteq Pos(j) /\ run.op = "validating"
    BY WhereItIs DEF Busy
  <1>2. StoredTypes'
    BY DEF ImportInv, StoredTypes, DocOK, ledger
  <1>3. ASSUME NEW i \in Job PROVE NumbersOK(i)' /\ JobOK(i)'
    <2>1. CASE i = j
      <3>1. Stage(i) \notin Past
        BY <1>1, <2>1 DEF Past, After
      <3>2. JobOK(i)'
        BY <2>1, <3>1, JobKept DEF ImportInv
      <3> QED
        BY <2>1, <3>2
    <2>2. CASE i # j
      <3>1. NumbersOK(i)'
        BY <2>2 DEF ImportInv, NumbersOK, Valid
      <3>2. \A q \in Pos(i) : /\ Valid(i, q)' <=> Valid(i, q)
                              /\ Imported(i, q)' <=> Imported(i, q)
                              /\ Creates(i, q)' <=> Creates(i, q)
        BY ZenonT(30), <2>2 DEF Valid, Imported, Creates, Identity
      <3>3. LeftBehind(i) \subseteq Pos(i)
        BY DEF LeftBehind, Behind, UpTo
      <3>4. JobOK(i)'
        BY <3>2, <3>3, JobKept DEF ImportInv
      <3> QED
        BY <3>1, <3>4
    <2> QED
      BY <2>1, <2>2
  <1>4. ASSUME NEW t \in Transaction PROVE SourceOK(t)'
    <2>1. SourceOK(t) /\ (source[t] # Absent => source[t].job \in Job \ {j})
      <3>1. SourceOK(t) /\ (source[t] # Absent => source[t].job \in Job)
        BY DEF ImportInv, StoredTypes, Provenance
      <3>2. source[t] # Absent => Stage(source[t].job) # "validating"
        BY <3>1 DEF SourceOK, Past, After
      <3> QED
        BY <1>1, <3>1, <3>2
    <2>2. source[t] # Absent =>
             \A q : Identity(source[t].job, q)' = Identity(source[t].job, q)
      BY <2>1 DEF Identity
    <2> QED
      BY <2>1, <2>2 DEF SourceOK, Stage, ledger
  <1>5. \A a \in Account : MarkerOK(a)'
    BY DEF ImportInv, MarkerOK, Stage
  <1>6. StoreInv'
    BY <1>2, <1>3, <1>4, <1>5 DEF StoreInv
  <1>7. ASSUME NEW q \in Todo PROVE run.todo[q] \in {"start", "numbered"} /\ StepOK(q)
    BY <1>1 DEF RowsOK, StepOK, Busy
  <1>8. \A q \in Through : Valid(j, q)'
    BY <1>1 DEF RowsOK, Busy
  <1>9. run.doc.created = 0 /\ ~Busy("importing")
    BY <1>1 DEF RowsOK, Busy
  <1>10. CASE run' = Move(p, "numbered") /\ ~Sourced(j, p) /\ ordinal'[j][p] # 0
    <2>1. /\ DOMAIN run' = RunFields /\ DOMAIN run'.doc = JobFields
          /\ run'.op = run.op /\ run'.job = j /\ run'.doc = run.doc /\ run'.batch = run.batch
          /\ run'.ensured = run.ensured /\ run'.todo \in [Todo -> RowStages]
          /\ \A q \in Todo : run'.todo[q] = IF q = p THEN "numbered" ELSE run.todo[q]
      <3>1. "numbered" \in RowStages
        BY DEF RowStages
      <3> QED
        BY <1>1, <1>10, <3>1, RunMoved
    <2>2. ASSUME NEW q \in Todo PROVE StepOK(q)'
      <3>1. run'.todo[q] \in {"start", "numbered"}
        BY <1>7, <2>1
      <3>2. run'.todo[q] = "numbered" => ~Sourced(j, q) /\ ordinal'[j][q] # 0
        BY <1>1, <1>7, <1>10, <2>1 DEF StepOK
      <3> QED
        BY <1>1, <2>1, <3>1, <3>2 DEF StepOK, Busy
    <2>3. RunOK'
      BY <1>1, <1>8, <1>9, <2>1, <2>2, RowMoves
    <2> QED
      BY <1>6, <2>3, Parts
  <1>11. CASE run' \in {Done(p), Counted(p)} /\ Valid(j, p)'
    <2>1. /\ DOMAIN run' = RunFields /\ DOMAIN run'.doc = JobFields
          /\ run'.op = run.op /\ run'.job = j /\ run'.doc = run.doc /\ run'.batch = run.batch
          /\ run'.ensured = run.ensured /\ run'.todo \in [Todo \ {p} -> RowStages]
          /\ \A q \in Todo \ {p} : run'.todo[q] = run.todo[q]
      <3>1. /\ DOMAIN Done(p) = RunFields /\ DOMAIN Done(p).doc = JobFields
            /\ Done(p).op = run.op /\ Done(p).job = j /\ Done(p).doc = run.doc
            /\ Done(p).batch = run.batch /\ Done(p).ensured = run.ensured
            /\ Done(p).todo \in [Todo \ {p} -> RowStages]
            /\ \A q \in Todo \ {p} : Done(p).todo[q] = run.todo[q]
        BY <1>1, RunDone
      <3> QED
        BY <1>11, <3>1 DEF Counted, RunFields
    <2>2. ASSUME NEW q \in Todo \ {p} PROVE StepOK(q)'
      <3>1. run'.todo[q] \in {"start", "numbered"}
        BY <1>7, <2>1
      <3>2. run'.todo[q] = "numbered" => ~Sourced(j, q) /\ ordinal'[j][q] # 0
        BY <1>1, <1>7, <2>1 DEF StepOK
      <3> QED
        BY <1>1, <2>1, <3>1, <3>2 DEF StepOK, Busy
    <2>3. RunOK'
      BY <1>1, <1>8, <1>9, <1>11, <2>1, <2>2, RowMoves
    <2> QED
      BY <1>6, <2>3, Parts
  <1> QED
    BY <1>10, <1>11

\* A row with a source id is validated against the record stored first.
LEMMA ValidateSourcedSafe == ASSUME ImportInv, NEW p \in Todo, ValidateSourced(p) PROVE ImportInv'
  <1> PICK j \in Job : j = run.job
    BY DEF ImportInv, RunOK, AtWork, Busy, Working, ValidateSourced
  <1> DEFINE k == RowKey(j, p)
             c == Row(j, p).content
             new == [content |-> c, pos |-> p]
  <1>1. /\ p \in Pos(j) /\ Sourced(j, p) /\ Busy("validating")
        /\ UNCHANGED <<job, uploaded, ordinal, counter, source, marker, review, ledger>>
    BY WhereItIs DEF ValidateSourced, Busy
  <1>2. k \in KeysOf(j) /\ new \in Sighting /\ new # Absent /\ new.content = c
    BY <1>1, KeysArePairs, SentinelAssumption DEF Sighting
  <1>3. /\ DOMAIN seen = Job /\ DOMAIN ordinal = Job /\ DOMAIN counter = Job
        /\ seen[j] \in [KeysOf(j) -> Sighting \cup {Absent}]
        /\ ordinal[j] \in [Pos(j) -> Nat] /\ counter[j] \in [KeysOf(j) -> Nat]
    BY DEF ImportInv, StoredTypes
  <1>4. /\ run' \in {Done(p), Counted(p)}
        /\ \/ seen[j][k] = Absent /\ seen' = [seen EXCEPT ![j][k] = new]
           \/ seen[j][k] # Absent /\ seen[j][k].content = c /\ seen' = seen
    BY DEF ValidateSourced
  <1> HIDE DEF new
  <1>5. /\ DOMAIN seen' = Job /\ seen'[j] \in [KeysOf(j) -> Sighting \cup {Absent}]
        /\ \A i \in Job \ {j} : seen'[i] = seen[i]
        /\ \A l \in KeysOf(j) : seen[j][l] # Absent => seen'[j][l] = seen[j][l]
        /\ seen'[j][k] # Absent /\ seen'[j][k].content = c
    BY <1>2, <1>3, <1>4
  <1>6. \A q \in Pos(j) : Valid(j, q) => Valid(j, q)'
    <2> SUFFICES ASSUME NEW q \in Pos(j), Valid(j, q) PROVE Valid(j, q)'
      OBVIOUS
    <2>1. RowKey(j, q) \in KeysOf(j)
      BY KeysArePairs
    <2> QED
      BY <1>1, <1>5, <2>1 DEF Valid
  <1>7. Valid(j, p)'
    BY <1>1, <1>5 DEF Valid
  <1>8. NumbersOK(j)'
    BY <1>1, <1>6 DEF ImportInv, NumbersOK
  <1> QED
    BY <1>1, <1>3, <1>4, <1>5, <1>6, <1>7, <1>8, ValidationStep

\* A number is given once: the earlier rows of the key are counted, and the
\* later ones have none yet.
LEMMA NumberOccurrenceSafe == ASSUME ImportInv, NEW p \in Todo, NumberOccurrence(p) PROVE ImportInv'
  <1> PICK j \in Job : j = run.job
    BY DEF ImportInv, RunOK, AtWork, Busy, Working, NumberOccurrence
  <1> DEFINE k == RowKey(j, p)
             n == counter[j][k] + 1
  <1>1. /\ p \in Pos(j) /\ ~Sourced(j, p) /\ Busy("validating") /\ Ready(p, "start")
        /\ run' = Move(p, "numbered")
        /\ UNCHANGED <<job, uploaded, seen, counter, source, marker, review, ledger>>
    BY WhereItIs DEF NumberOccurrence, Busy
  <1>2. /\ DOMAIN seen = Job /\ DOMAIN ordinal = Job /\ DOMAIN counter = Job
        /\ seen[j] \in [KeysOf(j) -> Sighting \cup {Absent}]
        /\ ordinal[j] \in [Pos(j) -> Nat] /\ counter[j] \in [KeysOf(j) -> Nat]
        /\ \A q \in Pos(j) : RowKey(j, q) \in KeysOf(j)
    BY KeysArePairs DEF ImportInv, StoredTypes
  <1>3. NumbersOK(j)
    BY DEF ImportInv
  <1>4. CASE ordinal[j][p] # 0
    <2>1. UNCHANGED ordinal
      BY <1>4 DEF NumberOccurrence
    <2>2. \A q \in Pos(j) : Valid(j, q)' <=> Valid(j, q)
      BY <1>1, <2>1 DEF Valid
    <2>3. NumbersOK(j)'
      BY <1>1, <1>3, <2>1, <2>2 DEF NumbersOK
    <2> QED
      BY <1>1, <1>2, <1>4, <2>1, <2>2, <2>3, ValidationStep
  <1>5. CASE ordinal[j][p] = 0
    <2>1. ordinal' = [ordinal EXCEPT ![j][p] = n] /\ n \in Nat \ {0} /\ n > counter[j][k]
      BY <1>1, <1>2, <1>5 DEF NumberOccurrence
    <2>2. /\ DOMAIN ordinal' = Job /\ ordinal'[j] \in [Pos(j) -> Nat] /\ ordinal'[j][p] = n
          /\ \A i \in Job \ {j} : ordinal'[i] = ordinal[i]
          /\ \A q \in Pos(j) \ {p} : ordinal'[j][q] = ordinal[j][q]
      BY <1>1, <1>2, <2>1
    <2>3. ~Valid(j, p)
      BY <1>1, <1>2, <1>5 DEF Valid
    <2>4. \A q \in Pos(j) : Valid(j, q) => Valid(j, q)'
      BY <1>1, <1>2, <2>2, <2>3 DEF Valid
    <2>5. ASSUME NEW q \in Pos(j), Before(q, p), RowKey(j, q) = k PROVE Valid(j, q)
      <3>1. q \in Through
        BY <1>1, <2>5, EarlierIsDone DEF Busy
      <3> QED
        BY <1>1, <3>1, WhereItIs DEF RowsOK, Busy
    <2>6. ASSUME NEW q \in Pos(j) \ {p}, RowKey(j, q) = k PROVE ordinal[j][q] # n
      <3>1. CASE Before(q, p)
        <4>1. Valid(j, q)
          BY <2>5, <2>6, <3>1
        <4>2. Sourced(j, q) => ordinal[j][q] = 0
          BY <1>3 DEF NumbersOK
        <4> QED
          BY <1>2, <2>1, <2>6, <4>1, <4>2 DEF Valid
      <3>2. CASE Before(p, q)
        BY <1>1, <1>3, <2>1, <2>3, <2>6, <3>2 DEF NumbersOK
      <3> QED
        BY <1>1, <2>6, <3>1, <3>2, InOrder
    <2>7. NumbersOK(j)'
      <3>1. ASSUME NEW q \in Pos(j), ordinal'[j][q] # 0
            PROVE  /\ ~Sourced(j, q) /\ ordinal'[j][q] <= counter[j][RowKey(j, q)] + 1
                   /\ \A r \in Pos(j) : Before(r, q) /\ RowKey(j, r) = RowKey(j, q) => Valid(j, r)'
        <4>1. CASE q = p
          BY <1>1, <1>2, <2>2, <2>4, <2>5, <4>1
        <4>2. CASE q # p
          BY <1>3, <2>2, <2>4, <3>1, <4>2 DEF NumbersOK
        <4> QED
          BY <4>1, <4>2
      <3>2. ASSUME NEW q \in Pos(j), NEW r \in Pos(j), q # r, RowKey(j, q) = RowKey(j, r),
                   ordinal'[j][q] # 0
            PROVE  ordinal'[j][q] # ordinal'[j][r]
        <4>1. CASE q = p
          BY <2>2, <2>6, <3>2, <4>1
        <4>2. CASE r = p
          BY <2>2, <2>6, <3>2, <4>2
        <4>3. CASE q # p /\ r # p
          BY <1>3, <2>2, <3>2, <4>3 DEF NumbersOK
        <4> QED
          BY <4>1, <4>2, <4>3
      <3>3. ASSUME NEW l \in KeysOf(j), NEW m \in 1..counter[j][l]
            PROVE  \E q \in Pos(j) : ordinal'[j][q] = m
        <4>1. PICK q \in Pos(j) : ordinal[j][q] = m
          BY <1>3, <3>3 DEF NumbersOK
        <4>2. q # p
          BY <1>2, <1>5, <3>3, <4>1
        <4> QED
          BY <2>2, <4>1, <4>2
      <3> QED
        BY <1>1, <3>1, <3>2, <3>3 DEF NumbersOK
    <2> QED
      BY <1>1, <1>2, <1>5, <2>1, <2>2, <2>4, <2>7, ValidationStep
  <1> QED
    BY <1>4, <1>5

\* The count follows the number it comes from.
LEMMA CountOccurrenceSafe == ASSUME ImportInv, NEW p \in Todo, CountOccurrence(p) PROVE ImportInv'
  <1> PICK j \in Job : j = run.job
    BY DEF ImportInv, RunOK, AtWork, Busy, Working, CountOccurrence
  <1> DEFINE k == RowKey(j, p)
             n == ordinal[j][p]
  <1>1. /\ p \in Pos(j) /\ StepOK(p) /\ run.todo[p] = "numbered" /\ Busy("validating")
        /\ run' = Counted(p)
        /\ UNCHANGED <<job, uploaded, seen, ordinal, source, marker, review, ledger>>
    BY WhereItIs DEF CountOccurrence, Busy, Ready, RowsOK
  <1>2. /\ DOMAIN seen = Job /\ DOMAIN ordinal = Job /\ DOMAIN counter = Job
        /\ seen[j] \in [KeysOf(j) -> Sighting \cup {Absent}]
        /\ ordinal[j] \in [Pos(j) -> Nat] /\ counter[j] \in [KeysOf(j) -> Nat]
        /\ \A q \in Pos(j) : RowKey(j, q) \in KeysOf(j)
    BY KeysArePairs DEF ImportInv, StoredTypes
  <1>3. NumbersOK(j) /\ ~Sourced(j, p) /\ n \in Nat \ {0} /\ n <= counter[j][k] + 1
    BY <1>1, <1>2 DEF ImportInv, StepOK, NumbersOK
  <1>4. counter' = IF counter[j][k] < n THEN [counter EXCEPT ![j][k] = n] ELSE counter
    BY DEF CountOccurrence
  <1>5. /\ DOMAIN counter' = Job /\ counter'[j] \in [KeysOf(j) -> Nat]
        /\ \A i \in Job \ {j} : counter'[i] = counter[i]
        /\ \A l \in KeysOf(j) : /\ counter'[j][l] >= counter[j][l]
                                /\ counter'[j][l] = counter[j][l] \/ (l = k /\ counter'[j][l] = n)
        /\ counter'[j][k] >= n
    BY <1>1, <1>2, <1>3, <1>4
  <1>6. \A q \in Pos(j) : Valid(j, q) => Valid(j, q)'
    BY <1>1, <1>2, <1>5 DEF Valid
  <1>7. Valid(j, p)'
    BY <1>1, <1>2, <1>3, <1>5 DEF Valid
  <1>8. NumbersOK(j)'
    <2>1. ASSUME NEW q \in Pos(j), ordinal[j][q] # 0
          PROVE  /\ ~Sourced(j, q) /\ ordinal[j][q] <= counter'[j][RowKey(j, q)] + 1
                 /\ \A r \in Pos(j) : Before(r, q) /\ RowKey(j, r) = RowKey(j, q) => Valid(j, r)'
      <3>1. /\ ~Sourced(j, q) /\ ordinal[j][q] <= counter[j][RowKey(j, q)] + 1
            /\ \A r \in Pos(j) : Before(r, q) /\ RowKey(j, r) = RowKey(j, q) => Valid(j, r)
        BY <1>3, <2>1 DEF NumbersOK
      <3> QED
        BY <1>2, <1>5, <1>6, <3>1
    <2>2. ASSUME NEW l \in KeysOf(j), NEW m \in 1..counter'[j][l]
          PROVE  \E q \in Pos(j) : ordinal[j][q] = m
      <3>1. m \in 1..counter[j][l] \/ m = n
        BY <1>2, <1>3, <1>5, <2>2
      <3> QED
        BY <1>1, <1>3, <3>1 DEF NumbersOK
    <2> QED
      BY <1>1, <1>3, <2>1, <2>2 DEF NumbersOK
  <1> QED
    BY <1>1, <1>2, <1>5, <1>6, <1>7, <1>8, ValidationStep

-----------------------------------------------------------------------------
(* Importing rows *)

\* What holds of a row an invocation may import.
LEMMA ImportableRow ==
    ASSUME ImportInv, NEW p \in Todo, NEW stage, Importable(p, stage), NEW j \in Job, j = run.job
    PROVE  /\ AtWork /\ RowsOK /\ Stage(j) = "importing" /\ Stage(j) \in Past
           /\ run.op = "importing" /\ run.op \in {"validating", "importing"}
           /\ Busy("importing") /\ ~Busy("validating") /\ StepOK(p)
           /\ run.todo[p] = stage /\ p \in Pos(j) /\ p \notin Through
           /\ Through \subseteq Pos(j) /\ Todo \subseteq Pos(j)
           /\ \A q \in Through : Imported(j, q)
           /\ run.doc.created \in Nat
           /\ Identity(j, p) \in Transaction /\ Identity(j, p)[1] = Row(j, p).account
           /\ Row(j, p).account \in run.ensured
           /\ Sourced(j, p) \/ ordinal[j][p] # 0
  <1>1. /\ AtWork /\ RowsOK /\ Stage(j) = run.op /\ Busy("importing") /\ run.op = "importing"
        /\ p \in Pos(j) /\ Through \subseteq Pos(j) /\ Todo \subseteq Pos(j)
    BY WhereItIs DEF Importable, Busy
  <1>2. Stage(j) \in Past
    BY <1>1 DEF Past
  <1>3. Identity(j, p) \in Transaction /\ Identity(j, p)[1] = Row(j, p).account
    BY <1>1, <1>2, PastIsValid
  <1>4. p \notin Through
    BY <1>1, WhereItIs DEF Through, RowsOK
  <1>5. run.doc.created \in Nat /\ StepOK(p) /\ \A q \in Through : Imported(j, q)
    BY <1>1 DEF AtWork, DocOK, RowsOK
  <1> QED
    BY <1>1, <1>2, <1>3, <1>4, <1>5 DEF Importable, Ready, Busy

\* An intent for the transaction of such a row is of this import.
LEMMA IntentIsOurs ==
    ASSUME ImportInv, NEW p \in Todo, NEW stage, Importable(p, stage), NEW j \in Job, j = run.job,
           source[Identity(j, p)] # Absent, source[Identity(j, p)].state = "intent"
    PROVE  LET s == source[Identity(j, p)]
           IN  s.job = j /\ s.pos \in Pos(j) /\ Identity(j, s.pos) = Identity(j, p)
               /\ s.content = Row(j, s.pos).content /\ s.content = Row(j, p).content
               /\ RowKey(j, s.pos) = RowKey(j, p)
               /\ \A q \in Pos(j) : Before(q, s.pos) => Identity(j, q) # Identity(j, p)
  <1> DEFINE t == Identity(j, p)
             s == source[t]
  <1>1. /\ AtWork /\ Busy("importing") /\ t \in Transaction /\ t[1] \in run.ensured
        /\ Stage(j) \in Past /\ p \in Pos(j)
    BY ImportableRow
  <1>2. SourceOK(t)
    BY <1>1 DEF ImportInv
  <1>3. s.job = j
    BY <1>1, <1>2 DEF SourceOK, AtWork
  <1>4. s.pos \in Pos(j) /\ Identity(j, s.pos) = t /\ s.content = Row(j, s.pos).content
        /\ \A q \in Pos(j) : Before(q, s.pos) => Identity(j, q) # t
    BY <1>2, <1>3 DEF SourceOK
  <1>5. RowKey(j, s.pos) = RowKey(j, p) /\ Row(j, s.pos).content = Row(j, p).content
    BY <1>1, <1>4, OneIdentityOneContent
  <1> QED
    BY <1>3, <1>4, <1>5

\* Row p is done and its result counted.
LEMMA RowDone ==
    ASSUME ImportInv, NEW p \in Todo, NEW stage, Importable(p, stage), NEW j \in Job, j = run.job,
           NEW field \in {"created", "duplicates", "conflicts"}, run' = Result(p, field),
           job' = job, marker' = marker, ordinal' = ordinal,
           \A q \in Todo \ {p} : run.todo[q] \in {"intent", "written"} =>
               /\ source'[Identity(j, q)] = source[Identity(j, q)]
               /\ tx'[Identity(j, q)] = tx[Identity(j, q)],
           \A q \in Through : Imported(j, q)' /\ (Creates(j, q)' <=> Creates(j, q)),
           Imported(j, p)', Creates(j, p)' <=> field = "created"
    PROVE  RunOK'
  <1>1. /\ AtWork /\ RowsOK /\ run.op = "importing" /\ ~Busy("validating")
        /\ run.op \in {"validating", "importing"} /\ run.doc.created \in Nat
        /\ Todo \subseteq Pos(j)
    BY ImportableRow
  <1> DEFINE ended == Done(p)
  <1>2. /\ DOMAIN ended = RunFields /\ DOMAIN ended.doc = JobFields
        /\ ended.op = run.op /\ ended.job = j /\ ended.doc = run.doc
        /\ ended.batch = run.batch /\ ended.ensured = run.ensured
        /\ ended.todo \in [Todo \ {p} -> RowStages]
        /\ \A q \in Todo \ {p} : ended.todo[q] = run.todo[q]
    BY <1>1, RunDone
  <1>3. \/ field = "created" /\ run' = [ended EXCEPT !.doc.created = @ + 1]
        \/ field = "duplicates" /\ run' = [ended EXCEPT !.doc.duplicates = @ + 1]
        \/ field = "conflicts" /\ run' = [ended EXCEPT !.doc.conflicts = @ + 1]
    BY DEF Result
  <1> HIDE DEF ended
  <1>4. /\ DOMAIN run' = RunFields /\ DOMAIN run'.doc = JobFields
        /\ run'.op = run.op /\ run'.job = j /\ run'.batch = run.batch
        /\ run'.ensured = run.ensured /\ run'.todo = ended.todo
        /\ run'.doc.chunk = run.doc.chunk /\ run'.doc.row = run.doc.row
        /\ run'.doc.state = run.doc.state /\ run'.doc.resume = run.doc.resume
        /\ run'.doc.created = IF field = "created" THEN run.doc.created + 1 ELSE run.doc.created
    BY <1>2, <1>3 DEF RunFields, JobFields
  <1>5. ASSUME NEW q \in Todo \ {p} PROVE StepOK(q)'
    <2>1. StepOK(q) /\ run'.todo[q] = run.todo[q] /\ Identity(j, q)' = Identity(j, q)
      BY <1>1, <1>2, <1>4 DEF RowsOK, Identity
    <2> QED
      BY <1>1, <1>4, <2>1 DEF StepOK, Busy
  <1>6. run'.todo \in [Todo \ {p} -> RowStages]
    BY <1>2, <1>4
  <1> QED
    BY <1>1, <1>4, <1>5, <1>6, RowMoves

\* A transaction of other content becomes a review; it was completed before.
LEMMA RowConflictSafe == ASSUME ImportInv, NEW p \in Todo, RowConflict(p) PROVE ImportInv'
  <1> PICK j \in Job : j = run.job
    BY DEF ImportInv, RunOK, AtWork, Busy, Working, RowConflict, Importable
  <1> DEFINE t == Identity(j, p)
             key == <<j, t, Row(j, p).content>>
  <1>1. /\ Importable(p, "start") /\ source[t] # Absent /\ source[t].content # Row(j, p).content
        /\ run' = Result(p, "conflicts")
        /\ UNCHANGED <<job, uploaded, seen, ordinal, counter, source, marker, ledger>>
    BY DEF RowConflict
  <1>2. DOMAIN review' = DOMAIN review \cup {key}
    BY DEF RowConflict
  <1>3. /\ t \in Transaction /\ p \in Pos(j) /\ Through \subseteq Pos(j) /\ Stage(j) \in Past
        /\ \A q \in Through : Imported(j, q)
    BY <1>1, ImportableRow
  <1>4. \A i \in Job : \A q \in Pos(i) : /\ Valid(i, q)' <=> Valid(i, q)
                                         /\ Imported(i, q) => Imported(i, q)'
                                         /\ Creates(i, q)' <=> Creates(i, q)
    BY <1>1, <1>2 DEF Valid, Imported, Creates, Identity
  <1>5. source[t].state = "complete"
    <2>1. source[t].state \in {"intent", "complete"}
      BY <1>1, <1>3 DEF ImportInv, StoredTypes, Provenance
    <2> QED
      BY <1>1, <2>1, IntentIsOurs
  <1>6. Imported(j, p)'
    BY <1>1, <1>2, <1>5 DEF Imported, Identity
  <1>7. ~Creates(j, p)'
    BY <1>1, <1>3 DEF Creates, ImportInv, SourceOK, Identity
  <1>8. StoreInv'
    <2>1. StoredTypes'
      <3>1. \A r \in DOMAIN review' : r[1] \in Job
        BY <1>2 DEF ImportInv, StoredTypes
      <3> QED
        BY <1>1, <3>1 DEF ImportInv, StoredTypes, DocOK, ledger
    <2>2. ASSUME NEW i \in Job PROVE NumbersOK(i)' /\ JobOK(i)'
      <3>1. NumbersOK(i)'
        BY <1>1 DEF ImportInv, NumbersOK, Valid
      <3>2. LeftBehind(i) \subseteq Pos(i)
        BY DEF LeftBehind, Behind, UpTo
      <3>3. JobOK(i)'
        BY <1>1, <1>4, <3>2, JobKept DEF ImportInv
      <3> QED
        BY <3>1, <3>3
    <2>3. \A u \in Transaction : SourceOK(u)'
      BY <1>1 DEF ImportInv, SourceOK, Stage, Identity, ledger
    <2>4. \A a \in Account : MarkerOK(a)'
      BY <1>1 DEF ImportInv, MarkerOK, Stage
    <2> QED
      BY <2>1, <2>2, <2>3, <2>4 DEF StoreInv
  <1>9. RunOK'
    <2>1. \A q \in Through : Imported(j, q)' /\ (Creates(j, q)' <=> Creates(j, q))
      BY <1>3, <1>4
    <2>2. source' = source /\ tx' = tx
      BY <1>1 DEF ledger
    <2> QED
      BY <1>1, <1>6, <1>7, <2>1, <2>2, RowDone
  <1> QED
    BY <1>8, <1>9, Parts

\* A row whose provenance is complete is done already.
LEMMA RowKnownSafe == ASSUME ImportInv, NEW p \in Todo, RowKnown(p) PROVE ImportInv'
  <1> PICK j \in Job : j = run.job
    BY DEF ImportInv, RunOK, AtWork, Busy, Working, RowKnown, Importable
  <1> DEFINE s == source[Identity(j, p)]
  <1>1. /\ Importable(p, "start") /\ s # Absent /\ s.content = Row(j, p).content
        /\ s.state = "complete" /\ UNCHANGED <<imports, ledger>>
        /\ run' = Result(p, IF s.job = j /\ s.pos = p THEN "created" ELSE "duplicates")
    BY DEF RowKnown
  <1>2. StoreInv'
    BY <1>1, ImportsKept, LedgerKept, UploadsKept DEF imports, ledger
  <1>3. /\ p \in Pos(j) /\ Through \subseteq Pos(j) /\ \A q \in Through : Imported(j, q)
    BY <1>1, ImportableRow
  <1>4. \A q \in Pos(j) : /\ Imported(j, q)' <=> Imported(j, q)
                          /\ Creates(j, q)' <=> Creates(j, q)
    BY <1>1, SameKnowledge DEF imports
  <1>5. Imported(j, p) /\ (Creates(j, p) <=> s.job = j /\ s.pos = p)
    BY <1>1 DEF Imported, Creates
  <1> PICK field \in {"created", "duplicates", "conflicts"} :
          run' = Result(p, field) /\ (field = "created" <=> s.job = j /\ s.pos = p)
    BY <1>1
  <1>6. RunOK'
    BY <1>1, <1>3, <1>4, <1>5, RowDone DEF imports, ledger
  <1> QED
    BY <1>2, <1>6, Parts

\* A row moves on to a stage at which its intent is stored.
LEMMA RowGoesOn ==
    ASSUME ImportInv, NEW p \in Todo, NEW stage, Importable(p, stage), NEW j \in Job, j = run.job,
           NEW next \in {"intent", "written"}, run' = Move(p, next),
           job' = job, marker' = marker, ordinal' = ordinal,
           \A q \in Todo \ {p} : StepOK(q) /\ run.todo[q] \in {"intent", "written"} =>
                   /\ source'[Identity(j, q)] = source[Identity(j, q)]
                   /\ tx[Identity(j, q)] # "absent" => tx'[Identity(j, q)] # "absent",
           \A q \in Through : Imported(j, q)' /\ (Creates(j, q)' <=> Creates(j, q)),
           LET s == source'[Identity(j, p)]
           IN  s # Absent /\ s.state = "intent" /\ s.job = j /\ s.pos = p,
           next = "written" => tx'[Identity(j, p)] # "absent"
    PROVE  RunOK'
  <1>1. /\ AtWork /\ RowsOK /\ run.op = "importing" /\ Busy("importing") /\ ~Busy("validating")
        /\ run.op \in {"validating", "importing"} /\ Todo \subseteq Pos(j)
        /\ Sourced(j, p) \/ ordinal[j][p] # 0
    BY ImportableRow
  <1>2. /\ DOMAIN run' = RunFields /\ DOMAIN run'.doc = JobFields
        /\ run'.op = run.op /\ run'.job = j /\ run'.doc = run.doc
        /\ run'.batch = run.batch /\ run'.ensured = run.ensured
        /\ run'.todo \in [Todo -> RowStages]
        /\ \A q \in Todo : run'.todo[q] = IF q = p THEN next ELSE run.todo[q]
    <2>1. next \in RowStages
      BY DEF RowStages
    <2> QED
      BY <1>1, <2>1, RunMoved
  <1>3. ASSUME NEW q \in Todo PROVE StepOK(q)'
    <2>1. StepOK(q) /\ Identity(j, q)' = Identity(j, q)
      BY <1>1 DEF RowsOK, Identity
    <2>2. CASE q = p
      BY <1>1, <1>2, <2>1, <2>2 DEF StepOK, Busy
    <2>3. CASE q # p
      BY <1>1, <1>2, <2>1, <2>3 DEF StepOK, Busy
    <2> QED
      BY <2>2, <2>3
  <1> QED
    BY <1>1, <1>2, <1>3, RowMoves

\* An intent is stored for the first row of a transaction, or found again.
LEMMA RowIntentSafe == ASSUME ImportInv, NEW p \in Todo, RowIntent(p) PROVE ImportInv'
  <1> PICK j \in Job : j = run.job
    BY DEF ImportInv, RunOK, AtWork, Busy, Working, RowIntent, Importable
  <1> DEFINE t == Identity(j, p)
             s == source[t]
             new == [content |-> Row(j, p).content, job |-> j, pos |-> p, state |-> "intent"]
  <1>1. /\ Importable(p, "start") /\ run' = Move(p, "intent")
        /\ UNCHANGED <<job, uploaded, seen, ordinal, counter, marker, review, ledger>>
        /\ \/ s = Absent /\ source' = [source EXCEPT ![t] = new]
           \/ s # Absent /\ s.content = Row(j, p).content /\ s.state = "intent" /\ source' = source
    BY DEF RowIntent
  <1>2. /\ t \in Transaction /\ t[1] \in run.ensured /\ p \in Pos(j) /\ Through \subseteq Pos(j)
        /\ Stage(j) \in Past /\ AtWork /\ Busy("importing") /\ run.op \in {"validating", "importing"}
        /\ \A q \in Through : Imported(j, q)
    BY <1>1, ImportableRow
  <1>3. ASSUME NEW q \in Pos(j), Before(q, p), Identity(j, q) = t
        PROVE  s # Absent /\ s.state = "complete"
    <2>1. RowKey(j, q) = RowKey(j, p)
      BY <1>2, <1>3, OneIdentityOneContent
    <2>2. q \in Through
      BY <1>1, <1>2, <1>3, <2>1, EarlierIsDone DEF Importable
    <2> QED
      BY <1>2, <1>3, <2>2 DEF Imported
  <1>4. CASE s # Absent /\ s.state = "intent" /\ source' = source
    <2>1. /\ s.job = j /\ s.pos \in Pos(j) /\ Identity(j, s.pos) = t
          /\ \A q \in Pos(j) : Before(q, s.pos) => Identity(j, q) # t
      BY <1>1, <1>4, IntentIsOurs
    <2>2. s.pos = p
      BY <1>2, <1>3, <1>4, <2>1, InOrder
    <2>3. StoreInv'
      BY <1>1, <1>4, ImportsKept, LedgerKept, UploadsKept DEF ledger
    <2>4. \A q \in Through : Imported(j, q)' /\ (Creates(j, q)' <=> Creates(j, q))
      BY <1>1, <1>2, <1>4, SameKnowledge
    <2>5. RunOK'
      BY <1>1, <1>4, <2>1, <2>2, <2>4, RowGoesOn DEF ledger
    <2> QED
      BY <2>3, <2>5, Parts
  <1>5. CASE s = Absent /\ source' = [source EXCEPT ![t] = new]
    <2>1. new \in Provenance /\ new # Absent
      BY <1>2, KeysArePairs, SentinelAssumption DEF Provenance
    <2>2. /\ new.content = Row(j, p).content /\ new.job = j /\ new.pos = p /\ new.state = "intent"
      OBVIOUS
    <2> HIDE DEF new
    <2>3. /\ source \in [Transaction -> Provenance \cup {Absent}] /\ source'[t] = new
          /\ \A u : u # t => source'[u] = source[u]
          /\ \A u : source[u] # Absent => source'[u] = source[u]
          /\ source' \in [Transaction -> Provenance \cup {Absent}]
      BY <1>2, <1>5, <2>1 DEF ImportInv, StoredTypes
    <2>4. ASSUME NEW i \in Job, NEW q \in Pos(i)
          PROVE  /\ Valid(i, q)' <=> Valid(i, q)
                 /\ Imported(i, q) => Imported(i, q)'
                 /\ Creates(i, q)' <=> Creates(i, q)
      <3>1. Identity(i, q)' = Identity(i, q)
        BY <1>1 DEF Identity
      <3>2. Valid(i, q)' <=> Valid(i, q)
        BY <1>1 DEF Valid
      <3>3. Imported(i, q) => Imported(i, q)'
        BY <1>1, <2>3, <3>1 DEF Imported
      <3>4. Creates(i, q)' <=> Creates(i, q)
        BY <1>5, <2>2, <2>3, <3>1 DEF Creates
      <3> QED
        BY <3>2, <3>3, <3>4
    <2>5. StoreInv'
      <3>1. StoredTypes'
        BY <1>1, <2>3 DEF ImportInv, StoredTypes, DocOK, ledger
      <3>2. ASSUME NEW i \in Job PROVE NumbersOK(i)' /\ JobOK(i)'
        <4>1. NumbersOK(i)'
          BY <1>1 DEF ImportInv, NumbersOK, Valid
        <4>2. LeftBehind(i) \subseteq Pos(i)
          BY DEF LeftBehind, Behind, UpTo
        <4>3. JobOK(i)'
          BY <1>1, <2>4, <4>2, JobKept DEF ImportInv
        <4> QED
          BY <4>1, <4>3
      <3>3. ASSUME NEW u \in Transaction PROVE SourceOK(u)'
        <4>1. CASE u # t
          <5>1. SourceOK(u) /\ source'[u] = source[u]
            BY <2>3, <4>1 DEF ImportInv
          <5> QED
            BY <1>1, <5>1 DEF SourceOK, Stage, Identity, ledger
        <4>2. CASE u = t
          <5>1. \A q \in Pos(j) : Identity(j, q)' = Identity(j, q)
            BY <1>1 DEF Identity
          <5>2. \A q \in Pos(j) : Before(q, p) => Identity(j, q)' # t
            BY <1>3, <1>5, <5>1
          <5>3. Stage(j)' \in Past
            BY <1>1, <1>2 DEF Stage
          <5>4. /\ t[1] \in Account /\ marker[t[1]] # Absent /\ marker[t[1]].job = j
                /\ marker[t[1]].state # "complete"
            BY <1>2 DEF AtWork
          <5> QED
            BY <1>1, <1>2, <2>2, <2>3, <4>2, <5>1, <5>2, <5>3, <5>4 DEF SourceOK
        <4> QED
          BY <4>1, <4>2
      <3>4. \A a \in Account : MarkerOK(a)'
        BY <1>1 DEF ImportInv, MarkerOK, Stage
      <3> QED
        BY <3>1, <3>2, <3>3, <3>4 DEF StoreInv
    <2>6. \A q \in Through : Imported(j, q)' /\ (Creates(j, q)' <=> Creates(j, q))
      BY <1>2, <2>4
    <2>7. \A q \in Todo \ {p} : StepOK(q) /\ run.todo[q] \in {"intent", "written"} =>
              source'[Identity(j, q)] = source[Identity(j, q)]
      BY <2>3 DEF StepOK
    <2>8. RunOK'
      BY <1>1, <2>1, <2>2, <2>3, <2>6, <2>7, RowGoesOn DEF ledger
    <2> QED
      BY <2>5, <2>8, Parts
  <1> QED
    BY <1>1, <1>4, <1>5

\* The transaction is written under its intent.
LEMMA RowWriteSafe == ASSUME ImportInv, NEW p \in Todo, RowWrite(p) PROVE ImportInv'
  <1> PICK j \in Job : j = run.job
    BY DEF ImportInv, RunOK, AtWork, Busy, Working, RowWrite, Importable
  <1> DEFINE t == Identity(j, p)
  <1>1. /\ Importable(p, "intent") /\ run' = Move(p, "written") /\ UNCHANGED <<imports, account>>
        /\ tx' = [tx EXCEPT ![t] = "intact"]
    BY DEF RowWrite
  <1>2. /\ t \in Transaction /\ Through \subseteq Pos(j) /\ \A q \in Through : Imported(j, q)
        /\ StepOK(p) /\ run.todo[p] = "intent" /\ Todo \subseteq Pos(j) /\ Stage(j) \in Past
    BY <1>1, ImportableRow
  <1>3. LedgerMoves /\ tx'[t] = "intact"
    BY <1>1, <1>2 DEF LedgerMoves, ImportInv, StoredTypes
  <1>4. StoreInv'
    BY <1>1, <1>3, ImportsKept, UploadsKept DEF imports
  <1>5. \A q \in Through : Imported(j, q)' /\ (Creates(j, q)' <=> Creates(j, q))
    BY <1>1, <1>2, SameKnowledge DEF imports
  <1>6. \A q \in Todo : Identity(j, q) \in Transaction
    BY <1>2, PastIsValid
  <1>7. RunOK'
    BY <1>1, <1>2, <1>3, <1>5, <1>6, RowGoesOn DEF imports, LedgerMoves, StepOK
  <1> QED
    BY <1>4, <1>7, Parts

\* The provenance is completed: from now on this row is one that was created.
LEMMA RowCompleteSafe == ASSUME ImportInv, NEW p \in Todo, RowComplete(p) PROVE ImportInv'
  <1> PICK j \in Job : j = run.job
    BY DEF ImportInv, RunOK, AtWork, Busy, Working, RowComplete, Importable
  <1> DEFINE t == Identity(j, p)
             s == source[t]
             new == [s EXCEPT !.state = "complete"]
  <1>1. /\ Importable(p, "written") /\ run' = Result(p, "created")
        /\ UNCHANGED <<job, uploaded, seen, ordinal, counter, marker, review, ledger>>
        /\ source' = [source EXCEPT ![t].state = "complete"]
    BY DEF RowComplete
  <1>2. /\ t \in Transaction /\ p \in Pos(j) /\ Through \subseteq Pos(j) /\ p \notin Through
        /\ Todo \subseteq Pos(j) /\ RowsOK
        /\ Stage(j) \in Past /\ \A q \in Through : Imported(j, q)
        /\ StepOK(p) /\ run.todo[p] = "written"
    BY <1>1, ImportableRow
  <1>3. s # Absent /\ s.state = "intent" /\ s.job = j /\ s.pos = p /\ tx[t] # "absent"
    BY <1>2 DEF StepOK
  <1>4. /\ source \in [Transaction -> Provenance \cup {Absent}] /\ s \in Provenance
        /\ SourceOK(t)
    BY <1>2, <1>3 DEF ImportInv, StoredTypes
  <1>5. /\ source' = [source EXCEPT ![t] = new] /\ new \in Provenance /\ new # Absent
        /\ new.content = s.content /\ new.job = j /\ new.pos = p /\ new.state = "complete"
    BY <1>1, <1>2, <1>3, <1>4, SentinelAssumption DEF Provenance
  <1> HIDE DEF new
  <1>6. /\ source'[t] = new /\ \A u : u # t => source'[u] = source[u]
        /\ source' \in [Transaction -> Provenance \cup {Absent}]
    BY <1>2, <1>4, <1>5
  <1>7. ASSUME NEW i \in Job, NEW q \in Pos(i)
        PROVE  /\ Identity(i, q)' = Identity(i, q)
               /\ Valid(i, q)' <=> Valid(i, q)
               /\ Imported(i, q) => Imported(i, q)'
               /\ i # j \/ q # p => (Creates(i, q)' <=> Creates(i, q))
    <2>1. Identity(i, q)' = Identity(i, q)
      BY <1>1 DEF Identity
    <2>2. Valid(i, q)' <=> Valid(i, q)
      BY <1>1 DEF Valid
    <2>3. Imported(i, q) => Imported(i, q)'
      BY <1>1, <1>3, <1>6, <2>1 DEF Imported
    <2>4. i # j \/ q # p => (Creates(i, q)' <=> Creates(i, q))
      BY <1>3, <1>5, <1>6, <2>1 DEF Creates
    <2> QED
      BY <2>1, <2>2, <2>3, <2>4
  <1>8. ~Imported(j, p)
    BY <1>3 DEF Imported
  <1>9. StoreInv'
    <2>1. StoredTypes'
      BY <1>1, <1>6 DEF ImportInv, StoredTypes, DocOK, ledger
    <2>2. ASSUME NEW i \in Job PROVE NumbersOK(i)' /\ JobOK(i)'
      <3>1. NumbersOK(i)'
        BY <1>1 DEF ImportInv, NumbersOK, Valid
      <3>2. LeftBehind(i) \subseteq Pos(i) /\ JobOK(i)
        BY DEF LeftBehind, Behind, UpTo, ImportInv
      <3>3. Stage(i) \in Past => \A q \in LeftBehind(i) : i # j \/ q # p
        BY <1>8, <3>2 DEF JobOK
      <3>4. JobOK(i)'
        BY <1>1, <1>7, <3>2, <3>3, JobKept
      <3> QED
        BY <3>1, <3>4
    <2>3. ASSUME NEW u \in Transaction PROVE SourceOK(u)'
      <3>1. CASE u # t
        <4>1. SourceOK(u) /\ source'[u] = source[u]
          BY <1>6, <3>1 DEF ImportInv
        <4> QED
          BY <1>1, <4>1 DEF SourceOK, Stage, Identity, ledger
      <3>2. CASE u = t
        <4>1. \A q \in Pos(j) : Identity(j, q)' = Identity(j, q)
          BY <1>7
        <4>2. Stage(j)' = Stage(j) /\ tx' = tx
          BY <1>1 DEF Stage, ledger
        <4> QED
          BY <1>2, <1>3, <1>4, <1>5, <1>6, <3>2, <4>1, <4>2 DEF SourceOK
      <3> QED
        BY <3>1, <3>2
    <2>4. \A a \in Account : MarkerOK(a)'
      BY <1>1 DEF ImportInv, MarkerOK, Stage
    <2> QED
      BY <2>1, <2>2, <2>3, <2>4 DEF StoreInv
  <1>10. Imported(j, p)' /\ Creates(j, p)'
    <2>1. s.content = Row(j, p).content
      BY <1>3, <1>4 DEF SourceOK
    <2>2. Identity(j, p)' = t
      BY <1>2, <1>7
    <2> QED
      BY <1>5, <1>6, <2>1, <2>2 DEF Imported, Creates
  <1>11. \A q \in Through : Imported(j, q)' /\ (Creates(j, q)' <=> Creates(j, q))
    BY <1>2, <1>7
  <1>12. \A q \in Todo \ {p} : run.todo[q] \in {"intent", "written"} =>
             source'[Identity(j, q)] = source[Identity(j, q)]
    BY <1>2, <1>3, <1>6 DEF RowsOK, StepOK
  <1>13. RunOK'
    BY <1>1, <1>10, <1>11, <1>12, RowDone DEF ledger
  <1> QED
    BY <1>9, <1>13, Parts

-----------------------------------------------------------------------------
(* The theorems *)

\* Before the first import nothing is known of any row.
LEMMA InitEstablishes == Init => ImportInv
  <1> SUFFICES ASSUME Init PROVE ImportInv
    OBVIOUS
  <1>1. ASSUME NEW j \in Job
        PROVE  /\ DOMAIN job[j] = JobFields /\ job[j].state = "absent" /\ job[j].resume = "absent"
               /\ job[j].chunk = 1 /\ job[j].row = 0 /\ job[j].created = 0
    BY DEF Init, NewJob, JobFields
  <1>2. StoredTypes
    <2>1. ASSUME NEW j \in Job
          PROVE  /\ DocOK(j, job[j]) /\ job[j].state \in Phase
                 /\ job[j].resume \in Phase \ {"cancelled"}
                 /\ uploaded[j] \subseteq 1..Len(Chunks[j])
                 /\ seen[j] \in [KeysOf(j) -> Sighting \cup {Absent}]
                 /\ ordinal[j] \in [Pos(j) -> Nat] /\ counter[j] \in [KeysOf(j) -> Nat]
      <3>1. DocOK(j, job[j]) /\ job[j].state \in Phase /\ job[j].resume \in Phase \ {"cancelled"}
        BY <1>1 DEF DocOK, Phase
      <3>2. /\ uploaded[j] = {} /\ seen[j] = [k \in KeysOf(j) |-> Absent]
            /\ ordinal[j] = [p \in Pos(j) |-> 0] /\ counter[j] = [k \in KeysOf(j) |-> 0]
        BY DEF Init
      <3> QED
        BY <3>1, <3>2
    <2>2. /\ source = [t \in Transaction |-> Absent] /\ tx = [t \in Transaction |-> "absent"]
          /\ review = <<>> /\ marker = [a \in Account |-> Absent]
      BY DEF Init
    <2>3. DOMAIN review = {}
      BY <2>2
    <2> QED
      BY <2>1, <2>2, <2>3 DEF Init, StoredTypes
  <1>3. ASSUME NEW j \in Job PROVE NumbersOK(j) /\ JobOK(j)
    <2>1. /\ ordinal[j] = [p \in Pos(j) |-> 0] /\ counter[j] = [k \in KeysOf(j) |-> 0]
      BY DEF Init
    <2>2. NumbersOK(j)
      BY <2>1 DEF NumbersOK
    <2>3. JobOK(j)
      BY <1>1 DEF JobOK, Stage, Past, After
    <2> QED
      BY <2>2, <2>3
  <1>4. \A t \in Transaction : SourceOK(t)
    BY DEF Init, SourceOK
  <1>5. \A a \in Account : MarkerOK(a)
    BY DEF Init, MarkerOK
  <1>6. RunOK
    BY DEF Init, RunOK, Idle, Busy, Working
  <1> QED
    BY <1>2, <1>3, <1>4, <1>5, <1>6 DEF ImportInv

\* Every step keeps the invariant, wherever an invocation stops.
LEMMA NextSafe == ImportInv /\ [Next]_vars => ImportInv'
  <1> SUFFICES ASSUME ImportInv, [Next]_vars PROVE ImportInv'
    OBVIOUS
  <1>1. CASE UNCHANGED vars
    <2>1. UNCHANGED <<imports, ledger, run>>
      BY <1>1 DEF vars
    <2>2. StoreInv'
      BY <2>1, ImportsKept, LedgerKept, UploadsKept DEF imports, ledger
    <2>3. run.op \in {"validating", "importing"} => RowsOK'
      BY <2>1, RowsKept, LedgerKept DEF imports, ledger
    <2>4. RunOK'
      BY <2>1, <2>3 DEF ImportInv, RunOK, AtWork, imports, Busy
    <2> QED
      BY <2>2, <2>4, Parts
  <1>2. ASSUME NEW j \in Job, Start(j) \/ Seal(j) \/ Cancel(j) \/ Resume(j) \/ BeginPhase(j)
        PROVE  ImportInv'
    BY <1>2, StartAndSealSafe, CancelAndResumeSafe, BeginPhaseSafe
  <1>3. ASSUME NEW j \in Job, NEW c \in 1..Len(Chunks[j]), Upload(j, c) PROVE ImportInv'
    BY <1>3, UploadSafe
  <1>4. ASSUME NEW r \in DOMAIN review, KeepReview(r) PROVE ImportInv'
    BY <1>4, KeepReviewSafe
  <1>5. CASE OpenBatch \/ CloseBatch \/ SavePhase \/ SaveReconcile \/ KeepJob \/ Refuse
    BY <1>5, OpenBatchSafe, CloseBatchSafe, SavePhaseSafe, SaveReconcileSafe, KeepJobSafe, LeaveSafe
  <1>6. ASSUME NEW p \in Todo, ValidateSourced(p) \/ NumberOccurrence(p) \/ CountOccurrence(p)
        PROVE  ImportInv'
    BY <1>6, ValidateSourcedSafe, NumberOccurrenceSafe, CountOccurrenceSafe
  <1>7. ASSUME NEW p \in Todo,
               RowConflict(p) \/ RowKnown(p) \/ RowIntent(p) \/ RowWrite(p) \/ RowComplete(p)
        PROVE  ImportInv'
    BY <1>7, RowConflictSafe, RowKnownSafe, RowIntentSafe, RowWriteSafe, RowCompleteSafe
  <1>8. ASSUME NEW a \in Account,
               EnsureMarker(a) \/ EnsureAccount(a) \/ SumAccount(a) \/ ReconcileAccount(a)
        PROVE  ImportInv'
    BY <1>8, EnsureMarkerSafe, EnsureAccountSafe, SumAccountSafe, ReconcileAccountSafe
  <1>9. CASE Advance
    BY <1>5, <1>6, <1>7, <1>8, <1>9 DEF Advance
  <1>10. CASE Stop \/ Edit
    BY <1>10, LeaveSafe, EditSafe
  <1>11. CASE Rested
    BY <1>1, <1>11 DEF Rested
  <1> QED
    BY <1>1, <1>2, <1>3, <1>4, <1>9, <1>10, <1>11 DEF Next

\* What an import has left behind, in its document and in the copy an
\* invocation works on, is validated, and imported where it says so
\* (monarch-import.ts, advance and importRow).
THEOREM Invariance == Spec => []ImportInv
  <1>1. Init => ImportInv
    BY InitEstablishes
  <1>2. ImportInv /\ [Next]_vars => ImportInv'
    BY NextSafe
  <1> QED
    BY <1>1, <1>2, PTL DEF Spec

\* An import that has left its rows behind has lost none: each is completed
\* provenance of a booked transaction, or its other content is in a review.
THEOREM RowsAreNotLost == Spec => []NoRowLost
  <1>1. ImportInv => NoRowLost
    <2> SUFFICES ASSUME ImportInv, NEW j \in Job,
                        job[j].state \in {"reconciling", "needs-review", "complete"}, NEW p \in Pos(j)
                 PROVE  LET t == Identity(j, p)
                        IN  /\ source[t] # Absent /\ source[t].state = "complete" /\ tx[t] # "absent"
                            /\ source[t].content # Row(j, p).content
                                   => <<j, t, Row(j, p).content>> \in DOMAIN review
      BY DEF NoRowLost
    <2>1. Stage(j) \in After /\ Stage(j) \in Past
      BY DEF Stage, Past, After
    <2>2. Imported(j, p)
      BY <2>1 DEF ImportInv, JobOK, LeftBehind, After
    <2>3. SourceOK(Identity(j, p))
      BY <2>1, PastIsValid DEF ImportInv
    <2> QED
      BY <2>2, <2>3 DEF Imported, SourceOK
  <1> QED
    BY <1>1, Invariance, PTL

\* The counter of created rows agrees with the provenance that names this
\* import and the row's position, whatever batches were written and not saved.
THEOREM CountersAreTrue == Spec => []CountersMatchEvidence
  <1>1. ImportInv => CountersMatchEvidence
    <2> SUFFICES ASSUME ImportInv, NEW j \in Job,
                        job[j].state \in {"importing", "reconciling", "needs-review", "complete"}
                 PROVE  job[j].created = Cardinality({p \in Passed(j) :
                            LET s == source[Identity(j, p)]
                            IN  s # Absent /\ s.job = j /\ s.pos = p /\ s.state = "complete"})
      BY DEF CountersMatchEvidence
    <2>1. Stage(j) = job[j].state /\ Stage(j) \in Past
      BY DEF Stage, Past, After
    <2>2. LeftBehind(j) = Passed(j)
      <3>1. CASE job[j].state = "importing"
        BY <2>1, <3>1 DEF LeftBehind, Behind, UpTo, Passed
      <3>2. CASE job[j].state # "importing"
        BY <2>1, <3>2 DEF LeftBehind, Passed, After
      <3> QED
        BY <3>1, <3>2
    <2>3. job[j].created = Cardinality({p \in Passed(j) : Creates(j, p)})
      BY <2>1, <2>2 DEF ImportInv, JobOK
    <2> QED
      BY <2>3 DEF Creates
  <1> QED
    BY <1>1, Invariance, PTL
=============================================================================
