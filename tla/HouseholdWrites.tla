---------------------------- MODULE HouseholdWrites ----------------------------
(***************************************************************************)
(* The writes of a browser (src/data/writes.ts): every call reads what it  *)
(* needs, refuses or decides its writes, and then changes one document     *)
(* after the other.  Nothing holds the documents of a call together: two   *)
(* calls may overlap, and the tab may be closed between any two writes.    *)
(* A write is applied to the document as it is by then; one to a deleted   *)
(* document changes nothing.                                               *)
(*                                                                         *)
(* A document is a record with a "kind"; None is one that is not written   *)
(* yet, Gone one that is deleted.  A budget is the pair of what it is for  *)
(* and its month, which is its id.  The documents of one query are written *)
(* in any order, while the code takes them as the query returns them.      *)
(***************************************************************************)
EXTENDS Integers, Sequences, SequencesExt

CONSTANTS
    Documents,      \* per id: the document of the opening state, or None
    Budgets,        \* the budgets of the opening state
    Months,
    Drafts,         \* per unwritten id: the documents a member may enter
    Patches,        \* what a member may change in a transaction
    Slot, MaxCalls, \* calls at a time, and in all
    None, Gone

VARIABLES
    doc, budget,
    writing,    \* per slot: the call under way
    entered,    \* calls begun so far
    contested,  \* entries a call removed or regrouped while another was under way
    outdated    \* transactions whose splits were rewritten from an older reading

writesVars == <<doc, budget, writing, entered, contested, outdated>>

\* What a call does in turn; "update" takes its transactions one by one.
StepsWith(deleting, merging) ==
    [update |-> <<"revise">>, create |-> <<"insert">>, import |-> <<"batch", "rows">>,
     markRecurring |-> <<"recurrence", "transaction">>, delete |-> <<"remove">>,
     setBudget |-> <<"book">>, copyBudgets |-> <<"copy">>, deleteBudget |-> <<"remove">>,
     updateCategory |-> <<"patch">>, updateGroup |-> <<"patch">>, deleteGroup |-> <<"remove">>,
     deleteCategory |-> deleting, mergeMerchants |-> merging]

\* Mutant: what is removed goes first.
StepsEntryFirst == StepsWith(<<"check", "entry", "transactions", "rules", "budgets">>,
                             <<"check", "entry", "transactions", "recurrences", "rules">>)

Steps == StepsWith(<<"check", "transactions", "rules", "budgets", "entry">>,
                   <<"check", "transactions", "recurrences", "rules", "entry">>)

NoCall == [op |-> "none", todo |-> {}]
Live(id) == doc[id] \notin {None, Gone}
Of(kind) == {id \in DOMAIN doc : Live(id) /\ doc[id].kind = kind}

\* The fields that name an entry and are rewritten when it goes, and those that
\* no call rewrites: the category a rule asks for and the one a recurrence was
\* marked with.  Tags, goals and accounts are left out.
Naming == {"category", "merchant", "batch", "recurrence", "setCategory", "setMerchant",
           "matchMerchant", "parent", "splits"}
LeftAlone == {"matchCategory", "usualCategory"}
Names(d, f) == IF f = "splits" THEN {p.category : p \in ToSet(d.splits)} ELSE {d[f]}
Named(d) == (UNION {Names(d, f) : f \in Naming \cap DOMAIN d}) \ {None}
Where(d, id) == {f \in Naming \cap DOMAIN d : id \in Names(d, f)}
Mentioned(d) == Named(d) \cup ({d[f] : f \in LeftAlone \cap DOMAIN d} \ {None})
OnScreen(d) == \A id \in Mentioned(d) : Live(id)

\* The documents there are.  An id keeps its kind.
KindOf == [id \in DOMAIN Documents |->
              IF Documents[id] # None THEN Documents[id].kind ELSE (CHOOSE d \in Drafts[id] : TRUE).kind]
Ids(kind) == {id \in DOMAIN Documents : KindOf[id] = kind}
Ref(kind) == Ids(kind) \cup {None}
CategoryKind == {"expense", "income", "transfer"}
Share == [category : Ref("category"), amount : Int]
Kinds == {"transaction", "rule", "recurrence", "category", "group", "merchant", "batch"}
Document(kind) ==
    CASE kind = "transaction" ->
            [kind : {kind}, amount : Int, splits : Seq(Share), category : Ref("category"),
             merchant : Ref("merchant"), batch : Ref("batch"), recurrence : Ref("recurrence")]
      [] kind = "rule" -> [kind : {kind}, setCategory : Ref("category"), setMerchant : Ref("merchant"),
                           matchMerchant : Ref("merchant"), matchCategory : Ref("category")]
      [] kind = "recurrence" -> [kind : {kind}, merchant : Ref("merchant"), usualCategory : Ref("category")]
      [] kind = "category" -> [kind : {kind}, parent : Ref("group"), categoryKind : CategoryKind]
      [] kind = "group" -> [kind : {kind}, categoryKind : CategoryKind]
      [] OTHER -> [kind : {kind}]

Init ==
    /\ doc = Documents /\ budget = Budgets
    /\ writing = [s \in Slot |-> NoCall] /\ entered = 0
    /\ contested = {} /\ outdated = {}

-----------------------------------------------------------------------------
(* The steps of a call *)

\* A patch says which fields get which values; the other fields stay.
Patched(d, patch) ==
    [f \in DOMAIN d \cup DOMAIN patch |-> IF f \in DOMAIN patch THEN patch[f] ELSE d[f]]

Change(id, fields) == [do |-> "set", id |-> id, set |-> fields, seen |-> None]
New(id, d) == [do |-> "insert", id |-> id, new |-> d]
Erase(id) == [do |-> "erase", id |-> id]
Book(c, m) == [do |-> "book", budget |-> <<c, m>>]
Unbook(b) == [do |-> "unbook", budget |-> b]

Busy(s) == writing[s] # NoCall
End(s) == writing' = [writing EXCEPT ![s] = NoCall]
Ready(s, op, step) ==
    /\ Busy(s) /\ writing[s].op = op /\ writing[s].todo = {}
    /\ writing[s].phase <= Len(Steps[op]) /\ Steps[op][writing[s].phase] = step
Plan(s, writes) ==
    /\ writing' = [writing EXCEPT ![s].phase = @ + 1, ![s].todo = writes]
    /\ UNCHANGED <<doc, budget, entered, contested, outdated>>
PlanIf(s, accepted, writes) ==
    IF accepted THEN Plan(s, writes) ELSE End(s) /\ UNCHANGED <<doc, budget, entered, contested, outdated>>

\* The entry a call removes, regroups or gives another kind.
Reshaped(k) == IF k.op \in {"deleteCategory", "mergeMerchants", "deleteGroup", "updateGroup", "updateCategory"}
               THEN {k.id} ELSE {}

\* The entries it may still write down from what it has read or was given.
MayName(k) ==
    CASE k.op \in {"delete", "deleteBudget", "deleteGroup", "updateGroup"} -> {}
      [] k.op = "deleteCategory" -> Of("category")
      [] k.op = "mergeMerchants" -> {k.arg}
      [] OTHER -> DOMAIN doc

Start(s, op, id, arg) ==
    LET k == [op |-> op, id |-> id, arg |-> arg, phase |-> 1, todo |-> {}]
        others == {writing[x] : x \in {y \in Slot \ {s} : Busy(y)}}
        clashes(x, y) == Reshaped(x) \cap MayName(y)
    IN  /\ writing' = [writing EXCEPT ![s] = k] /\ entered' = entered + 1
        /\ contested' = contested \cup UNION {clashes(k, x) \cup clashes(x, k) : x \in others}
        /\ UNCHANGED <<doc, budget, outdated>>

Free(s) == ~Busy(s) /\ entered < MaxCalls

\* Ids are random, so no two calls take the same one.
Taken(k) == {k.id} \cup (IF k.op = "import" THEN {r[1] : r \in k.arg} ELSE {})
Unwritten(id) == doc[id] = None /\ \A s \in Slot : Busy(s) => id \notin Taken(writing[s])

Splitting(t) == [amount |-> doc[t].amount, splits |-> doc[t].splits]

WriteDocument(w) ==
    /\ doc' = [doc EXCEPT ![w.id] =
                  CASE w.do = "insert" -> w.new
                    [] w.do = "set" -> IF @ = Gone THEN Gone ELSE Patched(@, w.set)
                    [] w.do = "erase" -> Gone]
    /\ UNCHANGED budget

WriteBudget(w) ==
    /\ budget' = IF w.do = "book" THEN budget \cup {w.budget} ELSE budget \ {w.budget}
    /\ UNCHANGED doc

\* A document that is there already stops the call.
Write(s, w) ==
    /\ w \in writing[s].todo
    /\ IF w.do \in {"book", "unbook"} THEN WriteBudget(w) ELSE WriteDocument(w)
    /\ IF w.do = "book" /\ w.budget \in budget THEN End(s)
       ELSE writing' = [writing EXCEPT ![s].todo = @ \ {w}]
    /\ outdated' = IF w.do = "set" /\ w.seen # None /\ doc[w.id] # Gone /\ w.seen # Splitting(w.id)
                   THEN outdated \cup {w.id} ELSE outdated
    /\ UNCHANGED <<entered, contested>>

-----------------------------------------------------------------------------
(* Transactions *)

Total(splits) == SumFunction([i \in DOMAIN splits |-> splits[i].amount])
SplitsFit(t) == t.splits = <<>> \/ Total(t.splits) = t.amount

Optional == {"category", "merchant", "batch", "recurrence"}

\* Mutant: what the member changed is stored, not what was validated.
StoredPatch(merged, patch) == patch

\* All the validated fields are stored, an empty one if the patch names it.
Stored(merged, patch) ==
    [f \in {"amount", "splits"} \cup {g \in Optional : merged[g] # None \/ g \in DOMAIN patch}
        |-> merged[f]]

\* updateTransaction and bulkPatchTransactions, setMerchant: one after the other.
Update(s) ==
    /\ \E ids \in (SUBSET Of("transaction")) \ {{}}, p \in Patches :
          OnScreen(p) /\ Start(s, "update", None, [ids |-> ids, patch |-> p])

ReviseNext(s) ==
    LET ids == writing[s].arg.ids  patch == writing[s].arg.patch
    IN  /\ Ready(s, "update", "revise")
        /\ \/ ids = {} /\ End(s)
           \/ \E t \in ids :
              LET merged == Patched(doc[t], patch)
              IN  IF ~Live(t) THEN writing' = [writing EXCEPT ![s].arg.ids = ids \ {t}]
                     ELSE IF ~SplitsFit(merged) THEN End(s)
                     ELSE writing' = [writing EXCEPT ![s].arg.ids = ids \ {t},
                                                     ![s].todo = {Change(t, Stored(merged, patch))}]
        /\ UNCHANGED <<doc, budget, entered, contested, outdated>>

Create(s) ==
    \E id \in DOMAIN Drafts : \E d \in Drafts[id] :
        Unwritten(id) /\ OnScreen(d) /\ Start(s, "create", id, d)

\* A category enters only a group of its own kind.
GroupFits(d) == "parent" \in DOMAIN d /\ d.parent # None =>
                    Live(d.parent) /\ doc[d.parent].categoryKind = d.categoryKind

InsertNew(s) ==
    /\ Ready(s, "create", "insert")
    /\ LET d == writing[s].arg
       IN  PlanIf(s, GroupFits(d) /\ (d.kind = "transaction" => SplitsFit(d)), {New(writing[s].id, d)})

Rows == UNION {{<<t, r>> : r \in {d \in Drafts[t] : d.kind = "transaction" /\ d.splits = <<>>}}
               : t \in DOMAIN Drafts}

\* importTransactions: the batch first, then the rows that name it.
Import(s) ==
    \E id \in DOMAIN Drafts : \E d \in Drafts[id] :
        /\ d.kind = "batch" /\ Unwritten(id)
        /\ \E rows \in SUBSET {e \in Rows : Unwritten(e[1]) /\ OnScreen(e[2])} :
              (\A e, f \in rows : e[1] = f[1] => e = f) /\ Start(s, "import", id, rows)
InsertBatch(s) ==
    Ready(s, "import", "batch") /\ Plan(s, {New(writing[s].id, [kind |-> "batch"])})
InsertRows(s) ==
    /\ Ready(s, "import", "rows")
    /\ LET batch == writing[s].id
       IN  Plan(s, {New(r[1], [r[2] EXCEPT !.batch = batch]) : r \in writing[s].arg})

\* markRecurring: the recurrence with what the transaction says, then the
\* transaction that points at it.
MarkRecurring(s) ==
    \E t \in Of("transaction"), id \in DOMAIN Drafts : \E d \in Drafts[id] :
        /\ d.kind = "recurrence" /\ Unwritten(id)
        /\ Start(s, "markRecurring", id, [tx |-> t, merchant |-> doc[t].merchant, category |-> doc[t].category])
InsertRecurrence(s) ==
    /\ Ready(s, "markRecurring", "recurrence")
    /\ LET said == writing[s].arg
       IN  Plan(s, {New(writing[s].id, [kind |-> "recurrence", merchant |-> said.merchant,
                                        usualCategory |-> said.category])})
PointAtRecurrence(s) ==
    /\ Ready(s, "markRecurring", "transaction")
    /\ LET t == writing[s].arg.tx IN PlanIf(s, Live(t), {Change(t, [recurrence |-> writing[s].id])})

Delete(s) == \E id \in Of("transaction") \cup Of("rule") : Start(s, "delete", id, None)
RemoveIt(s) == Ready(s, "delete", "remove") /\ PlanIf(s, Live(writing[s].id), {Erase(writing[s].id)})

-----------------------------------------------------------------------------
(* Budgets, of a category or of a group as a whole *)

SetBudget(s) ==
    \E c \in Of("category") \cup Of("group"), m \in Months : Start(s, "setBudget", c, m)
BookIt(s) ==
    /\ Ready(s, "setBudget", "book")
    /\ LET c == writing[s].id  m == writing[s].arg
       IN  Plan(s, IF <<c, m>> \in budget THEN {} ELSE {Book(c, m)})

CopyBudgets(s) == \E from, to \in Months : from # to /\ Start(s, "copyBudgets", None, <<from, to>>)
CopyMissing(s) ==
    /\ Ready(s, "copyBudgets", "copy")
    /\ LET from == writing[s].arg[1]  to == writing[s].arg[2]
       IN  Plan(s, {Book(b[1], to) : b \in {x \in budget : x[2] = from /\ <<x[1], to>> \notin budget}})

DeleteBudget(s) == \E b \in budget : Start(s, "deleteBudget", None, b)
UnbookIt(s) ==
    /\ Ready(s, "deleteBudget", "remove")
    /\ LET b == writing[s].arg IN PlanIf(s, b \in budget, {Unbook(b)})

-----------------------------------------------------------------------------
(* Groups and categories *)

Members(g) == {c \in Of("category") : doc[c].parent = g}

UpdateCategory(s) ==
    \E c \in Of("category") :
       \/ \E g \in Of("group") \cup {None} : Start(s, "updateCategory", c, [parent |-> g])
       \/ \E k \in CategoryKind : Start(s, "updateCategory", c, [categoryKind |-> k])
Recategorize(s) ==
    /\ Ready(s, "updateCategory", "patch")
    /\ LET c == writing[s].id  patch == writing[s].arg
       IN  PlanIf(s, Live(c) /\ GroupFits(Patched(doc[c], patch)), {Change(c, patch)})

UpdateGroup(s) == \E g \in Of("group"), k \in CategoryKind : Start(s, "updateGroup", g, k)
Regroup(s) ==
    /\ Ready(s, "updateGroup", "patch")
    /\ LET g == writing[s].id  k == writing[s].arg
       IN  PlanIf(s, Live(g) /\ (doc[g].categoryKind = k \/ Members(g) = {}), {Change(g, [categoryKind |-> k])})

DeleteGroup(s) == \E g \in Of("group") : Start(s, "deleteGroup", g, None)
RemoveGroup(s) ==
    /\ Ready(s, "deleteGroup", "remove")
    /\ LET g == writing[s].id IN PlanIf(s, Live(g) /\ Members(g) = {}, {Erase(g)})

\* deleteCategory: transactions, rules and budgets first, the category last.
DeleteCategory(s) ==
    \E c \in Of("category"), into \in Of("category") \cup {None} :
        into # c /\ Start(s, "deleteCategory", c, into)
CheckCategories(s) ==
    /\ Ready(s, "deleteCategory", "check")
    /\ LET into == writing[s].arg IN PlanIf(s, Live(writing[s].id) /\ (into # None => Live(into)), {})

\* Every document of the kind that names the entry names the other one
\* instead; the splits of a transaction are written as a whole.
Replaced(d, f, id, into) ==
    IF f = "splits"
    THEN [i \in DOMAIN d.splits |->
             [d.splits[i] EXCEPT !.category = IF @ = id THEN into ELSE @]]
    ELSE into
Renaming(x, id, into) ==
    LET fields == Where(doc[x], id)
    IN  [Change(x, [f \in fields |-> Replaced(doc[x], f, id, into)])
            EXCEPT !.seen = IF "splits" \in fields THEN Splitting(x) ELSE None]
Rename(s, kind) ==
    LET id == writing[s].id  into == writing[s].arg
    IN  Plan(s, {Renaming(x, id, into) : x \in {y \in Of(kind) : Where(doc[y], id) # {}}})

MoveTransactions(s) == Ready(s, "deleteCategory", "transactions") /\ Rename(s, "transaction")
MoveRules(s) == Ready(s, "deleteCategory", "rules") /\ Rename(s, "rule")
DropBudgets(s) ==
    /\ Ready(s, "deleteCategory", "budgets")
    /\ Plan(s, {Unbook(b) : b \in {x \in budget : x[1] = writing[s].id}})

\* mergeMerchants: everything that named the loser, then the loser.
MergeMerchants(s) ==
    \E loser, winner \in Of("merchant") : loser # winner /\ Start(s, "mergeMerchants", loser, winner)
CheckMerchants(s) ==
    Ready(s, "mergeMerchants", "check") /\ PlanIf(s, Live(writing[s].id) /\ Live(writing[s].arg), {})
RenameTransactions(s) == Ready(s, "mergeMerchants", "transactions") /\ Rename(s, "transaction")
RenameRecurrences(s) == Ready(s, "mergeMerchants", "recurrences") /\ Rename(s, "recurrence")
RenameRules(s) == Ready(s, "mergeMerchants", "rules") /\ Rename(s, "rule")

\* The last step of both.
RemoveEntry(s) ==
    \E op \in {"deleteCategory", "mergeMerchants"} :
        Ready(s, op, "entry") /\ PlanIf(s, Live(writing[s].id), {Erase(writing[s].id)})

-----------------------------------------------------------------------------
(* A call that has done everything, and a tab that is closed in the middle *)

Return(s) ==
    /\ Busy(s) /\ writing[s].todo = {} /\ writing[s].phase > Len(Steps[writing[s].op]) /\ End(s)
    /\ UNCHANGED <<doc, budget, entered, contested, outdated>>
Close(s) ==
    Busy(s) /\ End(s) /\ UNCHANGED <<doc, budget, entered, contested, outdated>>

Enter(s) ==
    \/ Update(s) \/ Create(s) \/ Import(s) \/ MarkRecurring(s) \/ Delete(s)
    \/ SetBudget(s) \/ CopyBudgets(s) \/ DeleteBudget(s)
    \/ UpdateCategory(s) \/ UpdateGroup(s) \/ DeleteGroup(s)
    \/ DeleteCategory(s) \/ MergeMerchants(s)

Continue(s) ==
    \/ ReviseNext(s) \/ InsertNew(s) \/ InsertBatch(s) \/ InsertRows(s)
    \/ InsertRecurrence(s) \/ PointAtRecurrence(s) \/ RemoveIt(s)
    \/ BookIt(s) \/ CopyMissing(s) \/ UnbookIt(s)
    \/ Recategorize(s) \/ Regroup(s) \/ RemoveGroup(s)
    \/ CheckCategories(s) \/ MoveTransactions(s) \/ MoveRules(s) \/ DropBudgets(s)
    \/ CheckMerchants(s) \/ RenameTransactions(s) \/ RenameRecurrences(s) \/ RenameRules(s)
    \/ RemoveEntry(s)
    \/ \E w \in writing[s].todo : Write(s, w)
    \/ Return(s) \/ Close(s)

Next == \E s \in Slot : (Free(s) /\ Enter(s)) \/ (Busy(s) /\ Continue(s))

Spec == Init /\ [][Next]_writesVars

Blank == [kind |-> "transaction", amount |-> 0, splits |-> <<>>, category |-> None,
          merchant |-> None, batch |-> None, recurrence |-> None]

\* A household in use: its documents name documents of the right kind that are
\* there, its splits add up, and what a member may enter is of that form.
InUse ==
    /\ Documents = [id \in DOMAIN Documents |-> Documents[id]]
    /\ None \notin DOMAIN Documents /\ None # Gone
    /\ None \notin [amount : Int, splits : Seq(Share)]
    /\ \A k \in Kinds : None \notin Document(k) /\ Gone \notin Document(k)
    /\ DOMAIN Drafts = {id \in DOMAIN Documents : Documents[id] = None}
    /\ \A id \in DOMAIN Documents \ DOMAIN Drafts :
          LET d == Documents[id]
          IN  /\ KindOf[id] \in Kinds /\ d \in Document(KindOf[id])
              /\ \A named \in Mentioned(d) : Documents[named] # None
              /\ d.kind = "transaction" => SplitsFit(d)
              /\ d.kind = "category" /\ d.parent # None =>
                    Documents[d.parent].categoryKind = d.categoryKind
    /\ \A id \in DOMAIN Drafts : \A d \in Drafts[id] :
          KindOf[id] \in Kinds /\ d \in Document(KindOf[id])
    /\ \A b \in Budgets : b[1] \in Ids("category") \cup Ids("group") /\ Documents[b[1]] # None
    /\ \A p \in Patches : /\ DOMAIN p \subseteq {"amount", "splits"} \cup Optional
                          /\ Patched(Blank, p) \in Document("transaction")

-----------------------------------------------------------------------------
(* Properties *)

\* What the calls rewrite names nothing that is gone, wherever the calls before
\* stopped: the categories, splits, merchant, batch and recurrence of a
\* transaction, what a rule sets and the merchant it asks for, the merchant of a
\* recurrence, the group of a category and the budgets of a category; and a
\* category is in a group of its own kind.  It does not say so of the fields in
\* LeftAlone nor of the budget of a group, which the calls leave behind.
\* Entries that were removed or regrouped while another call was under way are
\* not looked at: nothing protects them (writes.ts:1119-1125, 1215-1219).
ReferencesResolve ==
    /\ \A id \in {x \in DOMAIN doc : Live(x)} :
          /\ \A named \in Named(doc[id]) \ contested : Live(named)
          /\ "parent" \in DOMAIN doc[id] /\ {id, doc[id].parent} \cap contested = {} => GroupFits(doc[id])
    /\ \A b \in budget : KindOf[b[1]] = "category" => b[1] \in contested \/ Live(b[1])

\* deleteCategory promises it of every field: "Everything that named it ... is
\* rewritten first, so nothing is left pointing at a category that no longer
\* exists" (writes.ts:1119-1125).
NothingPointsAtTheDeleted ==
    /\ \A id \in {x \in DOMAIN doc : Live(x)} :
          \A named \in Mentioned(doc[id]) : KindOf[named] = "category" => Live(named)
    /\ \A b \in budget : KindOf[b[1]] = "category" => Live(b[1])

\* The splits of a transaction add up to its amount whatever calls overlap,
\* unless deleteCategory rewrote them from an older reading (writes.ts:1338-1347).
SplitsAddUp == \A t \in Of("transaction") \ outdated : SplitsFit(doc[t])
=============================================================================
