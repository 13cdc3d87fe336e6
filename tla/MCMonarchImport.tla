--------------------------- MODULE MCMonarchImport ---------------------------
(***************************************************************************)
(* Two exports of one household.  The first has two accounts, a source id  *)
(* that is repeated and two identical rows of an old kind; the second      *)
(* repeats a row with another content, dated after the evidence.           *)
(***************************************************************************)
EXTENDS MonarchImport, TLC

SourceRow(a, id, key, content, amount, early) ==
    [account |-> a, id |-> id, key |-> key, content |-> content,
     amount |-> amount, early |-> early]
Coffee(content) == SourceRow("card", "id1", "coffee", content, 5, content = "old")
Lunch == SourceRow("cash", NoSourceId, "lunch", "lunch", 3, TRUE)

MCAccounts == [j \in Job |-> IF j = "first" THEN <<"card", "cash">> ELSE <<"card">>]
MCChunks == [j \in Job |-> IF j = "first" THEN <<<<Coffee("old"), Lunch>>, <<Lunch, Coffee("old")>>>>
                                          ELSE <<<<Coffee("new")>>>>]
MCEvidence == [j \in Job |-> [a \in Range(MCAccounts[j]) |->
                  IF j = "second" THEN NoEvidence ELSE IF a = "card" THEN 20 ELSE 9]]
=============================================================================
