----------------------------- MODULE MCBankSync -----------------------------
(***************************************************************************)
(* Two provider entries an earlier version left in review, of which one    *)
(* sync redoes one, and one imported transaction that fits either; the     *)
(* second amount fits none.                                                *)
(***************************************************************************)
EXTENDS BankSync

Money5(day) == [amount |-> 5, date |-> day]
MCHistory == [t \in Imported |-> Money5(2)]
MCBankMoney == {Money5(1), [amount |-> 7, date |-> 1]}
MCFirstMoney == Money5(1)
MCMemberMoney == {[amount |-> 9, date |-> 1]}
MCScore == [e \in Entry |-> [t \in Imported |-> 1]]
=============================================================================
