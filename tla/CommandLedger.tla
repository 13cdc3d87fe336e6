---------------------------- MODULE CommandLedger ----------------------------
(***************************************************************************)
(* What the portfolio promises to a client that submits commands: a        *)
(* journal to which a command identity is added at most once, and answers  *)
(* that quote the version at which exactly that request was added.  Heads, *)
(* staging, retries and jobs do not appear here; PortfolioRepository and   *)
(* PublishingJobs are shown to implement this module.                      *)
(***************************************************************************)
EXTENDS Naturals, Sequences

CONSTANTS
    Entry,      \* journal entries, records with at least the fields id and hash
    Initial     \* the journal accepted before the system starts

VARIABLES
    ledger,     \* the journal, entry number = version
    answers     \* everything ever told to a caller: [id, hash, version]

ledgerVars == <<ledger, answers>>

LedgerInit ==
    /\ ledger = Initial
    /\ answers = {}

AnswerFor(e, v) == [id |-> e.id, hash |-> e.hash, version |-> v]

\* A new identity enters the journal; its caller may or may not hear of it.
Commit(e) ==
    /\ \A v \in 1..Len(ledger) : ledger[v].id # e.id
    /\ ledger' = Append(ledger, e)
    /\ answers' \in {answers, answers \cup {AnswerFor(e, Len(ledger) + 1)}}

\* A caller is given the version at which its request was accepted.
Answer(v) ==
    /\ answers' = answers \cup {AnswerFor(ledger[v], v)}
    /\ UNCHANGED ledger

LedgerNext ==
    \/ \E e \in Entry : Commit(e)
    \/ \E v \in 1..Len(ledger) : Answer(v)

LedgerSpec == LedgerInit /\ [][LedgerNext]_ledgerVars
=============================================================================
