---------------------------- MODULE MCInstitutions ----------------------------
(***************************************************************************)
(* Two accounts kept by an institution, one of which the initial state     *)
(* picks.                                                                  *)
(*                                                                         *)
(* "bank": the instance of MCBankSync, with bounds of its own.             *)
(*                                                                         *)
(* "broker": options rolled twice within the days that are read again;     *)
(* shares, assignments and a split, posted up to two days late; or lots    *)
(* closed by hand from two devices.                                        *)
(***************************************************************************)
EXTENDS MCBankSync

VARIABLES
    part,
    mode, rows, watermark, day, activities, lots, units, splitOn, reported, twice,
    multiplied, syncs, view, doubtful

brokerVars == <<mode, rows, watermark, day, activities, lots, units, splitOn, reported,
                twice, multiplied, syncs, view, doubtful>>

Broker == INSTANCE Portfolio WITH
    feed <- activities, None <- Absent,
    Code <- {[exp |-> 4, strike |-> 4], [exp |-> 4, strike |-> 12]},
    Ratio <- 2, Device <- {"phone", "laptop"},
    Bound <- [options |-> [overlap |-> 2, late |-> 1, days |-> 5, trades |-> 5, syncs |-> 3],
              shares |-> [overlap |-> 2, late |-> 2, days |-> 3, trades |-> 3, syncs |-> 2],
              hand |-> [overlap |-> 0, late |-> 0, days |-> 2, trades |-> 2, syncs |-> 0]]

BothInit ==
    /\ part \in {"bank", "broker"} /\ Init /\ Broker!Init
    /\ part = "bank" => mode = "hand"
BothNext ==
    \/ part = "bank" /\ Next /\ UNCHANGED <<part, brokerVars>>
    \/ part = "broker" /\ Broker!Next /\ UNCHANGED <<part, vars>>
BothSpec ==
    /\ BothInit /\ [][BothNext]_<<part, vars, brokerVars>>
    /\ WF_vars(part = "bank" /\ Step) /\ WF_vars(part = "bank" /\ BeginSync)
    /\ WF_vars(part = "bank" /\ NextDay)

-----------------------------------------------------------------------------
\* The money of the transactions is the broker's, with two exceptions (Portfolio).
MoneyMatchesBroker == Broker!MoneyMatchesBroker

\* The open positions are the broker's, with its exceptions (Portfolio).
PositionsMatchBroker == Broker!PositionsMatchBroker

\* Closed contracts come to nothing (Portfolio).
ClosedLotsBalance == Broker!ClosedLotsBalance
=============================================================================
