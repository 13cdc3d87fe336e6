------------------------------- MODULE Portfolio -------------------------------
(***************************************************************************)
(* The portfolio rules of the investment domain for one account and one    *)
(* underlying: the broker synchronization (repository_snaptrade.rs with    *)
(* roll_detect.rs, roll_apply.rs and repository_ingest.rs), the status     *)
(* rules of core/src/broker.rs, and the option operations of a member      *)
(* (core/src/option_ops.rs).                                               *)
(*                                                                         *)
(* In a linked account the broker trades and posts the activities of a day *)
(* some days late; a synchronization reads some days again.  In a "hand"   *)
(* account two devices close lots they have seen some time ago.            *)
(*                                                                         *)
(* One contract counts 1 and not 100 shares; a code is its expiration and  *)
(* strike; the price of a leg is its cost over its quantity.  A plan that  *)
(* is published is one step: PortfolioRepository commits it atomically.    *)
(***************************************************************************)
EXTENDS Integers, Sequences, FiniteSets, SequencesExt, TLC

CONSTANTS
    None,
    Code,           \* the contracts on offer, [exp, strike], whose strikes the
    Ratio,          \* ratio of the split divides
    Device,
    Bound           \* per kind of account, "options", "shares" or "hand": the
                    \* days a synchronization goes back, 7 in the code, and
                    \* how many days, trades and synchronizations there are

VARIABLES
    mode,               \* the kind of account
    rows,               \* the transactions, in the order of their ids
    watermark,          \* last_synced_date
    day,
    feed,               \* the broker's activities
    lots, units,        \* what the broker holds: contracts per code, shares
    splitOn,            \* the day of the split
    reported,           \* what the last synchronization was told: the shares
                        \* and the split
    twice,              \* the legs, transactions already, of the rolls written
                        \* since the account was last replaced
    multiplied,         \* the contracts with a lot adjusted for the split that
                        \* were synchronized again
    syncs,
    view,               \* per device: the lot on display
    doubtful            \* codes closed by a quantity that was not the lot's

vars == <<mode, rows, watermark, day, feed, lots, units, splitOn, reported,
          twice, multiplied, syncs, view, doubtful>>

AfterSplit(c) == [c EXCEPT !.strike = @ \div Ratio]
AllCode == Code \cup {AfterSplit(c) : c \in Code}

\* A linked account trades options, or mostly shares.
Linked == mode \in {"options", "shares"}
\* The option reconstruct_rolls; the daily synchronization sets it.
Reconstruct == mode = "options"

Abs(n) == IF n < 0 THEN -n ELSE n
Indices(s) == [i \in 1..Len(s) |-> i]
Pick(s, chosen) ==
    LET at == SelectSeq(Indices(s), LAMBDA i : i \in chosen)
    IN  [n \in 1..Len(at) |-> s[at[n]]]
Total(s, Value(_), Test(_)) ==
    MapThenSumSet(LAMBDA n : Value(s[n]), {n \in 1..Len(s) : Test(s[n])})
Cost(x) == x.cost
Quantity(x) == x.q

\* A normalized leg, and the row it becomes.
Leg(kind, code, date, q, cost) ==
    [kind |-> kind, code |-> code, date |-> date, q |-> q, cost |-> cost]
Row(leg, open, source) ==
    [kind |-> leg.kind, code |-> leg.code, date |-> leg.date, q |-> leg.q, cost |-> leg.cost,
     open |-> open, source |-> source]
LegOf(row) == Leg(row.kind, row.code, row.date, row.q, row.cost)

\* signed_quantity() and reconciliation_delta(): what a row adds to a position.
Shares(row) ==
    CASE row.kind \in {"Buy", "Buy to cover", "Assigned"} -> Abs(row.q)
      [] row.kind \in {"Sell", "Sell short", "Sell extended", "Extended"} -> -Abs(row.q)
      [] row.kind \in {"Split", "Reverse split"} -> row.q
      [] OTHER -> 0

-----------------------------------------------------------------------------
(* The plan of a synchronization *)

\* detect_rolls(): a cover and a sale of the same day and size, of two codes,
\* the one that expires latest.
Openers(batch, i, used) ==
    {k \in 1..Len(batch) \ used :
        /\ batch[k].kind = "Sell short" /\ batch[k].code \notin {None, batch[i].code}
        /\ batch[k].date = batch[i].date /\ Abs(batch[k].q) = Abs(batch[i].q)
        /\ batch[k].code.exp >= batch[i].code.exp}
LatestOpener(batch, openers) ==
    CHOOSE k \in openers : \A other \in openers :
        \/ batch[k].code.exp > batch[other].code.exp
        \/ batch[k].code.exp = batch[other].code.exp /\ k <= other
DetectRolls(batch) ==
    FoldLeft(LAMBDA rolls, i :
        LET openers == Openers(batch, i, {rolls[n].open : n \in 1..Len(rolls)})
        IN  IF openers # {}
            THEN Append(rolls, [close |-> i, open |-> LatestOpener(batch, openers)])
            ELSE rolls,
        <<>>, SelectSeq(Indices(batch), LAMBDA i : /\ batch[i].kind = "Buy to cover"
                                                   /\ batch[i].code # None))

\* The open lots: those of the rows, and what the batch sells and no row has.
OpenKey(base, c, date) ==
    \E n \in 1..Len(base) : base[n].open /\ base[n].code = c /\ base[n].date = date
Genesis(base, batch, rolls) ==
    Pick(batch, {i \in 1..Len(batch) :
        /\ batch[i].kind = "Sell short" /\ batch[i].code # None
        /\ \A n \in 1..Len(rolls) : rolls[n].open # i
        /\ ~OpenKey(base, batch[i].code, batch[i].date)})
AddLot(open, c, q, cost, date) ==
    IF c \notin DOMAIN open
    THEN (c :> [q |-> q, cost |-> cost, date |-> date, ambiguous |-> FALSE]) @@ open
    ELSE IF open[c].date = date /\ ~open[c].ambiguous
    THEN [open EXCEPT ![c].q = @ + q, ![c].cost = @ + cost]
    ELSE [open EXCEPT ![c].ambiguous = TRUE]
OpenLots(base, batch, rolls) ==
    FoldLeft(LAMBDA open, x : AddLot(open, x.code, x.q, x.cost, x.date),
             << >>,
             SelectSeq(base, LAMBDA row : row.open /\ row.code # None)
                 \o Genesis(base, batch, rolls))

\* plan_rolls(): a roll whose lot is known and whole becomes Extended and Sell
\* extended; any other stays two raw legs.
PlanRoll(plan, batch, roll) ==
    LET close == batch[roll.close]
        open == batch[roll.open]
        size == Abs(close.q)
        lot == plan.lots[close.code]
        sale == lot.cost + close.cost + open.cost
    IN  IF /\ close.code \in DOMAIN plan.lots
           /\ ~lot.ambiguous /\ lot.q = -size
        THEN [lots |-> AddLot([c \in DOMAIN plan.lots \ {close.code} |-> plan.lots[c]],
                              open.code, -size, sale, close.date),
              rolls |-> Append(plan.rolls,
                          [lotDate |-> lot.date, legs |-> <<close, open>>,
                           extended |-> Leg("Extended", close.code, close.date, size, -lot.cost),
                           sold |-> Leg("Sell extended", open.code, close.date, -size, sale)]),
              used |-> plan.used \cup {roll.close, roll.open}]
        ELSE plan
PlanRolls(base, batch, rolls) ==
    FoldLeft(LAMBDA plan, roll : PlanRoll(plan, batch, roll),
             [lots |-> OpenLots(base, batch, rolls), rolls |-> <<>>, used |-> {}],
             SortSeq(rolls, LAMBDA a, b :
                 \/ batch[a.close].date < batch[b.close].date
                 \/ batch[a.close].date = batch[b.close].date /\ a.close < b.close))

\* The legs of a roll that is recorded already, and cannot be paired again.
RecordedLeg(base, leg) ==
    \E n \in 1..Len(base) :
        /\ base[n].code = leg.code /\ base[n].date = leg.date /\ base[n].q = leg.q
        /\ \/ leg.kind = "Sell short" /\ base[n].kind = "Sell extended"
           \/ leg.kind = "Buy to cover" /\ base[n].kind = "Extended"
RawLegsOf(base, roll) ==
    SelectSeq(roll.legs, LAMBDA leg : \E n \in 1..Len(base) : LegOf(base[n]) = leg)
\* Mutant: legs no plan uses are imported, recorded as a roll or not.
PlainLegsAll(base, batch, used) == Pick(batch, 1..Len(batch) \ used)

PlainLegs(base, batch, used) ==
    Pick(batch, {i \in 1..Len(batch) \ used :
        batch[i].code = None \/ ~RecordedLeg(base, batch[i])})

\* ingest(): of equal legs as many as are missing.
Missing(base, legs) ==
    {i \in 1..Len(legs) :
        Cardinality({k \in 1..i : legs[k] = legs[i]})
            > Cardinality({n \in 1..Len(base) : LegOf(base[n]) = legs[i]})}
Ingest(base, legs) ==
    LET new == Pick(legs, Missing(base, legs))
    IN  base \o [n \in 1..Len(new) |-> Row(new[n], TRUE, "snaptrade")]

\* The planned rolls that the rows before the import do not hold.
RollRecorded(base, roll) ==
    \E n \in 1..Len(base) : /\ base[n].kind = "Sell extended" /\ base[n].code = roll.sold.code
                            /\ base[n].date = roll.sold.date
\* Mutant: the lot that is rolled stays open.
ApplyRollLeavingLot(base, roll) ==
    base \o <<Row(roll.extended, FALSE, "snaptrade"), Row(roll.sold, TRUE, "snaptrade")>>

ApplyRoll(base, roll) ==
    [n \in 1..Len(base) |->
        IF base[n].code = roll.extended.code /\ base[n].date = roll.lotDate
        THEN [base[n] EXCEPT !.open = FALSE] ELSE base[n]]
    \o <<Row(roll.extended, FALSE, "snaptrade"), Row(roll.sold, TRUE, "snaptrade")>>
ApplyRolls(base, rolls) == FoldLeft(LAMBDA now, roll : ApplyRoll(now, roll), base, rolls)

\* Open lots the split fell into: more contracts of a lower strike.
Straddles(row) == /\ row.open /\ row.code # None
                  /\ splitOn # None /\ splitOn > row.date /\ splitOn <= row.code.exp
AdjustSplits(base) ==
    [n \in 1..Len(base) |->
        IF Straddles(base[n])
        THEN [base[n] EXCEPT !.q = @ * Ratio, !.code.strike = @ \div Ratio] ELSE base[n]]
\* The contracts of which an earlier synchronization adjusted a lot.
Adjusted(base) ==
    {c \in Code : \E n \in 1..Len(base) : /\ base[n].code = AfterSplit(c)
                                          /\ splitOn # None /\ base[n].date < splitOn}

\* reconcile(): the shares the activities do not explain, as one row.
Reconcile(base) ==
    LET kept == SelectSeq(base, LAMBDA row : row.source # "reconcile")
        delta == units - Total(kept, Shares, LAMBDA row : row.code = None)
    IN  IF delta = 0 THEN kept
        ELSE Append(kept, Row(Leg(IF delta > 0 THEN "Split" ELSE "Reverse split", None, day,
                                  delta, 0), TRUE, "reconcile"))

\* The rows of a group, by date and then id.
InGroup(base, c) ==
    SortSeq(SelectSeq(Indices(base), LAMBDA n : base[n].code = c),
            LAMBDA a, b : base[a].date < base[b].date \/ (base[a].date = base[b].date /\ a < b))

\* flat_lot_ids(): the groups that come to nothing, and what has expired.
Moves(row, net) ==
    CASE row.kind \in {"Buy", "Buy to cover", "Extended"} -> Abs(row.q)
      [] row.kind \in {"Sell", "Sell short", "Sell extended"} -> -Abs(row.q)
      [] row.kind \in {"Expired", "Assigned"} -> IF net > 0 THEN -Abs(row.q) ELSE Abs(row.q)
      [] row.kind \in {"Split", "Reverse split"} -> row.q
      [] OTHER -> 0
IsFlat(base, c) ==
    FoldLeft(LAMBDA net, n : net + Moves(base[n], net), 0, InGroup(base, c)) = 0
Expired(row) == row.code # None /\ row.code.exp < day

\* historical_stock_ids(): shares are open from the last moment none was held.
LastFlat(base) ==
    FoldLeft(LAMBDA now, n :
                 LET net == now.net + Shares(base[n])
                 IN  [net |-> net, upTo |-> IF net = 0 THEN now.seen \cup {n} ELSE now.upTo,
                      seen |-> now.seen \cup {n}],
             [net |-> 0, upTo |-> {}, seen |-> {}], InGroup(base, None)).upTo
Classify(base) ==
    LET before == LastFlat(base)
        flat == {c \in {base[n].code : n \in 1..Len(base)} \ {None} : IsFlat(base, c)}
    IN  [n \in 1..Len(base) |->
            [base[n] EXCEPT !.open =
                IF base[n].code = None THEN n \notin before
                ELSE @ /\ base[n].code \notin flat /\ ~Expired(base[n])]]

\* snaptrade_capture.rs: the first day that is read again.
StartDate(replace) ==
    IF replace THEN 0
    ELSE IF watermark # None THEN watermark - Bound[mode].overlap
    ELSE IF rows = <<>> THEN 0
    ELSE 1 + Max({rows[n].date : n \in 1..Len(rows)})
Batch(replace) ==
    LET read == SelectSeq(feed, LAMBDA act : act.posted <= day /\ act.leg.date >= StartDate(replace))
    IN  [n \in 1..Len(read) |-> read[n].leg]
AfterImport(base, batch) ==
    LET plan == PlanRolls(base, batch, IF Reconstruct THEN DetectRolls(batch) ELSE <<>>)
        rolls == SelectSeq(plan.rolls, LAMBDA roll : ~RollRecorded(base, roll))
    IN  [rows |-> ApplyRolls(Ingest(base, PlainLegs(base, batch, plan.used)), rolls),
         again |-> FoldLeft(LAMBDA legs, roll : legs \o RawLegsOf(base, roll), <<>>, rolls)]

\* snaptrade(): one published plan.
Sync(replace) ==
    /\ Linked /\ syncs < Bound[mode].syncs
    /\ \A n \in 1..Len(feed) : feed[n].leg.date < day
    /\ replace => mode = "shares" /\ Batch(replace) # <<>>
    /\ LET imported == AfterImport(IF replace THEN <<>> ELSE rows, Batch(replace))
       IN  /\ rows' = Classify(Reconcile(AdjustSplits(imported.rows)))
           /\ twice' = (IF replace THEN <<>> ELSE twice) \o imported.again
    /\ multiplied' = IF replace THEN {} ELSE multiplied \cup Adjusted(rows)
    /\ watermark' = day /\ reported' = [units |-> units, splitOn |-> splitOn]
    /\ syncs' = syncs + 1
    /\ UNCHANGED <<mode, day, feed, lots, units, splitOn, view, doubtful>>

-----------------------------------------------------------------------------
(* The broker: trades, and the day their activities are posted *)

Shorted(c) == lots[c] < 0
OnOffer(c) == c \in (IF splitOn = None THEN Code ELSE AllCode \ Code) /\ day <= c.exp

\* The activities of a day are posted together, on a later day and in order.
PostedOn ==
    IF feed = <<>> THEN (day + 1)..(day + Bound[mode].late)
    ELSE LET last == feed[Len(feed)]
         IN  IF last.leg.date = day THEN {last.posted}
             ELSE {d \in (day + 1)..(day + Bound[mode].late) : d >= last.posted}
Activities(legs) ==
    /\ Linked /\ Len(feed) + Len(legs) <= Bound[mode].trades
    /\ \E posted \in PostedOn :
          feed' = feed \o [n \in 1..Len(legs) |-> [leg |-> legs[n], posted |-> posted]]
    /\ UNCHANGED <<mode, rows, watermark, day, splitOn, reported, twice,
                   multiplied, syncs, view, doubtful>>

\* No contract is sold and covered on one day; what is covered comes first.
Today(kind, c) ==
    \E n \in 1..Len(feed) : feed[n].leg.date = day /\ feed[n].leg.kind = kind /\ feed[n].leg.code = c
SoldToday == \E n \in 1..Len(feed) : feed[n].leg.date = day /\ feed[n].leg.kind = "Sell short"

SellToOpen(c) ==
    /\ OnOffer(c) /\ ~Today("Buy to cover", c)
    /\ Activities(<<Leg("Sell short", c, day, -1, -3)>>)
    /\ lots' = [lots EXCEPT ![c] = @ - 1] /\ UNCHANGED units
Cover(c, q) ==
    /\ Shorted(c) /\ q <= Abs(lots[c]) /\ day <= c.exp /\ ~SoldToday /\ ~Today("Buy to cover", c)
    /\ Activities(<<Leg("Buy to cover", c, day, q, q)>>)
    /\ lots' = [lots EXCEPT ![c] = @ + q] /\ UNCHANGED units
Expire(c) ==
    /\ Shorted(c) /\ day >= c.exp /\ ~SoldToday
    /\ Activities(<<Leg("Expired", c, day, Abs(lots[c]), 0)>>)
    /\ lots' = [lots EXCEPT ![c] = 0] /\ UNCHANGED units
\* Puts: the shares are bought at the strike.
Assign(c) ==
    /\ mode = "shares" /\ Shorted(c) /\ day <= c.exp
    /\ LET q == Abs(lots[c])
       IN  /\ Activities(<<Leg("Assigned", c, day, q, 0),
                           Leg("Buy", None, day, q, q * c.strike)>>)
           /\ units' = units + q
    /\ lots' = [lots EXCEPT ![c] = 0]
Stock(q) ==
    /\ mode = "shares" /\ units + q >= 0
    /\ Activities(<<Leg(IF q > 0 THEN "Buy" ELSE "Sell", None, day, q, 4 * q)>>)
    /\ units' = units + q /\ UNCHANGED lots

\* No activity tells of a split; the position and the contracts change.
Split ==
    /\ mode = "shares" /\ splitOn = None /\ splitOn' = day
    /\ \A n \in 1..Len(feed) : feed[n].leg.date < day
    /\ lots' = [c \in AllCode |->
          IF \E b \in Code : c = AfterSplit(b)
          THEN Ratio * lots[CHOOSE b \in Code : c = AfterSplit(b)] ELSE 0]
    /\ units' = units * Ratio
    /\ UNCHANGED <<mode, rows, watermark, day, feed, reported, twice,
                   multiplied, syncs, view, doubtful>>

NextDay ==
    /\ day < Bound[mode].days /\ (Linked => feed # <<>>) /\ day' = day + 1
    /\ UNCHANGED <<mode, rows, watermark, feed, lots, units, splitOn, reported,
                   twice, multiplied, syncs, view, doubtful>>

-----------------------------------------------------------------------------
(* The operations of members, on the lot their device shows *)

Hand == mode = "hand" /\ UNCHANGED <<mode, watermark, day, feed, lots, units,
                                     splitOn, reported, twice, multiplied, syncs>>

\* Mutant: the rows of a code and day, closed or not.
AnyLot(c, date) == {n \in 1..Len(rows) : rows[n].code = c /\ rows[n].date = date}

\* open_lot(): the open rows of a code and day.
OpenLot(c, date) ==
    {n \in 1..Len(rows) : rows[n].open /\ rows[n].code = c /\ rows[n].date = date}
LotQuantity(lot) == Total(Pick(rows, lot), Quantity, LAMBDA row : TRUE)
LotCost(lot) == Total(Pick(rows, lot), Cost, LAMBDA row : TRUE)

Enter(c) ==
    /\ Hand /\ Len(rows) < Bound[mode].trades
    /\ rows' = Append(rows, Row(Leg("Sell short", c, day, -1, -3), TRUE, "manual"))
    /\ UNCHANGED <<view, doubtful>>
Look(d) ==
    /\ Hand
    /\ \E n \in 1..Len(rows) :
          LET lot == OpenLot(rows[n].code, rows[n].date)
          IN  /\ rows[n].code # None /\ lot # {}
              /\ view' = [view EXCEPT ![d] = [code |-> rows[n].code, date |-> rows[n].date,
                                              q |-> LotQuantity(lot)]]
    /\ UNCHANGED <<rows, doubtful>>

\* option_operation(): the lot is closed and the rows of the plan are added.
Close(d, inserts) ==
    LET lot == OpenLot(view[d].code, view[d].date)
    IN  /\ Hand /\ Len(rows) < Bound[mode].trades + 2
        /\ rows' = [n \in 1..Len(rows) |->
                       IF n \in lot THEN [rows[n] EXCEPT !.open = FALSE] ELSE rows[n]]
                   \o inserts
        /\ doubtful' = IF LotQuantity(lot) = view[d].q THEN doubtful
                       ELSE doubtful \cup {view[d].code}
        /\ UNCHANGED view
Lot(d) == OpenLot(view[d].code, view[d].date)
Closing(kind, d, q, cost) == Row(Leg(kind, view[d].code, day, q, cost), FALSE, "manual")

\* plan_roll() alone compares the quantity with the lot's.
HandRoll(d, c) ==
    /\ view[d] # None /\ LotQuantity(Lot(d)) = view[d].q /\ view[d].q < 0
    /\ LET cost == LotCost(Lot(d))
           q == Abs(view[d].q)
       IN  Close(d, <<Closing("Extended", d, q, -cost),
                      Row(Leg("Sell extended", c, day, -q, cost - 2 * q), TRUE, "manual")>>)
HandClose(d) ==
    /\ view[d] # None /\ Lot(d) # {}
    /\ Close(d, <<Closing(IF view[d].q < 0 THEN "Buy to cover" ELSE "Sell", d, -view[d].q,
                          Abs(view[d].q))>>)
HandExpire(d) ==
    /\ view[d] # None /\ Lot(d) # {}
    /\ Close(d, <<Closing("Expired", d, -view[d].q, 0)>>)
HandAssign(d) ==
    /\ view[d] # None /\ Lot(d) # {} /\ view[d].q < 0
    /\ Close(d, <<Closing("Assigned", d, -view[d].q, 0),
                  Row(Leg("Buy", None, day, -view[d].q, -view[d].q * view[d].code.strike),
                      TRUE, "manual")>>)

-----------------------------------------------------------------------------
Init ==
    /\ mode \in DOMAIN Bound
    /\ rows = <<>> /\ watermark = None /\ day = 1
    /\ feed = <<>> /\ lots = [c \in AllCode |-> 0] /\ units = 0
    /\ splitOn = None /\ reported = [units |-> 0, splitOn |-> None] /\ syncs = 0
    /\ twice = <<>> /\ multiplied = {}
    /\ view = [d \in Device |-> None] /\ doubtful = {}

Broker ==
    \/ \E c \in AllCode : SellToOpen(c) \/ Expire(c) \/ Assign(c) \/ \E q \in 1..2 : Cover(c, q)
    \/ \E q \in {-1, 1} : Stock(q)
    \/ Split
Member(d) ==
    \/ Look(d) \/ HandClose(d) \/ HandExpire(d) \/ HandAssign(d)
    \/ \E c \in Code : HandRoll(d, c)
Next ==
    \/ Broker \/ NextDay
    \/ \E replace \in BOOLEAN : Sync(replace)
    \/ \E c \in Code : Enter(c)
    \/ \E d \in Device : Member(d)

Spec == Init /\ [][Next]_vars

-----------------------------------------------------------------------------
Synced == watermark # None
Posted == SelectSeq(feed, LAMBDA a : a.posted <= watermark)
Known == [n \in 1..Len(Posted) |-> Posted[n].leg]
\* A contract before the split, after it, and adjusted once more.
Forms(c) == {c, AfterSplit(c), AfterSplit(AfterSplit(c))}
Steady(x) == \A c \in multiplied : x.code \notin Forms(c)

\* However late an activity is posted and however often it is read again, the
\* money of the transactions is the money of the activities posted by the last
\* synchronization, each once (repository_ingest.rs:66-104,
\* repository_snaptrade.rs:170-206, 536-552).  The two exceptions, whatever else
\* goes on: the legs of a roll that are transactions already when it is written
\* do count twice, against repository_snaptrade.rs:105-111 ("neither path
\* double-counts"), because :575 looks for a recorded roll and not for its raw
\* legs; and nothing is said of a contract with a lot adjusted for the split that
\* is synchronized again, which :634 multiplies again and whose legs, read again,
\* equal no row any more, against snaptrade.rs:29-30 ("write-time dedup keeps the
\* overlap idempotent").
MoneyMatchesBroker ==
    Synced => Total(rows, Cost, Steady) = Total(Known \o twice, Cost, Steady)

\* What the posted activities, and the legs that count twice, leave of a
\* contract; the split multiplies what was traded before it.
Restated(leg) ==
    IF reported.splitOn # None /\ leg.code # None /\ leg.date < reported.splitOn
    THEN [leg EXCEPT !.code = AfterSplit(@), !.q = @ * Ratio] ELSE leg
Left(c) ==
    IF c.exp < watermark THEN 0
    ELSE FoldLeft(LAMBDA net, leg :
                      LET now == Restated(leg)
                      IN  IF now.code = c THEN net + Moves(now, net) ELSE net,
                  0, Known \o twice)

\* The open rows of a contract add up to what the activities leave of it, after
\* a split too, and those of the stock to the shares held; nothing held,
\* nothing open (broker.rs:6-156, repository_snaptrade.rs:402-467, 613-651).
\* The exceptions are those of MoneyMatchesBroker; of a contract covered by a
\* roll whose legs count twice nothing is said either.
CoveredTwice(c) ==
    \E n \in 1..Len(twice) : twice[n].kind = "Buy to cover" /\ twice[n].code = c
PositionsMatchBroker ==
    Synced =>
        /\ \A c \in {x \in AllCode : Steady([code |-> x]) /\ ~CoveredTwice(x)} :
            /\ Total(rows, Shares, LAMBDA row : row.code = c /\ row.open) = Left(c)
            /\ Left(c) = 0 => \A n \in 1..Len(rows) : rows[n].code = c => ~rows[n].open
        /\ Total(rows, Shares, LAMBDA row : row.code = None /\ row.open) = reported.units

\* Of the contracts a member closed nothing is left over and nothing was closed
\* twice, unless by a quantity that was not the lot's (option_ops.rs:148-400).
ClosedLotsBalance ==
    mode = "hand" => \A c \in Code \ doubtful :
        Total(rows, Quantity, LAMBDA row : row.code = c /\ ~row.open) = 0
=============================================================================
