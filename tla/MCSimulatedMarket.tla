------------------------- MODULE MCSimulatedMarket -------------------------
(***************************************************************************)
(* A small account for TLC: two expressions and odd half units.  `part`    *)
(* says whether it is driven on its own, orders and bailouts in any order, *)
(* or by the handlers of the API, which offer no bailout.  Short and Over  *)
(* list what the doubles of these very prices and quantities do: among     *)
(* them are orders that leave the cash a cent above and a cent below the   *)
(* ledger.  CRY costs 8428.07 in the application's own catalog.            *)
(***************************************************************************)
EXTENDS Api, TLC

CONSTANTS cry, skull, unpriced

VARIABLE part

MCMid == cry :> 39988 @@ skull :> 5041
MCShort == {<<"debit", 5041, 3>>, <<"notional", 5041, 3>>, <<"credit", 5041, 1>>}
MCOver == {<<"credit", 39987, 3>>, <<"debit", 39989, 3>>, <<"notional", 39987, 3>>}

CatalogMid == cry :> 842807 @@ skull :> 5041
CatalogShort == {}
CatalogOver == {<<"debit", 842811, 1>>, <<"notional", 842803, 1>>}

MCPolicy == [gross |-> 6, net |-> 4, concentration |-> 3, maintenance |-> 1, liquidation |-> 40]

Environment(mode, acknowledged, hours, database) ==
    [mode |-> mode, acknowledged |-> acknowledged, hours |-> hours, database |-> database]
MCEnvironments ==
    {Environment("synthetic", FALSE, 0, TRUE), Environment("live-shadow", FALSE, 0, FALSE),
     Environment("live-shadow", FALSE, 0, TRUE), Environment("live-market", TRUE, NotANumber, TRUE),
     Environment("live-market", TRUE, 71, TRUE), Environment("live-market", FALSE, 72, TRUE)}

Body(asset, side, quantity) == [asset |-> asset, side |-> side, quantity |-> quantity]
MCBodies == {Body(cry, "BUY", 1), Body(cry, "SELL", 1), Body(skull, "SHORT", 10), Body(unpriced, "BUY", 1)}

MCStart ==
    IF part = "api" THEN ApiInit
    ELSE MarketInit /\ ApiStart /\ environment = NoServer

MCInit == part \in {"account", "api"} /\ MCStart

MCNext ==
    \/ part = "account" /\ MarketNext /\ UNCHANGED <<part, apiVars>>
    \/ part = "api" /\ ApiNext /\ UNCHANGED part

MCSpec == MCInit /\ [][MCNext]_<<part, accountVars, apiVars>>

Symmetry == Permutations(Requests)
=============================================================================
