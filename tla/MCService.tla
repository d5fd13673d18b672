----------------------------- MODULE MCService -----------------------------
(***************************************************************************)
(* What a deployment runs beside the feed, for TLC: the account and the    *)
(* HTTP handlers of MCSimulatedMarket, the ingestion worker on a short     *)
(* stream, its post attribution store, the official closes, and the        *)
(* migrations that create the schema.  They share no state (a table, a     *)
(* file or a variable), so a behavior is one of any: `part` says which.    *)
(***************************************************************************)
EXTENDS MCSimulatedMarket, Ingestion, AttributionStore, OfficialClose, Migrations

serviceVars ==
    <<part, accountVars, apiVars, vars, attributionVars, closeVars, migrationVars>>

\* Two documents of one minute, and one of the next.
MCMinuteOf == <<1, 1, 2>>

Event(kind, post, target, day) == [kind |-> kind, post |-> post, target |-> target, day |-> day]

\* A post, a reply to it, an engagement before and after its delete, and a
\* like of the reply on the day the reply's retention ends.
MCStream ==
    <<Event("post", 1, 0, 0), Event("post", 2, 1, 0), Event("like", 0, 1, 1),
      Event("delete", 1, 0, 1), Event("like", 0, 1, 1), Event("like", 0, 2, 2)>>

\* Levels whose ratios all differ, and that depend on what was counted.
MCLevel(e, d, w) == e + d * d + w

ServiceInit ==
    /\ part \in {"account", "api", "ingestion", "attribution", "closes", "migrations"}
    /\ MCStart
    /\ Init /\ AttributionInit /\ CloseInit /\ MigrationInit

ServiceNext ==
    \/ MCNext /\ UNCHANGED <<vars, attributionVars, closeVars, migrationVars>>
    \/ /\ UNCHANGED <<part, accountVars, apiVars>>
       /\ \/ /\ part = "ingestion" /\ Next
             /\ UNCHANGED <<attributionVars, closeVars, migrationVars>>
          \/ /\ part = "attribution" /\ AttributionNext
             /\ UNCHANGED <<vars, closeVars, migrationVars>>
          \/ /\ part = "closes" /\ CloseNext
             /\ UNCHANGED <<vars, attributionVars, migrationVars>>
          \/ /\ part = "migrations" /\ MigrationNext
             /\ UNCHANGED <<vars, attributionVars, closeVars>>

ServiceSpec == ServiceInit /\ [][ServiceNext]_serviceVars

\* Finalizers are only compared for equality.
ServiceSymmetry == Permutations(Finalizers)
=============================================================================
