-------------------------------- MODULE Api --------------------------------
(***************************************************************************)
(* The HTTP API (apps/api/src/server.ts) over the paper account: each      *)
(* request has a handler of its own, which runs without interruption up to *)
(* an await -- of the request's body, or of a query -- and is answered     *)
(* once.  The account and the user live in the process, so that two orders *)
(* whose bodies are awaited at the same time meet in SimulatedMarket.      *)
(*                                                                         *)
(* An answer is its status and what the properties tell apart: what the    *)
(* account was when it was written, and where data that names its source   *)
(* comes from: the groups of what is shown, each the database's, the       *)
(* synthetic data set's, a constant or null.  Other content computed from  *)
(* the data set or the fixed scenario is left out; a route has the last    *)
(* part of its path as its name.                                           *)
(***************************************************************************)
EXTENDS SimulatedMarket

CONSTANTS
    Requests,      \* bound: requests
    Environments,  \* bound: the environments the process may be started in
    OrderBodies,   \* bound: bodies that pass orderSchema
    NotANumber,    \* a CULT_LIVE_SHADOW_VALIDATED_HOURS that is no number
    NoServer       \* instead of an environment: the account is used without an API

ASSUME ServerAssumption == NoServer \notin Environments
ASSUME BodiesAssumption == \A body \in OrderBodies : body.side \in Sides /\ body.quantity \in Quantities

VARIABLES
    environment,     \* of the process
    waiting,         \* request -> what its handler awaits
    answers,         \* request -> its answer
    tradesCompleted  \* of the user

apiVars == <<environment, waiting, answers, tradesCompleted>>
accountVars == marketVars

-----------------------------------------------------------------------------
(* Start.                                                                  *)

\* resolveDataMode(): what is no number is not below 72.
Starts(e) ==
    /\ e.mode \in {"synthetic", "replay", "live-shadow", "live-market"}
    /\ e.mode = "live-market" => /\ e.acknowledged
                                 /\ ~(e.hours # NotANumber /\ e.hours < 72)

EmpiricalMode == environment.mode \in {"live-shadow", "live-market"}
LivePool == EmpiricalMode /\ environment.database

-----------------------------------------------------------------------------
(* Answers.                                                                *)

Status(code) == [status |-> code]

\* What every answer about the account shows a part of.
Account == [status |-> 200, orders |-> filled, trades |-> tradesCompleted, cash |-> cash]

\* Where the three groups of the reference metrics come from.
SyntheticReferenceMetrics ==
    [status |-> 200, mode |-> "SYNTHETIC", source |-> "SYNTHETIC",
     groups |-> [prevalence |-> "dataset", signals |-> "dataset", quality |-> "null"]]

LiveReferenceMetrics ==
    [status |-> 200, mode |-> "LIVE", source |-> "BLUESKY",
     groups |-> [prevalence |-> "database", signals |-> "null", quality |-> "database"]]

\* data/status, without a database and with the latest row of source health.
SyntheticStatus ==
    [status |-> 200, mode |-> "SYNTHETIC", source |-> "SYNTHETIC", groups |-> [health |-> "constant"]]
LiveStatus(rows) ==
    [status |-> 200, mode |-> IF environment.mode = "live-shadow" THEN "LIVE_SHADOW" ELSE "LIVE_MARKET",
     source |-> "BLUESKY", groups |-> [health |-> IF rows = 0 THEN "constant" ELSE "database"]]

\* An unlisted expression is not found by its path, and a bad query.
AssetPart(listed) == Status(IF listed THEN 200 ELSE 404)
Index(listed) == Status(IF listed THEN 200 ELSE 404)
Pair(listed) == Status(IF listed THEN 200 ELSE 400)
Research(listed) == Status(IF listed THEN 200 ELSE 400)
\* Only CRY has a scenario.
Quant(listed) == Status(IF listed THEN 200 ELSE 404)

\* The mode and the source of the process, over the synthetic history either way.
Series(listed) ==
    IF ~listed THEN Status(400)
    ELSE [status |-> 200, mode |-> environment.mode,
          source |-> IF EmpiricalMode THEN "BLUESKY" ELSE "SYNTHETIC", groups |-> [series |-> "dataset"]]

\* The GET requests whose handlers await nothing and need no account.
Reading(route, listed) ==
    CASE route \in {"health", "assets", "indexes", "events", "research", "correlation-matrix"} -> Status(200)
      [] route \in {"history", "platforms", "semantics"} -> AssetPart(listed)
      [] route = "index" -> Index(listed)
      [] route = "pair" -> Pair(listed)
      [] route = "series" -> Series(listed)
      [] route = "factors" -> Status(200)
      [] route \in {"correlation", "pairs", "price-discovery"} -> Research(listed)
      [] route \in {"market-monitor", "quant-assets", "heatmaps", "risk", "quant-factors"} -> Status(200)
      [] route \in {"state", "tape", "depth", "flow", "cascades", "execution", "latency"} -> Quant(listed)
      [] route = "unknown" -> Status(404)
Readings ==
    {"health", "assets", "indexes", "events", "research", "correlation-matrix", "history", "platforms",
     "semantics", "index", "pair", "series", "factors", "correlation", "pairs", "price-discovery",
     "market-monitor", "quant-assets", "heatmaps", "risk", "quant-factors", "state", "tape", "depth",
     "flow", "cascades", "execution", "latency", "unknown"}

-----------------------------------------------------------------------------
(* Handlers.                                                               *)

Answer(r, answer) ==
    /\ waiting' = [waiting EXCEPT ![r] = "nothing"]
    /\ answers' = [answers EXCEPT ![r] = answer]
Await(r, what) ==
    /\ waiting' = [waiting EXCEPT ![r] = what]
    /\ UNCHANGED answers

\* A handler that runs from the request to the answer.
Read(r) ==
    /\ waiting[r] = "request"
    /\ \/ \E route \in Readings, listed \in BOOLEAN : Answer(r, Reading(route, listed))
       \/ Answer(r, Account)       \* session, portfolio, orders, leaderboard
       \/ Answer(r, Status(204))   \* OPTIONS
       \/ Answer(r, Status(201))   \* backtests
       \/ ~LivePool /\ Answer(r, SyntheticStatus)
       \/ ~LivePool /\ Answer(r, SyntheticReferenceMetrics)
       \/ Answer(r, Status(404))   \* an asset that is not listed
    /\ UNCHANGED <<accountVars, environment, tradesCompleted>>

\* A handler that awaits the body, or the database.
Begin(r) ==
    /\ waiting[r] = "request"
    /\ \E what \in {"order", "login"} \cup IF LivePool THEN {"source", "metrics"} ELSE {} : Await(r, what)
    /\ UNCHANGED <<accountVars, environment, tradesCompleted>>

\* readBody(): the body is cut off, too long or no JSON: the handler throws.
BodyFails(r) ==
    /\ waiting[r] \in {"order", "login"}
    /\ Answer(r, Status(500))
    /\ UNCHANGED <<accountVars, environment, tradesCompleted>>

\* The body does not pass the schema.
BodyRefused(r) ==
    /\ waiting[r] \in {"order", "login"}
    /\ Answer(r, Status(400))
    /\ UNCHANGED <<accountVars, environment, tradesCompleted>>

\* auth/login and auth/register: the one demo user, whatever the details.
Login(r) ==
    /\ waiting[r] = "login"
    /\ Answer(r, Account)
    /\ UNCHANGED <<accountVars, environment, tradesCompleted>>

\* quote() and submitOrder() throw: no such price, not held, not affordable.
Refused(body) ==
    IF body.asset \notin Assets THEN TRUE
    ELSE \/ ~Owns(body.asset, body.side, body.quantity)
         \/ Required(body.side, Price(body.asset, body.side, body.quantity), body.quantity) > cash

\* Mutant: a trade is counted before the order is submitted.
OrderCountedFirst(r, body) ==
    /\ waiting[r] = "order"
    /\ tradesCompleted' = tradesCompleted + 1
    /\ \/ Refused(body) /\ Answer(r, Status(422)) /\ UNCHANGED accountVars
       \/ /\ ~Refused(body) /\ SubmitOrder(body.asset, body.side, body.quantity)
          /\ Answer(r, [status |-> 201, order |-> filled', orders |-> filled',
                        trades |-> tradesCompleted', cash |-> cash'])
    /\ UNCHANGED environment

\* The rest of POST orders: the order's place in the list, and the portfolio after it.
Order(r, body) ==
    /\ waiting[r] = "order"
    /\ \/ Refused(body) /\ Answer(r, Status(422)) /\ UNCHANGED <<accountVars, tradesCompleted>>
       \/ /\ ~Refused(body) /\ SubmitOrder(body.asset, body.side, body.quantity)
          /\ tradesCompleted' = tradesCompleted + 1
          /\ Answer(r, [status |-> 201, order |-> filled', orders |-> filled',
                        trades |-> tradesCompleted', cash |-> cash'])
    /\ UNCHANGED environment

\* The database answers with so many rows, or the query fails.
Queried(r, rows) ==
    /\ \/ waiting[r] = "source" /\ Answer(r, LiveStatus(rows))
       \/ /\ waiting[r] = "metrics"
          /\ Answer(r, IF rows = 0 THEN SyntheticReferenceMetrics ELSE LiveReferenceMetrics)
    /\ UNCHANGED <<accountVars, environment, tradesCompleted>>
QueryFails(r) ==
    /\ waiting[r] \in {"source", "metrics"}
    /\ Answer(r, Status(500))
    /\ UNCHANGED <<accountVars, environment, tradesCompleted>>

Unanswered == [status |-> 0]

ApiStart ==
    /\ waiting = [r \in Requests |-> "request"]
    /\ answers = [r \in Requests |-> Unanswered]
    /\ tradesCompleted = 0
ApiInit == MarketInit /\ ApiStart /\ environment \in {e \in Environments : Starts(e)}

ApiNext ==
    \E r \in Requests :
        \/ Read(r) \/ Begin(r) \/ BodyFails(r) \/ BodyRefused(r) \/ Login(r)
        \/ \E body \in OrderBodies : Order(r, body)
        \/ \E rows \in 0 .. 1 : Queried(r, rows)
        \/ QueryFails(r)

ApiSpec == ApiInit /\ [][ApiNext]_<<accountVars, apiVars>>

-----------------------------------------------------------------------------
(* Properties.                                                             *)

Confirms(r, n) == "order" \in DOMAIN answers[r] /\ answers[r].order = n
Shows(r) == "cash" \in DOMAIN answers[r]
Groups(r) == IF "groups" \in DOMAIN answers[r] THEN DOMAIN answers[r].groups ELSE {}

\* Every order on the account was confirmed to exactly one request, and no
\* request that was refused or failed left an order behind; whatever shows the
\* account shows as many trades as orders, and the same cash as any other
\* answer of the same moment, whatever was awaited in between.
AccountIsOne ==
    environment # NoServer =>
    /\ tradesCompleted = filled
    /\ \A n \in 1 .. filled : \E r \in Requests : Confirms(r, n)
    /\ \A r, s \in Requests : \A n \in 1 .. filled : Confirms(r, n) /\ Confirms(s, n) => r = s
    /\ \A r \in Requests : Shows(r) => answers[r].trades = answers[r].orders /\ answers[r].orders <= filled
    /\ \A r, s \in Requests :
           Shows(r) /\ Shows(s) /\ answers[r].orders = answers[s].orders => answers[r].cash = answers[s].cash

\* docs/api/v1.md: "Missing live metrics are `null`, never synthetic
\* substitutions."  Read of a process that has a database to ask: its reference
\* metrics hold nothing of the data set, also when the query finds no row.
MissingMetricsAreNull ==
    environment # NoServer /\ LivePool =>
        \A r \in Requests : \A g \in Groups(r) \cap {"prevalence", "signals", "quality"} :
            answers[r].groups[g] # "dataset"

\* docs/api/v1.md: "Synthetic results are labelled experimental and are not
\* empirical findings."  What comes of the synthetic history does not name the
\* live feed as its source.
SyntheticIsLabelled ==
    \A r \in Requests : \A g \in Groups(r) :
        answers[r].groups[g] = "dataset" => answers[r].source # "BLUESKY"

\* docs/api/v1.md on synthetic data: a server keeps at least one of these two
\* promises.  What violates this breaks them both.
SomePromiseKept == MissingMetricsAreNull \/ SyntheticIsLabelled
=============================================================================
