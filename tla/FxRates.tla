------------------------------ MODULE FxRates ------------------------------
(***************************************************************************)
(* fx/service.py and fx/forecast_service.py: rate observations of two      *)
(* pairs and who is alerted, the live rate with its cache, backfills,      *)
(* locked exposure and trained forecasts.                                  *)
(*                                                                         *)
(* A request that awaits an API, a computation or a query before it writes *)
(* is two steps, what it read being kept in its task; its own rows are     *)
(* visible to itself only until it commits.  A failing request rolls back. *)
(* Rates are in whole units; an alert watches USDNGN.                      *)
(***************************************************************************)
EXTENDS Naturals, FiniteSets, FiniteSetsExt

CONSTANTS
    Requests,      \* concurrent requests
    Quotes,        \* rates observed
    Ttl, DayTicks, \* FX_CACHE_TTL_HOURS and a day, in ticks
    MaxTime,       \* bound on the clock
    MaxRates,      \* bound on the rates kept and about to be added
    MinDays,       \* MIN_TRAINING_DAYS
    MaxHistory     \* rows _fetch_historical_rates() reads

ASSUME FxAssumption ==
    /\ Quotes \subseteq Nat \ {0} /\ Quotes # {} /\ IsFiniteSet(Quotes)
    /\ MaxTime \in Nat /\ MaxRates \in Nat
    /\ {Ttl, DayTicks, MinDays, MaxHistory} \subseteq Nat \ {0}

VARIABLES
    now,
    market,        \* the rows: rates, alerts, locks, forecasts, eurAlert; and trainings
    task,          \* request -> what it has read or is about to write
    failed,        \* the errors requests ended with
    heard,         \* owner -> the rates checked against the alert as it stands
    crowded        \* whether two trainings overlapped

fxVars == <<now, market, task, failed, heard, crowded>>

Owners == {"own", "other"}        \* businesses; requests are made by "own"
NoAlert == [enabled |-> FALSE]
IdleTask == [kind |-> "idle"]

rates == market.rates             \* [pair, at, rate, api]
alerts == market.alerts           \* owner -> [above, threshold, enabled, triggered]
locks == market.locks             \* FXExposure rows: [n, total, locked]
forecasts == market.forecasts     \* generations of FXForecast rows: [n, last]

Watched == IF market.about = "eur" THEN {"EURUSD"} ELSE {"USDNGN"}

Day(t) == t \div DayTicks
Busy(kind) == {r \in Requests : task[r].kind = kind}

\* What a behaviour is about never changes.  eurAlert: there is a recommendation
\* from before business_id was required.
Market(about, rows, legacy) ==
    [about |-> about, rates |-> rows, alerts |-> [o \in Owners |-> NoAlert],
     locks |-> {}, forecasts |-> {}, trained |-> 0, eurAlert |-> legacy]

NothingAsked ==
    /\ now = 0
    /\ task = [r \in Requests |-> IdleTask]
    /\ failed = {}
    /\ heard = [o \in Owners |-> {}]
    /\ crowded = FALSE

FxInit ==
    /\ NothingAsked
    /\ \E about \in {"alerts", "eur", "history"}, legacy \in BOOLEAN :
          market = Market(about, {}, legacy)

------------------------------------------------------------------------------
Latest(rows) == {r \in rows : \A s \in rows : s.at <= r.at}
Of(pair, rows) == {r \in rows : r.pair = pair}
Fresh(rows) == {r \in rows : now < r.at + Ttl}

Row(pair, at, quote, api) == [pair |-> pair, at |-> at, rate |-> quote, api |-> api]

Start(r, what) ==
    /\ task[r] = IdleTask
    /\ task' = [task EXCEPT ![r] = what]

\* A request that will add rates.
Adding == {q \in Requests : "rows" \in DOMAIN task[q]}
Room(rows) ==
    Cardinality(rates) + Cardinality(rows) + MapThenSumSet(LAMBDA q : Cardinality(task[q].rows), Adding)
       <= MaxRates

StartWith(r, what) == Room(what.rows) /\ Start(r, what) /\ UNCHANGED market

Finish(r) == task' = [task EXCEPT ![r] = IdleTask]

Fails(r, error) ==
    /\ failed' = failed \cup {error}
    /\ Finish(r)
    /\ UNCHANGED <<now, market, heard, crowded>>

------------------------------------------------------------------------------
Crosses(alert, rate) ==
    IF alert.above THEN rate >= alert.threshold ELSE rate <= alert.threshold

DueBugOwnOnly(rows, scope) ==
    {o \in {"own"} : /\ alerts[o] # NoAlert /\ alerts[o].enabled /\ ~alerts[o].triggered
                     /\ \E row \in Of("USDNGN", rows) : Crosses(alerts[o], row.rate)}

\* The alerts check_alerts() loads and finds crossed.
Due(rows, scope) ==
    {o \in scope : /\ alerts[o] # NoAlert /\ alerts[o].enabled /\ ~alerts[o].triggered
                   /\ \E row \in Of("USDNGN", rows) : Crosses(alerts[o], row.rate)}

Observation(rows, scope) ==
    [kind |-> "observe", rows |-> rows, scope |-> scope, due |-> Due(rows, scope),
     edited |-> {}, gone |-> {}]

\* ingest_rate(): the caller names the time (of which alerts read nothing);
\* only its own alerts are checked.
Ingest(r) ==
    \E pair \in Watched, quote \in Quotes, at \in 0..MaxTime :
       /\ pair = "USDNGN" => at = now
       /\ StartWith(r, Observation({Row(pair, at, quote, FALSE)}, {"own"}))
       /\ UNCHANGED <<now, failed, heard, crowded>>

\* sync_external_rates(), once the provider has answered: everybody's alerts.
Sync(r) ==
    \E quote \in Quotes :
       /\ StartWith(r, Observation({Row(pair, now, quote, TRUE) : pair \in Watched}, Owners))
       /\ UNCHANGED <<now, failed, heard, crowded>>

\* UPDATE of an alert that was deleted meanwhile matches no row (StaleDataError).
AlertGone(t) == t.due \cap t.gone # {}

\* check_eur_usd_alert() after ingest_rate() of EURUSD: whether the latest rate
\* may be seen to have moved by more than 3% from the one before.  Its
\* recommendation names no business, which the column requires.
Moves(rows) ==
    UNION {{3 * q.rate < 100 * (IF p.rate > q.rate THEN p.rate - q.rate ELSE q.rate - p.rate) :
               q \in Latest(rows \ {p})} : p \in Latest(rows)}

EurChecked(t) == \E row \in Of("EURUSD", t.rows) : t.scope = {"own"}

EurStops(t) == /\ EurChecked(t) /\ ~market.eurAlert
               /\ TRUE \in Moves(Of("EURUSD", rates \cup t.rows))

EurPasses(t) == \/ ~EurChecked(t) \/ market.eurAlert
                \/ Moves(Of("EURUSD", rates \cup t.rows)) \in {{}, {FALSE}, BOOLEAN}

Observe(r) ==
    LET t == task[r] IN
    /\ t.kind = "observe" /\ ~AlertGone(t) /\ EurPasses(t)
    /\ market' = [market EXCEPT
          !.rates = @ \cup t.rows,
          !.alerts = [o \in Owners |-> IF o \in t.due THEN [alerts[o] EXCEPT !.triggered = TRUE]
                                                      ELSE alerts[o]]]
    /\ heard' = [o \in Owners |->
          IF o \in t.scope \ t.edited
          THEN heard[o] \cup {row.rate : row \in Of("USDNGN", t.rows)} ELSE heard[o]]
    /\ Finish(r)
    /\ UNCHANGED <<now, failed, crowded>>

ObserveFails(r) ==
    /\ task[r].kind = "observe"
    /\ \/ AlertGone(task[r]) /\ Fails(r, "alert gone")
       \/ ~AlertGone(task[r]) /\ EurStops(task[r]) /\ Fails(r, "eur alert")

DeleteRate ==
    \E row \in rates :
       /\ market' = [market EXCEPT !.rates = @ \ {row}]
       /\ UNCHANGED <<now, task, failed, heard, crowded>>

------------------------------------------------------------------------------
(* get_live_usdngn_rate(): only a rate that is not fresh is fetched again;  *)
(* a failing API adds nothing.  No alert is checked.                       *)
FetchLive(r) ==
    /\ Fresh(Latest(Of("USDNGN", rates))) = {}
    /\ StartWith(r, [kind |-> "live", rows |-> {Row("USDNGN", now, 0, TRUE)}])
    /\ UNCHANGED <<now, failed, heard, crowded>>

StoreLive(r) ==
    /\ task[r].kind = "live"
    /\ \/ \E quote \in Quotes :
             market' = [market EXCEPT !.rates = @ \cup {Row("USDNGN", now, quote, TRUE)}]
       \/ UNCHANGED market
    /\ Finish(r)
    /\ UNCHANGED <<now, failed, heard, crowded>>

ApiOn(d) == {row \in Of("USDNGN", rates) : row.api /\ Day(row.at) = d}
On(d) == {row \in Of("USDNGN", rates) : Day(row.at) = d}
Midnight(d, quote) == Row("USDNGN", d * DayTicks, quote, TRUE)

\* backfill_historical_data() of one day: scalar_one_or_none() fails on a day
\* with two rates of the provider.
Backfill(r) ==
    \E d \in 0..Day(now), quote \in Quotes :
       /\ task[r] = IdleTask
       /\ \/ Cardinality(ApiOn(d)) > 1 /\ Fails(r, "two rates")
          \/ /\ ApiOn(d) = {} /\ Room({d})
             /\ market' = [market EXCEPT !.rates = @ \cup {Midnight(d, quote)}]
             /\ UNCHANGED <<now, task, failed, heard, crowded>>

\* backfill_from_exchange_api(): the days without a rate are read first; a day
\* whose download fails is left out.
FetchDays(r) ==
    \E days \in SUBSET {d \in 0..Day(now) : d < Day(now) /\ On(d) = {}}, quote \in Quotes :
       /\ days # {}
       /\ StartWith(r, [kind |-> "days", rows |-> {Midnight(d, quote) : d \in days}])
       /\ UNCHANGED <<now, failed, heard, crowded>>

StoreDays(r) ==
    /\ task[r].kind = "days"
    /\ market' = [market EXCEPT !.rates = @ \cup task[r].rows]
    /\ Finish(r)
    /\ UNCHANGED <<now, failed, heard, crowded>>

------------------------------------------------------------------------------
SetAlert(o, alert) ==
    /\ market' = [market EXCEPT !.alerts[o] = alert]
    /\ heard' = [heard EXCEPT ![o] = {}]
    /\ task' = [r \in Requests |->
          IF r \notin Busy("observe") THEN task[r]
          ELSE [task[r] EXCEPT !.edited = @ \cup {o},
                               !.gone = IF alert = NoAlert THEN @ \cup {o} ELSE @]]
    /\ UNCHANGED <<now, failed, crowded>>

\* One of the two watches for a rise, the other for a fall.
CreateAlert ==
    \E o \in Owners, threshold \in Quotes :
       /\ alerts[o] = NoAlert
       /\ SetAlert(o, [above |-> o = "own", threshold |-> threshold,
                       enabled |-> TRUE, triggered |-> FALSE])

\* update_alert(): a triggered alert stays triggered.
UpdateAlert ==
    \E o \in Owners, threshold \in Quotes, enabled \in BOOLEAN :
       /\ alerts[o] # NoAlert
       /\ SetAlert(o, [alerts[o] EXCEPT !.threshold = threshold, !.enabled = enabled])

DeleteAlert == \E o \in Owners : alerts[o] # NoAlert /\ SetAlert(o, NoAlert)

------------------------------------------------------------------------------
\* lock_exposure(): what may still be locked of what the rows total.
Locked(amount) ==
    LET total == MapThenSumSet(LAMBDA l : l.total, locks)
        already == MapThenSumSet(LAMBDA l : l.locked, locks)
    IN total > 0 => amount <= total - already

BeginLock(r) ==
    \E amount \in 1..2 :
       /\ Locked(amount)
       /\ Start(r, [kind |-> "lock", amount |-> amount])
       /\ UNCHANGED <<now, market, failed, heard, crowded>>

InsertLock(r) ==
    /\ task[r].kind = "lock"
    /\ market' = [market EXCEPT !.locks = @ \cup
          {[n |-> Cardinality(locks), total |-> task[r].amount, locked |-> task[r].amount]}]
    /\ Finish(r)
    /\ UNCHANGED <<now, failed, heard, crowded>>

------------------------------------------------------------------------------
(* train_and_forecast(): the oldest rows are read; the forecast is computed *)
(* in a thread; then the rows there are replaced.                          *)

Oldest(rows) ==
    {r \in rows : Cardinality({s \in rows : s.at < r.at}) < MaxHistory}

FetchHistory(r) ==
    LET history == Oldest(Of("USDNGN", rates)) IN
    /\ Cardinality(Of("USDNGN", rates)) >= MinDays
    /\ market.trained + Cardinality(Busy("train") \cup Busy("replace")) < 2
    /\ Start(r, [kind |-> "train", last |-> Max({h.at : h \in history})])
    /\ UNCHANGED <<now, market, failed, heard, crowded>>

\* DELETE finds the rows that are committed when it starts.
DeleteForecasts(r) ==
    /\ task[r].kind = "train"
    /\ task' = [task EXCEPT ![r] = [kind |-> "replace", last |-> task[r].last, old |-> forecasts]]
    /\ crowded' = (crowded \/ Busy("replace") # {})
    /\ UNCHANGED <<now, market, failed, heard>>

InsertForecastsBugKeepOld(r) ==
    /\ task[r].kind = "replace"
    /\ market' = [market EXCEPT !.trained = @ + 1,
          !.forecasts = @ \cup {[n |-> market.trained + 1, last |-> task[r].last]}]
    /\ Finish(r)
    /\ UNCHANGED <<now, failed, heard, crowded>>

InsertForecasts(r) ==
    /\ task[r].kind = "replace"
    /\ market' = [market EXCEPT !.trained = @ + 1,
          !.forecasts = (@ \ task[r].old) \cup
                           {[n |-> market.trained + 1, last |-> task[r].last]}]
    /\ Finish(r)
    /\ UNCHANGED <<now, failed, heard, crowded>>

------------------------------------------------------------------------------
Tick == now < MaxTime /\ now' = now + 1 /\ UNCHANGED <<market, task, failed, heard, crowded>>

\* A behaviour is about who is alerted of USDNGN, about EURUSD, or about the
\* history of rates: none of the three reads what the others write.
FxNext ==
    \/ /\ market.about \in {"alerts", "eur"}
       /\ \/ market.about = "alerts" /\ (CreateAlert \/ UpdateAlert \/ DeleteAlert)
          \/ \E r \in Requests : Ingest(r) \/ Sync(r) \/ Observe(r) \/ ObserveFails(r)
    \/ /\ market.about = "history"
       /\ \/ Tick \/ DeleteRate
          \/ \E r \in Requests :
                \/ FetchLive(r) \/ StoreLive(r) \/ Backfill(r) \/ FetchDays(r) \/ StoreDays(r)
                \/ BeginLock(r) \/ InsertLock(r)
                \/ FetchHistory(r) \/ DeleteForecasts(r) \/ InsertForecasts(r)

FxSpec == FxInit /\ [][FxNext]_fxVars

------------------------------------------------------------------------------
\* No rate that was checked against an alert as it stands crosses it and leaves
\* it untriggered, whoever reported the rate and whatever else was under way.
AlertsFire ==
    \A o \in Owners :
       alerts[o] # NoAlert /\ alerts[o].enabled /\ ~alerts[o].triggered
          => \A rate \in heard[o] : ~Crosses(alerts[o], rate)

\* Once a training has succeeded there are forecasts, and unless two replaced
\* them at the same time they are of one training.
OneGeneration ==
    /\ market.trained > 0 => forecasts # {}
    /\ ~crowded => Cardinality(forecasts) <= 1

\* check_eur_usd_alert()'s docstring: a move of more than 3% creates a
\* recommendation; no observation is refused because of it.
EurMovesRecommended == "eur alert" \notin failed

=============================================================================
