-------------------------- MODULE Treasury_proofs --------------------------
(***************************************************************************)
(* Rates and who is alerted of them, forecasts, projections and what is    *)
(* recommended, for any number of requests, rates, loans and months.       *)
(*                                                                         *)
(* Each proof rests on what a request has read and still may rely on when  *)
(* it writes.                                                              *)
(***************************************************************************)
EXTENDS Advice, SumTheorems, TLAPS

(* Alerts and forecasts (FxRates).                                         *)

MarketRecord ==
    market = [about |-> market.about, rates |-> market.rates, alerts |-> market.alerts,
              locks |-> market.locks, forecasts |-> market.forecasts,
              trained |-> market.trained, eurAlert |-> market.eurAlert]
AlertRow(alert) ==
    alert = [above |-> alert.above, threshold |-> alert.threshold,
             enabled |-> alert.enabled, triggered |-> alert.triggered]
ObserveTask(t) ==
    /\ t = [kind |-> "observe", rows |-> t.rows, scope |-> t.scope, due |-> t.due,
            edited |-> t.edited, gone |-> t.gone]
    /\ t.scope \subseteq Owners

FxTyped ==
    /\ MarketRecord
    /\ task = [r \in Requests |-> task[r]]
    /\ heard = [o \in Owners |-> heard[o]]
    /\ alerts = [o \in Owners |-> alerts[o]]
    /\ \A o \in Owners : alerts[o] = NoAlert \/ AlertRow(alerts[o])
    /\ \A r \in Busy("observe") : ObserveTask(task[r])

\* An observation will trigger what its rates cross by now, but for the alerts
\* somebody has edited since it checked them.
NoticedBy(r) == Due(task[r].rows, task[r].scope) \ task[r].edited \subseteq task[r].due
Noticed == \A r \in Busy("observe") : NoticedBy(r)

\* Unless two trainings have replaced the forecasts at the same time, one at most
\* is about to, and it has found all there are.
Replacing ==
    ~crowded =>
        /\ \A r, q \in Busy("replace") : r = q
        /\ \A r \in Busy("replace") : forecasts \subseteq task[r].old

FxInv == FxTyped /\ Noticed /\ AlertsFire /\ Replacing /\ OneGeneration

LEMMA MarketChanges ==
    ASSUME FxTyped
    PROVE  /\ \A rows : market' = [market EXCEPT !.rates = rows] =>
                 /\ MarketRecord' /\ market'.about = market.about /\ market'.rates = rows
                 /\ market'.alerts = market.alerts /\ market'.forecasts = market.forecasts
                 /\ market'.trained = market.trained
           /\ \A rows : market' = [market EXCEPT !.locks = rows] =>
                 /\ MarketRecord' /\ market'.about = market.about /\ market'.rates = market.rates
                 /\ market'.alerts = market.alerts /\ market'.forecasts = market.forecasts
                 /\ market'.trained = market.trained
           /\ \A new : market' = [market EXCEPT !.alerts = new] =>
                 /\ MarketRecord' /\ market'.about = market.about /\ market'.rates = market.rates
                 /\ market'.alerts = new /\ market'.forecasts = market.forecasts
                 /\ market'.trained = market.trained
           /\ \A n, new : market' = [market EXCEPT !.trained = n, !.forecasts = new] =>
                 /\ MarketRecord' /\ market'.about = market.about /\ market'.rates = market.rates
                 /\ market'.alerts = market.alerts /\ market'.forecasts = new
                 /\ market'.trained = n
           /\ \A rows, new : market' = [market EXCEPT !.rates = rows, !.alerts = new] =>
                 /\ MarketRecord' /\ market'.about = market.about /\ market'.rates = rows
                 /\ market'.alerts = new /\ market'.forecasts = market.forecasts
                 /\ market'.trained = market.trained
<1>1. ASSUME NEW a, NEW b, NEW c, NEW d, NEW e, NEW f, NEW g,
             market' = [about |-> a, rates |-> b, alerts |-> c, locks |-> d,
                        forecasts |-> e, trained |-> f, eurAlert |-> g]
      PROVE  /\ MarketRecord' /\ market'.about = a /\ market'.rates = b /\ market'.alerts = c
             /\ market'.forecasts = e /\ market'.trained = f
  BY <1>1 DEF MarketRecord
<1>2. MarketRecord
  BY DEF FxTyped
<1>3. ASSUME NEW rows, market' = [market EXCEPT !.rates = rows]
      PROVE  /\ MarketRecord' /\ market'.about = market.about /\ market'.rates = rows
             /\ market'.alerts = market.alerts /\ market'.forecasts = market.forecasts
             /\ market'.trained = market.trained
  <2>1. market' = [about |-> market.about, rates |-> rows, alerts |-> market.alerts,
                   locks |-> market.locks, forecasts |-> market.forecasts,
                   trained |-> market.trained, eurAlert |-> market.eurAlert]
    BY <1>2, <1>3 DEF MarketRecord
  <2>2. QED
    BY <1>1, <2>1
<1>4. ASSUME NEW rows, market' = [market EXCEPT !.locks = rows]
      PROVE  /\ MarketRecord' /\ market'.about = market.about /\ market'.rates = market.rates
             /\ market'.alerts = market.alerts /\ market'.forecasts = market.forecasts
             /\ market'.trained = market.trained
  <2>1. market' = [about |-> market.about, rates |-> market.rates, alerts |-> market.alerts,
                   locks |-> rows, forecasts |-> market.forecasts,
                   trained |-> market.trained, eurAlert |-> market.eurAlert]
    BY <1>2, <1>4 DEF MarketRecord
  <2>2. QED
    BY <1>1, <2>1
<1>5. ASSUME NEW new, market' = [market EXCEPT !.alerts = new]
      PROVE  /\ MarketRecord' /\ market'.about = market.about /\ market'.rates = market.rates
             /\ market'.alerts = new /\ market'.forecasts = market.forecasts
             /\ market'.trained = market.trained
  <2>1. market' = [about |-> market.about, rates |-> market.rates, alerts |-> new,
                   locks |-> market.locks, forecasts |-> market.forecasts,
                   trained |-> market.trained, eurAlert |-> market.eurAlert]
    BY <1>2, <1>5 DEF MarketRecord
  <2>2. QED
    BY <1>1, <2>1
<1>6. ASSUME NEW n, NEW new, market' = [market EXCEPT !.trained = n, !.forecasts = new]
      PROVE  /\ MarketRecord' /\ market'.about = market.about /\ market'.rates = market.rates
             /\ market'.alerts = market.alerts /\ market'.forecasts = new
             /\ market'.trained = n
  <2>1. market' = [about |-> market.about, rates |-> market.rates, alerts |-> market.alerts,
                   locks |-> market.locks, forecasts |-> new,
                   trained |-> n, eurAlert |-> market.eurAlert]
    BY <1>2, <1>6 DEF MarketRecord
  <2>2. QED
    BY <1>1, <2>1
<1>7. ASSUME NEW rows, NEW new, market' = [market EXCEPT !.rates = rows, !.alerts = new]
      PROVE  /\ MarketRecord' /\ market'.about = market.about /\ market'.rates = rows
             /\ market'.alerts = new /\ market'.forecasts = market.forecasts
             /\ market'.trained = market.trained
  <2>1. market' = [about |-> market.about, rates |-> rows, alerts |-> new,
                   locks |-> market.locks, forecasts |-> market.forecasts,
                   trained |-> market.trained, eurAlert |-> market.eurAlert]
    BY <1>2, <1>7 DEF MarketRecord
  <2>2. QED
    BY <1>1, <2>1
<1>8. QED
  BY <1>3, <1>4, <1>5, <1>6, <1>7

\* A request whose task changes: the others keep theirs.
LEMMA TaskChanges ==
    ASSUME FxTyped, NEW r \in Requests, NEW t, task' = [task EXCEPT ![r] = t]
    PROVE  /\ task' = [q \in Requests |-> task'[q]]
           /\ task'[r] = t /\ \A q \in Requests : q # r => task'[q] = task[q]
<1>1. task = [q \in Requests |-> task[q]]
  BY DEF FxTyped
<1>2. task' = [q \in Requests |-> IF q = r THEN t ELSE task[q]]
  BY <1>1
<1>3. QED
  BY <1>2

\* A step that touches neither alerts nor forecasts, and starts no observation
\* and no replacement.
LEMMA QuietKeeps ==
    ASSUME FxInv, MarketRecord', market'.alerts = alerts, market'.forecasts = forecasts,
           market'.trained = market.trained, UNCHANGED <<heard, crowded>>,
           task' = [q \in Requests |-> task'[q]],
           \A q \in Requests : \/ task'[q] = task[q]
                               \/ task'[q].kind \notin {"observe", "replace"}
    PROVE  FxInv'
<1>1. /\ FxTyped /\ alerts' = alerts /\ forecasts' = forecasts
  BY DEF FxInv, alerts, forecasts
<1>2. /\ \A q \in Busy("observe")' : q \in Busy("observe") /\ task'[q] = task[q]
      /\ \A q \in Busy("replace")' : q \in Busy("replace") /\ task'[q] = task[q]
  BY DEF Busy
<1>3. FxTyped'
  BY <1>1, <1>2 DEF FxTyped
<1>4. Noticed'
  <2>1. ASSUME NEW q \in Busy("observe")' PROVE NoticedBy(q)'
    BY <1>1, <1>2 DEF FxInv, Noticed, NoticedBy, Due
  <2>2. QED
    BY <2>1 DEF Noticed
<1>5. AlertsFire'
  BY <1>1 DEF FxInv, AlertsFire
<1>6. Replacing' /\ OneGeneration'
  BY <1>1, <1>2 DEF FxInv, Replacing, OneGeneration
<1>7. QED
  BY <1>3, <1>4, <1>5, <1>6 DEF FxInv

\* A request that checks the alerts: what is crossed now is what it has found.
LEMMA ObservationStarts ==
    ASSUME FxInv, NEW r \in Requests, NEW rows, NEW scope \in SUBSET Owners,
           task' = [task EXCEPT ![r] = Observation(rows, scope)],
           UNCHANGED <<market, heard, crowded>>
    PROVE  FxInv'
<1> DEFINE t == [kind |-> "observe", rows |-> rows, scope |-> scope, due |-> Due(rows, scope),
                 edited |-> {}, gone |-> {}]
<1>1. /\ task' = [q \in Requests |-> task'[q]] /\ task'[r] = t
      /\ \A q \in Requests : q # r => task'[q] = task[q]
  BY TaskChanges DEF FxInv, Observation
<1>2. /\ t.kind = "observe" /\ ObserveTask(t) /\ t.rows = rows /\ t.scope = scope
      /\ t.due = Due(rows, scope)
  BY DEF ObserveTask
<1> HIDE DEF t
<1>3. /\ \A q \in Busy("observe")' : q = r \/ (q \in Busy("observe") /\ task'[q] = task[q])
      /\ \A q \in Busy("replace")' : q \in Busy("replace") /\ task'[q] = task[q]
  BY <1>1, <1>2 DEF Busy
<1>4. alerts' = alerts /\ forecasts' = forecasts
  BY DEF alerts, forecasts
<1>5. FxTyped'
  <2>1. \A q \in Busy("observe")' : ObserveTask(task'[q])
    BY <1>1, <1>2, <1>3 DEF FxInv, FxTyped
  <2>2. QED
    BY <1>1, <1>4, <2>1 DEF FxInv, FxTyped, MarketRecord
<1>6. Noticed'
  <2>1. NoticedBy(r)'
    BY <1>1, <1>2, <1>4 DEF NoticedBy, Due
  <2>2. ASSUME NEW q \in Busy("observe"), task'[q] = task[q] PROVE NoticedBy(q)'
    BY <1>4, <2>2 DEF FxInv, Noticed, NoticedBy, Due
  <2>3. QED
    BY <1>3, <2>1, <2>2 DEF Noticed
<1>7. AlertsFire' /\ Replacing' /\ OneGeneration'
  BY <1>3, <1>4 DEF FxInv, AlertsFire, Replacing, OneGeneration
<1>8. QED
  BY <1>5, <1>6, <1>7 DEF FxInv

\* The observation is committed: what it has found is triggered, and nothing else
\* that its rates cross was left to it.
LEMMA ObserveKeeps ==
    ASSUME FxInv, NEW r \in Requests, Observe(r)
    PROVE  FxInv'
<1> DEFINE t == task[r]
           new == [o \in Owners |-> IF o \in t.due THEN [alerts[o] EXCEPT !.triggered = TRUE]
                                                    ELSE alerts[o]]
           added == {row.rate : row \in Of("USDNGN", t.rows)}
<1>1. /\ t.kind = "observe"
      /\ market' = [market EXCEPT !.rates = market.rates \cup t.rows, !.alerts = new]
      /\ heard' = [o \in Owners |-> IF o \in t.scope \ t.edited THEN heard[o] \cup added ELSE heard[o]]
      /\ task' = [task EXCEPT ![r] = IdleTask] /\ crowded' = crowded
  BY DEF Observe, Finish
<1>2. FxTyped /\ ObserveTask(t) /\ NoticedBy(r) /\ AlertsFire
  BY <1>1 DEF FxInv, FxTyped, Noticed, Busy
<1>3. /\ task' = [q \in Requests |-> task'[q]] /\ task'[r] = IdleTask
      /\ \A q \in Requests : q # r => task'[q] = task[q]
  BY <1>1, <1>2, TaskChanges
<1>4. /\ \A q \in Busy("observe")' : q \in Busy("observe") /\ task'[q] = task[q]
      /\ \A q \in Busy("replace")' : q \in Busy("replace") /\ task'[q] = task[q]
  <2>1. IdleTask.kind = "idle"
    BY DEF IdleTask
  <2>2. QED
    BY <1>3, <2>1 DEF Busy
<1>5. ASSUME NEW o \in Owners
      PROVE  /\ new[o] = NoAlert \/ AlertRow(new[o])
             /\ o \notin t.due => new[o] = alerts[o]
             /\ o \in t.due => new[o] = NoAlert \/ new[o].triggered
  <2>1. CASE o \in t.due /\ AlertRow(alerts[o])
    <3>1. new[o] = [above |-> alerts[o].above, threshold |-> alerts[o].threshold,
                    enabled |-> alerts[o].enabled, triggered |-> TRUE]
      BY <2>1 DEF AlertRow
    <3>2. QED
      BY <2>1, <3>1 DEF AlertRow
  <2>2. CASE o \in t.due /\ alerts[o] = NoAlert
    <3>1. [NoAlert EXCEPT !.triggered = TRUE] = NoAlert
      BY DEF NoAlert
    <3>2. QED
      BY <2>2, <3>1
  <2>3. CASE o \notin t.due
    BY <1>2, <2>3 DEF FxTyped
  <2>4. QED
    BY <1>2, <2>1, <2>2, <2>3 DEF FxTyped
<1>6. new = [o \in Owners |-> new[o]]
  OBVIOUS
<1> HIDE DEF new, t, added
<1>7. /\ MarketRecord' /\ alerts' = new /\ forecasts' = forecasts
      /\ market'.trained = market.trained
  BY <1>1, <1>2, MarketChanges DEF alerts, forecasts
<1>8. FxTyped'
  <2>1. heard' = [o \in Owners |-> heard'[o]]
    BY <1>1
  <2>2. \A q \in Busy("observe")' : ObserveTask(task'[q])
    BY <1>2, <1>4 DEF FxTyped
  <2>3. QED
    BY <1>3, <1>5, <1>6, <1>7, <2>1, <2>2 DEF FxTyped
<1>9. Noticed'
  <2>1. ASSUME NEW q \in Busy("observe"), task'[q] = task[q] PROVE NoticedBy(q)'
    <3>1. NoticedBy(q) /\ task[q].scope \subseteq Owners
      BY <1>2 DEF FxInv, Noticed, FxTyped, ObserveTask
    <3>2. ASSUME NEW o, o \in Due(task[q].rows, task[q].scope)'
          PROVE  o \in Due(task[q].rows, task[q].scope)
      <4>1. o \in Owners /\ new[o] # NoAlert /\ ~new[o].triggered
        BY <1>7, <2>1, <3>1, <3>2 DEF Due
      <4>2. alerts'[o] = alerts[o]
        BY <1>5, <1>7, <4>1
      <4>3. QED
        BY <2>1, <3>2, <4>2 DEF Due, Crosses
    <3>3. QED
      BY <2>1, <3>1, <3>2 DEF NoticedBy
  <2>2. QED
    BY <1>4, <2>1 DEF Noticed
<1>10. AlertsFire'
  <2>1. ASSUME NEW o \in Owners, new[o] # NoAlert, new[o].enabled, ~new[o].triggered,
               NEW rate \in heard'[o]
        PROVE  ~Crosses(new[o], rate)
    <3>1. new[o] = alerts[o] /\ o \notin t.due
      BY <1>5, <2>1
    <3>2. CASE rate \in heard[o]
      BY <1>2, <2>1, <3>1, <3>2 DEF AlertsFire
    <3>3. CASE rate \notin heard[o]
      <4>1. o \in t.scope \ t.edited /\ rate \in added
        BY <1>1, <2>1, <3>3
      <4>2. o \notin Due(t.rows, t.scope)
        BY <1>2, <3>1, <4>1 DEF NoticedBy, t
      <4>3. PICK row \in Of("USDNGN", t.rows) : row.rate = rate
        BY <4>1 DEF added
      <4>4. QED
        BY <2>1, <3>1, <4>1, <4>2, <4>3 DEF Due
    <3>4. QED
      BY <3>2, <3>3
  <2>2. QED
    BY <1>7, <2>1 DEF AlertsFire, Crosses
<1>11. Replacing' /\ OneGeneration'
  BY <1>1, <1>4, <1>7 DEF FxInv, Replacing, OneGeneration
<1>12. QED
  BY <1>8, <1>9, <1>10, <1>11 DEF FxInv

\* Somebody edits an alert: what was heard before is forgotten, and the
\* observations under way are not expected to know of it.
LEMMA SetAlertKeeps ==
    ASSUME FxInv, NEW o \in Owners, NEW alert, SetAlert(o, alert),
           alert = NoAlert \/ AlertRow(alert)
    PROVE  FxInv'
<1> DEFINE new == [alerts EXCEPT ![o] = alert]
<1>1. /\ market' = [market EXCEPT !.alerts = new]
      /\ heard' = [heard EXCEPT ![o] = {}]
      /\ task' = [r \in Requests |->
            IF r \notin Busy("observe") THEN task[r]
            ELSE [task[r] EXCEPT !.edited = @ \cup {o},
                                 !.gone = IF alert = NoAlert THEN @ \cup {o} ELSE @]]
      /\ crowded' = crowded
  BY DEF SetAlert, alerts
<1>2. FxTyped
  BY DEF FxInv
<1>3. /\ new = [p \in Owners |-> new[p]] /\ new[o] = alert
      /\ \A p \in Owners : p # o => new[p] = alerts[p]
  BY <1>2 DEF FxTyped
<1>4. /\ heard' = [p \in Owners |-> heard'[p]] /\ heard'[o] = {}
      /\ \A p \in Owners : p # o => heard'[p] = heard[p]
  BY <1>1, <1>2 DEF FxTyped
<1>5. ASSUME NEW r \in Busy("observe")
      PROVE  /\ task'[r].kind = "observe" /\ ObserveTask(task'[r])
             /\ task'[r].rows = task[r].rows /\ task'[r].scope = task[r].scope
             /\ task'[r].due = task[r].due /\ task'[r].edited = task[r].edited \cup {o}
  <2> DEFINE gone == IF alert = NoAlert THEN task[r].gone \cup {o} ELSE task[r].gone
             edited == task[r].edited \cup {o}
  <2>1. task'[r] = [task[r] EXCEPT !.edited = edited, !.gone = gone]
    BY <1>1 DEF Busy
  <2>2. ObserveTask(task[r])
    BY <1>2 DEF FxTyped
  <2> HIDE DEF gone, edited
  <2>3. ASSUME NEW a, NEW b, NEW c, NEW d, NEW e,
               task[r] = [kind |-> "observe", rows |-> a, scope |-> b, due |-> c,
                          edited |-> d, gone |-> e]
        PROVE  task'[r] = [kind |-> "observe", rows |-> a, scope |-> b, due |-> c,
                           edited |-> edited, gone |-> gone]
    <3>1. task'[r] = [[kind |-> "observe", rows |-> a, scope |-> b, due |-> c,
                       edited |-> d, gone |-> e] EXCEPT !.edited = edited, !.gone = gone]
      BY <2>1, <2>3
    <3>2. QED
      BY <3>1
  <2>4. task'[r] = [kind |-> "observe", rows |-> task[r].rows, scope |-> task[r].scope,
                    due |-> task[r].due, edited |-> edited, gone |-> gone]
    BY <2>2, <2>3 DEF ObserveTask
  <2>5. QED
    BY <2>2, <2>4 DEF ObserveTask, edited
<1>6. /\ task' = [r \in Requests |-> task'[r]]
      /\ \A r \in Requests \ Busy("observe") : task'[r] = task[r]
  BY <1>1
<1>7. /\ Busy("observe")' = Busy("observe") /\ Busy("replace")' = Busy("replace")
      /\ \A r \in Busy("replace") : task'[r] = task[r]
  BY <1>5, <1>6 DEF Busy
<1> HIDE DEF new
<1>8. /\ MarketRecord' /\ alerts' = new /\ forecasts' = forecasts
      /\ market'.trained = market.trained
  BY <1>1, <1>2, MarketChanges DEF alerts, forecasts
<1>9. FxTyped'
  BY <1>2, <1>3, <1>4, <1>5, <1>6, <1>7, <1>8 DEF FxTyped
<1>10. Noticed'
  <2>1. ASSUME NEW r \in Busy("observe") PROVE NoticedBy(r)'
    <3>1. ASSUME NEW p, p \in Due(task[r].rows, task[r].scope)', p \notin task'[r].edited
          PROVE  p \in task'[r].due
      <4>1. p # o /\ p \notin task[r].edited /\ task'[r].rows = task[r].rows
            /\ task'[r].scope = task[r].scope
        BY <1>5, <3>1
      <4>2. p \in Owners
        BY <1>2, <3>1, <4>1 DEF FxTyped, ObserveTask, Due
      <4>3. alerts'[p] = alerts[p]
        BY <1>3, <1>8, <4>1, <4>2
      <4>4. p \in Due(task[r].rows, task[r].scope)
        BY <3>1, <4>1, <4>3 DEF Due, Crosses
      <4>5. NoticedBy(r)
        BY DEF FxInv, Noticed
      <4>6. QED
        BY <1>5, <4>1, <4>4, <4>5 DEF NoticedBy
    <3>2. QED
      BY <3>1 DEF NoticedBy
  <2>2. QED
    BY <1>7, <2>1 DEF Noticed
<1>11. AlertsFire'
  BY <1>3, <1>4, <1>8 DEF FxInv, AlertsFire, Crosses
<1>12. Replacing' /\ OneGeneration'
  BY <1>1, <1>7, <1>8 DEF FxInv, Replacing, OneGeneration
<1>13. QED
  BY <1>9, <1>10, <1>11, <1>12 DEF FxInv

\* The forecasts there are, about to be replaced.
LEMMA DeleteForecastsKeeps ==
    ASSUME FxInv, NEW r \in Requests, DeleteForecasts(r)
    PROVE  FxInv'
<1> DEFINE t == [kind |-> "replace", last |-> task[r].last, old |-> forecasts]
<1>1. /\ task[r].kind = "train" /\ task' = [task EXCEPT ![r] = t]
      /\ crowded' = (crowded \/ Busy("replace") # {}) /\ UNCHANGED <<market, heard>>
  BY DEF DeleteForecasts
<1>2. FxTyped
  BY DEF FxInv
<1>3. t.kind = "replace" /\ t.old = forecasts
  OBVIOUS
<1> HIDE DEF t
<1>4. /\ task' = [q \in Requests |-> task'[q]] /\ task'[r] = t
      /\ \A q \in Requests : q # r => task'[q] = task[q]
  BY <1>1, <1>2, TaskChanges
<1>5. /\ \A q \in Busy("observe")' : q \in Busy("observe") /\ task'[q] = task[q]
      /\ \A q \in Busy("replace")' : q = r \/ q \in Busy("replace")
  BY <1>3, <1>4 DEF Busy
<1>6. alerts' = alerts /\ forecasts' = forecasts /\ market' = market /\ heard' = heard
  BY <1>1 DEF alerts, forecasts
<1>7. FxTyped'
  BY <1>2, <1>4, <1>5, <1>6 DEF FxTyped, MarketRecord
<1>8. Noticed'
  <2>1. ASSUME NEW q \in Busy("observe"), task'[q] = task[q] PROVE NoticedBy(q)'
    BY <1>6, <2>1 DEF FxInv, Noticed, NoticedBy, Due
  <2>2. QED
    BY <1>5, <2>1 DEF Noticed
<1>9. Replacing'
  <2>1. CASE crowded'
    BY <2>1 DEF Replacing
  <2>2. CASE ~crowded'
    <3>1. Busy("replace") = {}
      BY <1>1, <2>2
    <3>2. \A q \in Busy("replace")' : q = r /\ forecasts' \subseteq task'[q].old
      BY <1>3, <1>4, <1>5, <1>6, <3>1
    <3>3. QED
      BY <3>2 DEF Replacing
  <2>3. QED
    BY <2>1, <2>2
<1>10. AlertsFire' /\ OneGeneration'
  BY <1>1, <1>6 DEF FxInv, AlertsFire, OneGeneration
<1>11. QED
  BY <1>7, <1>8, <1>9, <1>10 DEF FxInv

\* The new ones: of one training, unless another has put its own there meanwhile.
LEMMA InsertForecastsKeeps ==
    ASSUME FxInv, NEW r \in Requests, InsertForecasts(r)
    PROVE  FxInv'
<1> DEFINE f == [n |-> market.trained + 1, last |-> task[r].last]
           new == (forecasts \ task[r].old) \cup {f}
<1>1. /\ task[r].kind = "replace"
      /\ market' = [market EXCEPT !.trained = market.trained + 1, !.forecasts = new]
      /\ task' = [task EXCEPT ![r] = IdleTask] /\ UNCHANGED <<heard, crowded>>
  BY DEF InsertForecasts, Finish, forecasts
<1>2. FxTyped
  BY DEF FxInv
<1>3. /\ task' = [q \in Requests |-> task'[q]] /\ task'[r] = IdleTask
      /\ \A q \in Requests : q # r => task'[q] = task[q]
  BY <1>1, <1>2, TaskChanges
<1>4. /\ \A q \in Busy("observe")' : q \in Busy("observe") /\ task'[q] = task[q]
      /\ \A q \in Busy("replace")' : q # r /\ q \in Busy("replace")
  <2>1. IdleTask.kind = "idle"
    BY DEF IdleTask
  <2>2. QED
    BY <1>3, <2>1 DEF Busy
<1>5. new # {} /\ (~crowded => new = {f})
  BY <1>1 DEF FxInv, Replacing, Busy
<1> HIDE DEF new, f
<1>6. /\ MarketRecord' /\ alerts' = alerts /\ forecasts' = new
  BY <1>1, <1>2, MarketChanges DEF alerts, forecasts
<1>7. FxTyped'
  BY <1>1, <1>2, <1>3, <1>4, <1>6 DEF FxTyped
<1>8. Noticed'
  <2>1. ASSUME NEW q \in Busy("observe"), task'[q] = task[q] PROVE NoticedBy(q)'
    BY <1>6, <2>1 DEF FxInv, Noticed, NoticedBy, Due
  <2>2. QED
    BY <1>4, <2>1 DEF Noticed
<1>9. ~crowded => Busy("replace")' = {}
  BY <1>1, <1>4 DEF FxInv, Replacing, Busy
<1>10. Cardinality({f}) = 1
  BY FS_Singleton
<1>11. Replacing' /\ OneGeneration'
  BY <1>1, <1>5, <1>6, <1>9, <1>10 DEF Replacing, OneGeneration
<1>12. AlertsFire'
  BY <1>1, <1>6 DEF FxInv, AlertsFire
<1>13. QED
  BY <1>7, <1>8, <1>11, <1>12 DEF FxInv

\* Whatever the tasks of the history of rates write, it is no alert and no forecast.
LEMMA HistoryKeeps ==
    ASSUME FxInv, NEW r \in Requests,
           \/ FetchLive(r) \/ StoreLive(r) \/ Backfill(r) \/ FetchDays(r) \/ StoreDays(r)
           \/ BeginLock(r) \/ InsertLock(r) \/ FetchHistory(r) \/ ObserveFails(r)
    PROVE  FxInv' /\ market'.about = market.about
<1>1. UNCHANGED <<heard, crowded>>
  BY DEF FetchLive, StoreLive, Backfill, FetchDays, StoreDays, BeginLock, InsertLock, FetchHistory,
         ObserveFails, Fails
<1>2. \/ market' = market \/ \E rows : market' = [market EXCEPT !.rates = rows]
      \/ \E rows : market' = [market EXCEPT !.locks = rows]
  BY DEF FetchLive, StoreLive, Backfill, FetchDays, StoreDays, BeginLock, InsertLock, FetchHistory,
         ObserveFails, Fails, StartWith
<1>3. \/ task' = task
      \/ \E t : task' = [task EXCEPT ![r] = t] /\ t.kind \notin {"observe", "replace"}
  <2>1. CASE FetchLive(r)
    <3>1. task' = [task EXCEPT ![r] = [kind |-> "live", rows |-> {Row("USDNGN", now, 0, TRUE)}]]
      BY <2>1 DEF FetchLive, StartWith, Start
    <3>2. [kind |-> "live", rows |-> {Row("USDNGN", now, 0, TRUE)}].kind = "live"
      OBVIOUS
    <3>3. QED
      BY <3>1, <3>2
  <2>2. CASE FetchDays(r)
    <3>1. PICK days, quote :
             StartWith(r, [kind |-> "days", rows |-> {Midnight(d, quote) : d \in days}])
      BY <2>2 DEF FetchDays
    <3> DEFINE rows == {Midnight(d, quote) : d \in days}
    <3> HIDE DEF rows
    <3>2. task' = [task EXCEPT ![r] = [kind |-> "days", rows |-> rows]]
      BY <3>1 DEF rows, StartWith, Start
    <3>3. [kind |-> "days", rows |-> rows].kind = "days"
      OBVIOUS
    <3>4. QED
      BY <3>2, <3>3
  <2>3. CASE BeginLock(r)
    <3>1. PICK amount : task' = [task EXCEPT ![r] = [kind |-> "lock", amount |-> amount]]
      BY <2>3 DEF BeginLock, Start
    <3>2. [kind |-> "lock", amount |-> amount].kind = "lock"
      OBVIOUS
    <3>3. QED
      BY <3>1, <3>2
  <2>4. CASE FetchHistory(r)
    <3>1. PICK last : task' = [task EXCEPT ![r] = [kind |-> "train", last |-> last]]
      BY <2>4 DEF FetchHistory, Start
    <3>2. [kind |-> "train", last |-> last].kind = "train"
      OBVIOUS
    <3>3. QED
      BY <3>1, <3>2
  <2>5. IdleTask.kind = "idle"
    BY DEF IdleTask
  <2>6. CASE StoreLive(r) \/ Backfill(r) \/ StoreDays(r) \/ InsertLock(r) \/ ObserveFails(r)
    BY <2>5, <2>6 DEF StoreLive, Backfill, StoreDays, InsertLock, ObserveFails, Fails, Finish
  <2>7. QED
    BY <2>1, <2>2, <2>3, <2>4, <2>6
<1>4. FxTyped
  BY DEF FxInv
<1>5. /\ MarketRecord' /\ market'.alerts = alerts /\ market'.forecasts = forecasts
      /\ market'.trained = market.trained /\ market'.about = market.about
  BY <1>2, <1>4, MarketChanges DEF FxTyped, MarketRecord, alerts, forecasts
<1>6. /\ task' = [q \in Requests |-> task'[q]]
      /\ \A q \in Requests : \/ task'[q] = task[q]
                             \/ task'[q].kind \notin {"observe", "replace"}
  <2>1. CASE task' = task
    BY <1>4, <2>1 DEF FxTyped
  <2>2. CASE \E t : task' = [task EXCEPT ![r] = t] /\ t.kind \notin {"observe", "replace"}
    BY <1>4, <2>2, TaskChanges
  <2>3. QED
    BY <1>3, <2>1, <2>2
<1>7. QED
  BY <1>1, <1>5, <1>6, QuietKeeps

LEMMA FxStepKeeps ==
    ASSUME FxInv, FxNext
    PROVE  FxInv' /\ market'.about = market.about
<1>1. ASSUME NEW r \in Requests, Ingest(r) \/ Sync(r) PROVE FxInv' /\ market' = market
  <2>1. PICK rows, scope : scope \in SUBSET Owners /\ task' = [task EXCEPT ![r] = Observation(rows, scope)]
    <3>1. CASE Ingest(r)
      <4>1. \E rows : task' = [task EXCEPT ![r] = Observation(rows, {"own"})]
        BY <3>1 DEF Ingest, StartWith, Start
      <4>2. QED
        BY <4>1 DEF Owners
    <3>2. CASE Sync(r)
      <4>1. \E rows : task' = [task EXCEPT ![r] = Observation(rows, Owners)]
        BY <3>2 DEF Sync, StartWith, Start
      <4>2. QED
        BY <4>1
    <3>3. QED
      BY <1>1, <3>1, <3>2
  <2>2. UNCHANGED <<market, heard, crowded>>
    BY <1>1 DEF Ingest, Sync, StartWith
  <2>3. QED
    BY <2>1, <2>2, ObservationStarts
<1>2. ASSUME NEW r \in Requests, Observe(r) PROVE FxInv' /\ market'.about = market.about
  <2>1. \E rows, new : market' = [market EXCEPT !.rates = rows, !.alerts = new]
    BY <1>2 DEF Observe
  <2>2. QED
    BY <1>2, <2>1, ObserveKeeps, MarketChanges DEF FxInv
<1>3. ASSUME CreateAlert \/ UpdateAlert \/ DeleteAlert
      PROVE  FxInv' /\ market'.about = market.about
  <2>1. PICK o, alert : o \in Owners /\ SetAlert(o, alert) /\ (alert = NoAlert \/ AlertRow(alert))
    <3>1. CASE CreateAlert
      <4>1. PICK o \in Owners, threshold \in Quotes :
               SetAlert(o, [above |-> o = "own", threshold |-> threshold,
                            enabled |-> TRUE, triggered |-> FALSE])
        BY <3>1 DEF CreateAlert
      <4>2. QED
        BY <4>1 DEF AlertRow
    <3>2. CASE UpdateAlert
      <4>1. PICK o, threshold, enabled :
               /\ o \in Owners /\ alerts[o] # NoAlert
               /\ SetAlert(o, [alerts[o] EXCEPT !.threshold = threshold, !.enabled = enabled])
        BY <3>2 DEF UpdateAlert
      <4>2. AlertRow(alerts[o])
        BY <4>1 DEF FxInv, FxTyped
      <4>3. ASSUME NEW a, NEW b, NEW c, NEW d,
                   alerts[o] = [above |-> a, threshold |-> b, enabled |-> c, triggered |-> d]
            PROVE  AlertRow([alerts[o] EXCEPT !.threshold = threshold, !.enabled = enabled])
        <5>1. [alerts[o] EXCEPT !.threshold = threshold, !.enabled = enabled]
                = [[above |-> a, threshold |-> b, enabled |-> c, triggered |-> d]
                     EXCEPT !.threshold = threshold, !.enabled = enabled]
          BY <4>3
        <5>2. [[above |-> a, threshold |-> b, enabled |-> c, triggered |-> d]
                 EXCEPT !.threshold = threshold]
                = [above |-> a, threshold |-> threshold, enabled |-> c, triggered |-> d]
          OBVIOUS
        <5>3. [[above |-> a, threshold |-> threshold, enabled |-> c, triggered |-> d]
                 EXCEPT !.enabled = enabled]
                = [above |-> a, threshold |-> threshold, enabled |-> enabled, triggered |-> d]
          OBVIOUS
        <5>4. QED
          BY <5>1, <5>2, <5>3 DEF AlertRow
      <4>4. AlertRow([alerts[o] EXCEPT !.threshold = threshold, !.enabled = enabled])
        BY <4>2, <4>3 DEF AlertRow
      <4>5. QED
        BY <4>1, <4>4
    <3>3. CASE DeleteAlert
      BY <3>3 DEF DeleteAlert
    <3>4. QED
      BY <1>3, <3>1, <3>2, <3>3
  <2>2. market' = [market EXCEPT !.alerts = [alerts EXCEPT ![o] = alert]]
    BY <2>1 DEF SetAlert, alerts
  <2>3. QED
    BY <2>1, <2>2, SetAlertKeeps, MarketChanges DEF FxInv
<1>4. ASSUME Tick \/ DeleteRate PROVE FxInv' /\ market'.about = market.about
  <2>1. UNCHANGED <<task, heard, crowded>>
        /\ (market' = market \/ \E rows : market' = [market EXCEPT !.rates = rows])
    BY <1>4 DEF Tick, DeleteRate
  <2>2. /\ MarketRecord' /\ market'.alerts = alerts /\ market'.forecasts = forecasts
        /\ market'.trained = market.trained /\ market'.about = market.about
    BY <2>1, MarketChanges DEF FxInv, FxTyped, MarketRecord, alerts, forecasts
  <2>3. task' = [q \in Requests |-> task'[q]]
    BY <2>1 DEF FxInv, FxTyped
  <2>4. QED
    BY <2>1, <2>2, <2>3, QuietKeeps
<1>5. ASSUME NEW r \in Requests, DeleteForecasts(r) PROVE FxInv' /\ market' = market
  BY <1>5, DeleteForecastsKeeps DEF DeleteForecasts
<1>6. ASSUME NEW r \in Requests, InsertForecasts(r) PROVE FxInv' /\ market'.about = market.about
  <2>1. \E n, new : market' = [market EXCEPT !.trained = n, !.forecasts = new]
    BY <1>6 DEF InsertForecasts
  <2>2. QED
    BY <1>6, <2>1, InsertForecastsKeeps, MarketChanges DEF FxInv
<1>7. QED
  BY <1>1, <1>2, <1>3, <1>4, <1>5, <1>6, HistoryKeeps DEF FxNext

LEMMA MarketStarts ==
    ASSUME NothingAsked, NEW about, NEW rows, NEW legacy, market = Market(about, rows, legacy)
    PROVE  FxInv
<1>1. /\ market = [about |-> about, rates |-> rows, alerts |-> [o \in Owners |-> NoAlert],
                   locks |-> {}, forecasts |-> {}, trained |-> 0, eurAlert |-> legacy]
  BY DEF Market
<1>2. /\ MarketRecord /\ alerts = [o \in Owners |-> NoAlert] /\ forecasts = {}
      /\ market.trained = 0
  BY <1>1 DEF MarketRecord, alerts, forecasts
<1>3. /\ task = [r \in Requests |-> IdleTask] /\ heard = [o \in Owners |-> {}]
      /\ IdleTask.kind = "idle"
  BY DEF NothingAsked, IdleTask
<1>4. Busy("observe") = {} /\ Busy("replace") = {}
  BY <1>3 DEF Busy
<1>5. FxTyped
  BY <1>2, <1>3, <1>4 DEF FxTyped
<1>6. Noticed /\ Replacing /\ AlertsFire
  BY <1>2, <1>3, <1>4 DEF Noticed, Replacing, AlertsFire
<1>7. OneGeneration
  BY <1>2, FS_EmptySet DEF OneGeneration
<1>8. QED
  BY <1>5, <1>6, <1>7 DEF FxInv

LEMMA FxStutters == ASSUME FxInv, UNCHANGED fxVars PROVE FxInv'
BY DEF fxVars, FxInv, FxTyped, MarketRecord, alerts, forecasts, Busy, Noticed, NoticedBy, Due,
       Replacing, AlertsFire, OneGeneration

THEOREM FxInvariant == FxSpec => []FxInv
<1>1. FxInit => FxInv
  BY MarketStarts DEF FxInit
<1>2. FxInv /\ [FxNext]_fxVars => FxInv'
  BY FxStepKeeps, FxStutters
<1>3. QED
  BY <1>1, <1>2, PTL DEF FxSpec

\* No rate that crosses an alert as it stands leaves it untriggered (check_alerts(),
\* ingest_rate(), sync_external_rates(), update_alert()).
THEOREM AlertsFireHolds == FxSpec => []AlertsFire
BY FxInvariant, PTL DEF FxInv

\* Forecasts are of one training unless two replaced them at the same time
\* (train_and_forecast()).
THEOREM OneGenerationHolds == FxSpec => []OneGeneration
BY FxInvariant, PTL DEF FxInv

------------------------------------------------------------------------------
(* Projections (Cashflow).                                                 *)

Owed == [1..Months -> Int]
Changes == [loan : Int, cost : Int, month : Int]
Bases == [loan : Int, cost : Int, owed : Owed, revenue : Int, rate : Int]
Projections == [stamp : Nat, day : Int, scenario : Scenarios, basis : Bases]
ProjectionJobs ==
    [kind : {"loan", "cost", "deliver", "stress", "view"}, change : Changes,
     scenario : Scenarios, basis : Bases, stamp : Nat, day : Int]

Known(projection) ==
    (projection = None \/ projection \in Projections) /\ projection.stamp <= latest.stamp

\* A request that projects, one that reads no projection, or one that shows the
\* projection it has found.
JobTyped(r) ==
    \/ job[r] \in ProjectionJobs /\ job[r].stamp <= clock.stamp
    \/ {"stamp", "seen"} \cap DOMAIN job[r] = {} /\ job[r].kind # "view"
    \/ job[r] = [kind |-> "view", seen |-> job[r].seen] /\ Known(job[r].seen)

CashTyped ==
    /\ books \in [loan : Int, cost : Int, owed : Owed, revenue : Int]
    /\ clock = [day |-> clock.day, stamp |-> clock.stamp, requests |-> clock.requests]
    /\ clock.stamp \in Nat /\ clock.day \in Int
    /\ latest.stamp \in Nat /\ latest.stamp <= clock.stamp /\ Known(latest)
    /\ job = [r \in Requests |-> job[r]] /\ \A r \in Requests : JobTyped(r)
    /\ market.about = "books" => rates \in RatesFound

\* What a projection is made from has the loans and costs of b, and owes nothing
\* that b does not.
Covers(basis, b) ==
    /\ basis.loan = b.loan /\ basis.cost = b.cost
    /\ \A m \in 1..Months : b.owed[m] = 0 => basis.owed[m] = 0

\* Unless projections overlap, one at most is under way, later than the one that
\* is shown and made from the books its request leaves.
Alone ==
    ~crossed =>
       /\ \A r, q \in Projecting : r = q
       /\ \A r \in Projecting :
             job[r].stamp > latest.stamp /\ Covers(job[r].basis, Apply(books, job[r].change))
       /\ Projecting = {} /\ latest # None => Covers(latest.basis, books)

CashInv == CashTyped /\ Alone

LEMMA RatesInt == ASSUME market.about = "books", CashTyped PROVE UsdNgn \in Int
<1>1. Max(Quotes) \in Int
  <2>1. \A q \in Quotes : q \in Int
    BY FxAssumption
  <2>2. \E x \in Quotes : \A y \in Quotes : y <= x
    BY <2>1, FxAssumption, GreatestIn
  <2>3. \E x \in Quotes : \A y \in Quotes : x >= y
    BY <2>1, <2>2
  <2>4. Max(Quotes) \in Quotes
    BY <2>3 DEF Max
  <2>5. QED
    BY <2>1, <2>4
<1> DEFINE row == Row("USDNGN", 0, Max(Quotes), FALSE)
<1>2. row.rate = Max(Quotes) /\ row.pair = "USDNGN" /\ row.at = 0
  BY DEF Row
<1>3. CASE Of("USDNGN", rates) = {}
  BY <1>3 DEF UsdNgn
<1>4. CASE Of("USDNGN", rates) # {}
  <2>1. rates = {row}
    BY <1>4 DEF CashTyped, RatesFound, Of
  <2> HIDE DEF row
  <2>2. Latest(Of("USDNGN", rates)) = {row}
    <3>1. Of("USDNGN", rates) = {row}
      BY <1>2, <2>1 DEF Of
    <3>2. row.at <= row.at
      BY <1>2
    <3>3. QED
      BY <3>1, <3>2 DEF Latest
  <2>3. UsdNgn = row.rate
    BY <1>4, <2>2 DEF UsdNgn
  <2>4. QED
    BY <1>1, <1>2, <2>3
<1>5. QED
  BY <1>3, <1>4

LEMMA AppliedBooks ==
    ASSUME CashTyped, NEW change \in Changes
    PROVE  /\ Apply(books, change) \in [loan : Int, cost : Int, owed : Owed, revenue : Int]
           /\ market.about = "books" => Basis(change) \in Bases
           /\ Covers(Basis(change), Apply(books, change))
<1> DEFINE owed == [m \in 1..Months |-> IF m = change.month THEN 0 ELSE books.owed[m]]
           b == Apply(books, change)
<1>1. /\ books.loan \in Int /\ books.cost \in Int /\ books.owed \in Owed /\ books.revenue \in Int
      /\ change.loan \in Int /\ change.cost \in Int
  BY DEF CashTyped, Changes
<1>2. owed \in Owed
  <2>1. \A m \in 1..Months : books.owed[m] \in Int
    BY <1>1 DEF Owed
  <2>2. \A m \in 1..Months : (IF m = change.month THEN 0 ELSE books.owed[m]) \in Int
    BY <2>1
  <2>3. QED
    BY <2>2 DEF Owed
<1>3. b = [books EXCEPT !.loan = books.loan + change.loan, !.cost = books.cost + change.cost,
                        !.owed = owed]
  BY DEF Apply
<1> HIDE DEF owed, b
<1>4. b \in [loan : Int, cost : Int, owed : Owed, revenue : Int]
  <2>1. books.loan + change.loan \in Int /\ books.cost + change.cost \in Int
    BY <1>1
  <2>2. QED
    BY <1>2, <1>3, <2>1 DEF CashTyped
<1>5. Basis(change) = [loan |-> b.loan, cost |-> b.cost, owed |-> b.owed, revenue |-> b.revenue,
                       rate |-> UsdNgn]
  BY DEF Basis, AtTodaysRate, b
<1>6. market.about = "books" => Basis(change) \in Bases
  BY <1>4, <1>5, RatesInt DEF Bases
<1>7. Covers(Basis(change), b)
  BY <1>5 DEF Covers
<1>8. QED
  BY <1>4, <1>6, <1>7 DEF b

\* What a request that has changed neither books nor projection may rely on.
LEMMA RequestsKeep ==
    ASSUME CashTyped, NEW r \in Requests, NEW j, job' = [job EXCEPT ![r] = j]
    PROVE  /\ job' = [q \in Requests |-> job'[q]] /\ job'[r] = j
           /\ \A q \in Requests : q # r => job'[q] = job[q]
<1>1. job = [q \in Requests |-> job[q]]
  BY DEF CashTyped
<1>2. job' = [q \in Requests |-> IF q = r THEN j ELSE job[q]]
  BY <1>1
<1>3. QED
  BY <1>2

LEMMA ProjectionsRead ==
    ASSUME NEW r \in Requests, JobTyped(r)
    PROVE  /\ r \in Projecting <=> job[r] \in ProjectionJobs
           /\ r \in Projecting => "seen" \notin DOMAIN job[r]
           /\ r \in Running("view") /\ r \notin Projecting =>
                  /\ job[r] = [kind |-> "view", seen |-> job[r].seen] /\ Known(job[r].seen)
                  /\ "seen" \in DOMAIN job[r]
<1>1. CASE job[r] \in ProjectionJobs
  <2>1. "stamp" \in DOMAIN job[r] /\ "seen" \notin DOMAIN job[r]
    BY <1>1 DEF ProjectionJobs
  <2>2. QED
    BY <1>1, <2>1 DEF Projecting
<1>2. CASE job[r] = [kind |-> "view", seen |-> job[r].seen] /\ Known(job[r].seen)
  <2>1. "stamp" \notin DOMAIN job[r] /\ "seen" \in DOMAIN job[r]
    BY <1>2
  <2>2. job[r] \notin ProjectionJobs
    BY <2>1 DEF ProjectionJobs
  <2>3. QED
    BY <1>2, <2>1, <2>2 DEF Projecting
<1>3. CASE {"stamp", "seen"} \cap DOMAIN job[r] = {} /\ job[r].kind # "view"
  <2>1. "stamp" \notin DOMAIN job[r]
    BY <1>3
  <2>2. job[r] \notin ProjectionJobs
    BY <2>1 DEF ProjectionJobs
  <2>3. QED
    BY <1>3, <2>1, <2>2 DEF Projecting, Running
<1>4. QED
  BY <1>1, <1>2, <1>3 DEF JobTyped

\* A request keeps what it has read as time passes and projections are made.
LEMMA JobStands ==
    ASSUME NEW r \in Requests, JobTyped(r), job'[r] = job[r],
           clock.stamp \in Nat, clock'.stamp \in Nat, clock.stamp <= clock'.stamp,
           latest.stamp \in Nat, latest'.stamp \in Nat, latest.stamp <= latest'.stamp
    PROVE  JobTyped(r)'
<1>1. CASE job[r] \in ProjectionJobs /\ job[r].stamp <= clock.stamp
  <2>1. job[r].stamp \in Nat
    BY <1>1 DEF ProjectionJobs
  <2>2. job[r].stamp <= clock'.stamp
    BY <1>1, <2>1
  <2>3. QED
    BY <1>1, <2>2 DEF JobTyped
<1>2. CASE job[r] = [kind |-> "view", seen |-> job[r].seen] /\ Known(job[r].seen)
  <2>1. job[r].seen.stamp \in Nat
    BY <1>2 DEF Known, None, Projections
  <2>2. Known(job[r].seen)'
    BY <1>2, <2>1 DEF Known
  <2>3. QED
    BY <1>2, <2>2 DEF JobTyped
<1>3. CASE {"stamp", "seen"} \cap DOMAIN job[r] = {} /\ job[r].kind # "view"
  BY <1>3 DEF JobTyped
<1>4. QED
  BY <1>1, <1>2, <1>3 DEF JobTyped

\* The clock as a request begins.
LEMMA ClockGoesOn ==
    ASSUME CashTyped
    PROVE  /\ clock' = [clock EXCEPT !.requests = clock.requests + 1] =>
                 /\ clock' = [day |-> clock'.day, stamp |-> clock'.stamp, requests |-> clock'.requests]
                 /\ clock'.stamp = clock.stamp /\ clock'.day = clock.day
           /\ clock' = [clock EXCEPT !.day = clock.day + 1] =>
                 /\ clock' = [day |-> clock'.day, stamp |-> clock'.stamp, requests |-> clock'.requests]
                 /\ clock'.stamp = clock.stamp /\ clock'.day = clock.day + 1
           /\ clock' = [clock EXCEPT !.stamp = clock.stamp + 1, !.requests = clock.requests + 1] =>
                 /\ clock' = [day |-> clock'.day, stamp |-> clock'.stamp, requests |-> clock'.requests]
                 /\ clock'.stamp = clock.stamp + 1 /\ clock'.day = clock.day
<1>1. PICK d, s, n : clock = [day |-> d, stamp |-> s, requests |-> n]
  BY DEF CashTyped
<1>2. QED
  BY <1>1

\* A request that makes no projection begins or ends.
LEMMA QuietRequestKeeps ==
    ASSUME CashInv, NEW r \in Requests, NEW j, job' = [job EXCEPT ![r] = j],
           r \notin Projecting, "stamp" \notin DOMAIN j,
           \/ j = [kind |-> "view", seen |-> latest]
           \/ "seen" \notin DOMAIN j /\ j.kind # "view",
           UNCHANGED <<books, latest, crossed, market>>,
           clock' = clock \/ clock' = [clock EXCEPT !.requests = clock.requests + 1]
    PROVE  CashInv'
<1>1. /\ job' = [q \in Requests |-> job'[q]] /\ job'[r] = j
      /\ \A q \in Requests : q # r => job'[q] = job[q]
  BY RequestsKeep DEF CashInv
<1>2. /\ clock' = [day |-> clock'.day, stamp |-> clock'.stamp, requests |-> clock'.requests]
      /\ clock'.stamp = clock.stamp /\ clock'.day = clock.day
  BY ClockGoesOn DEF CashInv, CashTyped
<1>3. Projecting' = Projecting
  BY <1>1 DEF Projecting
<1>4. JobTyped(r)'
  <2>1. CASE j = [kind |-> "view", seen |-> latest]
    <3>1. Known(latest)
      BY DEF CashInv, CashTyped
    <3>2. Known(j.seen)' /\ j = [kind |-> "view", seen |-> j.seen]
      BY <2>1, <3>1 DEF Known
    <3>3. QED
      BY <1>1, <3>2 DEF JobTyped
  <2>2. CASE "seen" \notin DOMAIN j /\ j.kind # "view"
    BY <1>1, <2>2 DEF JobTyped
  <2>3. QED
    BY <2>1, <2>2
<1>5. ASSUME NEW q \in Requests, q # r PROVE JobTyped(q)'
  <2>1. /\ JobTyped(q) /\ job'[q] = job[q] /\ clock.stamp \in Nat /\ latest.stamp \in Nat
        /\ latest'.stamp = latest.stamp
    BY <1>1, <1>5 DEF CashInv, CashTyped
  <2>2. clock'.stamp \in Nat /\ clock.stamp <= clock'.stamp /\ latest.stamp <= latest'.stamp
    BY <1>2, <2>1
  <2>3. QED
    BY <2>1, <2>2, JobStands
<1>6. CashTyped'
  <2>1. Known(latest)'
    BY DEF CashInv, CashTyped, Known
  <2>2. rates' = rates
    BY DEF rates
  <2>3. \A q \in Requests : JobTyped(q)'
    BY <1>4, <1>5
  <2>4. QED
    BY <1>1, <1>2, <2>1, <2>2, <2>3 DEF CashInv, CashTyped, RatesFound
<1>7. Alone'
  BY <1>1, <1>3 DEF CashInv, Alone, Covers, Apply
<1>8. QED
  BY <1>6, <1>7 DEF CashInv

\* A request that projects reads the books with its own change.
LEMMA BeginProjectionKeeps ==
    ASSUME CashInv, market.about = "books", UNCHANGED market, NEW r \in Requests,
           NEW kind \in {"loan", "cost", "deliver", "stress", "view"},
           NEW change \in Changes, NEW scenario \in Scenarios,
           BeginProjection(r, kind, change, scenario)
    PROVE  CashInv'
<1> DEFINE basis == Basis(change)
           j == [kind |-> kind, change |-> change, scenario |-> scenario,
                 basis |-> basis, stamp |-> clock.stamp + 1, day |-> clock.day]
<1>1. /\ job[r] = Idle /\ job' = [job EXCEPT ![r] = j] /\ UNCHANGED <<books, latest>>
      /\ clock' = [clock EXCEPT !.stamp = clock.stamp + 1, !.requests = clock.requests + 1]
      /\ crossed' = (Projecting # {})
  BY DEF BeginProjection, Begin
<1>2. /\ basis \in Bases /\ Covers(basis, Apply(books, change))
  BY AppliedBooks DEF CashInv
<1>3. clock.stamp \in Nat /\ clock.day \in Int /\ latest.stamp \in Nat /\ latest.stamp <= clock.stamp
  BY DEF CashInv, CashTyped
<1> HIDE DEF basis
<1>4. /\ j \in ProjectionJobs /\ j.stamp = clock.stamp + 1 /\ j.basis = basis /\ j.change = change
      /\ "stamp" \in DOMAIN j
  BY <1>2, <1>3 DEF ProjectionJobs
<1> HIDE DEF j
<1>5. /\ job' = [q \in Requests |-> job'[q]] /\ job'[r] = j
      /\ \A q \in Requests : q # r => job'[q] = job[q]
  BY <1>1, RequestsKeep DEF CashInv
<1>6. /\ clock' = [day |-> clock'.day, stamp |-> clock'.stamp, requests |-> clock'.requests]
      /\ clock'.stamp = clock.stamp + 1 /\ clock'.day = clock.day
  BY <1>1, ClockGoesOn DEF CashInv
<1>7. Projecting' = Projecting \cup {r}
  BY <1>4, <1>5 DEF Projecting
<1>8. JobTyped(r)'
  <2>1. j.stamp <= clock'.stamp
    BY <1>3, <1>4, <1>6
  <2>2. QED
    BY <1>4, <1>5, <2>1 DEF JobTyped
<1>9. ASSUME NEW q \in Requests, q # r PROVE JobTyped(q)'
  <2>1. /\ JobTyped(q) /\ job'[q] = job[q] /\ latest'.stamp = latest.stamp
    BY <1>1, <1>5, <1>9 DEF CashInv, CashTyped
  <2>2. clock'.stamp \in Nat /\ clock.stamp <= clock'.stamp /\ latest.stamp <= latest'.stamp
    BY <1>3, <1>6, <2>1
  <2>3. QED
    BY <1>3, <2>1, <2>2, JobStands
<1>10. CashTyped'
  <2>1. Known(latest)'
    BY <1>1 DEF CashInv, CashTyped, Known
  <2>2. rates' = rates
    BY DEF rates
  <2>3. \A q \in Requests : JobTyped(q)'
    BY <1>8, <1>9
  <2>4. clock'.stamp \in Nat /\ latest'.stamp = latest.stamp /\ latest'.stamp <= clock'.stamp
    BY <1>1, <1>3, <1>6
  <2>5. QED
    BY <1>1, <1>3, <1>5, <1>6, <2>1, <2>2, <2>3, <2>4 DEF CashInv, CashTyped, RatesFound
<1>11. Alone'
  <2>1. SUFFICES ASSUME ~crossed' PROVE Alone'
    BY DEF Alone
  <2>2. Projecting' = {r}
    BY <1>1, <1>7, <2>1
  <2>3. job'[r].stamp > latest'.stamp
    BY <1>1, <1>3, <1>4, <1>5
  <2>4. Covers(job'[r].basis, Apply(books', job'[r].change))
    BY <1>1, <1>2, <1>4, <1>5 DEF Covers, Apply
  <2>5. Covers(job[r].basis, Apply(books, job[r].change))'
    BY <2>4 DEF Covers, Apply
  <2>6. QED
    BY <2>2, <2>3, <2>5 DEF Alone
<1>12. QED
  BY <1>10, <1>11 DEF CashInv

\* What is shown is not older than what is kept unless it is not shown again.
LEMMA CommitKeeps ==
    ASSUME CashInv, UNCHANGED market, NEW r \in Requests, Commit(r)
    PROVE  CashInv'
<1>1. /\ r \in Projecting \cup Running("view")
      /\ books' = IF r \in Projecting THEN Apply(books, job[r].change) ELSE books
      /\ latest' = IF Shown(job[r]).stamp > latest.stamp THEN Shown(job[r]) ELSE latest
      /\ job' = [job EXCEPT ![r] = Idle] /\ UNCHANGED <<clock, crossed>>
  BY DEF Commit
<1>2. /\ clock.stamp \in Nat /\ latest.stamp \in Nat /\ latest.stamp <= clock.stamp
      /\ books \in [loan : Int, cost : Int, owed : Owed, revenue : Int]
      /\ Known(latest) /\ \A q \in Requests : JobTyped(q)
  BY DEF CashInv, CashTyped
<1>3. /\ job' = [q \in Requests |-> job'[q]] /\ job'[r] = Idle
      /\ \A q \in Requests : q # r => job'[q] = job[q]
  BY <1>1, RequestsKeep DEF CashInv
<1>4. Projecting' = Projecting \ {r}
  BY <1>3 DEF Projecting, Idle
<1>5. /\ books' \in [loan : Int, cost : Int, owed : Owed, revenue : Int]
      /\ latest'.stamp \in Nat /\ latest.stamp <= latest'.stamp /\ latest'.stamp <= clock.stamp
      /\ latest' = None \/ latest' \in Projections
      /\ r \in Projecting => /\ job[r].stamp > latest.stamp =>
                                   latest'.basis = job[r].basis /\ latest' # None
      /\ r \notin Projecting => latest' = latest
  <2>1. CASE r \in Projecting
    <3>1. /\ job[r] \in ProjectionJobs /\ "seen" \notin DOMAIN job[r]
      BY <1>2, <2>1, ProjectionsRead
    <3>2. job[r].stamp <= clock.stamp
      <4>1. JobTyped(r) /\ "stamp" \in DOMAIN job[r]
        BY <1>2, <2>1 DEF Projecting
      <4>2. job[r] # [kind |-> "view", seen |-> job[r].seen]
        BY <4>1
      <4>3. QED
        BY <4>1, <4>2 DEF JobTyped
    <3> DEFINE p == ProjectionOf(job[r])
    <3>3. p \in Projections /\ p.stamp = job[r].stamp /\ p.basis = job[r].basis
      BY <3>1 DEF ProjectionOf, ProjectionJobs, Projections
    <3>4. Shown(job[r]) = p
      BY <3>1 DEF Shown
    <3> HIDE DEF p
    <3>5. p.stamp \in Nat /\ latest.stamp \in Nat
      BY <1>2, <3>3 DEF Projections
    <3>6. Apply(books, job[r].change) \in [loan : Int, cost : Int, owed : Owed, revenue : Int]
      BY <3>1, AppliedBooks DEF CashInv, ProjectionJobs
    <3>7. CASE p.stamp > latest.stamp
      <4>1. latest' = p /\ books' = Apply(books, job[r].change)
        BY <1>1, <2>1, <3>4, <3>7
      <4>2. p # None
        BY <3>3 DEF Projections, None
      <4>3. QED
        BY <1>2, <2>1, <3>2, <3>3, <3>5, <3>6, <3>7, <4>1, <4>2
    <3>8. CASE ~ (p.stamp > latest.stamp)
      <4>1. latest' = latest /\ books' = Apply(books, job[r].change)
        BY <1>1, <2>1, <3>4, <3>8
      <4>2. QED
        BY <1>2, <2>1, <3>3, <3>6, <3>8, <4>1 DEF Known
    <3>9. QED
      BY <3>7, <3>8
  <2>2. CASE r \notin Projecting
    <3>1. /\ job[r] = [kind |-> "view", seen |-> job[r].seen] /\ Known(job[r].seen)
          /\ "seen" \in DOMAIN job[r]
      BY <1>1, <1>2, <2>2, ProjectionsRead
    <3>2. Shown(job[r]) = job[r].seen
      BY <3>1 DEF Shown
    <3>3. job[r].seen.stamp <= latest.stamp /\ job[r].seen.stamp \in Nat
      BY <3>1 DEF Known, None, Projections
    <3>4. ~ (job[r].seen.stamp > latest.stamp)
      BY <1>2, <3>3
    <3>5. latest' = latest /\ books' = books
      BY <1>1, <2>2, <3>2, <3>4
    <3>6. QED
      BY <1>2, <2>2, <3>5 DEF Known
  <2>3. QED
    BY <2>1, <2>2
<1>6. ASSUME NEW q \in Requests, q # r PROVE JobTyped(q)'
  <2>1. JobTyped(q) /\ job'[q] = job[q] /\ clock'.stamp = clock.stamp
    BY <1>1, <1>2, <1>3, <1>6
  <2>2. clock'.stamp \in Nat /\ clock.stamp <= clock'.stamp
    BY <1>2, <2>1
  <2>3. QED
    BY <1>2, <1>5, <2>1, <2>2, JobStands
<1>7. JobTyped(r)'
  BY <1>3 DEF JobTyped, Idle
<1>8. CashTyped'
  <2>1. Known(latest)'
    BY <1>5 DEF Known
  <2>2. rates' = rates
    BY DEF rates
  <2>3. \A q \in Requests : JobTyped(q)'
    BY <1>6, <1>7
  <2>4. QED
    BY <1>1, <1>2, <1>3, <1>5, <2>1, <2>2, <2>3 DEF CashInv, CashTyped, RatesFound
<1>9. Alone'
  <2>1. SUFFICES ASSUME ~crossed' PROVE Alone'
    BY DEF Alone
  <2>2. /\ \A p, q \in Projecting : p = q
        /\ \A q \in Projecting :
              job[q].stamp > latest.stamp /\ Covers(job[q].basis, Apply(books, job[q].change))
        /\ Projecting = {} /\ latest # None => Covers(latest.basis, books)
    BY <1>1, <2>1 DEF CashInv, Alone
  <2>3. CASE r \in Projecting
    <3>1. Projecting' = {}
      BY <1>4, <2>2, <2>3
    <3>2. books' = Apply(books, job[r].change) /\ latest'.basis = job[r].basis
      BY <1>1, <1>5, <2>2, <2>3
    <3>3. Covers(latest.basis, books)'
      BY <2>2, <2>3, <3>2 DEF Covers
    <3>4. QED
      BY <3>1, <3>3 DEF Alone
  <2>4. CASE r \notin Projecting
    <3>1. Projecting' = Projecting /\ latest' = latest /\ books' = books
      BY <1>1, <1>4, <1>5, <2>4
    <3>2. \A q \in Projecting : job'[q] = job[q]
      BY <1>3, <2>4 DEF Projecting
    <3>3. QED
      BY <2>2, <3>1, <3>2 DEF Alone, Covers, Apply
  <2>5. QED
    BY <2>3, <2>4
<1>10. QED
  BY <1>8, <1>9 DEF CashInv

\* Orders placed, sales and time change what is owed upwards, the revenue and the
\* day alone.
LEMMA OutsideKeeps ==
    ASSUME CashInv, UNCHANGED market, Outside
    PROVE  CashInv'
<1>1. UNCHANGED <<latest, job, crossed>>
  BY DEF Outside
<1>2. /\ books \in [loan : Int, cost : Int, owed : Owed, revenue : Int]
      /\ clock.stamp \in Nat /\ clock.day \in Int /\ latest.stamp \in Nat
      /\ latest.stamp <= clock.stamp /\ job = [q \in Requests |-> job[q]]
      /\ Known(latest) /\ \A q \in Requests : JobTyped(q)
      /\ clock = [day |-> clock.day, stamp |-> clock.stamp, requests |-> clock.requests]
  BY DEF CashInv, CashTyped
<1>3. /\ clock' = [day |-> clock'.day, stamp |-> clock'.stamp, requests |-> clock'.requests]
      /\ clock'.stamp = clock.stamp /\ clock'.day \in Int
  <2>1. CASE clock' = clock
    BY <1>2, <2>1
  <2>2. CASE clock' = [clock EXCEPT !.day = clock.day + 1]
    BY <1>2, <2>2, ClockGoesOn DEF CashInv
  <2>3. QED
    BY <2>1, <2>2 DEF Outside
<1>4. /\ books' \in [loan : Int, cost : Int, owed : Owed, revenue : Int]
      /\ books'.loan = books.loan /\ books'.cost = books.cost
      /\ \A m \in 1..Months : books'.owed[m] = 0 => books.owed[m] = 0
  <2>1. CASE books' = books
    BY <1>2, <2>1
  <2>2. ASSUME NEW m \in 1..Months, books' = [books EXCEPT !.owed[m] = 1]
        PROVE  /\ books' \in [loan : Int, cost : Int, owed : Owed, revenue : Int]
               /\ books'.loan = books.loan /\ books'.cost = books.cost
               /\ \A i \in 1..Months : books'.owed[i] = 0 => books.owed[i] = 0
    <3> DEFINE owed == [books.owed EXCEPT ![m] = 1]
    <3>1. books.owed \in [1..Months -> Int]
      BY <1>2 DEF Owed
    <3>2. /\ owed \in [1..Months -> Int]
          /\ \A i \in 1..Months : owed[i] = 0 => books.owed[i] = 0
      BY <3>1
    <3>3. books' = [books EXCEPT !.owed = owed]
      BY <2>2
    <3> HIDE DEF owed
    <3>4. QED
      BY <1>2, <3>2, <3>3 DEF Owed
  <2>3. CASE books' = [books EXCEPT !.revenue = 2 * Revenue]
    <3>1. 2 * Revenue \in Int
      BY CashAssumption
    <3>2. QED
      BY <1>2, <2>3, <3>1
  <2>4. QED
    BY <2>1, <2>2, <2>3 DEF Outside
<1>5. \A q \in Requests : JobTyped(q)'
  <2>1. ASSUME NEW q \in Requests PROVE JobTyped(q)'
    <3>1. /\ JobTyped(q) /\ job'[q] = job[q] /\ latest'.stamp = latest.stamp
      BY <1>1, <1>2
    <3>2. clock'.stamp \in Nat /\ clock.stamp <= clock'.stamp /\ latest.stamp <= latest'.stamp
      BY <1>2, <1>3, <3>1
    <3>3. QED
      BY <1>2, <3>1, <3>2, JobStands
  <2>2. QED
    BY <2>1
<1>6. CashTyped'
  <2>1. Known(latest)'
    BY <1>1, <1>2 DEF Known
  <2>2. rates' = rates
    BY DEF rates
  <2>3. QED
    BY <1>1, <1>2, <1>3, <1>4, <1>5, <2>1, <2>2 DEF CashInv, CashTyped, RatesFound
<1>7. Alone'
  <2>1. SUFFICES ASSUME ~crossed' PROVE Alone'
    BY DEF Alone
  <2>2. Projecting' = Projecting
    BY <1>1 DEF Projecting
  <2>3. /\ \A p, q \in Projecting : p = q
        /\ \A q \in Projecting :
              job[q].stamp > latest.stamp /\ Covers(job[q].basis, Apply(books, job[q].change))
        /\ Projecting = {} /\ latest # None => Covers(latest.basis, books)
    BY <1>1, <2>1 DEF CashInv, Alone
  <2>4. ASSUME NEW q \in Projecting PROVE Covers(job'[q].basis, Apply(books', job'[q].change))
    <3> DEFINE change == job[q].change
               b == Apply(books, change)
               c == Apply(books', change)
    <3>1. Covers(job[q].basis, b) /\ job' = job
      BY <1>1, <2>3
    <3>2. change \in Changes
      <4>1. q \in Requests /\ JobTyped(q)
        BY <1>2 DEF Projecting
      <4>2. job[q] \in ProjectionJobs
        BY <4>1, ProjectionsRead
      <4>3. QED
        BY <4>2 DEF ProjectionJobs
    <3> HIDE DEF change
    <3>3. /\ b.loan = books.loan + change.loan /\ b.cost = books.cost + change.cost
          /\ b.owed = [m \in 1..Months |-> IF m = change.month THEN 0 ELSE books.owed[m]]
      BY <1>2 DEF Apply
    <3>4. /\ c.loan = books'.loan + change.loan /\ c.cost = books'.cost + change.cost
          /\ c.owed = [m \in 1..Months |-> IF m = change.month THEN 0 ELSE books'.owed[m]]
      BY <1>4 DEF Apply
    <3>5. \A m \in 1..Months : c.owed[m] = 0 => b.owed[m] = 0
      BY <1>4, <3>3, <3>4
    <3>6. c.loan = b.loan /\ c.cost = b.cost
      BY <1>4, <3>3, <3>4
    <3> HIDE DEF b, c
    <3>7. Covers(job[q].basis, c)
      BY <3>1, <3>5, <3>6 DEF Covers
    <3>8. QED
      BY <3>1, <3>7 DEF c, change
  <2>5. Projecting = {} /\ latest # None => Covers(latest.basis, books')
    BY <1>4, <2>3 DEF Covers
  <2>6. QED
    BY <1>1, <2>2, <2>3, <2>4, <2>5 DEF Alone, Covers, Apply
<1>8. QED
  BY <1>6, <1>7 DEF CashInv

LEMMA CashStepKeeps ==
    ASSUME CashInv, market.about = "books", UNCHANGED market, CashStep
    PROVE  CashInv'
<1>1. CASE Outside
  BY <1>1, OutsideKeeps
<1>2. ASSUME NEW r \in Requests, CreateLoan(r) \/ CreateCost(r) \/ DeliverOrder(r) \/ Stress(r)
      PROVE  CashInv'
  <2>1. /\ NoChange \in Changes
        /\ \A a \in Amounts : /\ [NoChange EXCEPT !.loan = a] \in Changes
                              /\ [NoChange EXCEPT !.cost = a] \in Changes
        /\ \A m \in 1..Months : [NoChange EXCEPT !.month = m] \in Changes
    BY CashAssumption DEF NoChange, Changes
  <2>2. "BASE" \in Scenarios /\ Scenarios \ {"BASE"} \subseteq Scenarios
    BY DEF Scenarios
  <2>3. PICK kind \in {"loan", "cost", "deliver", "stress", "view"}, change \in Changes,
             scenario \in Scenarios : BeginProjection(r, kind, change, scenario)
    <3>1. CASE CreateLoan(r)
      BY <2>1, <2>2, <3>1 DEF CreateLoan
    <3>2. CASE CreateCost(r)
      BY <2>1, <2>2, <3>2 DEF CreateCost
    <3>3. CASE DeliverOrder(r)
      BY <2>1, <2>2, <3>3 DEF DeliverOrder
    <3>4. CASE Stress(r)
      BY <2>1, <2>2, <3>4 DEF Stress
    <3>5. QED
      BY <1>2, <3>1, <3>2, <3>3, <3>4
  <2>4. QED
    BY <2>3, BeginProjectionKeeps
<1>3. ASSUME NEW r \in Requests, View(r) PROVE CashInv'
  <2>1. CASE BeginProjection(r, "view", NoChange, "BASE")
    <3>1. NoChange \in Changes /\ "BASE" \in Scenarios
      BY DEF NoChange, Changes, Scenarios
    <3>2. QED
      BY <2>1, <3>1, BeginProjectionKeeps
  <2>2. CASE /\ Begin(r, [kind |-> "view", seen |-> latest])
             /\ clock' = [clock EXCEPT !.requests = @ + 1] /\ UNCHANGED crossed
    <3> DEFINE j == [kind |-> "view", seen |-> latest]
    <3>1. /\ job[r] = Idle /\ job' = [job EXCEPT ![r] = j] /\ UNCHANGED <<books, latest>>
      BY <2>2 DEF Begin
    <3>2. r \notin Projecting /\ "stamp" \notin DOMAIN j
      BY <3>1 DEF Projecting, Idle
    <3>3. QED
      BY <2>2, <3>1, <3>2, QuietRequestKeeps
  <2>3. QED
    BY <1>3, <2>1, <2>2 DEF View
<1>4. ASSUME NEW r \in Requests, Commit(r) PROVE CashInv'
  BY <1>4, CommitKeeps
<1>5. ASSUME NEW r \in Requests, ViewDscr(r) \/ CheckTriage(r) PROVE CashInv'
  <2>1. PICK j : /\ "stamp" \notin DOMAIN j /\ "seen" \notin DOMAIN j /\ j.kind # "view"
                 /\ Begin(r, j)
    <3>1. CASE ViewDscr(r)
      <4> DEFINE j == [kind |-> "dscr", value |-> CurrentDscr(books)]
      <4>1. "stamp" \notin DOMAIN j /\ "seen" \notin DOMAIN j /\ j.kind # "view"
        OBVIOUS
      <4>2. QED
        BY <3>1, <4>1 DEF ViewDscr
    <3>2. CASE CheckTriage(r)
      <4> DEFINE j == [kind |-> "triage", shortfall |-> Shortfall(AtTodaysRate(books), latest),
                       active |-> NewestActive]
      <4>1. "stamp" \notin DOMAIN j /\ "seen" \notin DOMAIN j /\ j.kind # "view"
        OBVIOUS
      <4>2. QED
        BY <3>2, <4>1 DEF CheckTriage
    <3>3. QED
      BY <1>5, <3>1, <3>2
  <2>2. /\ job[r] = Idle /\ job' = [job EXCEPT ![r] = j] /\ UNCHANGED <<books, latest, crossed>>
        /\ clock' = [clock EXCEPT !.requests = clock.requests + 1]
    BY <1>5, <2>1 DEF Begin, ViewDscr, CheckTriage
  <2>3. r \notin Projecting
    BY <2>2 DEF Projecting, Idle
  <2>4. QED
    BY <2>1, <2>2, <2>3, QuietRequestKeeps
<1>6. ASSUME NEW r \in Requests, RecordDscr(r) \/ SettleTriage(r) PROVE CashInv'
  <2>1. /\ job[r].kind \in {"dscr", "triage"} /\ job' = [job EXCEPT ![r] = Idle]
        /\ UNCHANGED <<books, latest, clock, crossed>>
    BY <1>6 DEF RecordDscr, SettleTriage
  <2>2. r \notin Projecting
    <3>1. JobTyped(r)
      BY DEF CashInv, CashTyped
    <3>2. job[r] \notin ProjectionJobs
      BY <2>1 DEF ProjectionJobs
    <3>3. QED
      BY <3>1, <3>2, ProjectionsRead
  <2>3. "stamp" \notin DOMAIN Idle /\ "seen" \notin DOMAIN Idle /\ Idle.kind # "view"
    BY DEF Idle
  <2>4. QED
    BY <2>1, <2>2, <2>3, QuietRequestKeeps
<1>7. QED
  BY <1>1, <1>2, <1>3, <1>4, <1>5, <1>6 DEF CashStep


LEMMA CashStarts ==
    ASSUME NothingProjected, NEW cost \in Int, books = Books(cost),
           market.about = "books" => rates \in RatesFound
    PROVE  CashInv
<1>1. books \in [loan : Int, cost : Int, owed : Owed, revenue : Int]
  BY CashAssumption DEF Books, Owed
<1>2. /\ latest = None /\ clock = [day |-> 0, stamp |-> 0, requests |-> 0]
      /\ job = [r \in Requests |-> Idle]
  BY DEF NothingProjected
<1>3. latest.stamp = 0 /\ clock.stamp = 0 /\ clock.day = 0 /\ Known(latest)
  BY <1>2 DEF None, Known
<1>4. \A r \in Requests : JobTyped(r) /\ r \notin Projecting
  BY <1>2 DEF JobTyped, Projecting, Idle
<1>5. QED
  BY <1>1, <1>2, <1>3, <1>4 DEF CashInv, CashTyped, Alone, Projecting

LEMMA CashInitial == ASSUME CashInit PROVE FxInv /\ CashInv
<1>1. CASE FxInit
  <2>1. FxInv
    BY <1>1, MarketStarts DEF FxInit
  <2>2. market.about # "books"
    BY <1>1 DEF FxInit, Market
  <2>3. QED
    BY <2>1, <2>2, CashStarts DEF CashInit
<1>2. ASSUME NothingAsked, NEW rows \in RatesFound, market = Market("books", rows, FALSE)
      PROVE  FxInv /\ CashInv
  <2>1. rates \in RatesFound
    BY <1>2 DEF rates, Market
  <2>2. FxInv
    BY <1>2, MarketStarts
  <2>3. QED
    BY <2>1, <2>2, CashStarts DEF CashInit
<1>3. QED
  BY <1>1, <1>2 DEF CashInit

LEMMA CashNextKeeps ==
    ASSUME FxInv, CashInv, [CashNext]_<<fxVars, cashVars>>
    PROVE  FxInv' /\ CashInv'
<1>1. ASSUME UNCHANGED cashVars, market'.about = market.about,
             market'.about = "books" => rates' = rates
      PROVE  CashInv'
  <2>1. UNCHANGED <<books, latest, clock, job, crossed>>
    BY <1>1 DEF cashVars
  <2>2. \A r \in Requests : JobTyped(r)'
    BY <2>1 DEF CashInv, CashTyped, Known, JobTyped
  <2>3. CashTyped'
    BY <1>1, <2>1, <2>2 DEF CashInv, CashTyped, Known, RatesFound
  <2>4. Alone'
    BY <2>1 DEF CashInv, Alone, Projecting, Covers, Apply
  <2>5. QED
    BY <2>3, <2>4 DEF CashInv
<1>2. CASE FxNext /\ UNCHANGED cashVars
  <2>1. FxInv' /\ market'.about = market.about
    BY <1>2, FxStepKeeps
  <2>2. market.about # "books"
    BY <1>2 DEF FxNext
  <2>3. QED
    BY <1>1, <1>2, <2>1, <2>2
<1>3. CASE market.about = "books" /\ CashStep /\ UNCHANGED fxVars
  <2>1. UNCHANGED market
    BY <1>3 DEF fxVars
  <2>2. QED
    BY <1>3, <2>1, CashStepKeeps, FxStutters
<1>4. CASE UNCHANGED <<fxVars, cashVars>>
  <2>1. UNCHANGED <<market, rates>>
    BY <1>4 DEF fxVars, rates
  <2>2. QED
    BY <1>1, <1>4, <2>1, FxStutters
<1>5. QED
  BY <1>2, <1>3, <1>4 DEF CashNext

\* Each step of CashSpec keeps what a projection rests on, and FxInv with it.
THEOREM CashInvariant == CashSpec => [](FxInv /\ CashInv)
<1>1. CashInit => FxInv /\ CashInv
  BY CashInitial
<1>2. FxInv /\ CashInv /\ [CashNext]_<<fxVars, cashVars>> => (FxInv /\ CashInv)'
  BY CashNextKeeps
<1>3. QED
  BY <1>1, <1>2, PTL DEF CashSpec

LEMMA Current == ASSUME CashInv PROVE ProjectionCurrent
BY DEF CashInv, Alone, Covers, ProjectionCurrent

\* A loan, an operating cost or a delivery is in the projection that is shown,
\* however many requests came before, unless some overlapped since or a scenario was
\* run last (invalidate_todays_projection(), generate_cashflow_projection()).
THEOREM ProjectionCurrentHolds == CashSpec => []ProjectionCurrent
<1>1. CashInv => ProjectionCurrent
  BY Current
<1>2. QED
  BY <1>1, CashInvariant, PTL

LEMMA RoundedInt == ASSUME NEW a \in Int, NEW b \in Nat \ {0} PROVE Rounded(a, b) \in Int
<1>1. /\ 2 * a + b \in Int /\ 2 * b \in Nat \ {0} /\ 2 * Abs(a) + b \in Int
  BY DEF Abs
<1>2. \A n \in Int, d \in Nat \ {0} : n \div d \in Int /\ -(n \div d) \in Int
  OBVIOUS
<1>3. QED
  BY <1>1, <1>2 DEF Rounded

LEMMA NetInt ==
    ASSUME NEW b \in Bases, NEW scenario, NEW month \in 1..Months
    PROVE  Net(b, scenario, month) \in Int
<1>1. b.loan \in Int /\ b.cost \in Int /\ b.revenue \in Int /\ b.rate \in Int /\ b.owed[month] \in Int
  BY DEF Bases, Owed
<1>2. /\ 100 + RevenueShock(scenario) \in Int /\ 100 + FxShock(scenario) \in Int
      /\ 100 \in Nat \ {0} /\ 10000 \in Nat \ {0}
  BY DEF RevenueShock, FxShock
<1>3. \A x, y \in Int : x * y \in Int
  OBVIOUS
<1> DEFINE due == b.owed[month] * 70 * b.rate * (100 + FxShock(scenario))
           sold == b.revenue * (100 + RevenueShock(scenario))
<1>4. due \in Int /\ sold \in Int
  BY <1>1, <1>2, <1>3
<1> HIDE DEF due, sold
<1>5. Rounded(due, 10000) \in Int /\ Rounded(sold, 100) \in Int
  BY <1>2, <1>4, RoundedInt
<1>6. Net(b, scenario, month) = Rounded(sold, 100) - b.loan - b.cost - Rounded(due, 10000)
  BY DEF Net, MonthlyRevenue, FxObligations, due, sold
<1>7. QED
  BY <1>1, <1>5, <1>6

LEMMA CumulativeInt ==
    ASSUME NEW b \in Bases, NEW scenario, NEW month \in 1..Months
    PROVE  Cumulative(b, scenario, month) \in Int
<1> DEFINE net == [i \in 1..Months |-> Net(b, scenario, i)]
<1>1. 1..month \subseteq 1..Months
  BY CashAssumption
<1>2. \A i \in 1..month : net[i] \in Int
  BY <1>1, NetInt
<1>3. IsFiniteSet(1..month)
  BY FS_Interval, CashAssumption
<1> HIDE DEF net
<1>4. SumFunctionOnSet(net, 1..month) \in Int
  BY <1>2, <1>3, SumInt
<1>5. QED
  BY <1>4 DEF Cumulative, net

\* A month that is rated HIGH is alerted of, unless its cumulative cashflow is exactly
\* zero: of any projection (check_liquidity_alerts(), generate_cashflow_projection()).
LEMMA HighRisk ==
    ASSUME NEW p \in Projections, NEW month \in 1..Months,
           Buckets(p)[month].risk = "HIGH", Buckets(p)[month].cumulative # 0
    PROVE  \E alert \in Alerts(p) : alert[1] = month
<1> DEFINE net == Net(p.basis, p.scenario, month)
           cumulative == Cumulative(p.basis, p.scenario, month)
           dscr == Dscr(MonthlyRevenue(p.basis, p.scenario), p.basis.cost, p.basis.loan)
           runway == MonthRunway(net, cumulative)
           bucket == Buckets(p)[month]
           raised ==
              (IF bucket.net < 0 THEN {<<month, "negative_cashflow">>} ELSE {})
              \cup (IF bucket.dscr < 1000 THEN {<<month, "dscr_below_1">>} ELSE {})
              \cup (IF bucket.runway \in 1..39 THEN {<<month, "low_runway">>} ELSE {})
              \cup (IF bucket.cumulative < 0 THEN {<<month, "negative_cumulative">>} ELSE {})
<1>1. p.basis \in Bases
  BY DEF Projections
<1>2. net \in Int /\ cumulative \in Int
  BY <1>1, NetInt, CumulativeInt
<1>3. bucket = [net |-> net, cumulative |-> cumulative, dscr |-> dscr, runway |-> runway,
                risk |-> Rating(dscr, runway)]
  BY DEF Buckets, Bucket
<1>4. raised \subseteq Alerts(p)
  BY DEF Alerts
<1> HIDE DEF net, cumulative, dscr, bucket
<1>5. dscr < 1000 \/ net < 0 \/ cumulative < 0
  <2>1. SUFFICES ASSUME ~ (dscr < 1000), ~ (net < 0), ~ (cumulative < 0) PROVE FALSE
    OBVIOUS
  <2>2. cumulative > 0
    BY <1>2, <1>3, <2>1 DEF bucket
  <2>3. runway = 9990
    BY <1>2, <2>1, <2>2 DEF MonthRunway, InfiniteRunway
  <2>4. Rating(dscr, runway) # "HIGH"
    BY <2>1, <2>3 DEF Rating
  <2>5. QED
    BY <1>3, <2>4 DEF bucket
<1> HIDE DEF runway
<1>6. PICK kind : <<month, kind>> \in raised
  BY <1>3, <1>5
<1>7. QED
  BY <1>4, <1>6

LEMMA HighRiskIsAlerted == ASSUME CashInv PROVE HighRiskAlerted
<1>1. SUFFICES ASSUME latest # None, NEW month \in 1..Months,
                      Buckets(latest)[month].risk = "HIGH",
                      Buckets(latest)[month].cumulative # 0
               PROVE  \E alert \in Alerts(latest) : alert[1] = month
  BY DEF HighRiskAlerted
<1>2. latest \in Projections
  BY <1>1 DEF CashInv, CashTyped, Known
<1>3. QED
  BY <1>1, <1>2, HighRisk

\* Every month the projection that is shown rates HIGH is one its alerts name
\* (check_liquidity_alerts()).
THEOREM HighRiskAlertedHolds == CashSpec => []HighRiskAlerted
<1>1. CashInv => HighRiskAlerted
  BY HighRiskIsAlerted
<1>2. QED
  BY <1>1, CashInvariant, PTL

------------------------------------------------------------------------------
(* Recommendations (Advice).                                               *)

RecRow(rec) ==
    /\ rec = [n |-> rec.n, kind |-> rec.kind, status |-> rec.status, expires |-> rec.expires]
    /\ rec.n \in Nat /\ rec.n <= tally.asked

Numbered(q) == q.kind = "generate" => q.n \in Nat /\ q.n <= tally.asked

AdviceTyped ==
    /\ tally = [asked |-> tally.asked, overlapped |-> tally.overlapped] /\ tally.asked \in Nat
    /\ request = [r \in Requests |-> request[r]]
    /\ \A rec \in recs : RecRow(rec)
    /\ \A r \in Requests : Numbered(request[r])

SameKey(a, b) == a.n = b.n /\ a.kind = b.kind
KeysUnique == \A a, b \in recs : SameKey(a, b) => a = b

\* The rows a request has read and will update are still pending; those it will add
\* have a key that no row has.
StillPending(q) ==
    /\ q.kind = "generate" => q.expired \subseteq Pending /\ \A rec \in recs : rec.n < q.n
    /\ q.kind \in {"apply", "dismiss"} => q.rec \in Pending

\* Until requests overlap, one at most is under way.
OneAtATime ==
    ~tally.overlapped =>
       /\ KeysUnique
       /\ \A q, r \in Requests : request[q] # Idle /\ request[r] # Idle => q = r
       /\ \A r \in Requests : StillPending(request[r])

AdviceInv == AdviceTyped /\ OneAtATime

LEMMA TallyGoesOn ==
    ASSUME AdviceTyped
    PROVE  /\ tally' = [tally EXCEPT !.asked = tally.asked + 1] =>
                 /\ tally' = [asked |-> tally'.asked, overlapped |-> tally'.overlapped]
                 /\ tally'.asked = tally.asked + 1 /\ tally'.overlapped = tally.overlapped
           /\ \A o : tally' = [tally EXCEPT !.asked = tally.asked + 1, !.overlapped = o] =>
                 /\ tally' = [asked |-> tally'.asked, overlapped |-> tally'.overlapped]
                 /\ tally'.asked = tally.asked + 1 /\ tally'.overlapped = o
<1>1. PICK a, b : tally = [asked |-> a, overlapped |-> b]
  BY DEF AdviceTyped
<1>2. QED
  BY <1>1

\* What is asked for without touching recommendations.
LEMMA OtherAskKeeps ==
    ASSUME AdviceInv, UNCHANGED <<recs, request>>,
           tally' = [tally EXCEPT !.asked = tally.asked + 1]
    PROVE  AdviceInv'
<1>1. /\ tally' = [asked |-> tally'.asked, overlapped |-> tally'.overlapped]
      /\ tally'.asked = tally.asked + 1 /\ tally'.overlapped = tally.overlapped
  BY TallyGoesOn DEF AdviceInv
<1>2. /\ tally.asked \in Nat /\ \A rec \in recs : RecRow(rec)
      /\ request = [r \in Requests |-> request[r]]
  BY DEF AdviceInv, AdviceTyped
<1>3. tally'.asked \in Nat /\ \A n \in Nat : n <= tally.asked => n <= tally'.asked
  BY <1>1, <1>2
<1>4. \A rec \in recs : RecRow(rec)'
  BY <1>2, <1>3 DEF RecRow
<1>5. \A r \in Requests : /\ StillPending(request[r]) => StillPending(request[r])'
                         /\ Numbered(request[r])'
  BY <1>3 DEF StillPending, Pending, AdviceInv, AdviceTyped, Numbered
<1>6. AdviceTyped'
  BY <1>1, <1>2, <1>3, <1>4, <1>5 DEF AdviceTyped
<1>7. OneAtATime'
  BY <1>1, <1>5 DEF AdviceInv, OneAtATime, KeysUnique, SameKey
<1>8. QED
  BY <1>6, <1>7 DEF AdviceInv

\* A request reads the rows it will update.
LEMMA AskKeeps ==
    ASSUME AdviceInv, NEW r \in Requests, NEW what, Ask(r, what),
           what.kind \in {"generate", "apply", "dismiss"},
           what.kind = "generate" => what.expired \subseteq Pending /\ what.n = tally.asked + 1,
           what.kind \in {"apply", "dismiss"} => what.rec \in Pending
    PROVE  AdviceInv' /\ recs' = recs
<1> DEFINE o == tally.overlapped \/ \E q \in Requests \ {r} : request[q] # Idle
<1>1. /\ request[r] = Idle /\ request' = [request EXCEPT ![r] = what] /\ recs' = recs
      /\ tally' = [tally EXCEPT !.asked = tally.asked + 1, !.overlapped = o]
  BY DEF Ask
<1>2. /\ tally' = [asked |-> tally'.asked, overlapped |-> tally'.overlapped]
      /\ tally'.asked = tally.asked + 1 /\ tally'.overlapped = o
  BY <1>1, TallyGoesOn DEF AdviceInv
<1>3. /\ tally.asked \in Nat /\ \A rec \in recs : RecRow(rec)
      /\ request = [q \in Requests |-> request[q]]
  BY DEF AdviceInv, AdviceTyped
<1>4. /\ tally'.asked \in Nat
      /\ \A n \in Nat : n <= tally.asked => n <= tally'.asked /\ n < tally'.asked
  BY <1>2, <1>3
<1>5. \A rec \in recs : RecRow(rec)'
  BY <1>3, <1>4 DEF RecRow
<1>6. /\ request' = [q \in Requests |-> request'[q]] /\ request'[r] = what
      /\ \A q \in Requests : q # r => request'[q] = request[q]
  <2>1. request' = [q \in Requests |-> IF q = r THEN what ELSE request[q]]
    BY <1>1, <1>3
  <2>2. QED
    BY <2>1
<1>7. AdviceTyped'
  <2>1. ASSUME NEW q \in Requests PROVE Numbered(request[q])'
    <3>1. CASE q = r
      BY <1>2, <1>4, <1>6, <3>1 DEF Numbered
    <3>2. CASE q # r
      BY <1>4, <1>6, <3>2 DEF AdviceInv, AdviceTyped, Numbered
    <3>3. QED
      BY <3>1, <3>2
  <2>2. QED
    BY <1>1, <1>2, <1>4, <1>5, <1>6, <2>1 DEF AdviceTyped
<1>8. OneAtATime'
  <2>1. SUFFICES ASSUME ~tally'.overlapped PROVE OneAtATime'
    BY DEF OneAtATime
  <2>2. ~tally.overlapped /\ \A q \in Requests \ {r} : request[q] = Idle
    BY <1>2, <2>1
  <2>3. KeysUnique'
    BY <1>1, <2>2 DEF AdviceInv, OneAtATime, KeysUnique, SameKey
  <2>4. \A q \in Requests : q # r => request'[q] = Idle
    BY <1>6, <2>2
  <2>5. StillPending(what)'
    <3>1. Pending' = Pending
      BY <1>1 DEF Pending
    <3>2. \A rec \in recs : rec.n < tally'.asked
      BY <1>3, <1>4 DEF RecRow
    <3>3. tally'.asked <= tally'.asked
      BY <1>4
    <3>4. QED
      BY <1>1, <1>2, <1>4, <3>1, <3>2, <3>3 DEF StillPending
  <2>6. \A q \in Requests : StillPending(request[q])'
    BY <1>6, <2>4, <2>5 DEF StillPending, Idle
  <2>7. QED
    BY <2>3, <2>4, <2>6 DEF OneAtATime
<1>9. QED
  BY <1>1, <1>7, <1>8 DEF AdviceInv

LEMMA MarkRows ==
    ASSUME AdviceTyped, NEW rows, NEW status
    PROVE  \A rec \in Mark(rows, status) : RecRow(rec) /\ \E old \in recs : SameKey(rec, old)
<1>1. ASSUME NEW rec \in recs
      PROVE  RecRow([rec EXCEPT !.status = status]) /\ SameKey([rec EXCEPT !.status = status], rec)
  <2>1. RecRow(rec)
    BY DEF AdviceTyped
  <2>2. PICK n, kind, s, e : rec = [n |-> n, kind |-> kind, status |-> s, expires |-> e]
    BY <2>1 DEF RecRow
  <2>3. [rec EXCEPT !.status = status] = [n |-> n, kind |-> kind, status |-> status, expires |-> e]
    BY <2>2
  <2>4. rec.n = n /\ rec.kind = kind
    BY <2>2
  <2>5. QED
    BY <2>1, <2>3, <2>4 DEF RecRow, SameKey
<1>2. \A rec \in recs : RecRow(rec) /\ SameKey(rec, rec)
  BY DEF AdviceTyped, SameKey
<1>3. QED
  BY <1>1, <1>2 DEF Mark

\* Rows marked while no other request is under way: the others, and the keys of all,
\* are as before.
LEMMA MarkKeeps ==
    ASSUME AdviceTyped, KeysUnique, NEW rows \in SUBSET Pending, NEW status
    PROVE  /\ \A rec \in recs : rec.status # "PENDING" => rec \in Mark(rows, status)
           /\ \A a, b \in Mark(rows, status) : SameKey(a, b) => a = b
<1> DEFINE Touched(rec) == \E row \in rows : row.n = rec.n /\ row.kind = rec.kind
           New(rec) == IF Touched(rec) THEN [rec EXCEPT !.status = status] ELSE rec
<1>1. Mark(rows, status) = {New(rec) : rec \in recs}
  BY DEF Mark
<1>2. ASSUME NEW rec \in recs, rec.status # "PENDING" PROVE rec \in Mark(rows, status)
  <2>1. ~Touched(rec)
    <3>1. SUFFICES ASSUME NEW row \in rows, row.n = rec.n, row.kind = rec.kind PROVE FALSE
      OBVIOUS
    <3>2. row \in recs /\ row.status = "PENDING"
      BY DEF Pending
    <3>3. row = rec
      BY <3>1, <3>2 DEF KeysUnique, SameKey
    <3>4. QED
      BY <1>2, <3>2, <3>3
  <2>2. New(rec) = rec
    BY <2>1
  <2>3. QED
    BY <1>1, <2>2
<1>3. ASSUME NEW rec \in recs PROVE SameKey(New(rec), rec)
  <2>1. RecRow(rec)
    BY DEF AdviceTyped
  <2>2. PICK n, kind, s, e : rec = [n |-> n, kind |-> kind, status |-> s, expires |-> e]
    BY <2>1 DEF RecRow
  <2>3. [rec EXCEPT !.status = status] = [n |-> n, kind |-> kind, status |-> status, expires |-> e]
    BY <2>2
  <2>4. QED
    BY <2>2, <2>3 DEF SameKey
<1>4. ASSUME NEW a \in recs, NEW b \in recs, SameKey(New(a), New(b)) PROVE New(a) = New(b)
  <2>1. SameKey(New(a), a) /\ SameKey(New(b), b)
    BY <1>3
  <2> HIDE DEF New
  <2>2. a = b
    BY <1>4, <2>1 DEF SameKey, KeysUnique
  <2>3. QED
    BY <2>2
<1> HIDE DEF New
<1>5. QED
  BY <1>1, <1>2, <1>3, <1>4

\* A request updates what it has read, and adds rows of its own.
LEMMA StoreKeeps ==
    ASSUME AdviceInv, NEW r \in Requests, request[r] # Idle, NEW rows, NEW status, NEW new,
           ~tally.overlapped => rows \subseteq Pending,
           recs' = Mark(rows, status) \cup new, request' = [request EXCEPT ![r] = Idle],
           tally' = tally,
           \A rec \in new : RecRow(rec),
           \A a, b \in new : SameKey(a, b) => a = b,
           ~tally.overlapped => \A rec \in new : \A old \in recs : old.n < rec.n
    PROVE  /\ AdviceInv'
           /\ ~tally.overlapped => \A rec \in recs : rec.status # "PENDING" => rec \in recs'
<1>1. /\ AdviceTyped /\ tally.asked \in Nat /\ \A rec \in recs : RecRow(rec)
      /\ request = [q \in Requests |-> request[q]]
  BY DEF AdviceInv, AdviceTyped
<1>2. /\ request' = [q \in Requests |-> request'[q]] /\ request'[r] = Idle
      /\ \A q \in Requests : q # r => request'[q] = request[q]
  <2>1. request' = [q \in Requests |-> IF q = r THEN Idle ELSE request[q]]
    BY <1>1
  <2>2. QED
    BY <2>1
<1>3. \A rec \in Mark(rows, status) : RecRow(rec) /\ \E old \in recs : SameKey(rec, old)
  BY <1>1, MarkRows
<1>4. \A rec \in recs' : RecRow(rec)'
  BY <1>3 DEF RecRow
<1>5. AdviceTyped'
  <2>1. ASSUME NEW q \in Requests PROVE Numbered(request[q])'
    BY <1>1, <1>2 DEF AdviceTyped, Numbered, Idle
  <2>2. QED
    BY <1>1, <1>2, <1>4, <2>1 DEF AdviceTyped
<1>6. ASSUME ~tally.overlapped
      PROVE  /\ \A rec \in recs : rec.status # "PENDING" => rec \in recs'
             /\ OneAtATime'
  <2>1. /\ KeysUnique /\ \A q \in Requests : q # r => request[q] = Idle
    BY <1>6 DEF AdviceInv, OneAtATime
  <2>2. /\ \A rec \in recs : rec.status # "PENDING" => rec \in Mark(rows, status)
        /\ \A a, b \in Mark(rows, status) : SameKey(a, b) => a = b
    BY <1>1, <1>6, <2>1, MarkKeeps
  <2>3. \A q \in Requests : request'[q] = Idle
    BY <1>2, <2>1
  <2>4. ASSUME NEW a \in Mark(rows, status), NEW b \in new PROVE ~SameKey(a, b) /\ ~SameKey(b, a)
    <3>1. PICK old \in recs : SameKey(a, old)
      BY <1>3
    <3>2. old.n < b.n /\ old.n = a.n
      BY <1>6, <3>1 DEF SameKey
    <3>3. old.n \in Nat /\ b.n \in Nat
      BY <1>1 DEF RecRow
    <3>4. QED
      BY <3>2, <3>3 DEF SameKey
  <2>5. \A a, b \in recs' : SameKey(a, b) => a = b
    BY <2>2, <2>4
  <2>6. KeysUnique'
    BY <2>5 DEF KeysUnique, SameKey
  <2>7. OneAtATime'
    BY <2>3, <2>6 DEF OneAtATime, StillPending, Idle
  <2>8. QED
    BY <2>2, <2>7
<1>7. OneAtATime'
  BY <1>6 DEF OneAtATime
<1>8. QED
  BY <1>5, <1>6, <1>7 DEF AdviceInv

\* What the steps of recommendations keep, and what they decide.
LEMMA AdviceStepKeeps ==
    ASSUME AdviceInv, AdviceStep
    PROVE  /\ AdviceInv'
           /\ \A rec \in recs : rec.status # "PENDING" /\ ~tally'.overlapped => rec \in recs'
<1>1. CASE SuggestReorder \/ ApproveReorder \/ Trade
  <2>1. UNCHANGED <<recs, request>> /\ tally' = [tally EXCEPT !.asked = tally.asked + 1]
    BY <1>1 DEF SuggestReorder, ApproveReorder, Trade
  <2>2. QED
    BY <2>1, OtherAskKeeps
<1>2. ASSUME NEW r \in Requests, Generate(r) \/ ApplyRec(r) \/ Dismiss(r)
      PROVE  AdviceInv' /\ recs' = recs
  <2>1. PICK what :
           /\ Ask(r, what) /\ what.kind \in {"generate", "apply", "dismiss"}
           /\ what.kind = "generate" => what.expired \subseteq Pending /\ what.n = tally.asked + 1
           /\ what.kind \in {"apply", "dismiss"} => what.rec \in Pending
    <3>1. CASE Generate(r)
      <4> DEFINE q == [kind |-> "generate", n |-> tally.asked + 1,
                       expired |-> {rec \in Pending : Expired(rec)}, new |-> Warranted]
      <4>1. /\ q.kind = "generate" /\ q.expired \subseteq Pending /\ q.n = tally.asked + 1
        OBVIOUS
      <4>2. Ask(r, q)
        BY <3>1 DEF Generate
      <4> HIDE DEF q
      <4>3. QED
        BY <4>1, <4>2
    <3>2. CASE ApplyRec(r)
      <4>1. PICK rec \in Pending : Ask(r, [kind |-> "apply", rec |-> rec])
        BY <3>2 DEF ApplyRec
      <4>2. QED
        BY <4>1
    <3>3. CASE Dismiss(r)
      <4>1. PICK rec \in Pending : Ask(r, [kind |-> "dismiss", rec |-> rec])
        BY <3>3 DEF Dismiss, Decidable
      <4>2. QED
        BY <4>1
    <3>4. QED
      BY <1>2, <3>1, <3>2, <3>3
  <2>2. QED
    BY <2>1, AskKeeps
<1>3. ASSUME NEW r \in Requests, StoreRecs(r)
      PROVE  /\ AdviceInv'
             /\ ~tally.overlapped => \A rec \in recs : rec.status # "PENDING" => rec \in recs'
             /\ tally' = tally
  <2> DEFINE q == request[r]
             new == {[n |-> q.n, kind |-> kind, status |-> "PENDING",
                      expires |-> clock.day + Life(kind)] : kind \in q.new}
  <2>1. /\ q.kind = "generate" /\ request' = [request EXCEPT ![r] = Idle] /\ tally' = tally
        /\ recs' = Mark(q.expired, "EXPIRED") \cup new
    BY <1>3 DEF StoreRecs, Answered
  <2>2. q # Idle
    BY <2>1 DEF Idle
  <2>3. q.n \in Nat /\ q.n <= tally.asked
    BY <2>1 DEF AdviceInv, AdviceTyped, Numbered
  <2>4. ~tally.overlapped => q.expired \subseteq Pending /\ \A rec \in recs : rec.n < q.n
    BY <2>1 DEF AdviceInv, OneAtATime, StillPending
  <2> HIDE DEF q
  <2>5. \A rec \in new : RecRow(rec) /\ rec.n = q.n
    BY <2>3 DEF RecRow
  <2>6. \A a, b \in new : SameKey(a, b) => a = b
    BY DEF SameKey
  <2> HIDE DEF new
  <2>7. ~tally.overlapped => \A rec \in new : \A old \in recs : old.n < rec.n
    BY <2>4, <2>5
  <2>8. request[r] # Idle
    BY <2>2 DEF q
  <2>9. QED
    BY <2>1, <2>4, <2>5, <2>6, <2>7, <2>8, StoreKeeps
<1>4. ASSUME NEW r \in Requests, StoreApplied(r) \/ StoreDismissed(r)
      PROVE  /\ AdviceInv'
             /\ ~tally.overlapped => \A rec \in recs : rec.status # "PENDING" => rec \in recs'
             /\ tally' = tally
  <2>1. PICK status : recs' = Mark({request[r].rec}, status)
    BY <1>4 DEF StoreApplied, StoreDismissed
  <2>2. /\ request[r].kind \in {"apply", "dismiss"} /\ request' = [request EXCEPT ![r] = Idle]
        /\ tally' = tally
    BY <1>4 DEF StoreApplied, StoreDismissed, Answered
  <2>3. request[r] # Idle
    BY <2>2 DEF Idle
  <2>4. ~tally.overlapped => {request[r].rec} \subseteq Pending
    BY <2>2 DEF AdviceInv, OneAtATime, StillPending
  <2> DEFINE new == {}
  <2>5. /\ recs' = Mark({request[r].rec}, status) \cup new
        /\ \A rec \in new : RecRow(rec) /\ \A old \in recs : old.n < rec.n
        /\ \A a, b \in new : SameKey(a, b) => a = b
    BY <2>1
  <2> HIDE DEF new
  <2>6. QED
    BY <2>2, <2>3, <2>4, <2>5, StoreKeeps
<1>5. QED
  BY <1>1, <1>2, <1>3, <1>4 DEF AdviceStep, SuggestReorder, ApproveReorder, Trade

LEMMA AdviceStutters == ASSUME AdviceInv, UNCHANGED adviceVars PROVE AdviceInv'
<1>1. UNCHANGED <<recs, request, tally>>
  BY DEF adviceVars
<1>2. AdviceTyped'
  BY <1>1 DEF AdviceInv, AdviceTyped, RecRow, Numbered
<1>3. OneAtATime'
  BY <1>1 DEF AdviceInv, OneAtATime, KeysUnique, SameKey, StillPending, Pending
<1>4. QED
  BY <1>2, <1>3 DEF AdviceInv

LEMMA AdviceNextKeeps ==
    ASSUME AdviceInv, [AdviceNext]_<<fxVars, cashVars, adviceVars>>
    PROVE  /\ AdviceInv'
           /\ UNCHANGED <<recs, tally>> \/
              \A rec \in recs : rec.status # "PENDING" /\ ~tally'.overlapped => rec \in recs'
<1>1. CASE UNCHANGED adviceVars
  BY <1>1, AdviceStutters DEF adviceVars
<1>2. CASE AdviceStep
  BY <1>2, AdviceStepKeeps
<1>3. QED
  BY <1>1, <1>2 DEF AdviceNext

THEOREM AdviceInvariant == AdviceSpec => []AdviceInv
<1>1. AdviceInit => AdviceInv
  <2>1. SUFFICES ASSUME AdviceInit PROVE AdviceInv
    OBVIOUS
  <2>2. /\ tally = [asked |-> 0, overlapped |-> FALSE] /\ request = [r \in Requests |-> Idle]
        /\ recs = {} \/ recs = {[n |-> 0, kind |-> "legacy_price", status |-> "PENDING",
                                 expires |-> Expiry]}
    BY <2>1 DEF AdviceInit
  <2>3. tally.asked = 0 /\ \A r \in Requests : request[r] = Idle
    BY <2>2
  <2>4. \A rec \in recs : RecRow(rec)
    BY <2>2, <2>3 DEF RecRow
  <2>5. AdviceTyped
    BY <2>2, <2>3, <2>4 DEF AdviceTyped, Numbered, Idle
  <2>6. KeysUnique
    BY <2>2 DEF KeysUnique
  <2>7. QED
    BY <2>3, <2>5, <2>6 DEF AdviceInv, OneAtATime, StillPending, Idle
<1>2. AdviceInv /\ [AdviceNext]_<<fxVars, cashVars, adviceVars>> => AdviceInv'
  BY AdviceNextKeeps
<1>3. QED
  BY <1>1, <1>2, PTL DEF AdviceSpec

\* What was decided of a recommendation stands unless requests overlapped, however
\* many were made and decided before (apply_recommendation(),
\* dismiss_recommendation(), generate_all_recommendations()).
THEOREM DecisionsStandHolds == AdviceSpec => DecisionsStand
<1>1. AdviceInv /\ [AdviceNext]_<<fxVars, cashVars, adviceVars>> =>
         [\A rec \in recs : rec.status # "PENDING" /\ ~tally'.overlapped => rec \in recs']_<<recs, tally>>
  BY AdviceNextKeeps
<1>2. QED
  BY <1>1, AdviceInvariant, PTL DEF AdviceSpec, DecisionsStand

\* The whole treasury: what the three modules rely on holds of them together.
THEOREM TreasuryInvariant == AdviceSpec => [](FxInv /\ CashInv /\ AlertsFire /\ OneGeneration
                                              /\ ProjectionCurrent /\ HighRiskAlerted)
<1>1. AdviceInit => FxInv /\ CashInv
  <2>1. SUFFICES ASSUME AdviceInit PROVE FxInv /\ CashInv
    OBVIOUS
  <2>2. CASE CashInit
    BY <2>2, CashInitial
  <2>3. ASSUME NothingProjected, NothingAsked, NEW cost \in Amounts \cup {0}, books = Books(cost),
               market = Market("advice", {}, FALSE)
        PROVE  FxInv /\ CashInv
    <3>1. cost \in Int
      BY CashAssumption
    <3>2. market.about # "books"
      BY <2>3 DEF Market
    <3>3. QED
      BY <2>3, <3>1, <3>2, MarketStarts, CashStarts
  <2>4. \/ CashInit
        \/ /\ NothingProjected /\ NothingAsked
           /\ \E cost \in Amounts \cup {0} : books = Books(cost)
           /\ market = Market("advice", {}, FALSE)
    BY <2>1 DEF AdviceInit, FirstBooks
  <2>5. QED
    BY <2>2, <2>3, <2>4
<1>2. FxInv /\ CashInv /\ [AdviceNext]_<<fxVars, cashVars, adviceVars>> => (FxInv /\ CashInv)'
  <2>1. SUFFICES ASSUME FxInv, CashInv, [AdviceNext]_<<fxVars, cashVars, adviceVars>>
                 PROVE  FxInv' /\ CashInv'
    OBVIOUS
  <2>2. CASE CashNext \/ UNCHANGED <<fxVars, cashVars>>
    BY <2>1, <2>2, CashNextKeeps
  <2>3. CASE Outside /\ UNCHANGED fxVars
    <3>1. UNCHANGED market
      BY <2>3 DEF fxVars
    <3>2. QED
      BY <2>1, <2>3, <3>1, OutsideKeeps, FxStutters
  <2>4. QED
    BY <2>1, <2>2, <2>3 DEF AdviceNext
<1>3. FxInv /\ CashInv => AlertsFire /\ OneGeneration /\ ProjectionCurrent /\ HighRiskAlerted
  <2>1. FxInv => AlertsFire /\ OneGeneration
    BY DEF FxInv
  <2>2. CashInv => ProjectionCurrent
    BY Current
  <2>3. CashInv => HighRiskAlerted
    BY HighRiskIsAlerted
  <2>4. QED
    BY <2>1, <2>2, <2>3
<1>4. QED
  BY <1>1, <1>2, <1>3, PTL DEF AdviceSpec
=====
