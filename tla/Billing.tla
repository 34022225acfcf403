------------------------------ MODULE Billing ------------------------------
(***************************************************************************)
(* The subscription of one business: process_webhook_event() for what the  *)
(* payment gateway reports, and check_expired_grace_periods(), the daily   *)
(* job that ends a grace period.  The gateway delivers an event any number *)
(* of times, in any order, and does not wait for one delivery to end       *)
(* before the next.                                                        *)
(*                                                                         *)
(* A request loads the business without a lock, and its flush updates the  *)
(* columns it changed from what it loaded, no others.                      *)
(*                                                                         *)
(* Time counts in days; requests are short, so a day passes between them.  *)
(* The audit row, subscription_code and current_period_end are left out,   *)
(* and so are events of a customer nobody knows: they change nothing.      *)
(***************************************************************************)
EXTENDS RowLocks

CONSTANTS
    Events,        \* ids (idempotency keys) of the gateway's events
    GraceDays,     \* _GRACE_PERIOD_DAYS
    LastEventDay,  \* bound: the gateway reports nothing after this day
    None           \* SQL NULL

ASSUME DaysAssumption ==
    GraceDays \in Nat /\ LastEventDay \in Nat /\ None \notin Nat

\* No event of the gateway is taken for the job.
ASSUME EventsAssumption == "grace job" \notin Events

Business == <<"business", "business">>
Event(e) == <<"event", e>>

Kinds == {"charge.success", "subscription.create", "invoice.payment_failed",
          "subscription.disable", "other"}

VARIABLES
    today,
    kind,          \* event -> its type
    request,       \* tx -> [by, loaded, target]: the event it handles or
                   \*   "grace job", the business as loaded and as it wants it
    applied,       \* event -> number of committed handlings
    failedOn,      \* day of the first failed charge committed since the last
                   \*   successful one, None when there is none
    overlapped     \* whether two requests were ever under way at once

vars == <<db, own, todo, today, kind, request, applied, failedOn,
          overlapped>>

NoRow     == [status |-> "TRIALING", since |-> None]
NoRequest == [by |-> None, loaded |-> NoRow, target |-> NoRow]

Init ==
    /\ db = [i \in {Business} \cup {Event(e) : e \in Events} |->
                IF i = Business THEN NoRow ELSE FALSE]
    /\ InitSessions
    /\ today = 0
    /\ kind \in [Events -> Kinds]
    /\ request = [t \in Txs |-> NoRequest]
    /\ applied = [e \in Events |-> 0]
    /\ failedOn = None
    /\ overlapped = FALSE

------------------------------------------------------------------------------
\* The definitions named ...Bug are plausible mistakes in the definition that
\* follows; they only serve to show that the properties can fail.
PastDueBugClockReset(row) == [status |-> "PAST_DUE", since |-> today]

\* _handle_payment_failed(): "only set on the FIRST failure".
PastDue(row) ==
    [status |-> "PAST_DUE",
     since  |-> IF row.since = None THEN today ELSE row.since]

\* _EVENT_HANDLERS
Handled(k, row) ==
    CASE k = "charge.success"         -> [status |-> "ACTIVE", since |-> None]
      [] k = "subscription.create"    -> [row EXCEPT !.status = "ACTIVE"]
      [] k = "invoice.payment_failed" -> PastDue(row)
      [] k = "subscription.disable"   -> [row EXCEPT !.status = "CANCELED"]
      [] OTHER                        -> row

ExpiredBugOnlyThatDay(row) ==
    row.status = "PAST_DUE" /\ row.since # None /\ row.since + GraceDays = today

\* The WHERE clause of the grace job.
Expired(row) ==
    /\ row.status = "PAST_DUE"
    /\ row.since # None /\ row.since <= today - GraceDays

Begin(t, steps, by, loaded, target) ==
    /\ Idle(t)
    /\ todo' = [todo EXCEPT ![t] = steps]
    /\ request' = [request EXCEPT ![t] = [by |-> by, loaded |-> loaded,
                                          target |-> target]]
    /\ overlapped' = (overlapped \/ ~Alone(t))
    /\ UNCHANGED <<db, own, today, kind, applied, failedOn>>

\* A delivery; it ends here when the event is recorded already.
Deliver(t, e) ==
    /\ today <= LastEventDay
    /\ ~db[Event(e)]
    /\ Begin(t, <<"load", "flush", "commit">>, e, NoRow, NoRow)

LoadBusiness(t) ==
    /\ At(t, "load")
    /\ request' = [request EXCEPT
                     ![t].loaded = db[Business],
                     ![t].target = Handled(kind[request[t].by], db[Business])]
    /\ Advance(t)
    /\ UNCHANGED <<db, own, today, kind, applied, failedOn, overlapped>>

\* The scheduled job selects the business.
BeginGraceJob(t) ==
    /\ Expired(db[Business])
    /\ Begin(t, <<"flush", "commit">>, "grace job", db[Business],
             [db[Business] EXCEPT !.status = "READ_ONLY"])

------------------------------------------------------------------------------
ByEvent(t) == request[t].by \in Events

\* The UPDATE sets the columns the request changed.
Updated(t, row) ==
    [column \in DOMAIN row |->
        IF request[t].target[column] # request[t].loaded[column]
        THEN request[t].target[column] ELSE row[column]]

Written(t) ==
    (IF request[t].target = request[t].loaded THEN {} ELSE {Business})
       \cup (IF ByEvent(t) THEN {Event(request[t].by)} ELSE {})

Rollback(t) ==
    /\ Release(t)
    /\ request' = [request EXCEPT ![t] = NoRequest]
    /\ UNCHANGED <<db, today, kind, applied, failedOn, overlapped>>

UnrecordedBugUnchecked(t) == TRUE

\* The unique index on webhook_events.idempotency_key.
Unrecorded(t) == ByEvent(t) => ~db[Event(request[t].by)]

Flush(t) ==
    /\ At(t, "flush")
    /\ Free(t, Written(t))
    /\ \/ /\ Unrecorded(t)
          /\ Write(t, [i \in Written(t) |->
                         IF i = Business THEN Updated(t, db[Business]) ELSE TRUE])
          /\ Advance(t)
          /\ UNCHANGED <<db, today, kind, request, applied, failedOn,
                         overlapped>>
       \/ ~Unrecorded(t) /\ Rollback(t)

Commit(t) ==
    /\ At(t, "commit")
    /\ Publish(t)
    /\ Release(t)
    /\ request' = [request EXCEPT ![t] = NoRequest]
    /\ IF ByEvent(t)
       THEN /\ applied' = [applied EXCEPT ![request[t].by] = @ + 1]
            /\ failedOn' = CASE kind[request[t].by] = "charge.success" -> None
                             [] /\ kind[request[t].by] = "invoice.payment_failed"
                                /\ failedOn = None -> today
                             [] OTHER -> failedOn
       ELSE UNCHANGED <<applied, failedOn>>
    /\ UNCHANGED <<today, kind, overlapped>>

Fail(t) == ~Idle(t) /\ Rollback(t)

Tick ==
    /\ \A t \in Txs : Idle(t)
    /\ today < LastEventDay + GraceDays
    /\ today' = today + 1
    /\ UNCHANGED <<db, own, todo, kind, request, applied, failedOn, overlapped>>

Next ==
    \/ \E t \in Txs :
          \/ \E e \in Events : Deliver(t, e)
          \/ LoadBusiness(t)
          \/ BeginGraceJob(t)
          \/ Flush(t)
          \/ Commit(t)
          \/ Fail(t)
    \/ Tick

Spec == Init /\ [][Next]_vars

\* Days pass, the workflow starts the job every day, a request that goes on
\* takes its next statement, and not every handling of an event or run of the
\* job fails.
Fairness ==
    /\ SF_vars(Tick)
    /\ SF_vars(\E t \in Txs : BeginGraceJob(t))
    /\ \A t \in Txs : SF_vars(LoadBusiness(t)) /\ SF_vars(Flush(t)) /\ SF_vars(Commit(t))

FairSpec == Spec /\ Fairness

------------------------------------------------------------------------------
Subscription == db[Business]

\* Types; a grace period never starts in the future.
TypeOK ==
    /\ Subscription.status \in {"TRIALING", "ACTIVE", "PAST_DUE", "READ_ONLY",
                                "CANCELED"}
    /\ Subscription.since \in 0..today \cup {None}
    /\ \A e \in Events : db[Event(e)] \in BOOLEAN

\* An event takes effect at most once, however often it is delivered and
\* however its deliveries overlap.
AppliedOnce == \A e \in Events : applied[e] <= 1

\* With deliveries one after another, the clock of a past-due business runs
\* from the first failed charge since it last paid: no later failure, disabled
\* or created subscription in between moves it.
ClockFromFirstFailure ==
    ~overlapped /\ Subscription.status = "PAST_DUE" => Subscription.since = failedOn

\* However events and grace jobs overlap, no business stays past due with a date:
\* it pays, cancels or becomes read-only.  (Overlapping events may leave it past
\* due without a date, which the job never finds: see PastDueDated.)
GraceEnds ==
    Subscription.status = "PAST_DUE" /\ Subscription.since # None
       ~> Subscription.status # "PAST_DUE" \/ Subscription.since = None

(* What the code's documentation says and these steps do not keep.         *)

\* "Move any business whose 3-day grace period has expired from PAST_DUE to
\* READ_ONLY": from no other status.
ReadOnlyFromPastDue ==
    [][Subscription'.status = "READ_ONLY"
          => Subscription.status \in {"PAST_DUE", "READ_ONLY"}]_vars

\* past_due_since is "set when a webhook first reports a failed charge": a
\* business that is past due has a date.
PastDueDated == Subscription.status = "PAST_DUE" => Subscription.since # None

\* ... and "cleared once status moves back to ACTIVE".
ActiveCleared == Subscription.status = "ACTIVE" => Subscription.since = None

=============================================================================
