--------------------------- MODULE DispatchWindow ---------------------------
(***************************************************************************)
(* The persisted send quota of the bulk e-mail queue: the single row       *)
(* "global" of BulkEmailDispatchState, which every worker locks before it  *)
(* claims a job.  A claim is granted only when the spacing timer has run   *)
(* out and neither the hourly nor the daily window is full; a window is    *)
(* restarted by the first claim made after it has run its length.          *)
(*                                                                         *)
(* Time is relative.  The code only ever compares a stored instant with    *)
(* the present one, so the model keeps, for each stored instant, how far   *)
(* away it is: "wait" is what remains until nextSendAt, "hourAge" and      *)
(* "dayAge" how long ago windowStartedAt and dayStartedAt were, up to the  *)
(* point where the comparison no longer changes.                           *)
(***************************************************************************)
EXTENDS Naturals

CONSTANTS Hourly,    \* BULK_EMAIL_HOURLY_LIMIT
          Daily,     \* BULK_EMAIL_DAILY_LIMIT
          Interval,  \* BULK_EMAIL_INTERVAL_SECONDS, in ticks
          Hour,      \* 3 600 000 ms, in ticks
          Day        \* 86 400 000 ms, in ticks

QuotaAssumption ==
    /\ Hourly \in Nat \ {0}
    /\ Daily \in Nat \ {0}
    /\ Interval \in Nat \ {0}
    /\ Hour \in Nat \ {0}
    /\ Day \in Nat \ {0}

ASSUME QuotaParameters == QuotaAssumption

VARIABLE dispatch

DispatchState == [wait: 0..Interval, hourAge: 0..Hour, count: 0..Hourly,
                  dayAge: 0..Day, dayCount: 0..Daily]

\* The row as the migration inserts it: nothing counted, everything "now".
FreshDispatch == [wait |-> 0, hourAge |-> 0, count |-> 0, dayAge |-> 0, dayCount |-> 0]

\* Faulty variant: the boundary of the window is missed.
HourResetMissed(d) == d.hourAge > Hour

hourReset(d) == d.hourAge = Hour
dayReset(d)  == d.dayAge = Day

\* What the two counters are worth at the moment of a claim.
CountNow(d)    == IF hourReset(d) THEN 0 ELSE d.count
DayCountNow(d) == IF dayReset(d) THEN 0 ELSE d.dayCount

MayDispatch(d) ==
    /\ d.wait = 0
    /\ CountNow(d) < Hourly
    /\ DayCountNow(d) < Daily

\* The row written back by the claim.
Dispatched(d) ==
    [wait     |-> Interval,
     hourAge  |-> IF hourReset(d) THEN 0 ELSE d.hourAge,
     count    |-> CountNow(d) + 1,
     dayAge   |-> IF dayReset(d) THEN 0 ELSE d.dayAge,
     dayCount |-> DayCountNow(d) + 1]

\* One tick of the clock, seen from the row.
Aged(d) ==
    [wait     |-> IF d.wait = 0 THEN 0 ELSE d.wait - 1,
     hourAge  |-> IF d.hourAge = Hour THEN Hour ELSE d.hourAge + 1,
     count    |-> d.count,
     dayAge   |-> IF d.dayAge = Day THEN Day ELSE d.dayAge + 1,
     dayCount |-> d.dayCount]

Dispatch == MayDispatch(dispatch) /\ dispatch' = Dispatched(dispatch)
Elapse   == dispatch' = Aged(dispatch)

WindowInit == dispatch = FreshDispatch
WindowNext == Dispatch \/ Elapse
WindowSpec == WindowInit /\ [][WindowNext]_dispatch
=============================================================================
