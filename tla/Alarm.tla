------------------------------- MODULE Alarm -------------------------------
(***************************************************************************)
(* alarm::Alarm with OneshotAlarm, WeeklyAlarm and WorkdayAlarm, and the   *)
(* WorkdayCalendar that refreshes the alarms subscribed to it.  Time is in *)
(* seconds, a day has Day of them and day 0 is a Thursday.  The timer runs *)
(* on the steady clock, which may be ahead of the system clock, and the    *)
(* system clock is set now and then.                                       *)
(***************************************************************************)
EXTENDS Integers, FiniteSetsExt

CONSTANTS Day,          \* kSecondsOfDay, scaled down
          SearchDays,   \* the 367 days a WorkdayAlarm looks ahead, scaled down
          Wrap,         \* seconds of which uint32_t cannot hold the milliseconds
          MaxOffset,    \* bound: seconds of a time zone
          WeekMasks,    \* sets of days of the week, 0 being Sunday
          SpecialDays,  \* days that may be special in the calendar
          MaxNow,       \* bound: the system clock
          MaxTarget     \* bound: the target, which every disable() and enable() moves on

\* a day and the range of the timer are not empty
ASSUME AlarmAssumption ==
  /\ Day \in Nat \ {0} /\ Wrap \in Nat \ {0}
  /\ SearchDays \in Nat /\ MaxOffset \in Nat /\ MaxNow \in Nat

VARIABLE al

Kinds == {"oneshot", "weekly", "workday"}
Offsets == -MaxOffset .. MaxOffset
SystemZone == 0
NoTime == -1
DefaultMask == 1 .. 5
Specials == UNION {[D -> BOOLEAN] : D \in SUBSET SpecialDays}

AlarmInit ==
  \E k \in Kinds :
    al = [kind    |-> k,                \* the class of the alarm
          state   |-> "none",
          secs    |-> 0,                \* seconds_of_day_
          days    |-> {},               \* week_mask_ of a WeeklyAlarm
          work    |-> TRUE,             \* workday_
          zone    |-> SystemZone,
          target  |-> 0,                \* target_utc_sec_
          timer   |-> NoTime,           \* when sp_timer_ev_ fires, if it is enabled
          watched |-> FALSE,            \* the alarm is in watch_alarms_
          mask    |-> DefaultMask,      \* the calendar: week_mask_ and special_days_
          special |-> [d \in {} |-> TRUE],
          now     |-> Day,
          last    |-> 0,                \* history: the last occurrence fired and remembered
          stale   |-> FALSE,            \* history: the target is of another clock or setting
          wrapped |-> FALSE]            \* history: the wait did not fit

WeekDay(day) == ((day % 7) + 4) % 7

isWorkay(S, day) ==
  IF day \in DOMAIN S.special THEN S.special[day] ELSE WeekDay(day) \in S.mask

\* the day is one of the alarm's
Fits(S, day) ==
  CASE S.kind = "oneshot" -> TRUE
    [] S.kind = "weekly"  -> WeekDay(day) \in S.days
    [] S.kind = "workday" -> S.work = isWorkay(S, day)

Ahead(S) == CASE S.kind = "oneshot" -> 2 [] S.kind = "weekly" -> 8 [] S.kind = "workday" -> SearchDays

\* today if it is not too late, else a later day; NoTime if there is none
calculateNextLocalTimeSec(S, local) ==
  LET at(i) == (local - (local % Day)) + S.secs + i * Day
      found == {i \in 0 .. Ahead(S) - 1 : local < at(i) /\ Fits(S, local \div Day + i)}
  IN IF found = {} THEN NoTime ELSE at(Min(found))

\* from the present or from the occurrence that was aimed at, whichever is later
activeTimer(S) ==
  LET local == calculateNextLocalTimeSec(S, Max({S.now, S.target}) + S.zone)
      next == local - S.zone
  IN IF local = NoTime THEN S
     ELSE [S EXCEPT !.state = "running", !.target = next, !.stale = @ /\ S.target > S.now,
                    !.wrapped = next - S.now >= Wrap,
                    !.timer = S.now + ((next - S.now) % Wrap)]

-----------------------------------------------------------------------------
(* Calls of the user                                                       *)

\* each class has its own settings
Settings == [secs : 0 .. Day - 1,
             days : IF al.kind = "weekly" THEN WeekMasks ELSE {{}},
             work : IF al.kind = "workday" THEN BOOLEAN ELSE {TRUE}]

initialize(c) ==
  /\ al.state # "running"
  /\ al' = [al EXCEPT !.state = "inited", !.secs = c.secs, !.days = c.days, !.work = c.work,
                      !.stale = @ \/ al.target > Max({al.now, al.last})]

\* enable(), with onEnable(): a WorkdayAlarm subscribes, even if no day is found then
enable ==
  /\ al.state = "inited"
  /\ al' = activeTimer([al EXCEPT !.watched = @ \/ al.kind = "workday"])

\* the target stays: the next enable() starts from it
disabled(S) ==
  IF S.state # "running" THEN S
  ELSE [S EXCEPT !.state = "inited", !.timer = NoTime, !.watched = FALSE,
                 !.stale = @ \/ S.target > S.now]

disable == al.state = "running" /\ al' = disabled(al)

alarmCleanup ==
  /\ al.state # "none"
  /\ al' = [disabled(al) EXCEPT !.zone = SystemZone, !.state = "none", !.target = 0,
                                !.stale = FALSE, !.last = Min({@, al.now})]

\* mutant: the target is not cleared
refreshedKeeps(S) ==
  IF S.state # "running" THEN S
  ELSE activeTimer([S EXCEPT !.state = "inited", !.timer = NoTime, !.stale = FALSE,
                             !.last = Min({@, S.now})])

\* refresh(): an occurrence that fired ahead of its time is forgotten
refreshed(S) ==
  IF S.state # "running" THEN S
  ELSE activeTimer([S EXCEPT !.state = "inited", !.timer = NoTime, !.target = 0,
                             !.stale = FALSE, !.last = Min({@, S.now})])

refresh == al' = refreshed(al)

setTimezone(zone) ==
  al' = [al EXCEPT !.zone = zone,
                   !.stale = @ \/ (zone # al.zone /\ (al.state = "running" \/ al.target > al.now))]

-----------------------------------------------------------------------------
(* WorkdayCalendar                                                         *)

Updated(S) == IF S.watched THEN refreshed(S) ELSE S

updateWeekMask(mask) ==
  /\ al.kind = "workday"
  /\ al' = Updated([al EXCEPT !.mask = mask, !.stale = @ \/ (~al.watched /\ al.target > al.now)])

updateSpecialDays(special) ==
  /\ al.kind = "workday"
  /\ al' = Updated([al EXCEPT !.special = special,
                              !.stale = @ \/ (~al.watched /\ al.target > al.now)])

-----------------------------------------------------------------------------
(* Timer and clocks                                                        *)

\* onTimeExpired(), up to one second ahead of the system clock
onTimeExpired ==
  LET S == [al EXCEPT !.state = "inited", !.timer = NoTime, !.stale = @ \/ al.wrapped,
                      !.last = IF al.wrapped THEN @ ELSE al.target]
  IN /\ al.timer # NoTime /\ al.now + 1 >= al.timer
     /\ al' = IF al.kind = "oneshot" THEN S ELSE activeTimer(S)

\* the loop is at most a second late
tick ==
  /\ al.now < MaxNow /\ (al.timer = NoTime \/ al.now <= al.timer)
  /\ al' = [al EXCEPT !.now = @ + 1]

\* the system clock is set: the timer goes on waiting as long as it did
clockSet(now) ==
  /\ now # al.now
  /\ al' = [al EXCEPT !.now = now, !.stale = TRUE, !.last = Min({@, now}),
                      !.timer = IF @ = NoTime THEN @ ELSE Max({0, @ + now - al.now})]

AlarmNext ==
  /\ \/ \E c \in Settings : initialize(c)
     \/ enable \/ disable \/ alarmCleanup \/ refresh
     \/ \E zone \in Offsets : setTimezone(zone)
     \/ \E mask \in WeekMasks : updateWeekMask(mask)
     \/ \E special \in Specials : updateSpecialDays(special)
     \/ onTimeExpired \/ tick
     \/ \E now \in {Day, MaxNow} : clockSet(now)
  /\ al'.target <= MaxTarget

AlarmSpec == AlarmInit /\ [][AlarmNext]_al

-----------------------------------------------------------------------------
(* Properties                                                              *)

\* t is a time the alarm is meant for
Occurs(S, t) == (t + S.zone) % Day = S.secs /\ Fits(S, (t + S.zone) \div Day)

\* Whatever the calendar, the zone, refreshes and early or late timers did, a running alarm
\* waits for a time it is meant for, later than the last one that fired, and no other such
\* time lies before it; a running WorkdayAlarm is subscribed to its calendar.  Exceptions:
\* after the clock or the zone was changed, until refresh(); an alarm disabled before its
\* time and enabled again, which leaves that time out; a wait of more than 49 days.
AlarmOnTime ==
  al.state = "running" =>
    /\ al.watched <=> al.kind = "workday"
    /\ ~al.stale =>
         /\ al.wrapped \/ al.timer = al.target
         /\ Occurs(al, al.target) /\ al.target > al.last
         /\ \A t \in al.now + 1 .. al.target - 1 : Occurs(al, t) => t <= al.last
=============================================================================
