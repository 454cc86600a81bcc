-------------------------------- MODULE Cron --------------------------------
(***************************************************************************)
(* Experiment schedules (experiments/cron.py): the fields of a five-field  *)
(* expression, whether a moment matches, and the search of next_runs,      *)
(* which skips whole months, days and hours that cannot match.  The        *)
(* calendar is a parameter; a moment is the number of minutes since its    *)
(* start.  An item of a field is a record of its kind, value(s) and step;  *)
(* names and macros stand for numbers and fields and are left out.         *)
(***************************************************************************)
EXTENDS ToolRun
LOCAL INSTANCE FiniteSetsExt

CONSTANTS
    Months,      \* days of each month of a year, in order
    DayHours,    \* hours of a day
    HourMinutes, \* minutes of an hour
    WeekDays,    \* days of a week
    Horizon,     \* the search limit, in minutes
    Expressions  \* expressions: minutes, hours, days, months, weekdays

ASSUME CalendarAssumption ==
    Months \in Seq(Nat \ {0}) /\ Months # <<>> /\ DayHours \in Nat \ {0} /\ HourMinutes \in Nat \ {0, 1}

\* One item: "*", "n" or "n-m", each perhaps with a step; a single value with
\* a step runs to the end of the range.
ItemValid(item, low, high) ==
    /\ item.step # 0
    /\ item.kind = "*" \/ (item.from \in low..high /\ item.to \in low..high /\ item.from <= item.to)
ItemValues(item, low, high) ==
    LET from == IF item.kind = "*" THEN low ELSE item.from
        to == IF item.kind = "*" \/ (item.kind = "value" /\ item.step # NoValue) THEN high ELSE item.to
        step == IF item.step = NoValue THEN 1 ELSE item.step
    IN  {v \in from..to : (v - from) % step = 0}

FieldValid(field, low, high) == \A i \in DOMAIN field : ItemValid(field[i], low, high)
Field(field, low, high) == UNION {ItemValues(field[i], low, high) : i \in DOMAIN field}

\* A day field that begins with "*" is not a restriction.
Restricted(field) == field[1].kind # "*"

\* Weekdays run to the number of Sunday's second name.
ParseValid(e) ==
    /\ FieldValid(e.minutes, 0, HourMinutes - 1) /\ FieldValid(e.hours, 0, DayHours - 1)
    /\ FieldValid(e.days, 1, Max({Months[m] : m \in DOMAIN Months}))
    /\ FieldValid(e.months, 1, Len(Months)) /\ FieldValid(e.weekdays, 0, WeekDays)
Parse(e) ==
    [minutes |-> Field(e.minutes, 0, HourMinutes - 1), hours |-> Field(e.hours, 0, DayHours - 1),
     days |-> Field(e.days, 1, Max({Months[m] : m \in DOMAIN Months})),
     months |-> Field(e.months, 1, Len(Months)),
     weekdays |-> {d % WeekDays : d \in Field(e.weekdays, 0, WeekDays)},
     dayRestricted |-> Restricted(e.days), weekdayRestricted |-> Restricted(e.weekdays)]

-----------------------------------------------------------------------------
(* The calendar (datetime).                                                *)
DayMinutes == DayHours * HourMinutes
DaysBefore[m \in 1..(Len(Months) + 1)] == IF m = 1 THEN 0 ELSE DaysBefore[m - 1] + Months[m - 1]
YearDays == DaysBefore[Len(Months) + 1]
DayNumber(t) == t \div DayMinutes
Minute(t) == t % HourMinutes
Hour(t) == (t % DayMinutes) \div HourMinutes
Weekday(t) == DayNumber(t) % WeekDays
Month(t) == Max({m \in DOMAIN Months : DaysBefore[m] <= (DayNumber(t) % YearDays)})
Day(t) == (DayNumber(t) % YearDays) - DaysBefore[Month(t)] + 1

StartOfDay(day) == day * DayMinutes

\* Mutation of NextHour: the minutes are not cleared.
NextHourKeepsMinute(t) == t + HourMinutes
NextHour(t) == (t \div HourMinutes + 1) * HourMinutes
FirstOfNextMonth(t) == StartOfDay(DayNumber(t) - (Day(t) - 1) + Months[Month(t)])

DayMatches(s, t) ==
    LET day == Day(t) \in s.days
        weekday == Weekday(t) \in s.weekdays
    IN  IF s.dayRestricted /\ s.weekdayRestricted THEN day \/ weekday ELSE day /\ weekday

Matches(s, t) ==
    /\ Minute(t) \in s.minutes /\ Hour(t) \in s.hours
    /\ Month(t) \in s.months /\ DayMatches(s, t)

-----------------------------------------------------------------------------
(* next_runs(after = job.after): _iterate, one action per turn of its loop. *)
CronInit ==
    \E e \in Expressions, start \in {0, DayMinutes - 1, StartOfDay(YearDays) - 2} :
        /\ job = [tool |-> "cron", expression |-> e, after |-> start]
        /\ run = IF ParseValid(e) THEN [pc |-> "searching", moment |-> start + 1, runs |-> {}]
                 ELSE [pc |-> "invalid", moment |-> start, runs |-> {}]

Schedule == Parse(job.expression)
Searching ==
    job.tool = "cron" /\ run.pc = "searching" /\ run.moment < job.after + 1 + Horizon
Jump(to) == run' = [run EXCEPT !.moment = to] /\ UNCHANGED job

SkipMonth ==
    /\ Searching /\ Month(run.moment) \notin Schedule.months
    /\ Jump(FirstOfNextMonth(run.moment))

SkipDay ==
    /\ Searching /\ Month(run.moment) \in Schedule.months /\ ~DayMatches(Schedule, run.moment)
    /\ Jump(StartOfDay(DayNumber(run.moment) + 1))

SkipHour ==
    /\ Searching /\ Month(run.moment) \in Schedule.months /\ DayMatches(Schedule, run.moment)
    /\ Hour(run.moment) \notin Schedule.hours
    /\ Jump(NextHour(run.moment))

CheckMinute ==
    /\ Searching /\ Month(run.moment) \in Schedule.months /\ DayMatches(Schedule, run.moment)
    /\ Hour(run.moment) \in Schedule.hours
    /\ run' = [run EXCEPT !.moment = @ + 1,
                          !.runs = IF Minute(run.moment) \in Schedule.minutes THEN @ \union {run.moment} ELSE @]
    /\ UNCHANGED job

CronNext == SkipMonth \/ SkipDay \/ SkipHour \/ CheckMinute

\* The search yields the moments that match, and however it skips it passes
\* over none: up to where it has come, the runs are the matching minutes.
NothingSkipped ==
    (job.tool = "cron" /\ run.pc = "searching") =>
        run.runs = {t \in (job.after + 1)..(run.moment - 1) : Matches(Schedule, t)}
=============================================================================
