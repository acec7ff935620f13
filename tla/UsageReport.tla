---------------------------- MODULE UsageReport ----------------------------
(***************************************************************************)
(* What the control plane tells of the usage records that the stats         *)
(* collector writes: the totals of an organization and of its projects for  *)
(* a billing period or the last days, the series of a project's days, and   *)
(* the windows in which surges of traffic are looked for.  One metric       *)
(* stands for the four; a unit of time is a part of a day.                  *)
(***************************************************************************)
EXTENDS Integers, Bags, FiniteSetsExt

CONSTANTS
    Reported,           \* projects of one organization
    NoReported,         \* in place of a project that was deleted
    DayLength,          \* units of time in a day
    RollingDays,        \* days of a window without a billing period: 30
    BaselineWindows,    \* windows that the current one is compared with: 6 or more
    MaxToday,           \* bound: time
    MaxUsageRecords     \* bound: records

VARIABLES
    today,          \* the time
    members,        \* projects with a row
    period,         \* the newest subscription: its status and its billing period
    recorded,       \* usage_records: a bag of records with their projects and times
    detail          \* GET /usage/projects/:projectId: what it has read.  Ghost written: what was
                    \*   recorded within its window between its two queries

reportVars == <<today, members, period, recorded, detail>>

ASSUME ReportAssumption ==
    /\ NoReported \notin Reported
    /\ DayLength \in Nat \ {0} /\ RollingDays \in Nat \ {0} /\ BaselineWindows \in Nat \ {0}
    /\ MaxToday \in Nat /\ MaxUsageRecords \in Nat

Span(from, to) == [start |-> from, end |-> to]
Statuses == {"active", "past_due", "canceled"}
Times == 0..MaxToday
NoDetail == [at |-> "none"]

ReportInit ==
    /\ today = 0
    /\ members = Reported
    /\ period \in [status : Statuses, span : {Span(0, RollingDays * DayLength)}]
    /\ recorded = EmptyBag
    /\ detail = NoDetail

-----------------------------------------------------------------------------
(* Windows and sums *)

SumOf(f) == MapThenSumSet(LAMBDA x : f[x], DOMAIN f)
Within(span, t) == t >= span.start /\ t <= span.end
InSpan(span) == {t \in Times : Within(span, t)}

\* A record counts 1.
Record(p, t) == [project |-> p, recordedAt |-> t]
Of(p, times) ==
    SumOf([r \in {q \in BagToSet(recorded) : q.project = p /\ q.recordedAt \in times} |-> recorded[r]])

\* resolveExplicitOrRollingWindow: the days that were asked for, or the last thirty, today included
RollingSpan(days) ==
    IF days # 0 THEN Span(today - days * DayLength, today)
    ELSE Span(today - (RollingDays - 1) * DayLength, today)

\* resolveUsageWindow: the billing period, unless days were asked for or nothing is being paid
UsageSpan(days) ==
    IF days = 0 /\ period.status = "active" THEN period.span ELSE RollingSpan(days)

StartOfDay(t) == (t \div DayLength) * DayLength

\* The days of the query: a record belongs to the day it was made on.
DailyRows(p, span) ==
    LET times == {t \in InSpan(span) : BagIn(Record(p, t), recorded)} IN
    [day \in {StartOfDay(t) : t \in times} |-> Of(p, {t \in times : StartOfDay(t) = day})]

\* Mutant: the day in which the window ends is left out.
DaysOfMutant(span) ==
    {day \in StartOfDay(span.start)..(StartOfDay(span.end) - 1) : day % DayLength = 0}

DaysOf(span) == {day \in StartOfDay(span.start)..StartOfDay(span.end) : day % DayLength = 0}

\* buildDailySeries: a point for every day of the window, whether anything was recorded or not
DailySeries(rows, span) ==
    [day \in DaysOf(span) |-> IF day \in DOMAIN rows THEN rows[day] ELSE 0]

\* buildSnapshots, for the projects that have a row
Snapshots(span) == [p \in members |-> Of(p, InSpan(span))]

\* GET /usage/summary: all that the organization used in its period, that of deleted projects too
Summary(span) == SumOf([p \in Reported \cup {NoReported} |-> Of(p, InSpan(span))])

-----------------------------------------------------------------------------
(* AnomalyDetectionService.detectProjectAnomalies *)

CurrentStart(window) == today - window
BaselineStart(window) == CurrentStart(window) - BaselineWindows * window
Current == BaselineWindows

\* The window a record falls in: those of the baseline are counted from the oldest.
BucketOf(t, window) ==
    IF t >= CurrentStart(window) THEN Current ELSE (t - BaselineStart(window)) \div window

Buckets(p, window) ==
    LET seen == InSpan(Span(BaselineStart(window), today)) IN
    [b \in 0..Current |-> Of(p, {t \in seen : BucketOf(t, window) = b})]

-----------------------------------------------------------------------------
(* The records, and what else changes *)

PassTime ==
    /\ today < MaxToday
    /\ today' = today + 1
    /\ UNCHANGED <<members, period, recorded, detail>>

\* A record carries the time at which the collector's cycle wrote or began.
RecordUsage(p, t) ==
    /\ p \in members
    /\ BagCardinality(recorded) < MaxUsageRecords
    /\ recorded' = recorded (+) SetToBag({Record(p, t)})
    /\ detail' = IF detail.at = "days" /\ detail.project = p /\ Within(detail.span, t)
                 THEN [detail EXCEPT !.written = @ + 1] ELSE detail
    /\ UNCHANGED <<today, members, period>>

\* The records of a project that is deleted stay, without it.
RemoveProject(p) ==
    /\ p \in members
    /\ members' = members \ {p}
    /\ recorded' = BagOfAll(LAMBDA r : IF r.project = p THEN Record(NoReported, r.recordedAt) ELSE r, recorded)
    /\ UNCHANGED <<today, period, detail>>

ChangePeriod ==
    /\ \E status \in Statuses :
          period' = [status |-> status, span |-> Span(today, today + RollingDays * DayLength)]
    /\ UNCHANGED <<today, members, recorded, detail>>

-----------------------------------------------------------------------------
(* getProjectUsageDetails: its reads are apart *)

AskDetails(p, days) ==
    /\ detail = NoDetail /\ p \in members
    /\ detail' = [at |-> "window", project |-> p, days |-> days, span |-> Span(0, 0), total |-> 0,
                  daily |-> <<>>, written |-> 0]
    /\ UNCHANGED <<today, members, period, recorded>>

FindWindow ==
    /\ detail.at = "window"
    /\ detail' = [detail EXCEPT !.at = "total", !.span = UsageSpan(detail.days)]
    /\ UNCHANGED <<today, members, period, recorded>>

ReadTotal ==
    /\ detail.at = "total"
    /\ detail' = [detail EXCEPT !.at = "days", !.total = Of(detail.project, InSpan(detail.span))]
    /\ UNCHANGED <<today, members, period, recorded>>

ReadDays ==
    /\ detail.at = "days"
    /\ detail' = [detail EXCEPT !.at = "answered",
                      !.daily = DailySeries(DailyRows(detail.project, detail.span), detail.span)]
    /\ UNCHANGED <<today, members, period, recorded>>

Reply ==
    /\ detail.at = "answered"
    /\ detail' = NoDetail
    /\ UNCHANGED <<today, members, period, recorded>>

ReportNext ==
    \/ PassTime \/ ChangePeriod
    \/ \E p \in Reported :
          \/ RemoveProject(p)
          \/ \E t \in {today - 1, today} \cap Times : RecordUsage(p, t)
          \/ \E days \in {0, 1} : AskDetails(p, days)
    \/ FindWindow \/ ReadTotal \/ ReadDays \/ Reply

ReportSpec == ReportInit /\ [][ReportNext]_reportVars

-----------------------------------------------------------------------------
(* Properties *)

\* The points of a project's series add up to its total and what was recorded since that was read.
SeriesAddsUp ==
    detail.at = "answered" /\ detail.project \in members =>
        SumOf(detail.daily) = detail.total + detail.written

\* The projects' shares of the billing period add up to what the organization used but for what
\* projects used that are no longer there.
SharesAddUp ==
    period.status = "active" =>
        SumOf(Snapshots(UsageSpan(0))) + Of(NoReported, InSpan(period.span)) = Summary(period.span)

\* Every record from the beginning of the baseline on is in one window.
WindowsAddUp ==
    \A p \in members, window \in {1, DayLength} :
        SumOf(Buckets(p, window)) = Of(p, InSpan(Span(BaselineStart(window), today)))

\* What is shown of the usage adds up: each record counts once, in one day, one project and one
\* window, at whatever hour a period begins or ends and whatever is recorded between two queries
\* (project-usage-service.ts:393 steps through the days that the database has truncated to,
\* anomaly-detection-service.ts:164 divides the time into windows).
UsageAddsUp == SeriesAddsUp /\ SharesAddUp /\ WindowsAddUp

=============================================================================
