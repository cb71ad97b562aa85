------------------------------ MODULE Schedule ------------------------------
(***************************************************************************)
(* When a repeating task runs next (raiker/tasks/schedule.py), and the     *)
(* life of one routine's slot: created with its terms, claimed when it is  *)
(* due, re-armed when its cycle settles or when its slot was slept         *)
(* through, paused by its failures and continued by its owner.             *)
(*                                                                         *)
(* An instant is a number of seconds, a local time the same number read    *)
(* off a wall clock.  Day 0 is a Monday.  A zone is what zoneinfo reads:   *)
(* n changes of offset, at[i] the instant of the i-th and offset[i] the    *)
(* offset from it on (offset[0] before the first).                         *)
(***************************************************************************)
EXTENDS Integers, FiniteSets

CONSTANTS
    Zones,    \* the zones an owner may compose a schedule in, UTC among them
    Anchors,  \* the first slots an owner may pick
    Ends,     \* the ends an owner may set
    Clock,    \* the instants the host's clock shows; it may be set back
    LastDay   \* NothingBetween looks for slots on the days up to this one

Hour == 3600
Day == 24 * Hour

\* CONTINUOUS_INTERVAL and RECURRING_INTERVALS, for the cadences that are not
\* stepped in calendar days.
Interval == [continuous |-> 1200, hourly |-> Hour]
CalendarStepDays == [daily |-> 1, weekly |-> 7, weekdays |-> 1]
Cadences == {"continuous", "hourly", "daily", "weekly", "weekdays"}
Calendar == {"daily", "weekly", "weekdays"}
MaxSteps == 800

\* No name, or a name the host lacks, is UTC.
UTC == [n |-> 0, at |-> [i \in 1..0 |-> 0], offset |-> [i \in 0..0 |-> 0]]

\* A table cut to the years a routine can live in.  That its offsets differ by at
\* most a day is a fact about those years, which no code checks.
IsZone(z) ==
    /\ z.n \in Nat
    /\ z.at \in [1..z.n -> Int]
    /\ z.offset \in [0..z.n -> Int]
    /\ \A i, j \in 0..z.n : z.offset[i] - z.offset[j] <= Day

ASSUME ZonesAssumption == UTC \in Zones /\ \A z \in Zones : IsZone(z)
ASSUME InstantsAssumption == Anchors \subseteq Int /\ Ends \subseteq Int /\ Clock \subseteq Int
ASSUME LastDayAssumption == LastDay \in Nat

VARIABLES
    routine,  \* its terms: cadence, zone, anchor and end
    now,      \* the host's clock
    status,   \* the task's status
    slot,     \* scheduled_at
    asked     \* the slot is one the owner's Continue set
vars == <<routine, now, status, slot, asked>>

-----------------------------------------------------------------------------
(* zoneinfo *)

\* The offset an instant is read with.
Offset(z, u) == z.offset[Cardinality({i \in 1..z.n : z.at[i] <= u})]
Local(z, u) == u + Offset(z, u)

Later(x, y) == IF x > y THEN x ELSE y

\* Mutant: fold = 1, the second of a repeated hour and the offset after a gap.
WallOffsetFold(z, l) ==
    z.offset[Cardinality({i \in 1..z.n :
        z.at[i] - Later(-z.offset[i - 1], -z.offset[i]) <= l})]

\* The offset a local time is read with, fold = 0: a change counts once the
\* wall clock is past it on both sides, so a repeated hour reads as its first
\* and a skipped one with the offset before it.
WallOffset(z, l) ==
    z.offset[Cardinality({i \in 1..z.n : z.at[i] + Later(z.offset[i - 1], z.offset[i]) <= l})]

Instant(z, l) == l - WallOffset(z, l)
LocalSlot(z, day, wall) == Instant(z, day * Day + wall)

-----------------------------------------------------------------------------
(* The next slot *)

OnCadence(cadence, day) == cadence = "weekdays" => day % 7 < 5

LocalDay(z, u) == Local(z, u) \div Day
Wall(z, u) == Local(z, u) % Day

\* Mutant: the search starts on the last day of the cadence up to that day.
StartDayExact(anchorDay, afterDay, step) ==
    IF afterDay > anchorDay
    THEN anchorDay + Later(0, (afterDay - anchorDay) \div step) * step
    ELSE anchorDay

\* Where the search starts: a step short of the day of `after`.
StartDay(anchorDay, afterDay, step) ==
    IF afterDay > anchorDay
    THEN anchorDay + Later(0, (afterDay - anchorDay) \div step - 1) * step
    ELSE anchorDay

CalendarSlot(anchor, cadence, z, after) ==
    LET step == CalendarStepDays[cadence]
        start == StartDay(LocalDay(z, anchor), LocalDay(z, after), step)
        slotAt(k) == LocalSlot(z, start + k * step, Wall(z, anchor))
        Found(k) == OnCadence(cadence, start + k * step) /\ slotAt(k) > after
    IN  slotAt(CHOOSE k \in 0..MaxSteps - 1 :
                   Found(k) /\ \A j \in 0..MaxSteps - 1 : j < k => ~Found(j))

IntervalSlot(anchor, cadence, after) ==
    IF anchor > after
    THEN anchor
    ELSE anchor + Interval[cadence] * ((after - anchor) \div Interval[cadence] + 1)

NextOccurrence(anchor, cadence, z, after) ==
    IF cadence \in Calendar THEN CalendarSlot(anchor, cadence, z, after)
                            ELSE IntervalSlot(anchor, cadence, after)

\* Monday to Friday from a Saturday first runs on the Monday.
FirstSlot(anchor, cadence, z) ==
    IF cadence \in Calendar THEN NextOccurrence(anchor, cadence, z, anchor - 1) ELSE anchor

-----------------------------------------------------------------------------
(* The routine *)

Routines == [cadence : Cadences, zone : Zones, anchor : Int, anchored : BOOLEAN,
             bounded : BOOLEAN, until : Int]

\* schedule_terms refuses an end before the first slot.
TermsAccepted(r) ==
    r.bounded => FirstSlot(r.anchor, r.cadence, r.zone) <= r.until

\* A routine composed by its owner is queued for its first slot.  One a model
\* proposed is created with no terms: it waits for the owner to run it, and is
\* read as UTC from the slot it then has.
Composed ==
    /\ \E c \in Cadences, z \in Zones, a \in Anchors, e \in Ends, b \in BOOLEAN :
           routine = [cadence |-> c, zone |-> z, anchor |-> a, anchored |-> TRUE,
                      bounded |-> b, until |-> IF b THEN e ELSE 0]
    /\ TermsAccepted(routine)
    /\ slot = FirstSlot(routine.anchor, routine.cadence, routine.zone)
    /\ status = "queued"

Proposed ==
    /\ \E c \in Cadences :
           routine = [cadence |-> c, zone |-> UTC, anchor |-> 0, anchored |-> FALSE,
                      bounded |-> FALSE, until |-> 0]
    /\ slot = 0
    /\ status = "unscheduled"

Init ==
    /\ now \in Clock
    /\ asked = FALSE
    /\ Composed \/ Proposed

\* Time passes, or the clock is set.
ClockMoves ==
    /\ now' \in Clock \ {now}
    /\ UNCHANGED <<routine, status, slot, asked>>

\* Run, on a proposed routine that has no slot yet.
ScheduleNow ==
    /\ status = "unscheduled"
    /\ status' = "queued"
    /\ slot' = now
    /\ UNCHANGED <<routine, now, asked>>

Claim ==
    /\ status = "queued" /\ slot <= now
    /\ status' = "running"
    /\ UNCHANGED <<routine, now, slot, asked>>

\* Mutant: every slot is counted from the one before it.
AnchorDrifts == slot

\* The schedule is counted from its anchor; a routine without one from its slot.
AnchorOf == IF routine.anchored THEN routine.anchor ELSE slot

\* Mutant: only the present counts, so a clock set back repeats a slot.
AfterNow == now

\* What the next slot must come after: this slot, and the present.
After == Later(now, slot)

Following == NextOccurrence(AnchorOf, routine.cadence, routine.zone, After)

\* Mutant: a routine is over once its end has passed, not when its next slot
\* falls after it.
EndsByClock == routine.bounded /\ now > routine.until

Ended == routine.bounded /\ Following > routine.until

\* _rearm, when a cycle settles that is not the last of a failure streak, or
\* when the claimed slot was slept through and the routine skips such slots.
Settle ==
    /\ status = "running"
    /\ asked' = FALSE
    /\ IF Ended THEN status' = "completed" /\ slot' = slot
                ELSE status' = "queued" /\ slot' = Following
    /\ UNCHANGED <<routine, now>>

\* The cycle was the last of a failure streak: paused, with its slot kept.
Pause ==
    /\ status = "running"
    /\ status' = "paused"
    /\ UNCHANGED <<routine, now, slot, asked>>

\* Mutant: Continue waits for the routine's next slot.
ContinueNext == Following

\* Continue makes a paused routine due now.
ContinueSlot == now

Continue ==
    /\ status = "paused"
    /\ status' = "queued"
    /\ slot' = ContinueSlot
    /\ asked' = TRUE
    /\ UNCHANGED <<routine, now>>

Next == ClockMoves \/ ScheduleNow \/ Claim \/ Settle \/ Pause \/ Continue

Spec == Init /\ [][Next]_vars

-----------------------------------------------------------------------------
(* What a schedule promises *)

Statuses == {"unscheduled", "queued", "running", "paused", "completed"}

\* Type correctness: the search for a next slot always ends with an instant
\* (schedule_has_no_next_slot is never raised), and a slot the owner's Continue
\* asked for is one the clock showed.
ScheduleTypeOK ==
    /\ routine \in Routines
    /\ now \in Clock
    /\ status \in Statuses
    /\ slot \in Int
    /\ asked \in BOOLEAN
    /\ asked => slot \in Clock

\* The days of a calendar schedule, and its slots, read off its terms alone.
IsDay(day, anchor, cadence, z) ==
    LET first == LocalDay(z, anchor)
    IN  /\ day >= first
        /\ cadence = "weekly" => (day - first) % 7 = 0
        /\ cadence = "weekdays" => day % 7 < 5

\* No slot of the schedule lies after `after` and before `next`.
NothingBetween(anchor, cadence, z, after, next) ==
    IF cadence \in Calendar
    THEN \A day \in 0..LastDay :
             IsDay(day, anchor, cadence, z) =>
                 LET s == LocalSlot(z, day, Wall(z, anchor)) IN s <= after \/ s >= next
    ELSE next - Interval[cadence] <= after \/ next = anchor

\* A routine is re-armed for the first slot of its schedule after both the one
\* it ran and the present: it owes nothing for slots that have passed, skips
\* none that has not, and never takes a slot twice when the clock is set back
\* (next_occurrence's jump to the days near `after`, and _rearm's max).
ArmsTheNext ==
    status = "running" /\ status' = "queued" =>
        /\ slot' > now /\ slot' > slot
        /\ NothingBetween(AnchorOf, routine.cadence, routine.zone, Later(now, slot), slot')
NextIsNext == [][ArmsTheNext]_vars

\* The instants at which a wall clock in this zone shows l.
ShownAt(z, l) == {u \in {l - z.offset[i] : i \in 0..z.n} : Local(z, u) = l}

\* A calendar slot is at the wall time the owner picked, on the local day of the
\* cadence, on both sides of a clock change: the first of a repeated hour, and
\* in a skipped hour the instant the clock before the change would have shown it.
OnTheWall ==
    (status = "queued" /\ ~asked /\ routine.anchored /\ routine.cadence \in Calendar) =>
        LET z == routine.zone
            wall == Wall(z, routine.anchor)
            today == LocalDay(z, slot)
        IN  \E day \in today - 1 .. today + 1 :
                LET l == day * Day + wall IN
                /\ IsDay(day, routine.anchor, routine.cadence, z)
                /\ \/ /\ slot \in ShownAt(z, l)
                      /\ \A u \in ShownAt(z, l) : slot <= u
                   \/ /\ ShownAt(z, l) = {}
                      /\ \E i \in 1..z.n :
                             /\ slot = l - z.offset[i - 1]
                             /\ z.at[i] <= slot
                             /\ slot < z.at[i] + (z.offset[i] - z.offset[i - 1])

\* A routine with an end is never armed for a slot after it, but for the one
\* cycle an owner's Continue asks for.
EndKept ==
    status = "queued" /\ routine.bounded => slot <= routine.until \/ asked

=============================================================================
