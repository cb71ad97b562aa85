--------------------------- MODULE ScheduleProofs ---------------------------
(***************************************************************************)
(* Proofs about Schedule, for every set of zones, anchors, ends and clock  *)
(* readings: a next slot is always found, it is the first of the schedule  *)
(* after the slot before it and the present, and a routine keeps its end.  *)
(* Where the changes of a zone are further apart than they are long, a     *)
(* calendar slot is at the wall time its owner picked.                     *)
(*                                                                         *)
(* The other results need of a zone that its offsets differ by at most a   *)
(* day (those of Apia, which crossed the date line, differ by exactly one).*)
(* From it: the slot of a local day two before that of an instant is not   *)
(* after it, the slot two days later is after it, and the slots of         *)
(* successive days do not go back.                                         *)
(***************************************************************************)
EXTENDS Schedule, FiniteSetTheorems, TLAPS

\* An offset read at any number of changes is one of the zone's.
LEMMA CountInZone ==
    ASSUME NEW n \in Nat, NEW S \in SUBSET (1..n)
    PROVE  Cardinality(S) \in 0..n
<1>1. IsFiniteSet(1..n) /\ Cardinality(1..n) = n
    <2>1. IsFiniteSet(1..n) /\ Cardinality(1..n) = IF 1 > n THEN 0 ELSE n - 1 + 1
        BY FS_Interval
    <2> QED BY <2>1
<1>2. IsFiniteSet(S) /\ Cardinality(S) <= n
    BY <1>1, FS_Subset
<1>3. Cardinality(S) \in Nat
    BY <1>2, FS_CardinalityType
<1> QED BY <1>2, <1>3

LEMMA OffsetRead ==
    ASSUME NEW z, IsZone(z), NEW u \in Int
    PROVE  \E i \in 0..z.n : Offset(z, u) = z.offset[i]
<1>1. z.n \in Nat
    BY DEF IsZone
<1>2. Cardinality({i \in 1..z.n : z.at[i] <= u}) \in 0..z.n
    BY <1>1, CountInZone
<1> QED BY <1>2 DEF Offset

LEMMA WallOffsetRead ==
    ASSUME NEW z, IsZone(z), NEW l \in Int
    PROVE  \E i \in 0..z.n : WallOffset(z, l) = z.offset[i]
<1>1. z.n \in Nat
    BY DEF IsZone
<1>2. Cardinality({i \in 1..z.n :
          z.at[i] + Later(z.offset[i - 1], z.offset[i]) <= l}) \in 0..z.n
    BY <1>1, CountInZone
<1> QED BY <1>2 DEF WallOffset

\* Offsets are integers, and the two ways of reading one differ by at most a day.
LEMMA OffsetsClose ==
    ASSUME NEW z, IsZone(z), NEW u \in Int, NEW l \in Int
    PROVE  /\ Offset(z, u) \in Int /\ WallOffset(z, l) \in Int
           /\ Offset(z, u) - WallOffset(z, l) <= 86400
           /\ WallOffset(z, l) - Offset(z, u) <= 86400
<1>1. PICK i \in 0..z.n : Offset(z, u) = z.offset[i]
    BY OffsetRead
<1>2. PICK j \in 0..z.n : WallOffset(z, l) = z.offset[j]
    BY WallOffsetRead
<1>3. z.offset[i] \in Int /\ z.offset[j] \in Int
    BY DEF IsZone
<1>4. z.offset[i] - z.offset[j] <= 86400 /\ z.offset[j] - z.offset[i] <= 86400
    BY DEF IsZone, Day, Hour
<1> QED BY <1>1, <1>2, <1>3, <1>4

LEMMA WallOffsetsClose ==
    ASSUME NEW z, IsZone(z), NEW l \in Int, NEW m \in Int
    PROVE  WallOffset(z, l) - WallOffset(z, m) <= 86400
<1>1. PICK i \in 0..z.n : WallOffset(z, l) = z.offset[i]
    BY WallOffsetRead
<1>2. PICK j \in 0..z.n : WallOffset(z, m) = z.offset[j]
    BY WallOffsetRead
<1>3. z.offset[i] - z.offset[j] <= 86400
    BY DEF IsZone, Day, Hour
<1> QED BY <1>1, <1>2, <1>3

LEMMA DayLength == Day = 86400
    BY DEF Day, Hour

LEMMA DayOf ==
    ASSUME NEW l \in Int
    PROVE  /\ l \div 86400 \in Int /\ l % 86400 \in Int
           /\ 0 <= l % 86400 /\ l % 86400 < 86400
           /\ l >= (l \div 86400) * 86400
           /\ l < (l \div 86400 + 1) * 86400
    OBVIOUS

LEMMA LocalTypes ==
    ASSUME NEW z, IsZone(z), NEW u \in Int
    PROVE  /\ Local(z, u) \in Int
           /\ LocalDay(z, u) \in Int
           /\ Wall(z, u) \in Int /\ 0 <= Wall(z, u) /\ Wall(z, u) < 86400
           /\ Local(z, u) >= LocalDay(z, u) * 86400
           /\ Local(z, u) < (LocalDay(z, u) + 1) * 86400
<1>1. Offset(z, u) \in Int
    BY OffsetsClose
<1>2. PICK l \in Int : l = Local(z, u)
    BY <1>1 DEF Local
<1>3. LocalDay(z, u) = l \div 86400 /\ Wall(z, u) = l % 86400
    BY <1>2, DayLength DEF LocalDay, Wall
<1> QED BY <1>2, <1>3, DayOf

\* A slot is the local time of its day, less an offset of the zone.
LEMMA SlotOfDay ==
    ASSUME NEW z, IsZone(z), NEW day \in Int, NEW wall \in Int
    PROVE  \E l \in Int :
               /\ l = day * 86400 + wall
               /\ WallOffset(z, l) \in Int
               /\ LocalSlot(z, day, wall) = l - WallOffset(z, l)
<1>1. PICK l \in Int : l = day * 86400 + wall
    OBVIOUS
<1>2. day * Day + wall = l
    BY <1>1, DayLength
<1>3. LocalSlot(z, day, wall) = l - WallOffset(z, l)
    BY <1>2 DEF LocalSlot, Instant
<1>4. WallOffset(z, l) \in Int
    BY OffsetsClose
<1> QED BY <1>1, <1>3, <1>4

\* Where the slot of a local day lies from an instant.
LEMMA SlotFromInstant ==
    ASSUME NEW z, IsZone(z), NEW u \in Int, NEW day \in Int, NEW wall \in Int, 0 <= wall, wall < 86400
    PROVE  /\ LocalSlot(z, day, wall) \in Int
           /\ day <= LocalDay(z, u) - 2 => LocalSlot(z, day, wall) <= u
           /\ day >= LocalDay(z, u) + 2 => LocalSlot(z, day, wall) > u
<1>1. PICK l \in Int : /\ l = day * 86400 + wall
                       /\ WallOffset(z, l) \in Int
                       /\ LocalSlot(z, day, wall) = l - WallOffset(z, l)
    BY SlotOfDay
<1>2. /\ Offset(z, u) \in Int
      /\ Offset(z, u) - WallOffset(z, l) <= 86400
      /\ WallOffset(z, l) - Offset(z, u) <= 86400
    BY OffsetsClose
<1>3. Local(z, u) = u + Offset(z, u)
    BY DEF Local
<1>4. /\ LocalDay(z, u) \in Int
      /\ Local(z, u) >= LocalDay(z, u) * 86400
      /\ Local(z, u) < (LocalDay(z, u) + 1) * 86400
    BY LocalTypes
<1> QED BY <1>1, <1>2, <1>3, <1>4

\* The slots of successive days do not go back.
LEMMA SlotsInOrder ==
    ASSUME NEW z, IsZone(z), NEW d \in Int, NEW e \in Int, d <= e, NEW wall \in Int, 0 <= wall, wall < 86400
    PROVE  LocalSlot(z, d, wall) <= LocalSlot(z, e, wall)
<1>1. PICK l \in Int : /\ l = d * 86400 + wall
                       /\ WallOffset(z, l) \in Int
                       /\ LocalSlot(z, d, wall) = l - WallOffset(z, l)
    BY SlotOfDay
<1>2. PICK m \in Int : /\ m = e * 86400 + wall
                       /\ WallOffset(z, m) \in Int
                       /\ LocalSlot(z, e, wall) = m - WallOffset(z, m)
    BY SlotOfDay
<1>3. WallOffset(z, m) - WallOffset(z, l) <= 86400
    BY WallOffsetsClose
<1>5. CASE d = e
    BY <1>1, <1>2, <1>5
<1>6. CASE d < e
    BY <1>1, <1>2, <1>3, <1>6
<1> QED BY <1>5, <1>6

\* Steps of one or seven days from a day.
LEMMA StepsOrdered ==
    ASSUME NEW start \in Int, NEW step \in {1, 7}, NEW j \in Int, NEW k \in Int
    PROVE  /\ start + j * step \in Int
           /\ j <= k => start + j * step <= start + k * step
<1>1. CASE step = 1
    BY <1>1
<1>2. CASE step = 7
    BY <1>2
<1> QED BY <1>1, <1>2

\* Where the search starts: a day of the cadence, with no day to try more than
\* two steps before it and one after the instant within three steps.
StartsNear(start, a, b, step) ==
    /\ start \in Int
    /\ start >= a
    /\ \E q \in Nat : start = a + q * step
    /\ start > a => start + step <= b
    /\ start + 3 * step >= b + 2

LEMMA StartNearDaily ==
    ASSUME NEW a \in Int, NEW b \in Int
    PROVE  StartsNear(StartDay(a, b, 1), a, b, 1)
<1>1. (b - a) \div 1 = b - a
    OBVIOUS
<1>2. StartDay(a, b, 1) = IF b > a THEN a + Later(0, b - a - 1) ELSE a
    BY <1>1 DEF StartDay, Later
<1>3. PICK q \in Nat : q = IF b > a THEN b - a - 1 ELSE 0
    <2>1. (IF b > a THEN b - a - 1 ELSE 0) \in Nat
        OBVIOUS
    <2> QED BY <2>1
<1>4. StartDay(a, b, 1) = a + q
    BY <1>2, <1>3 DEF Later
<1> QED BY <1>3, <1>4 DEF StartsNear

LEMMA StartNearWeekly ==
    ASSUME NEW a \in Int, NEW b \in Int
    PROVE  StartsNear(StartDay(a, b, 7), a, b, 7)
<1>1. PICK w \in Int : w = (b - a) \div 7 /\ 7 * w <= b - a /\ b - a < 7 * w + 7
    OBVIOUS
<1>2. StartDay(a, b, 7) = IF b > a THEN a + Later(0, w - 1) * 7 ELSE a
    BY <1>1 DEF StartDay
<1>3. PICK q \in Nat : q = IF b > a THEN Later(0, w - 1) ELSE 0
    BY DEF Later
<1>4. StartDay(a, b, 7) = a + q * 7
    BY <1>2, <1>3
<1>5. q = 0 \/ (b > a /\ q = w - 1)
    BY <1>3 DEF Later
<1>6. q >= w - 1 \/ b <= a
    BY <1>3 DEF Later
<1> QED BY <1>1, <1>3, <1>4, <1>5, <1>6 DEF StartsNear

\* A set of naturals with a member below six has a first one.
LEMMA FirstOfSix ==
    ASSUME NEW S, NEW n \in 0..5, n \in S
    PROVE  \E k \in 0..5 : k \in S /\ \A j \in 0..MaxSteps - 1 : j < k => j \notin S
<1>1. CASE 0 \in S
    BY <1>1 DEF MaxSteps
<1>2. CASE 0 \notin S /\ 1 \in S
    BY <1>2 DEF MaxSteps
<1>3. CASE 0 \notin S /\ 1 \notin S /\ 2 \in S
    BY <1>3 DEF MaxSteps
<1>4. CASE 0 \notin S /\ 1 \notin S /\ 2 \notin S /\ 3 \in S
    BY <1>4 DEF MaxSteps
<1>5. CASE 0 \notin S /\ 1 \notin S /\ 2 \notin S /\ 3 \notin S /\ 4 \in S
    BY <1>5 DEF MaxSteps
<1>6. CASE 0 \notin S /\ 1 \notin S /\ 2 \notin S /\ 3 \notin S /\ 4 \notin S
    <2>1. n = 5
        BY <1>6
    <2> QED BY <1>6, <2>1 DEF MaxSteps
<1> QED BY <1>1, <1>2, <1>3, <1>4, <1>5, <1>6

\* The search finds the first slot of the schedule after an instant: it never
\* runs out of steps, and leaves no slot of any day behind.
LEMMA CalendarSlotIsNext ==
    ASSUME NEW z, IsZone(z), NEW anchor \in Int, NEW cadence \in Calendar, NEW u \in Int
    PROVE  LET next == CalendarSlot(anchor, cadence, z, u)
           IN  /\ next \in Int /\ next > u /\ NothingBetween(anchor, cadence, z, u, next)
               /\ \E day \in Int : /\ IsDay(day, anchor, cadence, z)
                                  /\ next = LocalSlot(z, day, Wall(z, anchor))
<1> DEFINE step == CalendarStepDays[cadence]
           first == LocalDay(z, anchor)
           wall == Wall(z, anchor)
           today == LocalDay(z, u)
           start == StartDay(first, today, step)
           slotAt(k) == LocalSlot(z, start + k * step, wall)
           Found(k) == OnCadence(cadence, start + k * step) /\ slotAt(k) > u
           Good(k) == Found(k) /\ \A j \in 0..MaxSteps - 1 : j < k => ~Found(j)
           best == CHOOSE k \in 0..MaxSteps - 1 : Good(k)
<1>1. /\ cadence = "weekly" => step = 7
      /\ cadence # "weekly" => step = 1
      /\ step \in {1, 7}
    BY DEF CalendarStepDays, Calendar
<1>2. first \in Int /\ today \in Int /\ wall \in Int /\ 0 <= wall /\ wall < 86400
    BY LocalTypes
<1>3. CalendarSlot(anchor, cadence, z, u) = slotAt(best)
    BY DEF CalendarSlot
<1>4. StartsNear(start, first, today, step)
    <2> HIDE DEF first, today
    <2>1. CASE step = 1
        BY <2>1, <1>2, StartNearDaily
    <2>2. CASE step = 7
        BY <2>2, <1>2, StartNearWeekly
    <2> QED BY <1>1, <2>1, <2>2
<1> HIDE DEF step, first, wall, today
<1> HIDE DEF start
<1>5. \A k \in Int : start + k * step \in Int /\ slotAt(k) \in Int
    <2> TAKE k \in Int
    <2>1. start + k * step \in Int
        BY <1>1, <1>4, StepsOrdered DEF StartsNear
    <2> QED BY <2>1, <1>2, SlotFromInstant
<1>6. \E k \in 0..MaxSteps - 1 : Good(k)
    <2>1. \E k \in 3..5 : OnCadence(cadence, start + k * step)
        <3>1. CASE cadence = "weekdays"
            <4>1. start % 7 \in 0..6
                BY <1>4 DEF StartsNear
            <4>2. (start + 3) % 7 < 5 \/ (start + 4) % 7 < 5 \/ (start + 5) % 7 < 5
                BY <1>4 DEF StartsNear
            <4> QED BY <3>1, <4>2, <1>1, <1>4 DEF OnCadence, StartsNear
        <3>2. CASE cadence # "weekdays"
            BY <3>2 DEF OnCadence
        <3> QED BY <3>1, <3>2
    <2>2. PICK k \in 3..5 : OnCadence(cadence, start + k * step)
        BY <2>1
    <2>3. start + k * step \in Int /\ start + k * step >= today + 2
        BY <1>1, <1>2, <1>4 DEF StartsNear
    <2>4. slotAt(k) > u
        BY <2>3, <1>2, SlotFromInstant DEF today
    <2> DEFINE S == {j \in 0..MaxSteps - 1 : Found(j)}
    <2>5. k \in 0..5 /\ k \in S
        BY <2>2, <2>4 DEF MaxSteps
    <2>6. PICK j \in 0..5 : j \in S /\ \A i \in 0..MaxSteps - 1 : i < j => i \notin S
        <3> HIDE DEF S
        <3> QED BY <2>5, FirstOfSix
    <2>7. Good(j)
        BY <2>6
    <2>8. j \in 0..MaxSteps - 1
        BY DEF MaxSteps
    <2> QED BY <2>7, <2>8
<1>7. best \in 0..MaxSteps - 1 /\ Good(best)
    BY <1>6
<1> DEFINE next == slotAt(best)
<1> HIDE DEF best
<1>8. Found(best) /\ \A j \in 0..MaxSteps - 1 : j < best => ~Found(j)
    BY <1>7
<1>9. best \in 0..799 /\ best \in Int
    BY <1>7 DEF MaxSteps
<1>10. next \in Int /\ next > u
    BY <1>5, <1>7, <1>9
<1> HIDE DEF next
<1>11. ASSUME NEW day \in 0..LastDay, IsDay(day, anchor, cadence, z)
      PROVE  LocalSlot(z, day, wall) <= u \/ LocalSlot(z, day, wall) >= next
    <2>1. /\ day \in Int /\ day >= first
          /\ cadence = "weekly" => (day - first) % 7 = 0
          /\ cadence = "weekdays" => day % 7 < 5
        <3>1. day \in Int
            BY LastDayAssumption
        <3> QED BY <3>1, <1>11 DEF IsDay, first
    <2>2. LocalSlot(z, day, wall) \in Int
        BY <2>1, <1>2, SlotFromInstant
    <2>3. step = 7 => \E p \in Int : day = first + p * 7
        <3>1. SUFFICES ASSUME step = 7 PROVE \E p \in Int : day = first + p * 7
            OBVIOUS
        <3>2. (day - first) % 7 = 0 /\ day - first \in Int
            BY <3>1, <2>1, <1>1, <1>2
        <3>3. PICK e \in Int : e = day - first
            BY <3>2
        <3>4. PICK p \in Int : e = p * 7
            <4>1. e % 7 = 0
                BY <3>2, <3>3
            <4>2. e = (e \div 7) * 7 /\ e \div 7 \in Int
                BY <4>1
            <4> QED BY <4>2
        <3> QED BY <3>3, <3>4, <2>1, <1>2
    <2>4. CASE day < start
        <3>1. day <= today - 2
            <4>1. CASE step = 1
                BY <4>1, <2>1, <2>4, <1>2, <1>4 DEF StartsNear
            <4>2. CASE step = 7
                <5>1. PICK q \in Nat : start = first + q * 7
                    BY <4>2, <1>4 DEF StartsNear
                <5>2. PICK p \in Int : day = first + p * 7
                    BY <4>2, <2>3
                <5>3. day + 7 <= start
                    BY <5>1, <5>2, <2>4, <1>2
                <5> QED BY <5>3, <4>2, <2>1, <2>4, <1>2, <1>4 DEF StartsNear
            <4> QED BY <4>1, <4>2, <1>1
        <3> QED BY <3>1, <2>1, <1>2, SlotFromInstant DEF today
    <2>5. CASE day >= start
        <3>1. \E j \in Nat : day = start + j * step
            <4>1. CASE step = 1
                <5>1. day - start \in Nat /\ day = start + (day - start) * step
                    BY <4>1, <2>1, <2>5, <1>4 DEF StartsNear
                <5> QED BY <5>1
            <4>2. CASE step = 7
                <5>1. PICK q \in Nat : start = first + q * 7
                    BY <4>2, <1>4 DEF StartsNear
                <5>2. PICK p \in Int : day = first + p * 7
                    BY <4>2, <2>3
                <5>3. p - q \in Nat /\ day = start + (p - q) * 7
                    BY <5>1, <5>2, <2>5, <1>2
                <5> QED BY <5>3, <4>2
            <4> QED BY <4>1, <4>2, <1>1
        <3>2. PICK j \in Nat : day = start + j * step
            BY <3>1
        <3>3. CASE j < best
            <4>1. j \in 0..MaxSteps - 1 /\ ~Found(j)
                <5>1. j \in 0..MaxSteps - 1
                    BY <3>3, <1>9 DEF MaxSteps
                <5> HIDE DEF Found
                <5> QED BY <5>1, <3>3, <1>8
            <4>2. OnCadence(cadence, start + j * step)
                BY <3>2, <2>1 DEF OnCadence
            <4> QED BY <4>1, <4>2, <3>2, <2>2
        <3>4. CASE j >= best
            <4>1. best \in Int /\ start + best * step \in Int /\ start + best * step <= day
                BY <1>1, <1>4, <1>9, <3>2, <3>4, StepsOrdered DEF StartsNear
            <4> QED BY <4>1, <2>1, <1>2, SlotsInOrder DEF next
        <3> QED BY <3>3, <3>4, <3>2, <1>9
    <2> QED BY <2>4, <2>5, <2>1, <1>4 DEF StartsNear
<1>12. NothingBetween(anchor, cadence, z, u, next)
    BY <1>11 DEF NothingBetween, wall
<1>13. \E day \in Int : IsDay(day, anchor, cadence, z) /\ next = LocalSlot(z, day, wall)
    <2> DEFINE day == start + best * step
    <2>1. day \in Int /\ day >= first
        <3>1. start + 0 * step <= start + best * step
            BY <1>1, <1>4, <1>9, StepsOrdered DEF StartsNear
        <3> QED BY <3>1, <1>1, <1>2, <1>4, <1>9, StepsOrdered DEF StartsNear
    <2>2. cadence = "weekly" => (day - first) % 7 = 0
        <3>1. SUFFICES ASSUME step = 7 PROVE (day - first) % 7 = 0
            BY <1>1
        <3>2. PICK q \in Nat : start = first + q * 7
            BY <3>1, <1>4 DEF StartsNear
        <3>3. PICK e \in Int : e = q + best
            BY <3>2, <1>9
        <3>4. day - first = e * 7
            BY <3>1, <3>2, <3>3, <1>2, <1>9
        <3>5. (e * 7) % 7 = 0
            OBVIOUS
        <3> QED BY <3>4, <3>5
    <2>3. cadence = "weekdays" => day % 7 < 5
        BY <1>8 DEF OnCadence
    <2>4. next = LocalSlot(z, day, wall)
        BY DEF next
    <2> HIDE DEF day
    <2> QED BY <2>1, <2>2, <2>3, <2>4 DEF IsDay, first
<1> QED BY <1>3, <1>10, <1>12, <1>13 DEF next, wall

LEMMA IntervalSlotIsNext ==
    ASSUME NEW z, NEW anchor \in Int, NEW cadence \in {"continuous", "hourly"}, NEW u \in Int
    PROVE  LET next == IntervalSlot(anchor, cadence, u)
           IN  next \in Int /\ next > u /\ NothingBetween(anchor, cadence, z, u, next)
<1> DEFINE I == Interval[cadence]
           next == IntervalSlot(anchor, cadence, u)
<1>1. I = 1200 \/ I = 3600
    BY DEF Interval, Hour
<1>2. cadence \notin Calendar
    BY DEF Calendar
<1>3. next \in Int /\ next > u /\ (next - I <= u \/ next = anchor)
    <2>0. next = IF anchor > u THEN anchor ELSE anchor + I * ((u - anchor) \div I + 1)
        BY DEF IntervalSlot
    <2> HIDE DEF next, I
    <2>1. CASE I = 1200
        BY <2>0, <2>1
    <2>2. CASE I = 3600
        BY <2>0, <2>2
    <2> QED BY <1>1, <2>1, <2>2
<1> QED BY <1>2, <1>3 DEF NothingBetween

\* What next_occurrence returns, for every cadence: an instant, after the one
\* given, with no slot of the schedule between.
THEOREM NextOccurrenceIsNext ==
    ASSUME NEW z, IsZone(z), NEW anchor \in Int, NEW cadence \in Cadences, NEW u \in Int
    PROVE  LET next == NextOccurrence(anchor, cadence, z, u)
           IN  next \in Int /\ next > u /\ NothingBetween(anchor, cadence, z, u, next)
<1>1. CASE cadence \in Calendar
    <2>1. NextOccurrence(anchor, cadence, z, u) = CalendarSlot(anchor, cadence, z, u)
        BY <1>1 DEF NextOccurrence
    <2> QED BY <1>1, <2>1, CalendarSlotIsNext
<1>2. CASE cadence \notin Calendar
    <2>1. NextOccurrence(anchor, cadence, z, u) = IntervalSlot(anchor, cadence, u)
        BY <1>2 DEF NextOccurrence
    <2>2. cadence \in {"continuous", "hourly"}
        BY <1>2 DEF Cadences, Calendar
    <2> QED BY <2>1, <2>2, IntervalSlotIsNext
<1> QED BY <1>1, <1>2

-----------------------------------------------------------------------------

\* A routine with no slot yet is one a model proposed, which has no end.
ProposedHasNoEnd == status = "unscheduled" => ~routine.bounded

ScheduleInv == ScheduleTypeOK /\ EndKept /\ ProposedHasNoEnd

\* The slot a settled cycle is re-armed for.
LEMMA FollowingIsNext ==
    ASSUME ScheduleTypeOK
    PROVE  /\ Following \in Int /\ Following > now /\ Following > slot
           /\ NothingBetween(AnchorOf, routine.cadence, routine.zone, Later(now, slot), Following)
<1>1. /\ now \in Int /\ slot \in Int /\ AnchorOf \in Int
      /\ routine.cadence \in Cadences /\ IsZone(routine.zone)
    BY InstantsAssumption, ZonesAssumption DEF ScheduleTypeOK, Routines, AnchorOf
<1>2. After = Later(now, slot) /\ After \in Int /\ After >= now /\ After >= slot
    BY <1>1 DEF After, Later
<1> DEFINE f == NextOccurrence(AnchorOf, routine.cadence, routine.zone, After)
<1>3. f \in Int /\ f > After
      /\ NothingBetween(AnchorOf, routine.cadence, routine.zone, After, f)
    BY <1>1, <1>2, NextOccurrenceIsNext
<1>4. Following = f
    BY DEF Following
<1> HIDE DEF f
<1> QED BY <1>1, <1>2, <1>3, <1>4

LEMMA ScheduleInit == Init => ScheduleInv
<1> SUFFICES ASSUME Init PROVE ScheduleInv
    OBVIOUS
<1>1. now \in Clock /\ asked = FALSE
    BY DEF Init
<1>2. CASE Composed
    <2>1. PICK c \in Cadences, z \in Zones, a \in Anchors, e \in Ends, b \in BOOLEAN :
              routine = [cadence |-> c, zone |-> z, anchor |-> a, anchored |-> TRUE,
                         bounded |-> b, until |-> IF b THEN e ELSE 0]
        BY <1>2 DEF Composed
    <2>2. routine \in Routines
        BY <2>1, InstantsAssumption DEF Routines
    <2>3. /\ routine.cadence \in Cadences /\ routine.anchor \in Int /\ IsZone(routine.zone)
          /\ routine.anchor - 1 \in Int
        BY <2>2, ZonesAssumption DEF Routines
    <2>4. slot = FirstSlot(routine.anchor, routine.cadence, routine.zone) /\ status = "queued"
        BY <1>2 DEF Composed
    <2>5. slot \in Int
        BY <2>3, <2>4, NextOccurrenceIsNext DEF FirstSlot
    <2>6. EndKept
        BY <1>2, <2>4 DEF Composed, TermsAccepted, EndKept
    <2> QED BY <1>1, <2>2, <2>4, <2>5, <2>6
           DEF ScheduleInv, ScheduleTypeOK, Statuses, ProposedHasNoEnd
<1>3. CASE Proposed
    <2>1. routine \in Routines /\ ~routine.bounded
        BY <1>3, ZonesAssumption DEF Proposed, Routines
    <2>2. slot = 0 /\ status = "unscheduled"
        BY <1>3 DEF Proposed
    <2>3. ScheduleTypeOK
        <3>1. slot \in Int
            BY <2>2
        <3>2. status \in Statuses
            BY <2>2 DEF Statuses
        <3> QED BY <1>1, <2>1, <3>1, <3>2, Zenon DEF ScheduleTypeOK
    <2>4. EndKept /\ ProposedHasNoEnd
        BY <2>1, <2>2 DEF EndKept, ProposedHasNoEnd
    <2> QED BY <2>3, <2>4 DEF ScheduleInv
<1> QED BY <1>2, <1>3 DEF Init

LEMMA ScheduleStep == ScheduleInv /\ [Next]_vars => ScheduleInv'
<1> SUFFICES ASSUME ScheduleInv, [Next]_vars PROVE ScheduleInv'
    OBVIOUS
<1> USE DEF ScheduleInv, Statuses, ProposedHasNoEnd
<1>1. CASE ClockMoves
    BY <1>1 DEF ClockMoves, ScheduleTypeOK, EndKept
<1>2. CASE ScheduleNow
    <2>1. now \in Int
        BY InstantsAssumption DEF ScheduleTypeOK
    <2>2. ~routine.bounded
        BY <1>2 DEF ScheduleNow
    <2> QED BY <1>2, <2>1, <2>2 DEF ScheduleNow, ScheduleTypeOK, EndKept
<1>3. CASE Claim
    BY <1>3 DEF Claim, ScheduleTypeOK, EndKept
<1>4. CASE Settle
    <2>1. Following \in Int
        BY FollowingIsNext
    <2>2. CASE Ended
        BY <1>4, <2>2 DEF Settle, ScheduleTypeOK, EndKept
    <2>3. CASE ~Ended
        <3>1. routine.bounded => Following <= routine.until
            BY <2>1, <2>3 DEF Ended, ScheduleTypeOK, Routines
        <3> QED BY <1>4, <2>1, <2>3, <3>1 DEF Settle, ScheduleTypeOK, EndKept
    <2> QED BY <2>2, <2>3
<1>5. CASE Pause
    BY <1>5 DEF Pause, ScheduleTypeOK, EndKept
<1>6. CASE Continue
    <2>1. now \in Int
        BY InstantsAssumption DEF ScheduleTypeOK
    <2> QED BY <1>6, <2>1 DEF Continue, ContinueSlot, ScheduleTypeOK, EndKept
<1>7. CASE UNCHANGED vars
    BY <1>7 DEF vars, ScheduleTypeOK, EndKept
<1> QED BY <1>1, <1>2, <1>3, <1>4, <1>5, <1>6, <1>7 DEF Next

\* Types hold in every state, so a search for a next slot never runs out of
\* steps (schedule_has_no_next_slot), and a slot Continue asked for is one the
\* clock showed.
THEOREM ScheduleTypeCorrect == Spec => []ScheduleTypeOK
<1>1. ScheduleInv => ScheduleTypeOK
    BY DEF ScheduleInv
<1> QED BY ScheduleInit, ScheduleStep, <1>1, PTL DEF Spec

\* A routine with an end is never armed for a slot after it, but for the cycle
\* Continue asks for.
THEOREM EndIsKept == Spec => []EndKept
<1>1. ScheduleInv => EndKept
    BY DEF ScheduleInv
<1> QED BY ScheduleInit, ScheduleStep, <1>1, PTL DEF Spec

\* A routine is re-armed for the first slot of its schedule after both the one
\* it ran and the present, in every zone whose offsets differ by at most a day.
THEOREM RearmsForTheNext == Spec => NextIsNext
<1>1. ScheduleInv /\ [Next]_vars => [ArmsTheNext]_vars
    <2> SUFFICES ASSUME ScheduleTypeOK, Next, status = "running", status' = "queued"
                 PROVE  /\ slot' > now /\ slot' > slot
                        /\ NothingBetween(AnchorOf, routine.cadence, routine.zone,
                                          Later(now, slot), slot')
        BY DEF ScheduleInv, ArmsTheNext
    <2>1. Settle
        BY DEF Next, ClockMoves, ScheduleNow, Claim, Pause, Continue
    <2>2. slot' = Following
        BY <2>1 DEF Settle
    <2> QED BY <2>2, FollowingIsNext
<1> QED BY ScheduleInit, ScheduleStep, <1>1, PTL DEF Spec, NextIsNext

-----------------------------------------------------------------------------
(***************************************************************************)
(* The wall clock.  Around the i-th change of a zone its wall clock shows  *)
(* the times from Begins(i) to Ends(i) twice, or not at all.  Two changes  *)
(* of a zone are further apart than that: what zoneinfo's search of a      *)
(* sorted list of local changes relies on.                                 *)
(***************************************************************************)
Earlier(x, y) == IF x < y THEN x ELSE y
ChangeBegins(z, i) == z.at[i] + Earlier(z.offset[i - 1], z.offset[i])
ChangeEnds(z, i) == z.at[i] + Later(z.offset[i - 1], z.offset[i])

Spaced(z) ==
    \A i, j \in 1..z.n :
        i < j => z.at[i] < z.at[j] /\ ChangeEnds(z, i) <= ChangeBegins(z, j)

\* A set that contains every change before its changes is counted by its last one.
LEMMA PrefixCount ==
    ASSUME NEW n \in Nat, NEW S \in SUBSET (1..n),
           \A i \in S, j \in 1..n : j < i => j \in S
    PROVE  /\ Cardinality(S) \in 0..n
           /\ \A i \in 1..n : i \in S <=> i <= Cardinality(S)
<1>1. Cardinality(S) \in 0..n
    BY CountInZone
<1>2. \A m \in 0..n : IsFiniteSet(1..m) /\ Cardinality(1..m) = m
    <2> TAKE m \in 0..n
    <2>1. IsFiniteSet(1..m) /\ Cardinality(1..m) = IF 1 > m THEN 0 ELSE m - 1 + 1
        BY FS_Interval
    <2> QED BY <2>1
<1>3. IsFiniteSet(S)
    <2>1. IsFiniteSet(1..n)
        BY <1>2
    <2> QED BY <2>1, FS_Subset
<1>4. ASSUME NEW i \in 1..n, i \in S PROVE i <= Cardinality(S)
    <2>1. 1..i \subseteq S
        BY <1>4
    <2>2. Cardinality(1..i) <= Cardinality(S)
        BY <2>1, <1>3, FS_Subset
    <2> QED BY <2>2, <1>2
<1>5. ASSUME NEW i \in 1..n, i \notin S PROVE ~(i <= Cardinality(S))
    <2>1. S \subseteq 1..(i - 1)
        <3> SUFFICES ASSUME NEW j \in S PROVE j <= i - 1
            OBVIOUS
        <3> QED BY <1>5
    <2>2. IsFiniteSet(1..(i - 1)) /\ Cardinality(1..(i - 1)) = i - 1
        BY <1>2
    <2>3. Cardinality(S) <= Cardinality(1..(i - 1))
        BY <2>1, <2>2, FS_Subset
    <2> QED BY <2>2, <2>3, <1>1
<1> QED BY <1>1, <1>4, <1>5

\* An instant is read with the offset of the last change before it.
LEMMA OffsetIsLast ==
    ASSUME NEW z, IsZone(z), Spaced(z), NEW u \in Int
    PROVE  \E k \in 0..z.n :
               /\ Offset(z, u) = z.offset[k]
               /\ \A i \in 1..z.n : z.at[i] <= u <=> i <= k
<1> DEFINE S == {i \in 1..z.n : z.at[i] <= u}
<1>1. z.n \in Nat /\ \A i \in 1..z.n : z.at[i] \in Int
    BY DEF IsZone
<1>2. \A i \in S, j \in 1..z.n : j < i => j \in S
    <2> TAKE i \in S, j \in 1..z.n
    <2> HAVE j < i
    <2>1. i \in 1..z.n /\ z.at[i] <= u
        OBVIOUS
    <2>2. z.at[j] < z.at[i]
        BY <2>1 DEF Spaced
    <2> QED BY <2>1, <2>2, <1>1
<1>3. /\ Cardinality(S) \in 0..z.n
      /\ \A i \in 1..z.n : i \in S <=> i <= Cardinality(S)
    <2> HIDE DEF S
    <2>1. S \in SUBSET (1..z.n)
        BY DEF S
    <2> QED BY <1>1, <1>2, <2>1, PrefixCount
<1>4. Offset(z, u) = z.offset[Cardinality(S)]
    BY DEF Offset
<1> QED BY <1>3, <1>4

\* A local time is read with the offset of the last change its clock is past.
LEMMA WallOffsetIsLast ==
    ASSUME NEW z, IsZone(z), Spaced(z), NEW l \in Int
    PROVE  \E k \in 0..z.n :
               /\ WallOffset(z, l) = z.offset[k]
               /\ \A i \in 1..z.n : ChangeEnds(z, i) <= l <=> i <= k
<1> DEFINE S == {i \in 1..z.n : ChangeEnds(z, i) <= l}
<1>1. z.n \in Nat /\ \A i \in 1..z.n : /\ ChangeEnds(z, i) \in Int
                                       /\ ChangeBegins(z, i) \in Int
                                       /\ ChangeBegins(z, i) <= ChangeEnds(z, i)
    <2>1. z.n \in Nat
        BY DEF IsZone
    <2>2. ASSUME NEW i \in 1..z.n
          PROVE  /\ ChangeEnds(z, i) \in Int /\ ChangeBegins(z, i) \in Int
                 /\ ChangeBegins(z, i) <= ChangeEnds(z, i)
        <3>1. i \in 0..z.n /\ i - 1 \in 0..z.n
            BY <2>1
        <3>2. z.at[i] \in Int /\ z.offset[i] \in Int /\ z.offset[i - 1] \in Int
            BY <3>1 DEF IsZone
        <3> QED BY <3>2 DEF ChangeEnds, ChangeBegins, Earlier, Later
    <2> QED BY <2>1, <2>2
<1>2. \A i \in S, j \in 1..z.n : j < i => j \in S
    <2> TAKE i \in S, j \in 1..z.n
    <2> HAVE j < i
    <2>1. i \in 1..z.n /\ ChangeEnds(z, i) <= l
        OBVIOUS
    <2>2. ChangeEnds(z, j) <= ChangeBegins(z, i)
        BY <2>1 DEF Spaced
    <2> QED BY <2>1, <2>2, <1>1
<1>3. /\ Cardinality(S) \in 0..z.n
      /\ \A i \in 1..z.n : i \in S <=> i <= Cardinality(S)
    <2> HIDE DEF S
    <2>1. S \in SUBSET (1..z.n)
        BY DEF S
    <2> QED BY <1>1, <1>2, <2>1, PrefixCount
<1>4. WallOffset(z, l) = z.offset[Cardinality(S)]
    BY DEF WallOffset, ChangeEnds
<1> QED BY <1>3, <1>4

\* What OnTheWall says of the instant s at which a slot is kept for local time l.
OnTheClock(z, l, s) ==
    \/ /\ s \in ShownAt(z, l)
       /\ \A u \in ShownAt(z, l) : s <= u
    \/ /\ ShownAt(z, l) = {}
       /\ \E i \in 1..z.n :
              /\ s = l - z.offset[i - 1]
              /\ z.at[i] <= s
              /\ s < z.at[i] + (z.offset[i] - z.offset[i - 1])

LEMMA InstantOnTheClock ==
    ASSUME NEW z, IsZone(z), Spaced(z), NEW l \in Int
    PROVE  OnTheClock(z, l, Instant(z, l))
<1>1. PICK k \in 0..z.n : /\ WallOffset(z, l) = z.offset[k]
                          /\ \A i \in 1..z.n : ChangeEnds(z, i) <= l <=> i <= k
    BY WallOffsetIsLast
<1>2. /\ z.n \in Nat
      /\ \A i \in 1..z.n : z.at[i] \in Int
      /\ \A i \in 0..z.n : z.offset[i] \in Int
    BY DEF IsZone
<1>3. PICK s \in Int : s = l - z.offset[k]
    BY <1>2
<1>4. Instant(z, l) = s
    BY <1>1, <1>3 DEF Instant
<1>5. \A i \in 1..z.n : i <= k => z.at[i] + z.offset[i - 1] <= l /\ z.at[i] + z.offset[i] <= l
    BY <1>1, <1>2 DEF ChangeEnds, Later
\* Whenever the clock shows l, the first k changes are behind.
<1>6. ASSUME NEW u \in ShownAt(z, l)
      PROVE  \E j \in k..z.n : /\ u = l - z.offset[j]
                               /\ \A i \in 1..z.n : z.at[i] <= u <=> i <= j
    <2>1. PICK i \in 0..z.n : u = l - z.offset[i]
        BY DEF ShownAt
    <2>2. u \in Int
        BY <2>1, <1>2
    <2>3. u + Offset(z, u) = l
        BY DEF ShownAt, Local
    <2>4. PICK j \in 0..z.n : /\ Offset(z, u) = z.offset[j]
                              /\ \A h \in 1..z.n : z.at[h] <= u <=> h <= j
        BY <2>2, OffsetIsLast
    <2>5. u = l - z.offset[j]
        BY <2>2, <2>3, <2>4, <1>2
    <2>6. ~(j < k)
        <3> SUFFICES ASSUME j < k PROVE FALSE
            OBVIOUS
        <3>1. j + 1 \in 1..z.n /\ j + 1 <= k /\ ~(j + 1 <= j) /\ (j + 1) - 1 = j
            BY <1>2
        <3>2. ~(z.at[j + 1] <= u)
            BY <3>1, <2>4
        <3>3. z.at[j + 1] + z.offset[j] <= l
            BY <3>1, <1>5
        <3> QED BY <3>1, <3>2, <3>3, <2>2, <2>5, <1>2
    <2>7. j \in k..z.n
        BY <2>6, <1>2
    <2> QED BY <2>4, <2>5, <2>7
<1>7. PICK m \in 0..z.n : /\ Offset(z, s) = z.offset[m]
                          /\ \A i \in 1..z.n : z.at[i] <= s <=> i <= m
    BY OffsetIsLast
<1>8. m >= k
    <2>1. CASE k = 0
        BY <2>1, <1>2
    <2>2. CASE k # 0
        <3>1. k \in 1..z.n
            BY <2>2, <1>2
        <3>2. z.at[k] <= s
            BY <3>1, <1>2, <1>3, <1>5
        <3> QED BY <3>1, <3>2, <1>7
    <2> QED BY <2>1, <2>2
<1>9. CASE m = k
    <2>1. s \in ShownAt(z, l)
        BY <1>2, <1>3, <1>7, <1>9 DEF ShownAt, Local
    <2>2. ASSUME NEW u \in ShownAt(z, l) PROVE s <= u
        <3>1. PICK j \in k..z.n : /\ u = l - z.offset[j]
                                  /\ \A i \in 1..z.n : z.at[i] <= u <=> i <= j
            BY <1>6
        <3>2. CASE j = k
            BY <3>1, <3>2, <1>2, <1>3
        <3>3. CASE j > k
            <4>1. j \in 1..z.n /\ ~(j <= m)
                BY <3>3, <1>2, <1>9
            <4>2. z.at[j] <= u /\ ~(z.at[j] <= s)
                BY <4>1, <3>1, <1>7
            <4> QED BY <4>1, <4>2, <3>1, <1>2
        <3> QED BY <3>2, <3>3, <1>2
    <2> QED BY <1>4, <2>1, <2>2 DEF OnTheClock
<1>10. CASE m > k
    <2> DEFINE i == k + 1
    <2>1. i \in 1..z.n /\ i <= m /\ ~(i <= k) /\ i - 1 = k
        BY <1>2, <1>10
    <2> HIDE DEF i
    <2>2. z.at[i] <= s
        BY <2>1, <1>7
    <2>3. ~(ChangeEnds(z, i) <= l)
        BY <2>1, <1>1
    <2>4. z.at[i] + z.offset[k] <= l
        BY <2>1, <2>2, <1>2, <1>3
    <2>5. l < z.at[i] + z.offset[i] /\ ChangeEnds(z, i) = z.at[i] + z.offset[i]
        BY <2>1, <2>3, <2>4, <1>2 DEF ChangeEnds, Later
    <2>6. s < z.at[i] + (z.offset[i] - z.offset[i - 1])
        BY <2>1, <2>5, <1>2, <1>3
    <2>7. ASSUME NEW u \in ShownAt(z, l) PROVE FALSE
        <3>1. PICK j \in k..z.n : /\ u = l - z.offset[j]
                                  /\ \A h \in 1..z.n : z.at[h] <= u <=> h <= j
            BY <1>6
        <3>2. CASE j = k
            <4>1. u = s
                BY <3>1, <3>2, <1>3
            <4> QED BY <4>1, <3>1, <3>2, <2>1, <2>2
        <3>3. CASE j > k
            <4>1. j \in 1..z.n /\ j >= i
                BY <3>3, <2>1, <1>2
            <4>2. z.at[j] + z.offset[j] <= l
                BY <4>1, <3>1, <1>2
            <4>3. CASE j = i
                BY <4>2, <4>3, <2>1, <2>5, <1>2
            <4>4. CASE j > i
                <5>1. ChangeEnds(z, i) <= ChangeBegins(z, j)
                    BY <4>1, <4>4, <2>1 DEF Spaced
                <5>2. ChangeBegins(z, j) <= z.at[j] + z.offset[j] /\ ChangeBegins(z, j) \in Int
                    <6>1. z.at[j] \in Int /\ z.offset[j] \in Int /\ z.offset[j - 1] \in Int
                        BY <4>1, <1>2
                    <6> QED BY <6>1 DEF ChangeBegins, Earlier
                <5> QED BY <5>1, <5>2, <4>1, <4>2, <2>1, <2>5, <1>2
            <4> QED BY <4>1, <4>3, <4>4, <2>1
        <3> QED BY <3>2, <3>3, <1>2
    <2>8. ShownAt(z, l) = {}
        BY <2>7
    <2>9. s = l - z.offset[i - 1]
        BY <2>1, <1>3
    <2> QED BY <1>4, <2>1, <2>2, <2>6, <2>8, <2>9 DEF OnTheClock
<1> QED BY <1>8, <1>9, <1>10, <1>2

\* The slot of a local day is at the wall time of that day, and the day is the
\* slot's own or next to it.
LEMMA SlotOnTheWall ==
    ASSUME NEW z, IsZone(z), Spaced(z), NEW day \in Int,
           NEW wall \in Int, 0 <= wall, wall < 86400
    PROVE  LET s == LocalSlot(z, day, wall)
           IN  /\ OnTheClock(z, day * Day + wall, s)
               /\ day \in LocalDay(z, s) - 1 .. LocalDay(z, s) + 1
<1>1. PICK l \in Int : l = day * 86400 + wall
    OBVIOUS
<1>2. day * Day + wall = l /\ LocalSlot(z, day, wall) = Instant(z, l)
    BY <1>1, DayLength DEF LocalSlot
<1>3. OnTheClock(z, l, Instant(z, l))
    BY InstantOnTheClock
<1>4. PICK s \in Int : s = LocalSlot(z, day, wall)
    BY SlotFromInstant
<1>5. /\ Offset(z, s) \in Int /\ WallOffset(z, l) \in Int
      /\ Offset(z, s) - WallOffset(z, l) <= 86400
      /\ WallOffset(z, l) - Offset(z, s) <= 86400
    BY OffsetsClose
<1>6. Local(z, s) = s + Offset(z, s) /\ s = l - WallOffset(z, l)
    BY <1>2, <1>4 DEF Local, Instant
<1>7. /\ LocalDay(z, s) \in Int
      /\ Local(z, s) >= LocalDay(z, s) * 86400
      /\ Local(z, s) < (LocalDay(z, s) + 1) * 86400
    BY LocalTypes
<1>8. day \in LocalDay(z, s) - 1 .. LocalDay(z, s) + 1
    BY <1>1, <1>5, <1>6, <1>7
<1> QED BY <1>2, <1>3, <1>4, <1>8

\* The slot is the one of a day of the cadence.
OnADay(r, s) ==
    \E day \in Int : /\ IsDay(day, r.anchor, r.cadence, r.zone)
                    /\ s = LocalSlot(r.zone, day, Wall(r.zone, r.anchor))

\* OnTheWall is inductive once said of the slot of a day, and with a routine that
\* has no slot yet being one without an anchor.
ProposedIsUnanchored == status = "unscheduled" => ~routine.anchored

SlotOfADay ==
    status = "queued" /\ ~asked /\ routine.anchored /\ routine.cadence \in Calendar
        => OnADay(routine, slot)

WallInv == ScheduleInv /\ ProposedIsUnanchored /\ SlotOfADay

LEMMA NextOnADay ==
    ASSUME NEW r \in Routines, NEW u \in Int, r.cadence \in Calendar
    PROVE  OnADay(r, NextOccurrence(r.anchor, r.cadence, r.zone, u))
<1>1. IsZone(r.zone) /\ r.anchor \in Int
    BY ZonesAssumption DEF Routines
<1>2. NextOccurrence(r.anchor, r.cadence, r.zone, u) = CalendarSlot(r.anchor, r.cadence, r.zone, u)
    BY DEF NextOccurrence
<1>3. \E day \in Int :
          /\ IsDay(day, r.anchor, r.cadence, r.zone)
          /\ CalendarSlot(r.anchor, r.cadence, r.zone, u)
                = LocalSlot(r.zone, day, Wall(r.zone, r.anchor))
    BY <1>1, CalendarSlotIsNext
<1> QED BY <1>2, <1>3 DEF OnADay

LEMMA WallInit == Init => WallInv
<1> SUFFICES ASSUME Init PROVE WallInv
    OBVIOUS
<1>1. ScheduleInv
    BY ScheduleInit
<1>2. routine \in Routines
    BY <1>1 DEF ScheduleInv, ScheduleTypeOK
<1>3. CASE Composed
    <2>1. /\ slot = FirstSlot(routine.anchor, routine.cadence, routine.zone)
          /\ status = "queued"
        BY <1>3 DEF Composed
    <2>2. routine.cadence \in Calendar => OnADay(routine, slot)
        <3>1. routine.anchor - 1 \in Int
            BY <1>2 DEF Routines
        <3> QED BY <2>1, <3>1, <1>2, NextOnADay DEF FirstSlot
    <2> QED BY <1>1, <2>1, <2>2 DEF WallInv, ProposedIsUnanchored, SlotOfADay
<1>4. CASE Proposed
    <2>1. status = "unscheduled" /\ ~routine.anchored
        BY <1>4 DEF Proposed
    <2> QED BY <1>1, <2>1 DEF WallInv, ProposedIsUnanchored, SlotOfADay
<1> QED BY <1>3, <1>4 DEF Init

LEMMA WallStep == WallInv /\ [Next]_vars => WallInv'
<1> SUFFICES ASSUME WallInv, [Next]_vars PROVE WallInv'
    OBVIOUS
<1> USE DEF WallInv, ProposedIsUnanchored, SlotOfADay
<1>0. ScheduleInv'
    BY ScheduleStep
<1>1. CASE ClockMoves
    BY <1>0, <1>1 DEF ClockMoves
<1>2. CASE ScheduleNow
    BY <1>0, <1>2 DEF ScheduleNow
<1>3. CASE Claim
    BY <1>0, <1>3 DEF Claim
<1>4. CASE Settle
    <2>1. ScheduleTypeOK /\ routine \in Routines /\ After \in Int
        BY InstantsAssumption DEF ScheduleInv, ScheduleTypeOK, After, Later
    <2>2. routine.anchored /\ routine.cadence \in Calendar => OnADay(routine, Following)
        BY <2>1, NextOnADay DEF Following, AnchorOf
    <2> QED BY <1>0, <1>4, <2>2 DEF Settle
<1>5. CASE Pause
    BY <1>0, <1>5 DEF Pause
<1>6. CASE Continue
    BY <1>0, <1>6 DEF Continue
<1>7. CASE UNCHANGED vars
    BY <1>0, <1>7 DEF vars
<1> QED BY <1>1, <1>2, <1>3, <1>4, <1>5, <1>6, <1>7 DEF Next

\* A calendar slot is at the wall time its owner picked, on a day of the cadence,
\* in every zone whose clock changes are further apart than they are long.
THEOREM OnTheOwnersClock ==
    ASSUME \A z \in Zones : Spaced(z)
    PROVE  Spec => []OnTheWall
<1>1. WallInv => OnTheWall
    <2> SUFFICES ASSUME WallInv, status = "queued", ~asked, routine.anchored,
                        routine.cadence \in Calendar
                 PROVE  OnTheWall
        BY DEF OnTheWall
    <2> DEFINE z == routine.zone
               wall == Wall(z, routine.anchor)
    <2>1. z \in Zones /\ IsZone(z) /\ Spaced(z) /\ routine.anchor \in Int
        BY ZonesAssumption DEF WallInv, ScheduleInv, ScheduleTypeOK, Routines
    <2>2. wall \in Int /\ 0 <= wall /\ wall < 86400
        BY <2>1, LocalTypes
    <2>3. PICK day \in Int : /\ IsDay(day, routine.anchor, routine.cadence, z)
                             /\ slot = LocalSlot(z, day, wall)
        BY DEF WallInv, SlotOfADay, OnADay
    <2>4. /\ OnTheClock(z, day * Day + wall, slot)
          /\ day \in LocalDay(z, slot) - 1 .. LocalDay(z, slot) + 1
        BY <2>1, <2>2, <2>3, SlotOnTheWall
    <2> HIDE DEF wall
    <2>5. wall = Wall(routine.zone, routine.anchor)
        BY DEF wall
    <2> QED BY <2>3, <2>4, <2>5 DEF OnTheWall, OnTheClock
<1> QED BY WallInit, WallStep, <1>1, PTL DEF Spec

=============================================================================
