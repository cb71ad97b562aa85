----------------------------- MODULE MCSchedule -----------------------------
(* Four zones around their clock changes.  Day 0 is Monday. *)
EXTENDS Schedule

At(day, hour, minute) == day * Day + hour * Hour + minute * 60

\* An hour forward at 01:00 on the first Sunday and back on the next.
London == [n |-> 2, at |-> <<At(6, 1, 0), At(13, 1, 0)>>,
           offset |-> [i \in 0..2 |-> IF i = 1 THEN Hour ELSE 0]]
\* An hour forward at 23:30 local time: the gap lies across midnight.
Toronto == [n |-> 1, at |-> <<At(6, 4, 30)>>,
            offset |-> [i \in 0..1 |-> IF i = 0 THEN -5 * Hour ELSE -4 * Hour]]
\* A whole day left out, across the date line.
Apia == [n |-> 1, at |-> <<At(5, 10, 0)>>,
         offset |-> [i \in 0..1 |-> IF i = 0 THEN -10 * Hour ELSE 14 * Hour]]
TestZones == {UTC, London, Toronto, Apia}

\* Wall times 01:30, 09:00, and 23:45 in Toronto and 00:15 in Apia.
TestAnchors == {At(4, 1, 30), At(5, 9, 0), At(5, 4, 45), At(2, 10, 15)}
TestEnds == {At(6, 1, 45), At(15, 0, 0)}
TestClock == {At(d, h, 0) : d \in {2, 5, 6, 12, 14}, h \in {4, 10}}
             \cup {At(6, 1, 45), At(6, 4, 40), At(12, 23, 50), At(13, 0, 45), At(13, 1, 15)}
=============================================================================
