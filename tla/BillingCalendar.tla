-------------------------- MODULE BillingCalendar --------------------------
(***************************************************************************)
(* Periods of traffic accounting.                                          *)
(*                                                                         *)
(* A schedule [policy, zone, anchor] says at which wall-clock time of each *)
(* month a period starts; its anchor is the [month, day, time] of the      *)
(* first.  The zone's clock is moved twice a year.                         *)
(*                                                                         *)
(* An instant is a number of half hours, a wall-clock time is one too: the *)
(* instant plus the offset the zone has then.  Months follow one another   *)
(* and are numbered from 0; how many days each has is a parameter.         *)
(***************************************************************************)
EXTENDS Integers, FiniteSetsExt

CONSTANTS
  Months,   \* the days of each month
  Zones     \* sets of [at, offset]: the offset from an instant on

Hour == 2
Day  == 24 * Hour

(***************************************************************************)
(* chrono and its time zone table                                          *)
(***************************************************************************)
Offset(zone, t) ==
  (CHOOSE r \in zone : r.at <= t /\ \A q \in zone : q.at <= t => q.at <= r.at).offset

Wall(zone, t) == t + Offset(zone, t)

(* No instant when the clock skips the time, two when it is repeated. *)
InstantsOf(zone, wall) ==
  {t \in {wall - r.offset : r \in zone} : Wall(zone, t) = wall}

MonthStart(m) == Day * MapThenSumSet(LAMBDA k : Months[k], 0..(m - 1))

MonthOf(wall) == Max({m \in DOMAIN Months : MonthStart(m) <= wall})

-----------------------------------------------------------------------------
(* A repeated time is its first instant, a skipped one the first that is   *)
(* not, one to three hours on.                                             *)
LocalDatetime(zone, wall) ==
  LET shift == Min({h \in 0..3 : InstantsOf(zone, wall + h * Hour) # {}})
  IN  Min(InstantsOf(zone, wall + shift * Hour))

AnchoredWallUnclamped(anchor, m) ==
  MonthStart(m) + (anchor.day - 1) * Day + anchor.time

(* The day of the anchor, or the last of a month that has fewer. *)
AnchoredWall(anchor, m) ==
  MonthStart(m) + (Min({anchor.day, Months[m]}) - 1) * Day + anchor.time

AnchoredDatetime(s, m) == LocalDatetime(s.zone, AnchoredWall(s.anchor, m))

Named(s, start, next) ==
  [start |-> start, offset |-> Offset(s.zone, start), next |-> next]

NaturalPeriod(s, now) ==
  LET m == MonthOf(Wall(s.zone, now))
  IN  Named(s, LocalDatetime(s.zone, MonthStart(m)),
               LocalDatetime(s.zone, MonthStart(m + 1)))

AnchoredPeriod(s, now) ==
  LET m     == MonthOf(Wall(s.zone, now))
      start == IF AnchoredDatetime(s, m) > now
               THEN AnchoredDatetime(s, m - 1) ELSE AnchoredDatetime(s, m)
      scheduled == AnchoredDatetime(s, MonthOf(Wall(s.zone, start)) + 1)
      first     == LocalDatetime(s.zone,
                     MonthStart(s.anchor.month) + (s.anchor.day - 1) * Day + s.anchor.time)
  IN  Named(s, start, IF now < first THEN Min({scheduled, first}) ELSE scheduled)

AccountingPeriod(s, now) ==
  IF s.policy = "natural-month" THEN NaturalPeriod(s, now) ELSE AnchoredPeriod(s, now)

(* The instant and its offset: what to_rfc3339 writes. *)
Key(period) == [start |-> period.start, offset |-> period.offset]

(* validate_anchored_reset_local_time *)
AnchorIsDefinite(s) ==
  s.policy = "anchored-month" =>
    Cardinality(InstantsOf(s.zone, AnchoredWall(s.anchor, s.anchor.month))) = 1

-----------------------------------------------------------------------------
(***************************************************************************)
(* What a period should be: it starts when the clock on the wall first     *)
(* shows the time it is due at.                                            *)
(***************************************************************************)
DueAt(s, m) ==
  IF s.policy = "natural-month" THEN MonthStart(m) ELSE AnchoredWall(s.anchor, m)

FirstReached(zone, wall) ==
  Min({t \in (wall - Day)..(wall + Day) : Wall(zone, t) >= wall})

(* The moment lies in its period, the next one starts where it ends, and   *)
(* it started no earlier than the clock reached the due time, an hour      *)
(* later at most, with no due time left out since.                         *)
FollowsTheClock(s, now) ==
  LET p   == AccountingPeriod(s, now)
      due == {FirstReached(s.zone, DueAt(s, m)) : m \in DOMAIN Months}
  IN  /\ p.start <= now /\ now < p.next
      /\ AccountingPeriod(s, p.next).start = p.next
      /\ \E t \in due : t <= p.start /\ p.start <= t + Hour
      /\ \A t \in due : t + Hour <= now => t <= p.start
=============================================================================
