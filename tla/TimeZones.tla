----------------------------- MODULE TimeZones -----------------------------
(***************************************************************************)
(* The conversion between the wall-clock times people enter and the        *)
(* instants that are stored (interviews/utils/timezone.util.ts), around    *)
(* one change of a zone's offset.  An instant and a wall time are whole    *)
(* minutes; a wall time is the instant a clock set to UTC shows it at.     *)
(***************************************************************************)
EXTENDS Integers

\* A zone that changes its offset at an instant.
Zones(offsets, instants) == [before : offsets, after : offsets, at : instants]

\* timeZoneOffsetMs
Offset(date, zone) == IF date < zone.at THEN zone.before ELSE zone.after

\* zonedWallTimeToUtc: a guess, and one refinement.
ZonedWallTimeToUtc(wallTime, zone) ==
    LET guess == wallTime - Offset(wallTime, zone)
    IN  wallTime - Offset(guess, zone)

\* utcToZonedWallTime
UtcToZonedWallTime(date, zone) == date + Offset(date, zone)

\* A clock of the zone shows the wall time at some instant: it is not in the hour
\* skipped in spring.
Shown(wallTime, zone) ==
    \/ wallTime - zone.before < zone.at
    \/ wallTime - zone.after >= zone.at

\* "Inverse of zonedWallTimeToUtc": what somebody entered is what is shown.
EnteredIsShown(wallTime, zone) ==
    Shown(wallTime, zone) =>
        UtcToZonedWallTime(ZonedWallTimeToUtc(wallTime, zone), zone) = wallTime

\* An instant is recovered from what the clock shows then, or another instant at
\* which it shows the same.
InstantIsRecovered(date, zone) ==
    LET again == ZonedWallTimeToUtc(UtcToZonedWallTime(date, zone), zone)
    IN  again = date \/ again - date \in {zone.before - zone.after, zone.after - zone.before}
=============================================================================
