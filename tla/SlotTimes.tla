----------------------------- MODULE SlotTimes -----------------------------
(***************************************************************************)
(* Half-open time ranges and the overlap test that every part of interview *)
(* scheduling shares (interviews/utils/slot-conflicts.util.ts).  Instants  *)
(* are integers: the unit is a tick of the grid, not a millisecond, since  *)
(* the code only ever compares instants and adds durations to them.        *)
(***************************************************************************)
EXTENDS Integers

\* A slot that starts at t and lasts d ticks.
SlotAt(t, d) == [startsAt |-> t, endsAt |-> t + d]

\* rangesOverlap: touching ranges do not overlap.
RangesOverlap(a, b) == a.startsAt < b.endsAt /\ a.endsAt > b.startsAt

\* findConflicts: the candidates that overlap some booked range.
FindConflicts(candidates, booked) ==
    {c \in candidates : \E b \in booked : RangesOverlap(c, b)}
=============================================================================
