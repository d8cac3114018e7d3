------------------------ MODULE MCInterviewCalendar ------------------------
(***************************************************************************)
(* A small calendar for TLC: two interviews that compete for one           *)
(* interviewer, the first twice as long as the second, and a third one     *)
(* with an outside interviewer.                                            *)
(***************************************************************************)
EXTENDS InterviewCalendar, TimeZones

CONSTANTS i1, i2, i3, u1

MCInterviews  == {i1, i2, i3}
MCUsers       == {u1}
MCInterviewer == [i \in Interviews |-> IF i = i3 THEN NoUser ELSE u1]
MCDuration    == [i \in Interviews |-> IF i = i1 THEN 2 ELSE 1]

\* Offers that overlap, that have a second choice, and that may have passed.
MCProposals   == {{1}, {1, 2}}
\* No calendar, or open all day.
MCOpenDay     == [hasRules |-> TRUE, windows |-> {SlotAt(1, 2)}]
MCHourChoices == {NoHours, MCOpenDay}

\* What InterviewsProofs proves for all zones, on some: the conversion between stored
\* instants and the wall times of the interviewers (timezone.util.ts) loses nothing.
ASSUME WallTimesSurvive ==
    \A zone \in Zones(-3..3, {0}), time \in -8..8 :
        EnteredIsShown(time, zone) /\ InstantIsRecovered(time, zone)
=============================================================================
