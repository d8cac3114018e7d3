-------------------------- MODULE InterviewsProofs --------------------------
(***************************************************************************)
(* Facts about overlap and about the shared queries, used by the proofs of *)
(* InterviewCalendar and of InterviewService; and what timezone.util.ts    *)
(* promises of its conversions, for every offset, every instant of a       *)
(* change and every wall time: two passes are enough.                      *)
(***************************************************************************)
EXTENDS Interviews, TimeZones, TLAPS

\* rangesOverlap does not depend on the order of its arguments, although the
\* callers of findConflicts pass offers first and bookings second.
LEMMA OverlapSymmetric ==
    \A a, b : RangesOverlap(a, b) <=> RangesOverlap(b, a)
BY DEF RangesOverlap

\* rangesOverlap on two slots of positive length says that they share an
\* instant: touching slots are not a conflict, nested ones are.
THEOREM OverlapMeansSharedInstant ==
    ASSUME NEW s \in Int, NEW t \in Int, NEW d \in Nat \ {0}, NEW e \in Nat \ {0}
    PROVE  RangesOverlap(SlotAt(s, d), SlotAt(t, e)) <=>
               \E x \in Int : s <= x /\ x < s + d /\ t <= x /\ x < t + e
<1>1. ASSUME RangesOverlap(SlotAt(s, d), SlotAt(t, e))
      PROVE  \E x \in Int : s <= x /\ x < s + d /\ t <= x /\ x < t + e
  <2>1. CASE s <= t
    BY <1>1, <2>1 DEF RangesOverlap, SlotAt
  <2>2. CASE t <= s
    BY <1>1, <2>2 DEF RangesOverlap, SlotAt
  <2>3. QED BY <2>1, <2>2
<1>2. ASSUME NEW x \in Int, s <= x, x < s + d, t <= x, x < t + e
      PROVE  RangesOverlap(SlotAt(s, d), SlotAt(t, e))
  BY <1>2 DEF RangesOverlap, SlotAt
<1>3. QED BY <1>1, <1>2

\* assertNoConflicts and the conflict query of book() rule out every confirmed
\* interview of the same interviewer.
LEMMA NoClashNoOverlap ==
    ASSUME NEW i \in Interviews, NEW S, NEW t \in S, ~Clashes(i, S),
           NEW k \in Interviews, k # i, SameInterviewer(i, k),
           status[k] = "SCHEDULED", scheduledAt[k] # NoTime
    PROVE  ~RangesOverlap(RangeOf(i, t), RangeOf(k, scheduledAt[k]))
<1>1. RangeOf(k, scheduledAt[k]) \in BookedRanges(i)
  BY DEF BookedRanges
<1>2. RangeOf(i, t) \in {RangeOf(i, s) : s \in S}
  OBVIOUS
<1>3. QED
  BY <1>1, <1>2 DEF Clashes, FindConflicts

\* Pruning takes from siblings only what overlaps the booked range, and nothing
\* from an interview that is not a sibling.
LEMMA PruningIsExact ==
    ASSUME NEW i \in Interviews, NEW t, NEW j \in Interviews, NEW s \in Times
    PROVE  <<j, s>> \in SiblingSlots(i, t) <=>
               /\ j # i
               /\ SameInterviewer(i, j)
               /\ status[j] = "AWAITING_CANDIDATE"
               /\ s \in slots[j]
               /\ RangesOverlap(RangeOf(j, s), RangeOf(i, t))
BY DEF SiblingSlots

LEMMA SameInterviewerSymmetric ==
    \A i, j : SameInterviewer(i, j) <=> SameInterviewer(j, i)
BY DEF SameInterviewer

-----------------------------------------------------------------------------
(* Time zones *)

\* A wall time the zone's clocks show at all is shown for the instant stored for it.
THEOREM TwoPassesAreEnough ==
    ASSUME NEW zone \in Zones(Int, Int), NEW wallTime \in Int
    PROVE  EnteredIsShown(wallTime, zone)
<1>1. zone.before \in Int /\ zone.after \in Int /\ zone.at \in Int
  BY DEF Zones
<1> QED
  BY <1>1 DEF EnteredIsShown, Shown, UtcToZonedWallTime, ZonedWallTimeToUtc, Offset

\* The clock shows something at every instant.
LEMMA EveryInstantIsShown ==
    ASSUME NEW zone \in Zones(Int, Int), NEW date \in Int
    PROVE  Shown(UtcToZonedWallTime(date, zone), zone)
<1>1. zone.before \in Int /\ zone.after \in Int /\ zone.at \in Int
  BY DEF Zones
<1> QED
  BY <1>1 DEF Shown, UtcToZonedWallTime, Offset

\* Converted there and back, an instant comes back, or, in the hour a clock shows
\* twice, its other one.
THEOREM InstantsComeBack ==
    ASSUME NEW zone \in Zones(Int, Int), NEW date \in Int
    PROVE  InstantIsRecovered(date, zone)
<1> DEFINE shown == UtcToZonedWallTime(date, zone)
           again == ZonedWallTimeToUtc(shown, zone)
<1>1. zone.before \in Int /\ zone.after \in Int /\ zone.at \in Int
  BY DEF Zones
<1>2. shown \in Int /\ again \in Int
  BY <1>1 DEF UtcToZonedWallTime, ZonedWallTimeToUtc, Offset
<1>3. UtcToZonedWallTime(again, zone) = shown
  BY <1>2, TwoPassesAreEnough, EveryInstantIsShown DEF EnteredIsShown
<1>4. again + Offset(again, zone) = date + Offset(date, zone)
  BY <1>3 DEF UtcToZonedWallTime
<1> QED
  BY <1>1, <1>2, <1>4 DEF InstantIsRecovered, Offset
=============================================================================
