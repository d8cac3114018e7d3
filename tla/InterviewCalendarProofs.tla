---------------------- MODULE InterviewCalendarProofs ----------------------
(***************************************************************************)
(* The contract of interview scheduling, for every set of interviews and   *)
(* interviewers, every assignment of durations and every clock bound: the  *)
(* tables stay consistent and no interviewer is booked twice at a time.    *)
(*                                                                         *)
(* The argument rests on IInv.  NoDoubleBooking alone is not inductive: a  *)
(* booking is checked against the confirmed interviews that have a time,   *)
(* so one needs to know that all of them do (BookedSlotKept).              *)
(***************************************************************************)
EXTENDS InterviewCalendar, InterviewsProofs

\* Before an offer is made the row has no slots and still has the default mode.
UnofferedRowsAreBlank ==
    \A i \in Interviews :
        /\ status[i] \in {"NONE", "AWAITING_MANAGER"} => slots[i] = {}
        /\ status[i] = "NONE" => offerMode[i] = "FIXED"

IInv ==
    /\ TypeOK
    /\ UnofferedRowsAreBlank
    /\ BookedSlotKept
    /\ NoDoubleBooking
    /\ EmptyOffersExpire
    /\ LiveOffersHaveNoSlots
    /\ OffersAvoidBookings

USE DEF TypeOK, TablesOK, Statuses

LEMMA InitIInv == Init => IInv
BY TimeAssumption, ProposalAssumption
   DEF Init, TablesInit, IInv, UnofferedRowsAreBlank, BookedSlotKept, NoDoubleBooking,
       EmptyOffersExpire, LiveOffersHaveNoSlots, OffersAvoidBookings, Times, NoTime

-----------------------------------------------------------------------------
(* An interview that becomes open for booking with offer S: the step of     *)
(* create and of submitAvailability.                                        *)

LEMMA OfferPreserves ==
    ASSUME IInv, NEW i \in Interviews, NEW S \in Proposals,
           ~Clashes(i, S), status[i] # "SCHEDULED",
           status' = [status EXCEPT ![i] = "AWAITING_CANDIDATE"],
           slots' = [slots EXCEPT ![i] = S],
           offerMode' = [offerMode EXCEPT ![i] = "FIXED"],
           createdAt' \in [Interviews -> Times],
           UNCHANGED <<scheduledAt, hours, now>>
    PROVE  IInv'
<1>1. S \subseteq Times /\ S # {}
  BY ProposalAssumption
<1>2. TypeOK'
  BY <1>1 DEF IInv
<1>3. UnofferedRowsAreBlank'
  BY DEF IInv, UnofferedRowsAreBlank
<1>4. BookedSlotKept'
  BY DEF IInv, BookedSlotKept
<1>5. NoDoubleBooking'
  BY DEF IInv, NoDoubleBooking, SameInterviewer, RangeOf
<1>6. EmptyOffersExpire' /\ LiveOffersHaveNoSlots'
  BY <1>1 DEF IInv, EmptyOffersExpire, LiveOffersHaveNoSlots
<1>7. OffersAvoidBookings'
  <2> SUFFICES ASSUME NEW k \in Interviews, NEW j \in Interviews, k # j, SameInterviewer(k, j),
                      status'[k] = "SCHEDULED", status'[j] = "AWAITING_CANDIDATE",
                      NEW t \in slots'[j]
               PROVE  ~RangesOverlap(RangeOf(k, scheduledAt[k]), RangeOf(j, t))
    BY DEF OffersAvoidBookings, SameInterviewer, RangeOf
  <2>1. k # i /\ status[k] = "SCHEDULED" /\ scheduledAt[k] # NoTime
    BY DEF IInv, BookedSlotKept, NoTime, Times
  <2>2. CASE j = i
    <3>1. t \in S /\ SameInterviewer(i, k)
      BY <2>2, SameInterviewerSymmetric DEF IInv
    <3>2. ~RangesOverlap(RangeOf(i, t), RangeOf(k, scheduledAt[k]))
      BY <2>1, <3>1, NoClashNoOverlap
    <3>3. QED BY <2>2, <3>2, OverlapSymmetric
  <2>3. CASE j # i
    BY <2>1, <2>3 DEF IInv, OffersAvoidBookings
  <2>4. QED BY <2>2, <2>3
<1>8. QED BY <1>2, <1>3, <1>4, <1>5, <1>6, <1>7 DEF IInv

\* A step that only withdraws interviews which are not confirmed (cancel and
\* expireStale) creates no obligation.
LEMMA WithdrawPreserves ==
    ASSUME IInv, NEW E \in SUBSET Interviews, NEW s \in {"CANCELLED", "EXPIRED"},
           \A i \in E : status[i] # "SCHEDULED",
           status' = [i \in Interviews |-> IF i \in E THEN s ELSE status[i]],
           UNCHANGED <<offerMode, scheduledAt, createdAt, slots, hours, now>>
    PROVE  IInv'
<1>1. \A i \in Interviews :
        status'[i] \in {"NONE", "AWAITING_MANAGER", "AWAITING_CANDIDATE", "SCHEDULED"}
            => status'[i] = status[i]
  BY DEF IInv
<1>2. TypeOK'
  BY DEF IInv
<1>3. UnofferedRowsAreBlank' /\ BookedSlotKept'
  BY <1>1 DEF IInv, UnofferedRowsAreBlank, BookedSlotKept
<1>4. NoDoubleBooking' /\ OffersAvoidBookings'
  BY <1>1 DEF IInv, NoDoubleBooking, OffersAvoidBookings, SameInterviewer, RangeOf
<1>5. EmptyOffersExpire' /\ LiveOffersHaveNoSlots'
  BY <1>1 DEF IInv, EmptyOffersExpire, LiveOffersHaveNoSlots
<1>6. QED BY <1>2, <1>3, <1>4, <1>5 DEF IInv

LEMMA BookPreserves ==
    ASSUME IInv, NEW i \in Interviews, NEW t \in Times, NEW E \in SUBSET Interviews,
           Book(i, t, E)
    PROVE  IInv'
<1> DEFINE gone == SiblingSlots(i, t)
<1> USE DEF Book, SlotsBooked, ExpiresSiblings
<1>1. /\ status[i] = "AWAITING_CANDIDATE"
      /\ ~Clashes(i, {t})
      /\ status' = [j \in Interviews |-> IF j = i THEN "SCHEDULED"
                                         ELSE IF j \in E THEN "EXPIRED" ELSE status[j]]
      /\ scheduledAt' = [scheduledAt EXCEPT ![i] = t]
      /\ slots' = [j \in Interviews |-> IF j = i THEN slots[i] \cup {t} ELSE SlotsLeft(j, gone)]
      /\ UNCHANGED <<offerMode, createdAt, hours, now>>
  OBVIOUS
<1>2. \A j \in Interviews : SlotsLeft(j, gone) \subseteq slots[j]
  BY DEF SlotsLeft
<1>3. \A j \in E : j # i /\ status[j] = "AWAITING_CANDIDATE"
  BY PruningIsExact DEF SiblingSlots
<1>4. \A j \in Interviews : status'[j] \in {"NONE", "AWAITING_MANAGER", "AWAITING_CANDIDATE"}
                                => j # i /\ status'[j] = status[j]
  BY <1>1 DEF IInv
<1>5. \A j \in Interviews \ {i} : status'[j] = "SCHEDULED"
                                => status[j] = "SCHEDULED" /\ scheduledAt'[j] = scheduledAt[j]
  BY <1>1 DEF IInv
<1>6. \A j \in Interviews \ {i} : status[j] # "AWAITING_CANDIDATE" => SlotsLeft(j, gone) = slots[j]
  BY PruningIsExact DEF SlotsLeft, SiblingSlots
<1>7. TypeOK'
  BY <1>1, <1>2 DEF IInv
<1>8. UnofferedRowsAreBlank'
  BY <1>1, <1>2, <1>4 DEF IInv, UnofferedRowsAreBlank
<1>9. BookedSlotKept'
  BY <1>1, <1>5, <1>6 DEF IInv, BookedSlotKept
<1>10. \A k \in Interviews \ {i} :
          status'[k] = "SCHEDULED" /\ SameInterviewer(i, k)
              => ~RangesOverlap(RangeOf(i, t), RangeOf(k, scheduledAt'[k]))
  <2> SUFFICES ASSUME NEW k \in Interviews \ {i}, status'[k] = "SCHEDULED", SameInterviewer(i, k)
               PROVE  ~RangesOverlap(RangeOf(i, t), RangeOf(k, scheduledAt'[k]))
    OBVIOUS
  <2>1. status[k] = "SCHEDULED" /\ scheduledAt'[k] = scheduledAt[k]
    BY <1>5
  <2>2. scheduledAt[k] # NoTime
    BY <2>1 DEF IInv, BookedSlotKept, NoTime, Times
  <2>3. QED BY <1>1, <2>1, <2>2, NoClashNoOverlap
<1>11. NoDoubleBooking'
  <2> SUFFICES ASSUME NEW k \in Interviews, NEW j \in Interviews, k # j, SameInterviewer(k, j),
                      status'[k] = "SCHEDULED", status'[j] = "SCHEDULED"
               PROVE  ~RangesOverlap(RangeOf(k, scheduledAt'[k]), RangeOf(j, scheduledAt'[j]))
    BY DEF NoDoubleBooking, SameInterviewer, RangeOf
  <2>1. scheduledAt'[i] = t
    BY <1>1 DEF IInv
  <2>2. CASE k = i
    BY <1>10, <2>1, <2>2
  <2>3. CASE j = i
    BY <1>10, <2>1, <2>3, OverlapSymmetric, SameInterviewerSymmetric
  <2>4. CASE k # i /\ j # i
    BY <1>5, <2>4 DEF IInv, NoDoubleBooking
  <2>5. QED BY <2>2, <2>3, <2>4
<1>12. EmptyOffersExpire'
  <2> SUFFICES ASSUME NEW j \in Interviews, status'[j] = "AWAITING_CANDIDATE", offerMode[j] = "FIXED"
               PROVE  slots'[j] # {}
    BY <1>1 DEF EmptyOffersExpire
  <2>1. j # i /\ status[j] = "AWAITING_CANDIDATE" /\ j \notin E
    BY <1>1, <1>4
  <2>2. slots[j] # {}
    BY <2>1 DEF IInv, EmptyOffersExpire
  <2>3. CASE j \in {p[1] : p \in gone}
    BY <1>1, <2>1, <2>3
  <2>4. CASE j \notin {p[1] : p \in gone}
    <3>1. SlotsLeft(j, gone) = slots[j]
      BY <2>4 DEF SlotsLeft
    <3>2. QED BY <1>1, <2>1, <2>2, <3>1
  <2>5. QED BY <2>3, <2>4
<1>13. LiveOffersHaveNoSlots'
  BY <1>1, <1>2, <1>4 DEF IInv, LiveOffersHaveNoSlots
<1>14. OffersAvoidBookings'
  <2> SUFFICES ASSUME NEW k \in Interviews, NEW j \in Interviews, k # j, SameInterviewer(k, j),
                      status'[k] = "SCHEDULED", status'[j] = "AWAITING_CANDIDATE",
                      NEW s \in slots'[j]
               PROVE  ~RangesOverlap(RangeOf(k, scheduledAt'[k]), RangeOf(j, s))
    BY DEF OffersAvoidBookings, SameInterviewer, RangeOf
  <2>1. j # i /\ status[j] = "AWAITING_CANDIDATE"
    BY <1>4
  <2>2. s \in slots[j] /\ <<j, s>> \notin gone /\ s \in Times
    BY <1>1, <2>1 DEF SlotsLeft, IInv
  <2>3. CASE k = i
    <3>1. ~RangesOverlap(RangeOf(j, s), RangeOf(i, t))
      BY <2>1, <2>2, <2>3, PruningIsExact
    <3>2. QED BY <1>1, <2>3, <3>1, OverlapSymmetric DEF IInv
  <2>4. CASE k # i
    BY <1>5, <2>1, <2>2, <2>4 DEF IInv, OffersAvoidBookings
  <2>5. QED BY <2>3, <2>4
<1>15. QED BY <1>7, <1>8, <1>9, <1>11, <1>12, <1>13, <1>14 DEF IInv

-----------------------------------------------------------------------------

LEMMA NextIInv == IInv /\ [Next]_vars => IInv'
<1> SUFFICES ASSUME IInv, [Next]_vars PROVE IInv'
  OBVIOUS
<1>1. ASSUME NEW i \in Interviews, NEW S \in Proposals, CreateManual(i, S) PROVE IInv'
  <2>1. offerMode[i] = "FIXED"
    BY <1>1 DEF CreateManual, IInv, UnofferedRowsAreBlank
  <2>2. offerMode' = [offerMode EXCEPT ![i] = "FIXED"]
    BY <1>1, <2>1 DEF CreateManual, IInv
  <2>3. createdAt' \in [Interviews -> Times]
    BY <1>1 DEF CreateManual, IInv
  <2>4. QED BY <1>1, <2>2, <2>3, OfferPreserves DEF CreateManual
<1>2. ASSUME NEW i \in Interviews, NEW S \in Proposals, SubmitAvailability(i, S) PROVE IInv'
  <2>1. createdAt' \in [Interviews -> Times]
    BY <1>2 DEF SubmitAvailability, IInv
  <2>2. QED BY <1>2, <2>1, OfferPreserves DEF SubmitAvailability
<1>3. ASSUME NEW i \in Interviews, CreateRequest(i) PROVE IInv'
  BY <1>3 DEF CreateRequest, IInv, UnofferedRowsAreBlank, BookedSlotKept, NoDoubleBooking,
              EmptyOffersExpire, LiveOffersHaveNoSlots, OffersAvoidBookings,
              SameInterviewer, RangeOf
<1>4. ASSUME NEW i \in Interviews, ShareLiveAvailability(i) PROVE IInv'
  BY <1>4 DEF ShareLiveAvailability, IInv, UnofferedRowsAreBlank, BookedSlotKept,
              NoDoubleBooking, EmptyOffersExpire, LiveOffersHaveNoSlots,
              OffersAvoidBookings, SameInterviewer, RangeOf
<1>5. ASSUME NEW i \in Interviews, Cancel(i) PROVE IInv'
  <2>1. status' = [j \in Interviews |-> IF j \in {i} THEN "CANCELLED" ELSE status[j]]
    BY <1>5 DEF Cancel, IInv
  <2>2. QED BY <1>5, <2>1, WithdrawPreserves, ZenonT(40) DEF Cancel
<1>6. ASSUME NEW i \in Interviews, NEW t \in Times, NEW E \in SUBSET Interviews, Book(i, t, E)
      PROVE  IInv'
  BY <1>6, BookPreserves
<1>7. ASSUME NEW E \in SUBSET Interviews, ExpireStale(E) PROVE IInv'
  <2>1. \A i \in E : status[i] # "SCHEDULED"
    BY <1>7 DEF ExpireStale, StaleOffers, StaleRequests
  <2>2. QED BY <1>7, <2>1, WithdrawPreserves DEF ExpireStale
<1>8. ASSUME UNCHANGED <<rows, slots>>, hours' \in [Users -> HourChoices], now' \in Times
      PROVE  IInv'
  BY <1>8 DEF rows, IInv, UnofferedRowsAreBlank, BookedSlotKept, NoDoubleBooking,
              EmptyOffersExpire, LiveOffersHaveNoSlots, OffersAvoidBookings,
              SameInterviewer, RangeOf
<1>9. ASSUME NEW u \in Users, NEW H \in HourChoices, SetHours(u, H) PROVE IInv'
  BY <1>8, <1>9, ProposalAssumption DEF SetHours, IInv
<1>10. CASE Tick
  <2>1. now' \in Times
    BY <1>10, TimeAssumption DEF Tick, IInv, Times
  <2>2. QED BY <1>8, <1>10, <2>1 DEF Tick, IInv
<1>11. CASE UNCHANGED vars
  BY <1>8, <1>11 DEF vars, tables, IInv
<1>12. QED
  BY <1>1, <1>2, <1>3, <1>4, <1>5, <1>6, <1>7, <1>9, <1>10, <1>11 DEF Next, Maintenance

\* The inductive invariant holds in every behaviour of the calendar.
THEOREM CalendarInvariant == Spec => []IInv
BY InitIInv, NextIInv, PTL DEF Spec

\* Every table keeps its type: in particular a slot row never leaves the clock's
\* range, and a status is one of those of the schema.
THEOREM CalendarTypeOK == Spec => []TypeOK
<1>1. IInv => TypeOK
  BY DEF IInv
<1>2. QED BY <1>1, CalendarInvariant, PTL

\* No interviewer is ever confirmed for two overlapping interviews, when the
\* handlers do not interleave (book() checks, claims and prunes as one step).
THEOREM CalendarNoDoubleBooking == Spec => []NoDoubleBooking
<1>1. IInv => NoDoubleBooking
  BY DEF IInv
<1>2. QED BY <1>1, CalendarInvariant, PTL

\* An offer of live hours has no slot rows that pruning or maintenance could touch.
THEOREM CalendarLiveOffersHaveNoSlots == Spec => []LiveOffersHaveNoSlots
<1>1. IInv => LiveOffersHaveNoSlots
  BY DEF IInv
<1>2. QED BY <1>1, CalendarInvariant, PTL

\* The slot row of a confirmed interview is never pruned.
THEOREM CalendarBookedSlotKept == Spec => []BookedSlotKept
<1>1. IInv => BookedSlotKept
  BY DEF IInv
<1>2. QED BY <1>1, CalendarInvariant, PTL

\* No open offer contains a time its interviewer has given away, so the check at
\* offer time and the pruning at booking time complete each other.
THEOREM CalendarOffersAvoidBookings == Spec => []OffersAvoidBookings
<1>1. IInv => OffersAvoidBookings
  BY DEF IInv
<1>2. QED BY <1>1, CalendarInvariant, PTL

\* Pruning never leaves an open FIXED offer without a slot.
THEOREM CalendarEmptyOffersExpire == Spec => []EmptyOffersExpire
<1>1. IInv => EmptyOffersExpire
  BY DEF IInv
<1>2. QED BY <1>1, CalendarInvariant, PTL

\* A confirmed interview keeps its status and its time for ever.
THEOREM CalendarBookingsStand == Spec => BookingsStand
<1>1. IInv /\ [Next]_vars => [ConfirmedStands]_vars
  <2> SUFFICES ASSUME IInv, Next, NEW i \in Interviews, status[i] = "SCHEDULED"
               PROVE  status'[i] = "SCHEDULED" /\ scheduledAt'[i] = scheduledAt[i]
    BY DEF ConfirmedStands
  <2>1. ASSUME NEW j \in Interviews, NEW S \in Proposals,
               CreateManual(j, S) \/ SubmitAvailability(j, S)
        PROVE  status'[i] = "SCHEDULED" /\ scheduledAt'[i] = scheduledAt[i]
    BY <2>1 DEF CreateManual, SubmitAvailability, IInv
  <2>2. ASSUME NEW j \in Interviews,
               CreateRequest(j) \/ ShareLiveAvailability(j) \/ Cancel(j)
        PROVE  status'[i] = "SCHEDULED" /\ scheduledAt'[i] = scheduledAt[i]
    BY <2>2 DEF CreateRequest, ShareLiveAvailability, Cancel, IInv
  <2>3. ASSUME NEW j \in Interviews, NEW t \in Times, NEW E \in SUBSET Interviews, Book(j, t, E)
        PROVE  status'[i] = "SCHEDULED" /\ scheduledAt'[i] = scheduledAt[i]
    <3>1. i # j
      BY <2>3 DEF Book
    <3>2. i \notin E
      BY <2>3 DEF Book, ExpiresSiblings, SiblingSlots
    <3>3. QED BY <2>3, <3>1, <3>2 DEF Book, IInv
  <2>4. ASSUME NEW E \in SUBSET Interviews, ExpireStale(E)
        PROVE  status'[i] = "SCHEDULED" /\ scheduledAt'[i] = scheduledAt[i]
    BY <2>4 DEF ExpireStale, StaleOffers, StaleRequests, IInv
  <2>5. ASSUME NEW u \in Users, NEW H \in HourChoices, SetHours(u, H)
        PROVE  status'[i] = "SCHEDULED" /\ scheduledAt'[i] = scheduledAt[i]
    BY <2>5 DEF SetHours, rows
  <2>6. CASE Tick
    BY <2>6 DEF Tick, rows
  <2>7. QED BY <2>1, <2>2, <2>3, <2>4, <2>5, <2>6 DEF Next, Maintenance
<1>2. QED BY <1>1, CalendarInvariant, PTL DEF Spec, BookingsStand
=============================================================================
