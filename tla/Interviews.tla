----------------------------- MODULE Interviews -----------------------------
(***************************************************************************)
(* The tables of interview scheduling: Interview, InterviewSlot and the    *)
(* weekly hours of AvailabilitySchedule, the queries every handler shares, *)
(* and what the tables should satisfy.  InterviewCalendar changes them one *)
(* whole handler at a time; InterviewService one database statement at a   *)
(* time.                                                                   *)
(*                                                                         *)
(* The interviewer and the duration of an interview are fixed when its row *)
(* is created and no handler ever updates them, so they are constants of   *)
(* the (not yet created) interview.                                        *)
(***************************************************************************)
EXTENDS SlotTimes, FiniteSets

CONSTANTS
    Interviews,      \* ids of Interview rows, created or yet to be created
    Users,           \* team members who interview
    NoUser,          \* interviewerUserId = null
    Interviewer,     \* [Interviews -> Users \cup {NoUser}]
    Duration,        \* durationMinutes, in ticks
    MaxTime,         \* bound: the clock stops here
    Proposals,       \* bound: the sets of start times a human may propose
    HourChoices,     \* bound: the calendars an interviewer may publish
    ManagerTimeout,  \* MANAGER_EXPIRE_AFTER_MS, in ticks
    BatchSize        \* `take` of the maintenance query

Times  == 0 .. MaxTime
NoTime == -1

\* A calendar: are there weekly rules, and the windows that rules and date
\* overrides leave open (resolveWindows).
NoHours == [hasRules |-> FALSE, windows |-> {}]

ASSUME UserAssumption == NoUser \notin Users
ASSUME InterviewerAssumption == Interviewer \in [Interviews -> Users \cup {NoUser}]
ASSUME DurationAssumption == Duration \in [Interviews -> Nat \ {0}]
ASSUME TimeAssumption == MaxTime \in Nat /\ ManagerTimeout \in Nat /\ BatchSize \in Nat \ {0}
ASSUME ProposalAssumption ==
    /\ \A S \in Proposals : S \subseteq Times /\ S # {}
    /\ NoHours \in HourChoices

VARIABLES
    status,       \* Interview.status; "NONE" is a row not created yet
    offerMode,    \* Interview.offerMode
    scheduledAt,  \* Interview.scheduledAt
    createdAt,    \* Interview.createdAt
    slots,        \* the start times of the interview's InterviewSlot rows
    hours,        \* hours[u]: the calendar of interviewer u
    now           \* the clock

rows == <<status, offerMode, scheduledAt, createdAt>>
tables == <<rows, slots, hours, now>>

Statuses == {"NONE", "AWAITING_MANAGER", "AWAITING_CANDIDATE", "SCHEDULED",
             "CANCELLED", "EXPIRED"}

TablesOK ==
    /\ status \in [Interviews -> Statuses]
    /\ offerMode \in [Interviews -> {"FIXED", "LIVE"}]
    /\ scheduledAt \in [Interviews -> Times \cup {NoTime}]
    /\ createdAt \in [Interviews -> Times]
    /\ slots \in [Interviews -> SUBSET Times]
    /\ hours \in [Users -> HourChoices]
    /\ now \in Times

TablesInit ==
    /\ status = [i \in Interviews |-> "NONE"]
    /\ offerMode = [i \in Interviews |-> "FIXED"]
    /\ scheduledAt = [i \in Interviews |-> NoTime]
    /\ createdAt = [i \in Interviews |-> 0]
    /\ slots = [i \in Interviews |-> {}]
    /\ hours = [u \in Users |-> NoHours]
    /\ now = 0

-----------------------------------------------------------------------------
(* Queries *)

\* The range an interview of i takes when it starts at t.
RangeOf(i, t) == SlotAt(t, Duration[i])

\* i and j have the same (internal) interviewer.
SameInterviewer(i, j) == Interviewer[i] = Interviewer[j] /\ Interviewer[i] # NoUser

\* The confirmed interviews of i's interviewer, i itself excluded.
BookedRanges(i) ==
    {RangeOf(j, scheduledAt[j]) :
        j \in {k \in Interviews \ {i} : /\ SameInterviewer(i, k)
                                        /\ status[k] = "SCHEDULED"
                                        /\ scheduledAt[k] # NoTime}}

\* Mutant: only an equal start counts as a clash.
ClashesByStart(i, starts) == \E r \in BookedRanges(i) : r.startsAt \in starts

\* assertNoConflicts, and the same query inside the booking transaction.
Clashes(i, starts) ==
    FindConflicts({RangeOf(i, t) : t \in starts}, BookedRanges(i)) # {}

\* An interview of i that starts at t fits into one window of its interviewer.
FitsWindow(i, t) ==
    \E window \in hours[Interviewer[i]].windows :
        window.startsAt <= t /\ t + Duration[i] <= window.endsAt

\* computeSlotGrid for i's interviewer: starts that fit into a window, lie in the
\* future and are clear of every confirmed interview.
LiveGrid(i) == {t \in Times : t > now /\ FitsWindow(i, t) /\ ~Clashes(i, {t})}

\* Mutant: takes away the slots with the same start only.
SiblingSlotsByStart(i, t) ==
    {p \in (Interviews \ {i}) \X {t} :
        SameInterviewer(i, p[1]) /\ status[p[1]] = "AWAITING_CANDIDATE" /\ t \in slots[p[1]]}

\* The slots of open interviews of the same interviewer that [t, t + Duration[i])
\* takes away, as <<interview, start>> pairs.
SiblingSlots(i, t) ==
    {p \in (Interviews \ {i}) \X Times :
        /\ SameInterviewer(i, p[1])
        /\ status[p[1]] = "AWAITING_CANDIDATE"
        /\ p[2] \in slots[p[1]]
        /\ RangesOverlap(RangeOf(p[1], p[2]), RangeOf(i, t))}

\* The slot rows of j that are left once those in gone are deleted.
SlotsLeft(j, gone) == {t \in slots[j] : <<j, t>> \notin gone}

\* Mutants: outside interviewers are left out; a request expires at one instant.
StaleInternalOffers == {i \in Interviews : /\ status[i] = "AWAITING_CANDIDATE"
                                           /\ offerMode[i] = "FIXED"
                                           /\ Interviewer[i] # NoUser
                                           /\ \A t \in slots[i] : t <= now}
StaleRequestsOnce == {i \in Interviews : /\ status[i] = "AWAITING_MANAGER"
                                         /\ now - createdAt[i] = ManagerTimeout + 1}

\* expireStale: offers with no future slot, and requests unanswered for too long.
StaleOffers == {i \in Interviews : /\ status[i] = "AWAITING_CANDIDATE"
                                   /\ offerMode[i] = "FIXED"
                                   /\ \A t \in slots[i] : t <= now}
StaleRequests == {i \in Interviews : /\ status[i] = "AWAITING_MANAGER"
                                     /\ now - createdAt[i] > ManagerTimeout}

-----------------------------------------------------------------------------
(* What the tables should satisfy *)

\* An interviewer is never committed to two interviews at the same time: the
\* claim of the booking transaction in book().
NoDoubleBooking ==
    \A i, j \in Interviews :
        (i # j /\ SameInterviewer(i, j) /\ status[i] = "SCHEDULED" /\ status[j] = "SCHEDULED")
            => ~RangesOverlap(RangeOf(i, scheduledAt[i]), RangeOf(j, scheduledAt[j]))

\* The slot row a confirmed interview refers to (scheduledSlotId, which has no
\* foreign key) is still there, so the booking page can show the chosen time.
BookedSlotKept ==
    \A i \in Interviews : status[i] = "SCHEDULED" => scheduledAt[i] \in slots[i]

\* An open FIXED offer always has a slot row left to choose from: pruning a
\* sibling expires it when it takes the last one.
EmptyOffersExpire ==
    \A i \in Interviews :
        (status[i] = "AWAITING_CANDIDATE" /\ offerMode[i] = "FIXED") => slots[i] # {}

\* A LIVE offer has no slot rows, so neither pruning nor the maintenance job
\* touches it.
LiveOffersHaveNoSlots ==
    \A i \in Interviews :
        (status[i] = "AWAITING_CANDIDATE" /\ offerMode[i] = "LIVE") => slots[i] = {}

\* No candidate is offered a time the interviewer has already given away:
\* assertNoConflicts when an offer is made, sibling pruning when one is booked.
OffersAvoidBookings ==
    \A i, j \in Interviews :
        (i # j /\ SameInterviewer(i, j)
               /\ status[i] = "SCHEDULED" /\ status[j] = "AWAITING_CANDIDATE")
            => \A t \in slots[j] :
                 ~RangesOverlap(RangeOf(i, scheduledAt[i]), RangeOf(j, t))

\* A confirmed interview stays confirmed, at the time the candidate was told:
\* there is no handler that reschedules or cancels one.
ConfirmedStands ==
    \A i \in Interviews :
        status[i] = "SCHEDULED" =>
            status'[i] = "SCHEDULED" /\ scheduledAt'[i] = scheduledAt[i]
=============================================================================
