------------------------- MODULE InterviewCalendar -------------------------
(***************************************************************************)
(* The contract of interview scheduling: every handler of                  *)
(* InterviewsService, AvailabilityService and InterviewsScheduler takes    *)
(* effect in one step, with the guards of the code.  InterviewService      *)
(* splits the same handlers at their awaits.                               *)
(*                                                                         *)
(* A booked start was in the future when the request arrived; the contract *)
(* does not promise it still is when the booking commits.                  *)
(***************************************************************************)
EXTENDS Interviews

vars == tables

Init == TablesInit

\* create, MANUAL_SLOTS: the recruiter proposes the times.
CreateManual(i, S) ==
    /\ status[i] = "NONE"
    /\ ~Clashes(i, S)
    /\ status' = [status EXCEPT ![i] = "AWAITING_CANDIDATE"]
    /\ slots' = [slots EXCEPT ![i] = S]
    /\ createdAt' = [createdAt EXCEPT ![i] = now]
    /\ UNCHANGED <<offerMode, scheduledAt, hours, now>>

\* create, REQUEST_MANAGER: an interviewer is asked for times.
CreateRequest(i) ==
    /\ status[i] = "NONE"
    /\ Interviewer[i] # NoUser
    /\ status' = [status EXCEPT ![i] = "AWAITING_MANAGER"]
    /\ createdAt' = [createdAt EXCEPT ![i] = now]
    /\ UNCHANGED <<offerMode, scheduledAt, slots, hours, now>>

\* submitAvailability: the interviewer answers with fixed times.
SubmitAvailability(i, S) ==
    /\ status[i] = "AWAITING_MANAGER"
    /\ ~Clashes(i, S)
    /\ status' = [status EXCEPT ![i] = "AWAITING_CANDIDATE"]
    /\ offerMode' = [offerMode EXCEPT ![i] = "FIXED"]
    /\ slots' = [slots EXCEPT ![i] = S]
    /\ UNCHANGED <<scheduledAt, createdAt, hours, now>>

\* shareLiveAvailability: the interviewer answers with the weekly calendar.
ShareLiveAvailability(i) ==
    /\ status[i] = "AWAITING_MANAGER"
    /\ hours[Interviewer[i]].hasRules
    /\ status' = [status EXCEPT ![i] = "AWAITING_CANDIDATE"]
    /\ offerMode' = [offerMode EXCEPT ![i] = "LIVE"]
    /\ UNCHANGED <<scheduledAt, createdAt, slots, hours, now>>

\* Mutant: cancels a scheduled interview as well.
CancelScheduled(i) ==
    /\ status[i] \notin {"NONE", "CANCELLED"}
    /\ status' = [status EXCEPT ![i] = "CANCELLED"]
    /\ UNCHANGED <<offerMode, scheduledAt, createdAt, slots, hours, now>>

\* cancel: anything but a cancelled or a scheduled interview.
Cancel(i) ==
    /\ status[i] \notin {"NONE", "CANCELLED", "SCHEDULED"}
    /\ status' = [status EXCEPT ![i] = "CANCELLED"]
    /\ UNCHANGED <<offerMode, scheduledAt, createdAt, slots, hours, now>>

\* The starts the offer mode lets the candidate choose from.
Bookable(i, t) ==
    \/ offerMode[i] = "FIXED" /\ t \in slots[i]
    \/ /\ offerMode[i] = "LIVE"
       /\ Interviewer[i] # NoUser
       /\ FitsWindow(i, t)

\* The slot rows once i is booked at t: a LIVE booking adds a row, siblings lose
\* theirs.  Mutants: the row is not added; the end of the slot is stored as its start.
SlotsBookedWithoutRow(i, t) ==
    [j \in Interviews |-> SlotsLeft(j, SiblingSlots(i, t))]
SlotsBookedAtEnd(i, t) == [slots EXCEPT ![i] = slots[i] \cup {t + Duration[i]}]
SlotsBooked(i, t) ==
    [j \in Interviews |-> IF j = i THEN slots[i] \cup {t}
                          ELSE SlotsLeft(j, SiblingSlots(i, t))]

\* The siblings a booking of i at t expires: everyone left without a slot; one
\* whose remaining slots have passed may be, depending on when the code reads the
\* clock.  Mutant: nobody is.
ExpiresNobody(i, t, E) == E = {}
ExpiresSiblings(i, t, E) ==
    LET gone == SiblingSlots(i, t)
        hit  == {p[1] : p \in gone}
    IN  /\ {j \in hit : SlotsLeft(j, gone) = {}} \subseteq E
        /\ \A j \in E : j \in hit /\ \A s \in SlotsLeft(j, gone) : s <= now

\* book: confirm i at t, delete the open slots it takes from siblings, expire
\* the siblings in E.
Book(i, t, E) ==
    /\ status[i] = "AWAITING_CANDIDATE"
    /\ Bookable(i, t)
    /\ ~Clashes(i, {t})
    /\ ExpiresSiblings(i, t, E)
    /\ status' = [j \in Interviews |-> IF j = i THEN "SCHEDULED"
                                       ELSE IF j \in E THEN "EXPIRED"
                                       ELSE status[j]]
    /\ scheduledAt' = [scheduledAt EXCEPT ![i] = t]
    /\ slots' = SlotsBooked(i, t)
    /\ UNCHANGED <<offerMode, createdAt, hours, now>>

\* expireStale: one maintenance run, which may leave some for the next one.
ExpireStale(E) ==
    /\ E # {}
    /\ E \subseteq StaleOffers \cup StaleRequests
    /\ status' = [i \in Interviews |-> IF i \in E THEN "EXPIRED" ELSE status[i]]
    /\ UNCHANGED <<offerMode, scheduledAt, createdAt, slots, hours, now>>

\* upsertMine, addOverride, removeOverride: the interviewer edits the calendar.
SetHours(u, H) ==
    /\ hours' = [hours EXCEPT ![u] = H]
    /\ UNCHANGED <<rows, slots, now>>

Tick ==
    /\ now < MaxTime
    /\ now' = now + 1
    /\ UNCHANGED <<rows, slots, hours>>

Maintenance == \E E \in SUBSET Interviews : ExpireStale(E)

Next ==
    \/ \E i \in Interviews :
        \/ \E S \in Proposals : CreateManual(i, S) \/ SubmitAvailability(i, S)
        \/ CreateRequest(i)
        \/ ShareLiveAvailability(i)
        \/ Cancel(i)
        \/ \E t \in Times, E \in SUBSET Interviews : Book(i, t, E)
    \/ Maintenance
    \/ \E u \in Users, H \in HourChoices : SetHours(u, H)
    \/ Tick

Spec == Init /\ [][Next]_vars

\* The hourly cron runs as long as the process does, and time passes.
FairSpec == Spec /\ WF_vars(Maintenance) /\ WF_vars(Tick)

-----------------------------------------------------------------------------
(* Properties *)

TypeOK == TablesOK

\* Confirmed bookings are never undone or moved, by any handler.
BookingsStand == [][ConfirmedStands]_vars

\* A fixed offer does not stay open for ever: it is booked or withdrawn, or its
\* last slot passes and the maintenance job expires it (interviews.scheduler.ts).
FixedOffersResolve ==
    \A i \in Interviews :
        (status[i] = "AWAITING_CANDIDATE" /\ offerMode[i] = "FIXED")
            ~> (status[i] # "AWAITING_CANDIDATE")

\* A request an interviewer never answers is closed as well, once it is old
\* enough; the premise excludes those the clock's bound leaves too young.
RequestsResolve ==
    \A i \in Interviews :
        (status[i] = "AWAITING_MANAGER" /\ createdAt[i] + ManagerTimeout < MaxTime)
            ~> (status[i] # "AWAITING_MANAGER")
=============================================================================
