------------------------- MODULE MCInterviewService -------------------------
(***************************************************************************)
(* Small instances of the service for TLC.                                 *)
(***************************************************************************)
EXTENDS InterviewService, TLC

CONSTANTS i1, i2, u1, w1, w2

MCPair   == {i1, i2}
MCUsers  == {u1}
MCSerial == {w1}
MCTwo    == {w1, w2}

MCInterviewer == [i \in Interviews |-> u1]
MCDuration    == [i \in Interviews |-> IF i = i1 THEN 2 ELSE 1]

\* Offers that overlap, that have a second choice, and that may have passed.
MCProposals   == {{1}, {1, 2}}
\* No calendar; open all day; rules whose every window an override closes.
MCOpenDay     == [hasRules |-> TRUE, windows |-> {SlotAt(1, 2)}]
MCHourChoices == {NoHours, MCOpenDay, [MCOpenDay EXCEPT !.windows = {}]}
MCOpenHours   == {NoHours, MCOpenDay}
MCNoHours     == {NoHours}

\* One start that everybody competes for.
MCOneStart == {{1}}

\* The workers are interchangeable.
WorkerSymmetry == Permutations(Workers)
=============================================================================
