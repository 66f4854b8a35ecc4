------------------------------ MODULE Standing ------------------------------
(***************************************************************************)
(* The arrangements of more than one booking: the desk's standing series,  *)
(* the app's routines, roster changes and parties.  They                   *)
(* meet in the diary only; a scenario says whose requests a behaviour has, *)
(* so that their state spaces add up and do not multiply.                  *)
(***************************************************************************)
EXTENDS Series, Routines, Roster, Parties

CONSTANT Scenarios    \* active callers, and the sessions of a new routine

VARIABLE scenario

vars == <<today, seriesVars, day, routineVars, rosterVars, partyVars, scenario>>

On(part) == part \in scenario.on

Init ==
    /\ scenario \in Scenarios
    /\ SeriesInit /\ RoutineInit /\ RosterInit /\ PartiesInit
    /\ On("roster") \/ guest = CHOOSE g \in Diaries : TRUE
    /\ On("roster") /\ ~On("both") => \E g \in Guests : \A h \in Guests \ {g} : guest[h].status = "cancelled"

RunOf(r) ==
    \/ RunLoad(r) \/ RunTopUp(r) \/ RunList(r) \/ RunRead(r)
    \/ RunWrite(r) \/ RunThrows(r) \/ RunEnds(r)

SeriesStep ==
    /\ On("series")
    /\ \/ CreateSeries \/ (On("rivals") /\ RivalBooks) \/ (On("days") /\ DayPasses)
       \/ \E r \in Runs : On(r) /\ RunOf(r)
       \/ On("pause") /\ \/ \E to \in {"paused", "ended"} : PauseOrEnd(to)
                         \/ \E o \in DOMAIN occ : Skip(o)
                         \/ Resume
       \/ On("edit") /\ \E scope \in {"this_occurrence", "this_and_future", "entire_series"},
                           o \in DOMAIN occ, p \in SeriesPatterns : ApplyPattern(scope, o, p)
       \/ CancelOccurrences \/ SetStatus \/ DetachOccurrence \/ RewritePattern
       \/ \E b \in DOMAIN seat, to \in {"checked_in", "cancelled"} : VisitMoves(b, to)
    /\ UNCHANGED <<day, routineVars, rosterVars, partyVars>>

RequestOf(p) ==
    \/ CreateRoutine(p) /\ Len(proc'[p].days) = scenario.sessions
    \/ On("change") /\ \/ Extend(p) \/ Pause(p) \/ ResumeRoutine(p) \/ CancelRoutine(p)
                       \/ \E s \in DOMAIN sess : \/ SkipSession(p, s)
                                                 \/ \E d \in 1 .. RoutineEnd : RescheduleSession(p, s, d)
    \/ SaveNew(p) \/ SaveMore(p) \/ SaveMove(p)
    \/ SkipCancel(p) \/ SkipMark(p) \/ MoveVisit(p) \/ MoveMark(p)
    \/ CancelNext(p) \/ EndByCustomer(p)

JobOf(j) ==
    \/ JobLooks(j) \/ JobResumes(j) \/ JobReads(j) \/ JobCompletes(j)
    \/ JobPauses(j) \/ JobDrops(j) \/ JobUnlinks(j) \/ JobClaims(j)

EitherOf(p) == BookNext(p) \/ BookFails(p) \/ SaveLink(p) \/ SaveFails(p) \/ ReleaseNext(p)

RoutineStep ==
    /\ On("routine")
    /\ \/ \E p \in Apps : On(p) /\ RequestOf(p)
       \/ \E j \in Jobs : On(j) /\ JobOf(j)
       \/ \E p \in Procs : EitherOf(p)
       \/ \E v \in DOMAIN rv, to \in {"visited", "missed", "cancelled"} : VisitOver(v, to)
       \/ On("rivals") /\ \E d \in 1 .. RoutineEnd : SlotTaken(d)
       \/ On("days") /\ NextDay
    /\ UNCHANGED <<today, seriesVars, rosterVars, partyVars>>

RosterStep ==
    /\ On("roster")
    /\ \/ \E kind \in {"shift_conflict", "closure_sweep"}, s \in DayStaff \cup {0} : OpenChange(kind, s)
       \/ Affected \/ AddItems \/ RepairRead \/ ProposeCancellation
       \/ PlaceRepairHold \/ MoveRepaired \/ MarkAutoRepaired
       \/ \E m \in Managers : \/ On(m) /\ \E g \in Guests, how \in Resolutions : ResolveRead(m, g, how)
                              \/ ApplyCancellation(m) \/ PostGoodwill(m) \/ ResolveItem(m)
       \/ CommitChange
       \/ \E c \in DaySlots : RepairHoldExpires(c) \/ (On("rivals") /\ SomebodyBooks(c))
       \/ \E g \in Guests : \/ \E to \in {"confirmed", "checked_in", "cancelled", "expired"} : GuestMoves(g, to)
                            \/ On("desk") /\ \E c \in DaySlots : DeskMoves(g, c)
    /\ UNCHANGED <<today, seriesVars, day, routineVars, partyVars>>

PartiesStep ==
    /\ On("party") /\ PartyStep
    /\ UNCHANGED <<today, seriesVars, day, routineVars, rosterVars>>

Next == (SeriesStep \/ RoutineStep \/ RosterStep \/ PartiesStep) /\ UNCHANGED scenario

Spec == Init /\ [][Next]_vars
=============================================================================
