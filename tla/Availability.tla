---------------------------- MODULE Availability ----------------------------
(***************************************************************************)
(* The availability engine: which starts a salon may offer for a basket of *)
(* services on one day, which of them it shows first, and what the         *)
(* database then says to the hold.                                         *)
(*                                                                         *)
(* Sources: domain/availability/{grid,mask,capacity,staff-mask,feasible,   *)
(* ranking}.ts, get-availability.handler.ts, place-hold.handler.ts and     *)
(* db-booking-context.ts.  A mask is the set of its slots; minutes count   *)
(* from the start of the trading day.  A day is [staff |-> rows,           *)
(* chairs |-> rows], the live reservations loadDay() reads.                *)
(***************************************************************************)
EXTENDS Integers, FiniteSets, SequencesExt

CONSTANTS
    DayEnd,       \* length of the trading day (DAY_END_MIN - DAY_START_MIN)
    Shift,        \* professional -> [from, to]; a professional is a number
    Skills,       \* professional -> skill -> level held
    Overlappers,  \* professionals with overlapAllowed
    Load,         \* professional -> bookingsToday
    DailyCap,     \* DAILY_BOOKING_CAP
    Service,      \* service -> [skill, level, dur, station, pre, post, band, frees]
    Station,      \* station -> [units, out, turn]
    DemandMix     \* baskets and their weights, in hundredths

ASSUME AvailabilityAssumption ==
    /\ DayEnd \in Nat /\ DailyCap \in Nat
    /\ \A p \in DOMAIN Shift : p \in Nat /\ Load[p] \in Nat

SLOT_MIN == 5
PROCESSING_GUARD_MIN == 5
MIN_SELLABLE_MIN == 25
OFFER_SPACING_MIN == 25
SLIVER_MAX_MIN == 19
DESK_CHANNEL == [grain |-> 5, lead |-> 15]
ONLINE_CHANNEL == [grain |-> 15, lead |-> 60]
NoBand == [from |-> 0, to |-> 0]

Larger(a, b) == IF a > b THEN a ELSE b

-----------------------------------------------------------------------------
(* grid.ts and mask.ts *)

DaySlots == 0 .. (DayEnd \div SLOT_MIN) - 1
ToSlot(minute) == minute \div SLOT_MIN
ToSlotCeil(minute) == (minute + SLOT_MIN - 1) \div SLOT_MIN
ToMin(slot) == SLOT_MIN * slot

RangeMask(from, to) == {i \in DaySlots : from <= i /\ i < to}
ShiftRight(mask, by) == {i \in DaySlots : i + by \in mask}

RECURSIVE Doubled(_, _, _)
Doubled(mask, covered, slots) ==
    IF covered >= slots THEN mask
    ELSE LET step == IF covered < slots - covered THEN covered ELSE slots - covered
         IN Doubled(mask \cap ShiftRight(mask, step), covered + step, slots)

\* Where a free run of at least `slots` slots begins: runs of 1, 2, 4, ...
RunsAtLeast(mask, slots) == IF slots <= 1 THEN mask ELSE Doubled(mask, 1, slots)

-----------------------------------------------------------------------------
(* capacity.ts *)

EffectiveUnits(station) == Larger(0, Station[station].units - Station[station].out)

\* The difference array's running total: starts so far less ends so far.
UsageTimeline(station, chairs) ==
    LET turn == Station[station].turn
        from(o) == Larger(0, ToSlot(o.start))
        to(o) == ToSlotCeil(o.start + o.dur + turn)
        mine == {o \in chairs : o.station = station /\ to(o) > from(o)}
    IN [i \in DaySlots |-> Cardinality({o \in mine : from(o) <= i})
                             - Cardinality({o \in mine : to(o) <= i})]

CapacityFreeMask(station, chairs) ==
    LET usage == UsageTimeline(station, chairs)
    IN {i \in DaySlots : usage[i] < EffectiveUnits(station)}

\* Shifted from the segment's own time to the chain's start.
ChainCapacityMask(segments, chairs) ==
    LET masks == {ShiftRight(RunsAtLeast(CapacityFreeMask(s.station, chairs),
                                         ToSlotCeil(s.dur)),
                             ToSlotCeil(s.off)) : s \in segments}
    IN {t \in DaySlots : \A m \in masks : t \in m}

-----------------------------------------------------------------------------
(* The chain: feasible.ts, staff-mask.ts *)

ChainDuration(basket) == FoldLeft(LAMBDA n, s : n + Service[s].dur, 0, basket)
ChainClaims(basket) ==
    [pre |-> Service[Head(basket)].pre, post |-> Service[Last(basket)].post]

OffsetOf(basket, k) == ChainDuration(SubSeq(basket, 1, k - 1))

\* The pieces that sit in a station: a band that releases it cuts one in two.
Pieces(s, off) ==
    IF s.frees
    THEN {p \in {[off |-> off, dur |-> s.band.from, station |-> s.station],
                 [off |-> off + s.band.to, dur |-> s.dur - s.band.to,
                  station |-> s.station]} : p.dur > 0}
    ELSE {[off |-> off, dur |-> s.dur, station |-> s.station]}

ExpandChain(basket) ==
    UNION {Pieces(Service[basket[k]], OffsetOf(basket, k)) : k \in DOMAIN basket}

\* Why a professional is left out, in the order of the checks; or "none".
Excluded(p, basket, preferred) ==
    CASE \E k \in DOMAIN basket :
            Skills[p][Service[basket[k]].skill] < Service[basket[k]].level ->
              "missing_skills"
      [] Load[p] >= DailyCap -> "daily_cap"
      [] preferred # 0 /\ p # preferred -> "not_preferred"
      [] OTHER -> "none"

Pool(basket, preferred) ==
    {p \in DOMAIN Shift : Excluded(p, basket, preferred) = "none"}

\* Starts given back inside a hands-free band, guarded at both ends.
BandCarve(row, chainSlots) ==
    IF row.band = NoBand THEN {}
    ELSE RangeMask(ToSlotCeil(row.start + row.band.from + PROCESSING_GUARD_MIN),
                   ToSlot(row.start + row.band.to - PROCESSING_GUARD_MIN)
                     - chainSlots + 1)

BlockedByNoTeardown(row, chainSlots, claims, overlap) ==             \* mutant
    RangeMask(ToSlot(row.start) - chainSlots + 1,
              ToSlotCeil(row.start + row.dur)
                + ToSlotCeil(Larger(claims.pre, row.post)))
      \ (IF overlap THEN BandCarve(row, chainSlots) ELSE {})

BlockedBy(row, chainSlots, claims, overlap) ==
    LET lo == ToSlot(row.start) - chainSlots
                - ToSlotCeil(Larger(claims.post, row.pre)) + 1
        hi == ToSlotCeil(row.start + row.dur)
                + ToSlotCeil(Larger(claims.pre, row.post))
    IN RangeMask(lo, hi) \ (IF overlap THEN BandCarve(row, chainSlots) ELSE {})

StartMask(p, staff, dur, claims) ==
    LET chainSlots == ToSlotCeil(dur)
        base == RangeMask(ToSlot(Shift[p].from) + ToSlotCeil(claims.pre),
                          ToSlotCeil(Shift[p].to) - chainSlots
                            - ToSlotCeil(claims.post) + 1)
    IN base \ UNION {BlockedBy(r, chainSlots, claims, p \in Overlappers) :
                       r \in {x \in staff : x.staff = p}}

\* The branch's window is the whole day here; `now` is -1 on another day.
AlignmentMask(channel, dur, now) ==
    LET earliest == IF now < 0 THEN 0
                    ELSE ((now + channel.lead + channel.grain - 1)
                            \div channel.grain) * channel.grain
    IN {i \in DaySlots : /\ ToMin(i) % channel.grain = 0
                         /\ ToMin(i) >= earliest
                         /\ ToMin(i) + dur <= DayEnd}

\* feasibleSet(): the starts of each eligible professional.
PerStaff(basket, day, channel, preferred, now) ==
    LET dur == ChainDuration(basket)
        both == ChainCapacityMask(ExpandChain(basket), day.chairs)
                  \cap AlignmentMask(channel, dur, now)
    IN [p \in Pool(basket, preferred) |->
          StartMask(p, day.staff, dur, ChainClaims(basket)) \cap both]

Offered(perStaff) == UNION {perStaff[p] : p \in DOMAIN perStaff}
StaffAvailableAt(perStaff, slot) == {p \in DOMAIN perStaff : slot \in perStaff[p]}

\* First-free, least-loaded, ties broken by id.
LeastLoaded(who) ==
    CHOOSE p \in who : \A q \in who :
        Load[p] < Load[q] \/ (Load[p] = Load[q] /\ p <= q)

-----------------------------------------------------------------------------
(* ranking.ts: scores are in hundredths.  (No reader marks a reservation    *)
(* highRisk, so that nudge never applies.)                                  *)

\* What this start does to the shape of the professional's day.
FragmentationScore(p, start, dur, claims, staff) ==
    LET end == start + dur
        mine == {r \in staff : r.staff = p}
        ends(r) == r.start + r.dur
        before == {r \in mine : ends(r) <= start}
        after == {r \in mine : r.start >= end}
        shape(idle) == CASE idle = 0 -> 300
                         [] idle > 0 /\ idle <= SLIVER_MAX_MIN -> 0 - 400
                         [] OTHER -> 0
        prev == CHOOSE r \in before : \A q \in before : ends(q) <= ends(r)
        next == CHOOSE r \in after : \A q \in after : q.start >= r.start
        inside == \E r \in mine :
            /\ r.band # NoBand
            /\ start >= r.start + r.band.from + PROCESSING_GUARD_MIN
            /\ end <= r.start + r.band.to - PROCESSING_GUARD_MIN
    IN (IF before = {} THEN 0
        ELSE shape(start - ends(prev) - Larger(claims.pre, prev.post)))
       + (IF after = {} THEN 0
          ELSE shape(next.start - Larger(claims.post, next.pre) - end))
       + (IF inside THEN 600 ELSE 0)
       + 30 * Larger(0, DailyCap - Load[p])

\* buildProbe(): weighted sellable starts across the demand mix.
SellableStarts(day, channel, now) ==
    FoldLeft(LAMBDA n, b :
               n + b.weight * Cardinality(Offered(PerStaff(b.basket, day, channel,
                                                           0, now))),
             0, DemandMix)

\* The candidate as the probe imagines it: one block in one station.
Imagined(day, c, basket) ==
    [staff |-> day.staff \cup
        {[v |-> "probe", staff |-> c.staff, start |-> c.start,
          dur |-> ChainDuration(basket), pre |-> ChainClaims(basket).pre,
          post |-> ChainClaims(basket).post, band |-> NoBand]},
     chairs |-> day.chairs \cup
        {[v |-> "probe", station |-> Service[Head(basket)].station,
          start |-> c.start, dur |-> ChainDuration(basket)]}]

Candidates(basket, day, perStaff) ==
    {LET p == LeastLoaded(StaffAvailableAt(perStaff, slot)) IN
       [start |-> ToMin(slot), staff |-> p,
        frag |-> FragmentationScore(p, ToMin(slot), ChainDuration(basket),
                                    ChainClaims(basket), day.staff)]
     : slot \in Offered(perStaff)}

Earliest(cs) == CHOOSE c \in cs : \A d \in cs : c.start <= d.start

\* The best-shaped start of each 25-minute band (the first of equals), in
\* time order up to the limit of 24, and always the earliest start.
SampleForMeasurement(cs) ==
    LET first == Earliest(cs)
        band(c) == (c.start - first.start) \div OFFER_SPACING_MIN
        best == {c \in cs : \A d \in cs : band(d) = band(c) =>
                    c.frag > d.frag \/ (c.frag = d.frag /\ c.start <= d.start)}
        sample == best \cup {first}
    IN {c \in sample : Cardinality({d \in sample : d.start < c.start}) < 24}

\* score = fragmentation - 0.5 * delta capacity, rounded half up.
Ranked(cs, basket, day, channel, now) ==
    LET baseline == SellableStarts(day, channel, now) IN
    {[start |-> c.start, staff |-> c.staff,
      score |-> (2 * c.frag + 1
                  - (baseline - SellableStarts(Imagined(day, c, basket), channel, now)))
                \div 2]
     : c \in SampleForMeasurement(cs)}

Apart(a, b) == IF a.start > b.start THEN a.start - b.start ELSE b.start - a.start
Nearest(c, chosen) ==
    CHOOSE n \in {Apart(c, d) : d \in chosen} : \A d \in chosen : n <= Apart(c, d)

NextBestAnywhere(ranked, chosen) ==                                  \* mutant
    IF ranked \subseteq chosen THEN {}
    ELSE {CHOOSE c \in ranked \ chosen : \A d \in ranked \ chosen : c.score >= d.score}

\* The best score at least 25 minutes from every pick; of equals the one
\* furthest from them, of those the earliest.
NextBest(ranked, chosen) ==
    LET far == {c \in ranked \ chosen : Nearest(c, chosen) >= OFFER_SPACING_MIN} IN
    IF far = {} THEN {}
    ELSE {CHOOSE c \in far : \A d \in far :
            \/ c.score > d.score
            \/ c.score = d.score /\ Nearest(c, chosen) > Nearest(d, chosen)
            \/ c.score = d.score /\ Nearest(c, chosen) = Nearest(d, chosen)
                 /\ c.start <= d.start}

\* selectOffers(): the earliest start, then the two best of the rest.
SelectOffers(ranked) ==
    IF ranked = {} THEN {}
    ELSE LET one == {Earliest(ranked)}
             two == one \cup NextBest(ranked, one)
         IN two \cup NextBest(ranked, two)

TopOffers(basket, day, channel, now) ==
    LET perStaff == PerStaff(basket, day, channel, 0, now) IN
    IF Offered(perStaff) = {} THEN {}
    ELSE SelectOffers(Ranked(Candidates(basket, day, perStaff), basket, day,
                             channel, now))

-----------------------------------------------------------------------------
(* The walk-in board: what somebody at the desk could be offered now *)

NOW_WINDOW_MIN == 15
OPTIONS_SHOWN  == 3

\* nearestOptions(): the first start of each professional, the soonest first,
\* and a bare later gap when there is still room.
NearestOptions(candidates, now) ==
    LET usable == {c \in candidates : c.start >= now}
        first  == {c \in usable : \A d \in usable : d.staff = c.staff => c.start <= d.start}
        Sooner(c) == {d \in first : d.start < c.start
                                   \/ (d.start = c.start /\ d.staff < c.staff)}
        shown  == {c \in first : Cardinality(Sooner(c)) < OPTIONS_SHOWN}
        gaps   == {c.start : c \in {u \in usable : \A x \in shown : u.start > x.start}}
    IN  {[kind |-> IF c.start - now <= NOW_WINDOW_MIN THEN "now" ELSE "from",
          staff |-> c.staff, start |-> c.start] : c \in shown}
        \cup {[kind |-> "next_gap", staff |-> 0, start |-> g] :
                g \in {h \in gaps : /\ Cardinality(shown) \in 1 .. OPTIONS_SHOWN - 1
                                    /\ \A x \in gaps : h <= x}}

\* view(): every start of every professional, asked as of now.
WalkInBoard(basket, day, now) ==
    LET perStaff == PerStaff(basket, day, DESK_CHANNEL, 0, now)
    IN  NearestOptions({c \in [start : {ToMin(s) : s \in Offered(perStaff)},
                               staff : DOMAIN perStaff] :
                          ToSlot(c.start) \in perStaff[c.staff]}, now)

-----------------------------------------------------------------------------
(* place-hold.handler.ts and HoldRepository.place() *)

\* resourceDemandFor(): a row of the station for each seated piece.
Demand(v, basket, start) ==
    {[v |-> v, station |-> s.station, start |-> start + s.off, dur |-> s.dur,
      end |-> start + s.off + s.dur] : s \in ExpandChain(basket)}

\* The professional's row; only a basket of one service keeps its band.
StaffRow(v, p, basket, start) ==
    [v |-> v, staff |-> p, start |-> start, dur |-> ChainDuration(basket),
     end |-> start + ChainDuration(basket),
     pre |-> ChainClaims(basket).pre, post |-> ChainClaims(basket).post,
     band |-> IF Len(basket) = 1 THEN Service[Head(basket)].band ELSE NoBand]

\* The database compares the instants, the engine above the minutes.
Meets(a, b) == a.start < b.end /\ b.start < a.end

\* The count comes first, over every row that meets the demand at any
\* minute of it; then the exclusion constraint on the professional's time.
PlaceOutcome(row, demand, day) ==
    CASE \E d \in demand :
            Cardinality({o \in day.chairs : o.station = d.station /\ Meets(o, d)})
              >= EffectiveUnits(d.station) -> "no_chair"
      [] \E r \in day.staff : r.staff = row.staff /\ Meets(r, row) -> "staff_taken"
      [] OTHER -> "held"

\* What the handler answers before it reaches the database: a slot outside
\* the fresh feasible set is refused, with the reason when a professional
\* was named.
Refusal(basket, start, preferred, perStaff) ==
    CASE preferred # 0 /\ preferred \notin DOMAIN Shift -> "STAFF_UNKNOWN"
      [] ToSlot(start) \in Offered(perStaff) -> "none"
      [] preferred # 0 /\ Excluded(preferred, basket, preferred) = "missing_skills" ->
            "SKILL_MISSING"
      [] preferred # 0 -> "STAFF_UNAVAILABLE"
      [] OTHER -> "SLOT_TAKEN"

-----------------------------------------------------------------------------
(* The reference: what a start must keep, stated minute by minute *)

\* Setup and teardown are real work inside the shift; neighbours are kept
\* apart by the larger of the two claims, or the visit lies in a guarded
\* hands-free band of a professional who may overlap.
ProfessionalIsFree(p, basket, start, staff) ==
    LET c == ChainClaims(basket)
        end == start + ChainDuration(basket)
    IN /\ start - c.pre >= Shift[p].from /\ end + c.post <= Shift[p].to
       /\ \A r \in staff : r.staff = p =>
            \/ end + Larger(c.post, r.pre) <= r.start
            \/ r.start + r.dur + Larger(c.pre, r.post) <= start
            \/ /\ p \in Overlappers /\ r.band # NoBand
               /\ start >= r.start + r.band.from + PROCESSING_GUARD_MIN
               /\ end <= r.start + r.band.to - PROCESSING_GUARD_MIN

\* In every minute of every seated piece a unit is neither in use nor being
\* turned over after its last use.
StationIsFree(basket, start, chairs) ==
    \A s \in ExpandChain(basket) :
      \A m \in start + s.off .. start + s.off + s.dur - 1 :
        Cardinality({o \in chairs : /\ o.station = s.station /\ o.start <= m
                       /\ m < o.start + o.dur + Station[s.station].turn})
          < EffectiveUnits(s.station)

\* The exact set of a professional's starts.
ReferenceStarts(p, basket, day, channel, now) ==
    {i \in DaySlots :
       /\ ToMin(i) % channel.grain = 0
       /\ now < 0 \/ ToMin(i) >= now + channel.lead
       /\ ToMin(i) + ChainDuration(basket) <= DayEnd
       /\ ProfessionalIsFree(p, basket, ToMin(i), day.staff)
       /\ StationIsFree(basket, ToMin(i), day.chairs)}
=============================================================================
