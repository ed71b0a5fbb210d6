------------------------------ MODULE Reporter ------------------------------
(***************************************************************************)
(* The job statistics: what the reporter reads of the counters and index   *)
(* lists triggers wrote.  Time is in minutes, and a counter or a list is   *)
(* kept per slice of Granularity minutes.                                  *)
(***************************************************************************)
EXTENDS Integers, Sequences, FiniteSets, FiniteSetsExt

CONSTANTS
    Granularity,  \* minutes in a slice: DEFAULT_GRANULARITY, '5m'
    Zone          \* what the engines' local clock is ahead of UTC, in minutes

ASSUME GranularityAssumption == Granularity \in Nat \ {0} /\ 60 % Granularity = 0
ASSUME ZoneAssumption == Zone \in Int

\* The slice of the hour of t that holds this minute of the hour.
SliceOfHour(t, minute) == (t - (t % 60)) + (minute \div Granularity) * Granularity

\* getTimeSeries: the minute is read off the local clock and set in UTC.
TimeSeries(t) == SliceOfHour(t, (t + Zone) % 60)

-----------------------------------------------------------------------------
(* A query gives two of start, end and range; end may be left out of these *)
(* as well, and range, which is then 0.                                    *)

NoTime == -1

ValidOptions(q) ==
    LET given == {f \in {"start", "end", "range"} : q[f] # NoTime}
    IN  given # {} /\ given # {"start", "end", "range"}

\* From start, or back from end: with both, end is not looked at.
Window(q) ==
    LET range == IF q.range = NoTime THEN 0 ELSE q.range
    IN  IF q.start # NoTime THEN <<q.start, q.start + range>> ELSE <<q.end - range, q.end>>

DateTimeSetsOpen(q) ==   \* variant: the start is not rounded
    LET w == Window(q)
    IN  {t \in w[1]..w[2] : (t - w[1]) % Granularity = 0}

\* generateDateTimeSets: the start is rounded down, the end is included.
DateTimeSets(q) ==
    LET w == Window(q)
        first == SliceOfHour(w[1], w[1] % 60)
    IN  {t \in first..w[2] : (t - first) % Granularity = 0}

-----------------------------------------------------------------------------
(* getStats: the counters of the slices, per slice and in sum.             *)

\* getJobStats: a slice nothing was counted in has no hash, so no count; 0 below.
JobStats(counts, q) ==
    [t \in DateTimeSets(q) \cap {u \in DOMAIN counts : counts[u]["count"] > 0} |-> counts[t]]

Segments(counts, q) ==
    [t \in DateTimeSets(q) |->
        IF t \in DOMAIN JobStats(counts, q) THEN counts[t]["count"] ELSE 0]

\* aggregateData: the sum of one counter over the slices of the query.
Aggregate(counts, target, q) ==
    MapThenSumSet(LAMBDA t : counts[t][target], DOMAIN JobStats(counts, q))

\* getUniqueFacets: the facets with a count in those slices.
UniqueFacets(counts, facets, q) == {f \in facets : Aggregate(counts, f, q) > 0}

-----------------------------------------------------------------------------
(* getIds and getWorkItems: the index lists of these facets and slices.    *)

\* With no facets given, those that have a count.
FacetsOf(counts, all, facets, q) == IF facets = {} THEN UniqueFacets(counts, all, q) ELSE facets

JobIds(index, facets, q) ==
    [k \in {l \in DOMAIN index : l[1] \in facets /\ l[2] \in DateTimeSets(q)} |-> index[k]]

\* buildIdsResponse: how many ids a facet has.
CountOfFacet(index, facet, q) ==
    LET lists == JobIds(index, {facet}, q)
    IN  MapThenSumSet(LAMBDA k : Len(lists[k]), DOMAIN lists)

WorkItems(index, facets, q) ==
    {k \in DOMAIN JobIds(index, facets, q) : index[k] # <<>>}
=============================================================================
