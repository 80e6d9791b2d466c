---------------------------- MODULE QueryCache ----------------------------
(* One entry of the client's query cache: TanStack Query with the options    *)
(* of App.tsx (no refetch on focus, one retry).  A fetch is asked, answered  *)
(* with what the server holds at that moment, and delivered later; until it  *)
(* is delivered it can be cancelled by an invalidation or fail.  at is the   *)
(* version of the server's data an entry or an answer was computed from; the *)
(* code does not know it, only the properties read it.                       *)
EXTENDS Naturals

CONSTANT None    \* null, undefined, nothing

Idle     == [step |-> "idle"]
Asked    == [step |-> "asked"]
Answered(d, v) == [step |-> "answered", data |-> d, at |-> v]

\* An entry nobody has loaded yet.
Empty == [data |-> None, at |-> 0, invalid |-> FALSE, fetch |-> Idle]

Loaded(e)   == e.data # None
Fetching(e) == e.fetch.step # "idle"

\* A poll, a manual refetch, or an observer that finds the entry stale; a
\* fetch in progress is joined.
Ask(e) == IF Fetching(e) THEN e ELSE [e EXCEPT !.fetch = Asked]

\* An observer mounts: an entry that is missing or invalidated is fetched.
Mount(e) == IF Loaded(e) /\ ~e.invalid THEN e ELSE Ask(e)

\* invalidateQueries: the entry is marked, and if somebody observes it a
\* fetch is started; one in progress is cancelled, unless it is the first
\* load, which is joined.
Invalidate(e, observed) ==
    [e EXCEPT !.invalid = TRUE,
              !.fetch = IF ~observed \/ (Fetching(e) /\ ~Loaded(e))
                        THEN @ ELSE Asked]

\* The answer of a fetch replaces the entry and clears its mark, whichever
\* came first.
Deliver(e) ==
    [data |-> e.fetch.data, at |-> e.fetch.at, invalid |-> FALSE, fetch |-> Idle]

\* Both tries failed: the data and the mark stay.
GiveUp(e) == [e EXCEPT !.fetch = Idle]

\* setQueryData, for optimistic updates.
Put(e, d) == [e EXCEPT !.data = d, !.invalid = FALSE]
===========================================================================
