------------------------------- MODULE Timeline -------------------------------
(***************************************************************************)
(* The timeline of one trace on the server: events a run logs, Cloud       *)
(* Logging makes searchable late and in any order and GET /trace/{id}      *)
(* fetches through a narrow window or a wide one (agent/trace_fetcher.py), *)
(* judges to be complete by watching it hold still, and caches             *)
(* (agent/main.py).                                                        *)
(*                                                                         *)
(* Time is counted in steps of a clock; only the order of the thresholds   *)
(* matters.  Each GET has a thread of its own: they share the observation  *)
(* and the cache without a lock.                                           *)
(***************************************************************************)
EXTENDS Integers, Sequences

CONSTANTS Length,         \* how many events the run logs
          Final,          \* which of them is its final response
          Gets,           \* slots of GET /trace/{id}
          Never,
          Grace,          \* _STABILITY_GRACE_S
          FetchTimeout,   \* _TRACE_FETCH_TIMEOUT_S
          CacheTTL,       \* _TRACE_CACHE_TTL_S
          FastLookback,   \* _FAST_PHASE_LOOKBACK_DAYS
          Straddle,       \* _FAST_PHASE_STRADDLE_GUARD
          HintBefore, HintAfter,  \* _HINT_WINDOW_BEFORE, _HINT_WINDOW_AFTER
          Lookback,       \* TRACE_LOG_LOOKBACK_DAYS
          MaxSpan,        \* bound: how long a run lasts
          MaxTime         \* bound: how long it is watched

ASSUME TimelineAssumption ==
  /\ Length \in Nat /\ Final \in 1 .. Length
  /\ Never \notin Int
  /\ {Grace, FetchTimeout, CacheTTL, FastLookback, Straddle, HintBefore,
      HintAfter, Lookback, MaxSpan, MaxTime} \subseteq Nat
  /\ FetchTimeout < Grace
  \* A run is short beside the band at the edge of a window, and the log keeps
  \* what a search may still reach.
  /\ MaxSpan < Straddle /\ MaxSpan <= HintBefore /\ MaxSpan <= HintAfter
  /\ FastLookback < Lookback /\ MaxTime <= Lookback

VARIABLES
  clock,
  stamps,    \* when each event logged so far was logged
  since,     \* since when it can be found, or Never
  decided,   \* created_at of the decision of this trace, or Never
  obs,       \* _TRACE_OBSERVATIONS: the timeline seen, and since when
  cache,     \* _TRACE_CACHE
  get        \* get[g]: a request

run == <<stamps, since, decided>>
vars == <<clock, run, obs, cache, get>>

Events == 1 .. Length
Nothing == [at |-> Never, events |-> {}]

\* until: when the fetch is given up; around: created_at as it was read.
Idle == [pc |-> "idle", until |-> Never, around |-> Never, got |-> {},
         complete |-> FALSE]

-----------------------------------------------------------------------------
(* The run and the log.                                                    *)

Emit ==
  /\ Len(stamps) < Length
  /\ clock <= MaxSpan
  /\ stamps' = Append(stamps, clock)
  /\ UNCHANGED <<clock, since, decided, obs, cache, get>>

\* Entries become searchable late and in any order.
Ingest(e) ==
  /\ e \in DOMAIN stamps /\ since[e] = Never
  /\ since' = [since EXCEPT ![e] = clock]
  /\ UNCHANGED <<clock, stamps, decided, obs, cache, get>>

\* The decision is written at the tail of the request.
Decide ==
  /\ decided = Never
  /\ stamps # <<>> /\ clock <= MaxSpan
  /\ decided' = clock
  /\ UNCHANGED <<clock, stamps, since, obs, cache, get>>

-----------------------------------------------------------------------------
(* GET /trace/{id}.                                                        *)

Expired(record) == clock - record.at > CacheTTL

\* _cache_get: an expired record is dropped when it is looked up.
Found == IF cache.at # Never /\ ~Expired(cache) THEN cache ELSE Nothing

\* The decision is read first, then the cache.
Start(g) ==
  LET hit == Found.at # Never
  IN /\ get[g].pc = "idle"
     /\ get' = [get EXCEPT
          ![g] = IF hit
                 THEN [@ EXCEPT !.pc = "sent", !.got = Found.events, !.complete = TRUE]
                 ELSE [@ EXCEPT !.pc = "query", !.until = clock + FetchTimeout,
                                !.around = decided]]
     /\ cache' = Found
     /\ UNCHANGED <<clock, run, obs>>

Searched(lo, hi) == {e \in DOMAIN stamps : since[e] # Never /\ stamps[e] \in lo .. hi}

\* _fetch_hinted: a window around the decision, unless it reaches further back
\* than the deployment looks.
HintUsable(around) == around # Never /\ around - HintBefore >= clock - Lookback

HugsEdge(found, lo, hi) == \E e \in found : stamps[e] <= lo \/ stamps[e] >= hi

\* Mutant: whatever the narrow window holds is the timeline.
NarrowNonempty(found, hinted, lo, hi) == hinted \/ found # {}

\* Is the answer of the narrow window the whole one?  Nothing around a decision
\* means that there is nothing; nothing of late means to look further back.
NarrowSuffices(found, hinted, lo, hi) ==
  IF hinted THEN ~HugsEdge(found, lo + Straddle, hi - Straddle)
  ELSE found # {} /\ \A e \in found : stamps[e] > lo + Straddle

QueryNarrow(g) ==
  LET hinted == HintUsable(get[g].around)
      lo == IF hinted THEN get[g].around - HintBefore ELSE clock - FastLookback
      hi == IF hinted THEN get[g].around + HintAfter ELSE clock
      found == Searched(lo, hi)
  IN /\ get[g].pc = "query"
     /\ get' = [get EXCEPT
          ![g] = IF NarrowSuffices(found, hinted, lo, hi)
                 THEN [@ EXCEPT !.pc = "judge", !.got = found, !.around = Never]
                 ELSE [@ EXCEPT !.pc = "wide", !.around = Never]]
     /\ UNCHANGED <<clock, run, obs, cache>>

QueryWide(g) ==
  /\ get[g].pc = "wide"
  /\ get' = [get EXCEPT ![g].got = Searched(clock - Lookback, clock), ![g].pc = "judge"]
  /\ UNCHANGED <<clock, run, obs, cache>>

HasFinal(events) == Final \in events

\* Mutant: a timeline that grew keeps the time of the one before.
SeenKeepingTime(events) ==
  IF ~HasFinal(events) THEN Nothing
  ELSE [at |-> IF obs.at = Never THEN clock ELSE obs.at, events |-> events]

\* What is observed after a fetch: the same timeline keeps its time.
Seen(events) ==
  IF ~HasFinal(events) THEN Nothing
  ELSE IF obs.at # Never /\ obs.events = events THEN obs
  ELSE [at |-> clock, events |-> events]

\* _observe_and_check_stability.
Judge(g) ==
  LET events == get[g].got
      stable == /\ HasFinal(events)
                /\ obs.at # Never /\ obs.events = events
                /\ clock - obs.at >= Grace
  IN /\ get[g].pc = "judge"
     /\ obs' = Seen(events)
     /\ get' = [get EXCEPT ![g].complete = stable, ![g].until = Never,
                           ![g].pc = IF stable THEN "store" ELSE "sent"]
     /\ UNCHANGED <<clock, run, cache>>

Store(g) ==
  /\ get[g].pc = "store"
  /\ cache' = [at |-> clock, events |-> get[g].got]
  /\ obs' = Nothing
  /\ get' = [get EXCEPT ![g].pc = "sent"]
  /\ UNCHANGED <<clock, run>>

\* The answer is out, or the fetch failed or took too long.
Finish(g) ==
  /\ get[g].pc \in {"query", "wide", "judge", "sent"}
  /\ get' = [get EXCEPT ![g] = Idle]
  /\ UNCHANGED <<clock, run, obs, cache>>

-----------------------------------------------------------------------------
\* The soft caps: other traces push this one out.
PushedOut ==
  /\ \/ obs' = Nothing /\ UNCHANGED cache
     \/ cache' = Nothing /\ UNCHANGED obs
  /\ UNCHANGED <<clock, run, get>>

\* The instance is recycled: what it knew is gone, and so are its requests.
Restart ==
  /\ obs' = Nothing /\ cache' = Nothing
  /\ get' = [g \in Gets |-> Idle]
  /\ UNCHANGED <<clock, run>>

\* The clock starts with the run.  A fetch that takes too long is given up; what
\* follows a fetch takes no time.
Tick ==
  /\ clock < MaxTime
  /\ stamps # <<>>
  /\ \A g \in Gets : /\ get[g].pc \notin {"store", "sent"}
                     /\ get[g].until # Never => clock < get[g].until
  /\ clock' = clock + 1
  /\ UNCHANGED <<run, obs, cache, get>>

Init ==
  /\ clock = 0
  /\ stamps = <<>>
  /\ since = [e \in Events |-> Never]
  /\ decided = Never
  /\ obs = Nothing /\ cache = Nothing
  /\ get = [g \in Gets |-> Idle]

GetStep(g) ==
  \/ Start(g) \/ QueryNarrow(g) \/ QueryWide(g) \/ Judge(g) \/ Store(g) \/ Finish(g)

Next ==
  \/ Emit \/ Decide \/ \E e \in Events : Ingest(e)
  \/ \E g \in Gets : GetStep(g)
  \/ PushedOut \/ Restart \/ Tick

Spec == Init /\ [][Next]_vars

-----------------------------------------------------------------------------
(* Properties.                                                             *)

Time == 0 .. MaxTime

Record == [at : Time \cup {Never}, events : SUBSET Events]

Call == [pc : {"idle", "query", "wide", "judge", "store", "sent"},
         until : 0 .. MaxTime + FetchTimeout \cup {Never},
         around : Time \cup {Never}, got : SUBSET Events, complete : BOOLEAN]

TypeOK ==
  /\ clock \in Time
  /\ stamps \in Seq(Time) /\ Len(stamps) <= Length
  /\ since \in [Events -> Time \cup {Never}]
  /\ decided \in Time \cup {Never}
  /\ obs \in Record /\ cache \in Record
  /\ get \in [Gets -> Call]

\* What can be found and is not among some events.
MissedBy(events) == {e \in Events : since[e] # Never} \ events

CompleteOnes ==
  {get[g].got : g \in {h \in Gets : get[h].complete}}
    \cup (IF cache.at = Never THEN {} ELSE {cache.events})

\* A timeline called complete holds the end of the run, and whatever it misses
\* became searchable later than everything it holds by the grace period less the
\* time a fetch may take: a slow thread can bring an old snapshot to the second
\* look, but not one from before the first (agent/main.py:1005).
CompleteHeldStill ==
  \A events \in CompleteOnes :
    /\ HasFinal(events)
    /\ \A e \in events, f \in MissedBy(events) :
         since[f] - since[e] >= Grace - FetchTimeout

\* An answer is the whole log as it stood at one moment, whichever window it came
\* through, and that moment is no further back than a cache period and a fetch: so
\* of two answers one holds the other, and a straggler shows up in the end
\* (agent/main.py:970).
AnswersAreMoments ==
  \A g \in Gets : get[g].pc = "sent" =>
    /\ \A e \in get[g].got, f \in MissedBy(get[g].got) : since[e] <= since[f]
    /\ \A f \in MissedBy(get[g].got) : since[f] >= clock - CacheTTL - FetchTimeout

=============================================================================
