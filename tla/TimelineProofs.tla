----------------------------- MODULE TimelineProofs -----------------------------
(***************************************************************************)
(* What GET /trace/{id} calls complete and how old its answers are, for    *)
(* any number of events and requests and for every choice of the windows,  *)
(* the grace period, the timeout and the time to live; and what a page     *)
(* makes of such answers, for any run and any number of requests.          *)
(***************************************************************************)
EXTENDS Timeline, TracePage, FiniteSetTheorems, TLAPS

-----------------------------------------------------------------------------
(* The inductive invariant                                                 *)

Visible == {e \in Events : since[e] # Never}

\* Some events could all be found d ago,
Past(events, d) ==
  events \subseteq Visible /\ \A e \in events : since[e] <= clock - d
\* d before any that they miss,
Apart(events, d) ==
  \A e \in events, f \in MissedBy(events) : since[f] - since[e] >= d
\* and what they miss could not be found before t.
Fresh(events, t) == \A f \in MissedBy(events) : since[f] >= t

Still == Grace - FetchTimeout
Held(events) == HasFinal(events) /\ Past(events, Still) /\ Apart(events, Still)

\* A run is short, and only what was logged can be found.
RunOK ==
  /\ \A e \in DOMAIN stamps : stamps[e] <= MaxSpan /\ stamps[e] <= clock
  /\ \A e \in Visible : e \in DOMAIN stamps /\ since[e] <= clock
  /\ decided # Never => decided <= MaxSpan
  /\ \A g \in Gets : get[g].around # Never => get[g].around <= MaxSpan

ObsOK ==
  obs.at # Never =>
    /\ HasFinal(obs.events) /\ obs.at <= clock
    /\ obs.events \subseteq Visible /\ \A e \in obs.events : since[e] <= obs.at

CacheOK ==
  cache.at # Never =>
    /\ Held(cache.events) /\ cache.at <= clock
    /\ Fresh(cache.events, cache.at - FetchTimeout)

\* A snapshot is no older than the time its fetch was given.
SnapshotOK(g) ==
  /\ get[g].pc = "judge" =>
       /\ get[g].until # Never /\ ~get[g].complete
       /\ Past(get[g].got, 0) /\ Apart(get[g].got, 0)
       /\ Fresh(get[g].got, get[g].until - FetchTimeout)
  /\ get[g].until # Never =>
       clock <= get[g].until /\ get[g].until <= clock + FetchTimeout
  /\ get[g].pc \in {"query", "wide"} => ~get[g].complete /\ get[g].until # Never

AnswerOK(g) ==
  /\ get[g].pc = "store" => get[g].complete /\ Fresh(get[g].got, clock - FetchTimeout)
  /\ get[g].pc = "sent" =>
       /\ Past(get[g].got, 0) /\ Apart(get[g].got, 0)
       /\ Fresh(get[g].got, clock - CacheTTL - FetchTimeout)
  /\ get[g].complete => get[g].pc \in {"store", "sent"} /\ Held(get[g].got)

GetOK == \A g \in Gets : SnapshotOK(g) /\ AnswerOK(g)

IInv == TypeOK /\ RunOK /\ ObsOK /\ CacheOK /\ GetOK

-----------------------------------------------------------------------------
(* The windows                                                             *)

\* What can be found lies within one run, which is no longer than MaxSpan.
LEMMA OneRun ==
  ASSUME TypeOK, RunOK
  PROVE  /\ clock \in 0 .. MaxTime
         /\ \A e \in Visible : /\ e \in DOMAIN stamps /\ e \in Events
                               /\ stamps[e] \in 0 .. MaxSpan /\ stamps[e] <= clock
                               /\ since[e] \in 0 .. clock
<1>1. /\ clock \in 0 .. MaxTime
      /\ stamps \in Seq(Time) /\ since \in [Events -> Time \cup {Never}]
  BY DEF TypeOK, Time
<1>2. {MaxSpan, MaxTime} \subseteq Nat
  BY TimelineAssumption
<1>3. ASSUME NEW e \in Visible
      PROVE  /\ e \in DOMAIN stamps /\ e \in Events
             /\ stamps[e] \in 0 .. MaxSpan /\ stamps[e] <= clock
             /\ since[e] \in 0 .. clock
  <2>1. e \in Events /\ since[e] \in Time
    BY <1>1 DEF Visible
  <2>2. e \in DOMAIN stamps /\ since[e] <= clock
    BY DEF RunOK
  <2>3. stamps[e] \in Time /\ stamps[e] <= MaxSpan /\ stamps[e] <= clock
    BY <1>1, <2>2 DEF RunOK
  <2> QED BY <1>1, <1>2, <2>1, <2>2, <2>3 DEF Time
<1> QED BY <1>1, <1>3

\* The window around a decision holds the whole run.
LEMMA HintedIsWhole ==
  ASSUME TypeOK, RunOK, NEW around \in 0 .. MaxSpan
  PROVE  Searched(around - HintBefore, around + HintAfter) = Visible
<1>1. /\ {HintBefore, HintAfter, MaxSpan} \subseteq Nat
      /\ MaxSpan <= HintBefore /\ MaxSpan <= HintAfter
  BY TimelineAssumption
<1>2. ASSUME NEW e \in Visible
      PROVE  stamps[e] \in around - HintBefore .. around + HintAfter
  BY <1>1, OneRun
<1>3. DOMAIN stamps \subseteq Events
  BY TimelineAssumption DEF TypeOK, Events
<1> QED BY <1>2, <1>3, OneRun DEF Searched, Visible

\* A recent window whose oldest entry is clear of its edge holds the whole run.
LEMMA RecentIsWhole ==
  ASSUME TypeOK, RunOK,
         NEW hits, hits = Searched(clock - FastLookback, clock),
         hits # {}, \A e \in hits : stamps[e] > clock - FastLookback + Straddle
  PROVE  hits = Visible
<1>1. {FastLookback, Straddle, MaxSpan} \subseteq Nat /\ MaxSpan < Straddle
  BY TimelineAssumption
<1>2. DOMAIN stamps \subseteq Events
  BY TimelineAssumption DEF TypeOK, Events
<1>3. hits \subseteq Visible
  BY <1>2 DEF Searched, Visible
<1>4. PICK e \in hits : stamps[e] > clock - FastLookback + Straddle
  OBVIOUS
<1>5. ASSUME NEW f \in Visible
      PROVE  stamps[f] \in clock - FastLookback .. clock
  BY <1>1, <1>3, <1>4, OneRun
<1> QED BY <1>3, <1>5, OneRun DEF Searched, Visible

\* The wide window holds everything.
LEMMA WideIsWhole ==
  ASSUME TypeOK, RunOK
  PROVE  Searched(clock - Lookback, clock) = Visible
<1>1. {Lookback, MaxTime, MaxSpan} \subseteq Nat /\ MaxTime <= Lookback
  BY TimelineAssumption
<1>2. ASSUME NEW e \in Visible
      PROVE  stamps[e] \in clock - Lookback .. clock
  BY <1>1, OneRun
<1>3. DOMAIN stamps \subseteq Events
  BY TimelineAssumption DEF TypeOK, Events
<1> QED BY <1>2, <1>3, OneRun DEF Searched, Visible

\* Whichever window an answer comes through, nothing that can be found is outside
\* of it: a window that may have cut the run is not believed
\* (agent/trace_fetcher.py:246).
LEMMA NarrowIsWhole ==
  ASSUME TypeOK, RunOK, NEW g \in Gets,
         NEW hinted, hinted = HintUsable(get[g].around),
         NEW lo, lo = IF hinted THEN get[g].around - HintBefore ELSE clock - FastLookback,
         NEW hi, hi = IF hinted THEN get[g].around + HintAfter ELSE clock,
         NarrowSuffices(Searched(lo, hi), hinted, lo, hi)
  PROVE  Searched(lo, hi) = Visible
<1>1. CASE hinted
  <2>1. get[g].around # Never /\ get[g].around \in Time \cup {Never}
    BY <1>1 DEF HintUsable, TypeOK, Call
  <2>2. get[g].around \in 0 .. MaxSpan
    BY <2>1, TimelineAssumption DEF RunOK, Time
  <2> QED BY <1>1, <2>2, HintedIsWhole
<1>2. CASE ~hinted
  BY <1>2, RecentIsWhole DEF NarrowSuffices
<1> QED BY <1>1, <1>2

-----------------------------------------------------------------------------
(* Types and the run                                                       *)

\* The initial states satisfy the invariant.
LEMMA InitInvariant == Init => IInv
<1> SUFFICES ASSUME Init PROVE IInv
  OBVIOUS
<1>1. {MaxTime, MaxSpan, FetchTimeout} \subseteq Nat
  BY TimelineAssumption
<1>2. TypeOK
  <2>1. Nothing \in Record /\ Idle \in Call
    BY DEF Nothing, Record, Idle, Call
  <2>2. clock \in Time /\ stamps \in Seq(Time) /\ Len(stamps) <= Length
    BY <1>1, TimelineAssumption DEF Init, Time
  <2> QED BY <2>1, <2>2 DEF Init, TypeOK
<1>3. RunOK
  BY DEF Init, RunOK, Visible, Idle
<1>4. ObsOK /\ CacheOK
  BY DEF Init, ObsOK, CacheOK, Nothing
<1>5. GetOK
  BY DEF Init, GetOK, SnapshotOK, AnswerOK, Idle
<1> QED BY <1>2, <1>3, <1>4, <1>5 DEF IInv

\* Each step preserves the types.
LEMMA TypeStep == TypeOK /\ [Next]_vars => TypeOK'
<1> SUFFICES ASSUME TypeOK, [Next]_vars PROVE TypeOK'
  OBVIOUS
<1>1. Nothing \in Record /\ Idle \in Call /\ Found \in Record
  BY DEF TypeOK, Nothing, Record, Idle, Call, Found
<1>2. /\ {MaxTime, MaxSpan, FetchTimeout} \subseteq Nat /\ Length \in Nat
      /\ clock \in 0 .. MaxTime
  BY TimelineAssumption DEF TypeOK, Time
<1>3. CASE Emit
  <2>1. stamps' \in Seq(Time) /\ Len(stamps') <= Length
    BY <1>2, <1>3 DEF Emit, TypeOK
  <2> QED BY <1>3, <2>1 DEF Emit, TypeOK
<1>4. CASE Decide
  BY <1>4 DEF Decide, TypeOK
<1>5. ASSUME NEW e \in Events, Ingest(e) PROVE TypeOK'
  BY <1>5 DEF Ingest, TypeOK
<1>6. ASSUME NEW g \in Gets, GetStep(g) PROVE TypeOK'
  <2>1. get[g] \in Call /\ get[g].got \in SUBSET Events
    BY DEF TypeOK, Call
  <2>2. \A lo, hi : Searched(lo, hi) \in SUBSET Events
    BY <1>2 DEF Searched, Events, TypeOK
  <2>3. Seen(get[g].got) \in Record
    BY <2>1 DEF Seen, Nothing, Record, TypeOK
  <2>4. get'[g] \in Call /\ get' = [get EXCEPT ![g] = get'[g]]
    <3>1. CASE Start(g)
      <4>1. CASE Found.at # Never
        <5>1. get' = [get EXCEPT ![g] = [get[g] EXCEPT !.pc = "sent",
                        !.got = Found.events, !.complete = TRUE]]
          BY <3>1, <4>1 DEF Start
        <5>2. [get[g] EXCEPT !.pc = "sent", !.got = Found.events, !.complete = TRUE]
                \in Call
          BY <1>1, <2>1 DEF Call, Record
        <5> QED BY <5>1, <5>2 DEF TypeOK
      <4>2. CASE Found.at = Never
        <5>1. get' = [get EXCEPT ![g] = [get[g] EXCEPT !.pc = "query",
                        !.until = clock + FetchTimeout, !.around = decided]]
          BY <3>1, <4>2 DEF Start
        <5>2. [get[g] EXCEPT !.pc = "query", !.until = clock + FetchTimeout,
                             !.around = decided] \in Call
          <6>1. clock + FetchTimeout \in 0 .. MaxTime + FetchTimeout
            BY <1>2
          <6>2. decided \in Time \cup {Never}
            BY DEF TypeOK
          <6> QED BY <2>1, <6>1, <6>2 DEF Call
        <5> QED BY <5>1, <5>2 DEF TypeOK
      <4> QED BY <4>1, <4>2
    <3>2. CASE QueryNarrow(g)
      <4>1. PICK hits \in SUBSET Events :
               \/ get' = [get EXCEPT ![g] = [get[g] EXCEPT !.pc = "judge",
                                               !.got = hits, !.around = Never]]
               \/ get' = [get EXCEPT ![g] = [get[g] EXCEPT !.pc = "wide",
                                               !.around = Never]]
        BY <3>2, <2>2 DEF QueryNarrow
      <4>2. /\ [get[g] EXCEPT !.pc = "judge", !.got = hits, !.around = Never] \in Call
            /\ [get[g] EXCEPT !.pc = "wide", !.around = Never] \in Call
        BY <2>1 DEF Call
      <4> QED BY <4>1, <4>2 DEF TypeOK
    <3>3. CASE QueryWide(g)
      <4>1. PICK hits \in SUBSET Events :
               get' = [get EXCEPT ![g] = [get[g] EXCEPT !.got = hits, !.pc = "judge"]]
        BY <3>3, <2>2 DEF QueryWide, TypeOK
      <4>2. [get[g] EXCEPT !.got = hits, !.pc = "judge"] \in Call
        BY <2>1 DEF Call
      <4> QED BY <4>1, <4>2 DEF TypeOK
    <3>4. CASE Judge(g)
      <4>1. PICK stable \in BOOLEAN :
               get' = [get EXCEPT ![g] = [get[g] EXCEPT !.complete = stable,
                         !.until = Never, !.pc = IF stable THEN "store" ELSE "sent"]]
        BY <3>4 DEF Judge, HasFinal, TypeOK
      <4>2. [get[g] EXCEPT !.complete = stable, !.until = Never,
                           !.pc = IF stable THEN "store" ELSE "sent"] \in Call
        BY <2>1 DEF Call
      <4> QED BY <4>1, <4>2 DEF TypeOK
    <3>5. CASE Store(g)
      <4>1. get' = [get EXCEPT ![g] = [get[g] EXCEPT !.pc = "sent"]]
        BY <3>5 DEF Store, TypeOK
      <4>2. [get[g] EXCEPT !.pc = "sent"] \in Call
        BY <2>1 DEF Call
      <4> QED BY <4>1, <4>2 DEF TypeOK
    <3>6. CASE Finish(g)
      BY <1>1, <3>6 DEF Finish, TypeOK
    <3> QED BY <1>6, <3>1, <3>2, <3>3, <3>4, <3>5, <3>6 DEF GetStep
  <2>5. get' \in [Gets -> Call]
    BY <2>4 DEF TypeOK
  <2>6. obs' \in Record /\ cache' \in Record
    <3>1. CASE Start(g)
      BY <1>1, <3>1 DEF Start, TypeOK
    <3>2. CASE QueryNarrow(g) \/ QueryWide(g) \/ Finish(g)
      BY <3>2 DEF QueryNarrow, QueryWide, Finish, TypeOK
    <3>3. CASE Judge(g)
      BY <2>3, <3>3 DEF Judge, TypeOK
    <3>4. CASE Store(g)
      <4>1. [at |-> clock, events |-> get[g].got] \in Record
        BY <2>1 DEF Record, TypeOK
      <4> QED BY <1>1, <3>4, <4>1 DEF Store
    <3> QED BY <1>6, <3>1, <3>2, <3>3, <3>4 DEF GetStep
  <2>7. UNCHANGED <<clock, run>>
    BY <1>6 DEF GetStep, Start, QueryNarrow, QueryWide, Judge, Store, Finish
  <2> QED BY <2>5, <2>6, <2>7 DEF TypeOK, run
<1>7. CASE PushedOut
  BY <1>1, <1>7 DEF PushedOut, TypeOK, run
<1>8. CASE Restart
  BY <1>1, <1>8 DEF Restart, TypeOK, run
<1>9. CASE Tick
  <2>1. clock' \in Time
    BY <1>2, <1>9 DEF Tick, Time
  <2> QED BY <1>9, <2>1 DEF Tick, TypeOK, run
<1>10. CASE UNCHANGED vars
  BY <1>10 DEF vars, run, TypeOK
<1> QED BY <1>3, <1>4, <1>5, <1>6, <1>7, <1>8, <1>9, <1>10 DEF Next

\* A step lets time pass or makes an event searchable now, or leaves the log alone.
LEMMA LogStep ==
  ASSUME TypeOK, [Next]_vars
  PROVE  \/ UNCHANGED <<clock, since>>
         \/ clock' = clock + 1 /\ UNCHANGED since
         \/ /\ UNCHANGED clock
            /\ \E e \in Events : /\ since[e] = Never
                                 /\ since' = [since EXCEPT ![e] = clock]
BY DEF Next, GetStep, Emit, Decide, Ingest, Start, QueryNarrow, QueryWide, Judge,
       Store, Finish, PushedOut, Restart, Tick, vars, run

\* So what could be found at some distance from now, and what was missed, stay so.
LEMMA LogMoves ==
  ASSUME TypeOK, RunOK, [Next]_vars,
         NEW events \in SUBSET Events, NEW d \in Nat, NEW t \in Int
  PROVE  /\ Past(events, d) => Past(events, d)'
         /\ Past(events, d) /\ Apart(events, d) => Apart(events, d)'
         /\ t <= clock /\ Fresh(events, t) => Fresh(events, t)'
<1>1. clock \in Int /\ clock' \in Int /\ clock <= clock'
  BY LogStep, OneRun
<1>2. /\ Never \notin Int
      /\ since \in [Events -> Int \cup {Never}]
      /\ since' \in [Events -> Int \cup {Never}]
      /\ \A e \in Events : \/ since'[e] = since[e]
                           \/ since[e] = Never /\ since'[e] = clock
  <2>1. Never \notin Int /\ {MaxTime} \subseteq Nat
    BY TimelineAssumption
  <2>2. since \in [Events -> Int \cup {Never}]
    BY <2>1 DEF TypeOK, Time
  <2> QED BY <1>1, <2>1, <2>2, LogStep
<1>3. ASSUME Past(events, d) PROVE Past(events, d)'
  BY <1>1, <1>2, <1>3 DEF Past, Visible
<1>4. ASSUME Past(events, d), Apart(events, d) PROVE Apart(events, d)'
  <2>1. ASSUME NEW e \in events, NEW f \in MissedBy(events)'
        PROVE  since'[f] - since'[e] >= d
    <3>1. /\ f \in Events /\ f \notin events /\ since'[f] # Never
          /\ e \in Events /\ since[e] # Never /\ since[e] <= clock - d
          /\ since'[e] = since[e]
      BY <1>2, <1>4, <2>1 DEF MissedBy, Past, Visible
    <3>2. CASE since[f] = Never
      BY <1>1, <1>2, <3>1, <3>2
    <3>3. CASE since[f] # Never
      BY <1>2, <1>4, <3>1, <3>3 DEF Apart, MissedBy
    <3> QED BY <3>2, <3>3
  <2> QED BY <2>1 DEF Apart
<1>5. ASSUME t <= clock, Fresh(events, t) PROVE Fresh(events, t)'
  BY <1>1, <1>2, <1>5 DEF Fresh, MissedBy
<1> QED BY <1>3, <1>4, <1>5

\* A timeline that held still is known to have.
LEMMA HeldMoves ==
  ASSUME TypeOK, RunOK, [Next]_vars, NEW events \in SUBSET Events, Held(events)
  PROVE  Held(events)'
<1>1. Still \in Nat
  BY TimelineAssumption DEF Still
<1> QED BY <1>1, LogMoves DEF Held, HasFinal

\* Each step leaves a run short and the log behind it.
LEMMA RunStep == TypeOK /\ RunOK /\ [Next]_vars => RunOK'
<1> SUFFICES ASSUME TypeOK, RunOK, [Next]_vars PROVE RunOK'
  OBVIOUS
<1>1. clock \in Int /\ {MaxSpan} \subseteq Nat /\ Never \notin Int
  BY OneRun, TimelineAssumption
<1>2. stamps \in Seq(Time) /\ Time \subseteq Int
  BY TimelineAssumption DEF TypeOK, Time
<1>3. ASSUME NEW g \in Gets, GetStep(g) PROVE RunOK'
  <2>1. UNCHANGED <<clock, run>>
    BY <1>3 DEF GetStep, Start, QueryNarrow, QueryWide, Judge, Store, Finish
  <2>2. \A h \in Gets : get'[h].around \in {get[h].around, decided, Never}
    <3>1. ASSUME NEW h \in Gets, h # g PROVE get'[h] = get[h]
      BY <1>3, <3>1 DEF GetStep, Start, QueryNarrow, QueryWide, Judge, Store, Finish,
                        TypeOK
    <3>2. get'[g].around \in {get[g].around, decided, Never}
      <4>1. get[g] \in Call
        BY DEF TypeOK
      <4>2. CASE Start(g)
        BY <4>1, <4>2 DEF Start, TypeOK, Call
      <4>3. CASE QueryNarrow(g)
        BY <4>1, <4>3 DEF QueryNarrow, TypeOK, Call
      <4>4. CASE QueryWide(g)
        BY <4>1, <4>4 DEF QueryWide, TypeOK, Call
      <4>5. CASE Judge(g)
        BY <4>1, <4>5 DEF Judge, TypeOK, Call
      <4>6. CASE Store(g)
        BY <4>1, <4>6 DEF Store, TypeOK, Call
      <4>7. CASE Finish(g)
        BY <4>7 DEF Finish, TypeOK, Idle
      <4> QED BY <1>3, <4>2, <4>3, <4>4, <4>5, <4>6, <4>7 DEF GetStep
    <3> QED BY <3>1, <3>2
  <2> QED BY <2>1, <2>2 DEF RunOK, Visible, run
<1>4. CASE Emit
  <2>1. /\ DOMAIN stamps \subseteq DOMAIN stamps'
        /\ \A e \in DOMAIN stamps' :
             \/ e \in DOMAIN stamps /\ stamps'[e] = stamps[e]
             \/ stamps'[e] = clock
    BY <1>2, <1>4 DEF Emit
  <2> QED BY <1>1, <1>4, <2>1 DEF Emit, RunOK, Visible
<1>5. ASSUME NEW e \in Events, Ingest(e) PROVE RunOK'
  <2>1. \A f \in Visible' : (f \in Visible /\ since'[f] = since[f])
                            \/ (f \in DOMAIN stamps /\ since'[f] = clock)
    BY <1>5 DEF Ingest, Visible, TypeOK
  <2> QED BY <1>1, <1>5, <2>1 DEF Ingest, RunOK
<1>6. CASE Decide
  BY <1>6 DEF Decide, RunOK, Visible
<1>7. CASE PushedOut
  BY <1>7 DEF PushedOut, RunOK, Visible, run
<1>8. CASE Restart
  BY <1>8 DEF Restart, RunOK, Visible, run, Idle
<1>9. CASE Tick
  <2>1. ASSUME NEW e \in DOMAIN stamps, stamps[e] <= clock
        PROVE  stamps[e] <= clock + 1
    <3>1. stamps[e] \in Time
      BY <1>2, <2>1
    <3>2. stamps[e] \in Int
      BY <1>2, <3>1
    <3> QED BY <1>1, <2>1, <3>2
  <2>2. \A e \in Visible : since[e] <= clock => since[e] <= clock + 1
    BY <1>1, OneRun
  <2> QED BY <1>9, <2>1, <2>2 DEF Tick, RunOK, Visible, run
<1>10. CASE UNCHANGED vars
  BY <1>10 DEF vars, run, RunOK, Visible
<1> QED BY <1>3, <1>4, <1>5, <1>6, <1>7, <1>8, <1>9, <1>10 DEF Next

-----------------------------------------------------------------------------
(* Requests, the observation and the cache                                 *)

\* A request that does not move stays true to the log.
LEMMA WaitingStays ==
  ASSUME IInv, [Next]_vars, NEW h \in Gets, get'[h] = get[h],
         \/ UNCHANGED clock
         \/ /\ clock' = clock + 1
            /\ get[h].pc \notin {"store", "sent"}
            /\ get[h].until # Never => clock < get[h].until
  PROVE  SnapshotOK(h)' /\ AnswerOK(h)'
<1>1. /\ {FetchTimeout, CacheTTL, MaxTime} \subseteq Nat
      /\ Never \notin Int /\ clock \in Int
      /\ TypeOK /\ RunOK /\ SnapshotOK(h) /\ AnswerOK(h)
  BY TimelineAssumption, OneRun DEF IInv, GetOK
<1>2. PICK c \in Call : c = get[h]
  BY <1>1 DEF TypeOK
<1>3. c.got \in SUBSET Events /\ c.until \in Int \cup {Never}
  BY <1>1 DEF Call
<1>4. SnapshotOK(h)'
  <2>1. ASSUME c.pc = "judge"
        PROVE  /\ Past(c.got, 0)' /\ Apart(c.got, 0)'
               /\ Fresh(c.got, c.until - FetchTimeout)'
    <3>1. /\ Past(c.got, 0) /\ Apart(c.got, 0)
          /\ Fresh(c.got, c.until - FetchTimeout)
          /\ c.until - FetchTimeout \in Int /\ c.until - FetchTimeout <= clock
      BY <1>1, <1>2, <1>3, <2>1 DEF SnapshotOK
    <3> QED BY <1>1, <1>3, <3>1, LogMoves
  <2>2. c.until # Never => clock' <= c.until /\ c.until <= clock' + FetchTimeout
    BY <1>1, <1>2, <1>3 DEF SnapshotOK
  <2> QED BY <1>1, <1>2, <2>1, <2>2 DEF SnapshotOK
<1>5. AnswerOK(h)'
  <2>1. ASSUME c.pc \in {"store", "sent"}, NEW t \in Int, t <= clock, Fresh(c.got, t)
        PROVE  Fresh(c.got, t)'
    BY <1>1, <1>3, <2>1, LogMoves
  <2>2. ASSUME c.pc = "sent" PROVE Past(c.got, 0)' /\ Apart(c.got, 0)'
    BY <1>1, <1>2, <1>3, <2>2, LogMoves DEF AnswerOK
  <2>3. ASSUME c.complete PROVE Held(c.got)'
    BY <1>1, <1>2, <1>3, <2>3, HeldMoves DEF AnswerOK
  <2>4. c.pc = "store" => Fresh(c.got, clock - FetchTimeout)'
    <3>1. ASSUME c.pc = "store" PROVE UNCHANGED clock /\ Fresh(c.got, clock - FetchTimeout)
      BY <1>1, <1>2, <3>1 DEF AnswerOK
    <3>2. PICK t \in Int : t = clock - FetchTimeout
      BY <1>1
    <3> QED BY <1>1, <2>1, <3>1, <3>2
  <2>5. c.pc = "sent" => Fresh(c.got, clock - CacheTTL - FetchTimeout)'
    <3>1. ASSUME c.pc = "sent"
          PROVE  UNCHANGED clock /\ Fresh(c.got, clock - CacheTTL - FetchTimeout)
      BY <1>1, <1>2, <3>1 DEF AnswerOK
    <3>2. PICK t \in Int : t = clock - CacheTTL - FetchTimeout
      BY <1>1
    <3> QED BY <1>1, <2>1, <3>1, <3>2
  <2> QED BY <1>1, <1>2, <2>2, <2>3, <2>4, <2>5 DEF AnswerOK
<1> QED BY <1>4, <1>5

\* A timeline that was seen a grace period ago and is fetched again held still,
\* however old the snapshots are that a slow thread brings.
LEMMA SeenTwiceHeld ==
  ASSUME IInv, NEW g \in Gets, get[g].pc = "judge",
         HasFinal(get[g].got), obs.at # Never, obs.events = get[g].got,
         clock - obs.at >= Grace
  PROVE  Held(get[g].got)
<1>1. /\ {FetchTimeout, Grace} \subseteq Nat /\ FetchTimeout < Grace
      /\ Never \notin Int /\ clock \in Int
      /\ TypeOK /\ RunOK /\ ObsOK /\ SnapshotOK(g)
  BY TimelineAssumption, OneRun DEF IInv, GetOK
<1>2. /\ obs.at \in Int /\ get[g].until \in Int
      /\ clock <= get[g].until
  BY <1>1 DEF TypeOK, Record, Call, Time, SnapshotOK
<1>3. /\ get[g].got \subseteq Visible
      /\ \A e \in get[g].got : since[e] \in Int /\ since[e] <= obs.at
  BY <1>1, OneRun DEF ObsOK
<1>4. Past(get[g].got, Still)
  BY <1>1, <1>2, <1>3 DEF Past, Still
<1>5. Apart(get[g].got, Still)
  <2>1. ASSUME NEW e \in get[g].got, NEW f \in MissedBy(get[g].got)
        PROVE  since[f] - since[e] >= Still
    <3>1. since[f] >= get[g].until - FetchTimeout /\ since[f] \in Int
      BY <1>1, OneRun DEF SnapshotOK, Fresh, MissedBy, Visible
    <3> QED BY <1>1, <1>2, <1>3, <3>1 DEF Still
  <2> QED BY <2>1 DEF Apart
<1> QED BY <1>4, <1>5 DEF Held

\* What held still is a moment of the log as well.
LEMMA HeldIsMoment ==
  ASSUME TypeOK, RunOK, NEW events \in SUBSET Events, Held(events)
  PROVE  Past(events, 0) /\ Apart(events, 0)
<1>1. Still \in Nat /\ clock \in Int
  BY TimelineAssumption, OneRun DEF Still
<1>2. \A e \in Visible : since[e] \in Int
  BY OneRun
<1>3. Past(events, 0)
  BY <1>1, <1>2 DEF Held, Past
<1>4. Apart(events, 0)
  BY <1>1, <1>2, <1>3 DEF Held, Apart, Past, MissedBy, Visible
<1> QED BY <1>3, <1>4

\* Each step preserves what is known of the observation.
LEMMA ObsStep == IInv /\ [Next]_vars => ObsOK'
<1> SUFFICES ASSUME IInv, [Next]_vars PROVE ObsOK'
  OBVIOUS
<1>1. TypeOK /\ RunOK /\ ObsOK /\ Never \notin Int
  BY TimelineAssumption DEF IInv
<1>2. CASE UNCHANGED obs
  <2>1. /\ clock \in Int /\ clock' \in Int /\ clock <= clock'
        /\ \A e \in Visible : e \in Visible' /\ since'[e] = since[e]
    BY <1>1, LogStep, OneRun DEF Visible, TypeOK
  <2>2. obs.at # Never => obs.at \in Int
    BY <1>1, TimelineAssumption DEF TypeOK, Record, Time
  <2> QED BY <1>1, <1>2, <2>1, <2>2 DEF ObsOK, HasFinal
<1>3. CASE obs' = Nothing
  BY <1>3 DEF ObsOK, Nothing
<1>4. ASSUME NEW g \in Gets, Judge(g) PROVE ObsOK'
  <2>1. UNCHANGED <<clock, since>> /\ obs' = Seen(get[g].got)
    BY <1>4 DEF Judge, run
  <2>2. Past(get[g].got, 0) /\ clock \in Int
    BY <1>4, <1>1, OneRun DEF Judge, IInv, GetOK, SnapshotOK
  <2>3. CASE obs' = [at |-> clock, events |-> get[g].got] /\ HasFinal(get[g].got)
    BY <2>1, <2>2, <2>3 DEF ObsOK, Past, Visible, HasFinal
  <2> QED BY <1>2, <1>3, <2>1, <2>3 DEF Seen
<1> QED BY <1>2, <1>3, <1>4
        DEF Next, GetStep, Emit, Decide, Ingest, Start, QueryNarrow, QueryWide, Store,
            Finish, PushedOut, Restart, Tick, vars

\* Each step preserves what is known of the cache.
LEMMA CacheStep == IInv /\ [Next]_vars => CacheOK'
<1> SUFFICES ASSUME IInv, [Next]_vars PROVE CacheOK'
  OBVIOUS
<1>1. /\ TypeOK /\ RunOK /\ CacheOK /\ Never \notin Int
      /\ FetchTimeout \in Nat /\ clock \in Int /\ clock' \in Int /\ clock <= clock'
  BY TimelineAssumption, OneRun, LogStep DEF IInv
<1>2. CASE UNCHANGED cache
  <2>1. PICK c \in Record : c = cache
    BY <1>1 DEF TypeOK
  <2>2. ASSUME c.at # Never
        PROVE  Held(c.events)' /\ c.at <= clock' /\ Fresh(c.events, c.at - FetchTimeout)'
    <3>1. c.events \in SUBSET Events /\ c.at \in Int
      BY <2>2, TimelineAssumption DEF Record, Time
    <3>2. /\ Held(c.events) /\ c.at <= clock
          /\ Fresh(c.events, c.at - FetchTimeout)
      BY <1>1, <2>1, <2>2 DEF CacheOK
    <3>3. c.at - FetchTimeout \in Int /\ c.at - FetchTimeout <= clock
      BY <1>1, <3>1, <3>2
    <3> QED BY <1>1, <3>1, <3>2, <3>3, HeldMoves, LogMoves
  <2> QED BY <1>2, <2>1, <2>2 DEF CacheOK
<1>3. CASE cache' = Nothing
  BY <1>3 DEF CacheOK, Nothing
<1>4. ASSUME NEW g \in Gets, Start(g) PROVE CacheOK'
  BY <1>2, <1>3, <1>4 DEF Start, Found
<1>5. ASSUME NEW g \in Gets, Store(g) PROVE CacheOK'
  <2>1. UNCHANGED <<clock, since>> /\ cache' = [at |-> clock, events |-> get[g].got]
    BY <1>5 DEF Store, run
  <2>2. Held(get[g].got) /\ Fresh(get[g].got, clock - FetchTimeout)
    BY <1>5 DEF Store, IInv, GetOK, AnswerOK
  <2> QED BY <1>1, <2>1, <2>2
          DEF CacheOK, Held, HasFinal, Past, Apart, Fresh, Visible, MissedBy
<1> QED BY <1>2, <1>3, <1>4, <1>5
        DEF Next, GetStep, Emit, Decide, Ingest, QueryNarrow, QueryWide, Judge,
            Finish, PushedOut, Restart, Tick, vars

\* Each step of a request leaves it true to the log.
LEMMA MovingStep ==
  ASSUME IInv, NEW g \in Gets, GetStep(g)
  PROVE  SnapshotOK(g)' /\ AnswerOK(g)'
<1>1. /\ {FetchTimeout, CacheTTL, MaxTime} \subseteq Nat
      /\ Never \notin Int /\ clock \in Int
      /\ TypeOK /\ RunOK /\ CacheOK /\ SnapshotOK(g) /\ AnswerOK(g)
      /\ get \in [Gets -> Call] /\ get[g] \in Call
      /\ get[g].got \in SUBSET Events
  BY TimelineAssumption, OneRun DEF IInv, GetOK, TypeOK, Call
<1>2. UNCHANGED <<clock, stamps, since>>
  BY DEF GetStep, Start, QueryNarrow, QueryWide, Judge, Store, Finish, run
<1>3. /\ Visible' = Visible
      /\ \A s, d : (Past(s, d)' <=> Past(s, d)) /\ (Apart(s, d)' <=> Apart(s, d))
                   /\ (Fresh(s, d)' <=> Fresh(s, d)) /\ (Held(s)' <=> Held(s))
  BY <1>2 DEF Visible, Past, Apart, Fresh, MissedBy, Held, HasFinal
<1>4. CASE Start(g)
  <2>1. ~get[g].complete /\ get[g].pc = "idle"
    BY <1>1, <1>4 DEF Start, AnswerOK
  <2>2. CASE Found.at # Never
    <3>1. Found = cache /\ cache.at # Never /\ clock - cache.at <= CacheTTL
      <4>1. cache.at # Never => cache.at \in Int
        BY <1>1 DEF TypeOK, Record, Time
      <4> QED BY <1>1, <2>2, <4>1 DEF Found, Expired, Nothing
    <3>2. get'[g] = [get[g] EXCEPT !.pc = "sent", !.got = cache.events, !.complete = TRUE]
      BY <1>1, <1>4, <2>2, <3>1 DEF Start
    <3>3. /\ get'[g].pc = "sent" /\ get'[g].got = cache.events
          /\ get'[g].until = get[g].until
      BY <1>1, <3>2 DEF Call
    <3>4. cache.events \in SUBSET Events /\ cache.at \in Int /\ cache.at <= clock
      BY <1>1, <3>1 DEF TypeOK, Record, Time, CacheOK
    <3>5. Held(cache.events) /\ Past(cache.events, 0) /\ Apart(cache.events, 0)
      BY <1>1, <3>1, <3>4, HeldIsMoment DEF CacheOK
    <3>6. Fresh(cache.events, clock - CacheTTL - FetchTimeout)
      BY <1>1, <3>1, <3>4, OneRun DEF CacheOK, Fresh, MissedBy, Visible
    <3>7. SnapshotOK(g)'
      BY <1>1, <1>2, <3>3 DEF SnapshotOK
    <3> QED BY <1>2, <1>3, <3>3, <3>5, <3>6, <3>7 DEF AnswerOK
  <2>3. CASE Found.at = Never
    <3>1. get'[g] = [get[g] EXCEPT !.pc = "query", !.until = clock + FetchTimeout,
                                   !.around = decided]
      BY <1>1, <1>4, <2>3 DEF Start
    <3>2. get'[g].pc = "query" /\ get'[g].until = clock + FetchTimeout
          /\ ~get'[g].complete
      BY <1>1, <2>1, <3>1 DEF Call
    <3> QED BY <1>1, <1>2, <3>2 DEF SnapshotOK, AnswerOK
  <2> QED BY <2>2, <2>3
<1>5. ASSUME Visible = get'[g].got, get'[g].pc = "judge",
             get'[g].until = get[g].until, ~get'[g].complete,
             get[g].until # Never
      PROVE  SnapshotOK(g)' /\ AnswerOK(g)'
  <2>1. Past(Visible, 0) /\ Apart(Visible, 0)
        /\ \A t : Fresh(Visible, t)
    BY <1>1, OneRun DEF Past, Apart, Fresh, MissedBy, Visible
  <2>2. SnapshotOK(g)'
    BY <1>1, <1>2, <1>3, <1>5, <2>1 DEF SnapshotOK
  <2> QED BY <1>5, <2>2 DEF AnswerOK
<1>6. CASE QueryNarrow(g)
  <2>1. get[g].pc = "query" /\ ~get[g].complete /\ get[g].until # Never
    BY <1>1, <1>6 DEF QueryNarrow, SnapshotOK
  <2> DEFINE hinted == HintUsable(get[g].around)
             lo == IF hinted THEN get[g].around - HintBefore ELSE clock - FastLookback
             hi == IF hinted THEN get[g].around + HintAfter ELSE clock
  <2>2. CASE NarrowSuffices(Searched(lo, hi), hinted, lo, hi)
    <3>1. Searched(lo, hi) = Visible
      BY <1>1, <2>2, NarrowIsWhole
    <3>2. get' = [get EXCEPT ![g] = [get[g] EXCEPT !.pc = "judge",
                                        !.got = Searched(lo, hi), !.around = Never]]
      BY <1>6, <2>2 DEF QueryNarrow
    <3>3. get'[g] = [get[g] EXCEPT !.pc = "judge", !.got = Visible, !.around = Never]
      BY <1>1, <3>1, <3>2 DEF TypeOK
    <3>4. /\ get'[g].pc = "judge" /\ get'[g].got = Visible
          /\ get'[g].until = get[g].until /\ ~get'[g].complete
      BY <1>1, <2>1, <3>3 DEF Call
    <3> QED BY <1>5, <2>1, <3>4
  <2>3. CASE ~NarrowSuffices(Searched(lo, hi), hinted, lo, hi)
    <3>1. get' = [get EXCEPT ![g] = [get[g] EXCEPT !.pc = "wide", !.around = Never]]
      BY <1>6, <2>3 DEF QueryNarrow
    <3>2. /\ get'[g].pc = "wide" /\ get'[g].until = get[g].until
          /\ ~get'[g].complete
      BY <1>1, <2>1, <3>1 DEF TypeOK, Call
    <3> QED BY <1>1, <1>2, <2>1, <3>2 DEF SnapshotOK, AnswerOK
  <2> QED BY <2>2, <2>3
<1>7. CASE QueryWide(g)
  <2>1. get[g].pc = "wide" /\ ~get[g].complete /\ get[g].until # Never
    BY <1>1, <1>7 DEF QueryWide, SnapshotOK
  <2>2. get'[g] = [get[g] EXCEPT !.got = Visible, !.pc = "judge"]
    BY <1>1, <1>7, WideIsWhole DEF QueryWide, TypeOK
  <2>3. /\ get'[g].pc = "judge" /\ get'[g].got = Visible
        /\ get'[g].until = get[g].until /\ ~get'[g].complete
    BY <1>1, <2>1, <2>2 DEF Call
  <2> QED BY <1>5, <2>1, <2>3
<1>8. CASE Judge(g)
  <2> DEFINE stable == /\ HasFinal(get[g].got)
                       /\ obs.at # Never /\ obs.events = get[g].got
                       /\ clock - obs.at >= Grace
  <2>1. /\ get[g].until \in Int /\ clock <= get[g].until
        /\ Past(get[g].got, 0) /\ Apart(get[g].got, 0)
        /\ Fresh(get[g].got, get[g].until - FetchTimeout)
    BY <1>1, <1>8 DEF Judge, SnapshotOK, Call
  <2>2. /\ Fresh(get[g].got, clock - FetchTimeout)
        /\ Fresh(get[g].got, clock - CacheTTL - FetchTimeout)
    BY <1>1, <2>1, OneRun DEF Fresh, MissedBy, Visible
  <2>3. get'[g] = [get[g] EXCEPT !.complete = stable, !.until = Never,
                                 !.pc = IF stable THEN "store" ELSE "sent"]
    BY <1>1, <1>8 DEF Judge
  <2>4. /\ get'[g].got = get[g].got /\ get'[g].until = Never
        /\ get'[g].complete = stable
        /\ get'[g].pc = IF stable THEN "store" ELSE "sent"
    <3> HIDE DEF stable
    <3> QED BY <1>1, <2>3 DEF Call
  <2>5. stable => Held(get[g].got)
    BY <1>8, SeenTwiceHeld DEF Judge
  <2>6. SnapshotOK(g)'
    <3> HIDE DEF stable
    <3> QED BY <2>4 DEF SnapshotOK
  <2>7. AnswerOK(g)'
    <3> HIDE DEF stable
    <3> QED BY <1>2, <1>3, <2>1, <2>2, <2>4, <2>5 DEF AnswerOK
  <2> QED BY <2>6, <2>7
<1>9. CASE Store(g)
  <2>1. get'[g] = [get[g] EXCEPT !.pc = "sent"]
    BY <1>1, <1>9 DEF Store
  <2>2. /\ get'[g].pc = "sent" /\ get'[g].got = get[g].got
        /\ get'[g].until = get[g].until /\ get'[g].complete = get[g].complete
    BY <1>1, <2>1 DEF Call
  <2>3. Held(get[g].got) /\ Fresh(get[g].got, clock - FetchTimeout)
    BY <1>1, <1>9 DEF Store, AnswerOK
  <2>4. Past(get[g].got, 0) /\ Apart(get[g].got, 0)
    BY <1>1, <2>3, HeldIsMoment
  <2>5. Fresh(get[g].got, clock - CacheTTL - FetchTimeout)
    BY <1>1, <2>3, OneRun DEF Fresh, MissedBy, Visible
  <2>6. SnapshotOK(g)'
    BY <1>1, <1>2, <2>2 DEF SnapshotOK
  <2> QED BY <1>2, <1>3, <2>2, <2>3, <2>4, <2>5, <2>6 DEF AnswerOK
<1>10. CASE Finish(g)
  <2>1. get'[g] = Idle
    BY <1>1, <1>10 DEF Finish
  <2> QED BY <2>1 DEF Idle, SnapshotOK, AnswerOK
<1> QED BY <1>4, <1>6, <1>7, <1>8, <1>9, <1>10 DEF GetStep

\* Each step preserves what is known of the requests.
LEMMA GetsStep == IInv /\ [Next]_vars => GetOK'
<1> SUFFICES ASSUME IInv, [Next]_vars, NEW h \in Gets
             PROVE  SnapshotOK(h)' /\ AnswerOK(h)'
  BY DEF GetOK
<1>1. TypeOK /\ TypeOK'
  BY TypeStep DEF IInv
<1>2. ASSUME NEW g \in Gets, GetStep(g) PROVE SnapshotOK(h)' /\ AnswerOK(h)'
  <2>1. CASE h = g
    BY <1>2, <2>1, MovingStep
  <2>2. CASE h # g
    <3>1. get'[h] = get[h] /\ UNCHANGED clock
      BY <1>1, <1>2, <2>2 DEF GetStep, Start, QueryNarrow, QueryWide, Judge, Store,
                              Finish, TypeOK
    <3> QED BY <3>1, WaitingStays
  <2> QED BY <2>1, <2>2
<1>3. CASE Restart
  <2>1. get'[h] = Idle
    BY <1>3 DEF Restart
  <2> QED BY <2>1 DEF Idle, SnapshotOK, AnswerOK
<1>4. CASE Tick
  BY <1>4, WaitingStays DEF Tick
<1>5. CASE Emit \/ Decide \/ PushedOut \/ (\E e \in Events : Ingest(e)) \/ UNCHANGED vars
  <2>1. get'[h] = get[h] /\ UNCHANGED clock
    BY <1>5 DEF Emit, Decide, PushedOut, Ingest, vars
  <2> QED BY <2>1, WaitingStays
<1> QED BY <1>2, <1>3, <1>4, <1>5 DEF Next

-----------------------------------------------------------------------------
(* The theorems                                                            *)

\* The invariant holds.
THEOREM Invariance == Spec => []IInv
<1>1. IInv /\ [Next]_vars => IInv'
  <2> SUFFICES ASSUME IInv, [Next]_vars PROVE IInv'
    OBVIOUS
  <2> QED BY TypeStep, RunStep, ObsStep, CacheStep, GetsStep DEF IInv
<1> QED BY <1>1, InitInvariant, PTL DEF Spec

\* Types.
THEOREM TypesHold == Spec => []TypeOK
<1>1. IInv => TypeOK
  BY DEF IInv
<1> QED BY <1>1, Invariance, PTL

\* A timeline that is called complete, or served from the cache as such, held still
\* for the grace period less a fetch (agent/main.py:1005).
THEOREM CompleteOnesHeldStill == Spec => []CompleteHeldStill
<1>1. IInv => CompleteHeldStill
  <2> SUFFICES ASSUME IInv, NEW events \in CompleteOnes
               PROVE  /\ HasFinal(events)
                      /\ \A e \in events, f \in MissedBy(events) :
                           since[f] - since[e] >= Grace - FetchTimeout
    BY DEF CompleteHeldStill
  <2>1. Held(events)
    BY DEF CompleteOnes, IInv, GetOK, AnswerOK, CacheOK
  <2> QED BY <2>1 DEF Held, Apart, Still
<1> QED BY <1>1, Invariance, PTL

\* An answer is the log at one moment, a cache period and a fetch ago at most
\* (agent/main.py:970, agent/trace_fetcher.py:246).
THEOREM AnswersAreWholeAndRecent == Spec => []AnswersAreMoments
<1>1. IInv => AnswersAreMoments
  <2> SUFFICES ASSUME IInv, NEW g \in Gets, get[g].pc = "sent"
               PROVE  /\ \A e \in get[g].got, f \in MissedBy(get[g].got) :
                           since[e] <= since[f]
                      /\ \A f \in MissedBy(get[g].got) :
                           since[f] >= clock - CacheTTL - FetchTimeout
    BY DEF AnswersAreMoments
  <2>1. /\ Past(get[g].got, 0) /\ Apart(get[g].got, 0)
        /\ Fresh(get[g].got, clock - CacheTTL - FetchTimeout)
    BY DEF IInv, GetOK, AnswerOK
  <2>2. \A e \in Visible : since[e] \in Int
    BY OneRun DEF IInv
  <2>3. get[g].got \subseteq Visible /\ MissedBy(get[g].got) \subseteq Visible
    BY <2>1 DEF Past, MissedBy, Visible
  <2> QED BY <2>1, <2>2, <2>3 DEF Apart, Fresh
<1> QED BY <1>1, Invariance, PTL

-----------------------------------------------------------------------------
(* The page: the inductive invariant                                       *)

CallSet == [lane : {"none", "backfill", "ensure"}, answered : BOOLEAN,
            fallback : {"loaded", "error"}, events : SUBSET RunEvents,
            complete : BOOLEAN]
TabSet == [rows : SUBSET [src : {"live", "log"}, of : RunEvents],
           stream : {"idle", "streaming", "complete", "error"},
           enrich : {"idle", "loading", "loaded", "error"},
           complete : BOOLEAN, owed : BOOLEAN, held : BOOLEAN, whole : SUBSET RunEvents]

PageShape ==
  /\ logged \in 0 .. Len(Script) /\ found \in Seq(RunEvents)
  /\ call \in [Calls -> CallSet] /\ tab \in TabSet

\* An event can be found once it is logged, and only once.
FoundOnce ==
  /\ \A i \in DOMAIN found : found[i] <= logged
  /\ \A i, j \in DOMAIN found : found[i] = found[j] => i = j

\* Every answer under way is the log at one moment.
OldMoments ==
  \A c \in Calls :
    /\ call[c].answered => call[c].lane # "none"
    /\ \E n \in 0 .. Len(found) : call[c].events = Moment(n)

FromLog(events) == {Row("log", e) : e \in events}
Sent(n) == {e \in 1 .. n : Script[e] # "mcp"}

\* A page that only asks shows one moment of the log, no older than the complete
\* answer it was given.
OnlyAsks ==
  tab.stream = "idle" =>
    /\ ~tab.owed /\ \A c \in Calls : call[c].lane # "backfill"
    /\ \E n \in 0 .. Len(found) : tab.rows = FromLog(Moment(n))
    /\ tab.whole \subseteq EventsOf(tab.rows)

\* A page that streams shows all that was sent, and has not asked.
Streams ==
  tab.stream = "streaming" =>
    /\ \A c \in Calls : call[c].lane = "none"
    /\ ~tab.owed /\ tab.enrich = "idle" /\ tab.whole = {}
    /\ tab.rows = {Row("live", e) : e \in Sent(logged)}

\* After a clean end no streamed event is missing or has a second row, and of what
\* is not streamed the complete answer's events are there.
Streamed ==
  tab.stream = "complete" =>
    /\ \A e \in RunEvents : Script[e] = "thought" => Row("live", e) \in tab.rows
    /\ \A r \in tab.rows : /\ Script[r.of] = "thought" => r.src = "live"
                           /\ Script[r.of] = "mcp" => r.src = "log"
    /\ \A e \in tab.whole : Script[e] = "mcp" => e \in EventsOf(tab.rows)

PageInv == PageShape /\ FoundOnce /\ OldMoments /\ OnlyAsks /\ Streams /\ Streamed

-----------------------------------------------------------------------------
(* Moments of the log                                                      *)

\* The events are numbered.
LEMMA RunIsNumbered ==
  /\ Len(Script) \in Nat /\ RunEvents = 1 .. Len(Script)
  /\ \A e \in RunEvents : Script[e] \in Kinds
BY TracePageAssumption DEF RunEvents

\* How many numbers there are.
LEMMA CountTo ==
  ASSUME NEW k \in Nat
  PROVE  IsFiniteSet(1 .. k) /\ Cardinality(1 .. k) = k
<1>1. Cardinality(1 .. k) = IF 1 > k THEN 0 ELSE k - 1 + 1
  BY FS_Interval
<1> QED BY <1>1, FS_Interval

\* No more can be found than was logged.
LEMMA FoundIsLogged ==
  ASSUME PageShape, FoundOnce
  PROVE  Len(found) <= logged
<1>1. /\ Len(found) \in Nat /\ DOMAIN found = 1 .. Len(found)
      /\ \A i \in DOMAIN found : found[i] \in RunEvents
      /\ logged \in Nat
  BY RunIsNumbered DEF PageShape
<1>2. \A i \in DOMAIN found : found[i] \in 1 .. logged
  BY <1>1, RunIsNumbered DEF FoundOnce
<1>3. found \in [1 .. Len(found) -> 1 .. logged]
  BY <1>1, <1>2 DEF PageShape
<1>4. found \in Injection(1 .. Len(found), 1 .. logged)
  BY <1>1, <1>3 DEF FoundOnce, Injection, IsInjective
<1>5. Cardinality(1 .. Len(found)) <= Cardinality(1 .. logged)
  BY <1>1, <1>4, CountTo, FS_Injection
<1> QED BY <1>1, <1>5, CountTo

\* Of two moments of the log one holds the other.
LEMMA MomentsNest ==
  ASSUME NEW m \in Nat, NEW n \in Nat
  PROVE  Moment(m) \subseteq Moment(n) \/ Moment(n) \subseteq Moment(m)
BY DEF Moment

\* What is in a moment is an event of the run.
LEMMA MomentsAreOfTheRun ==
  ASSUME PageShape, NEW n \in 0 .. Len(found)
  PROVE  Moment(n) \subseteq RunEvents
<1>1. /\ Len(found) \in Nat /\ DOMAIN found = 1 .. Len(found)
      /\ \A i \in DOMAIN found : found[i] \in RunEvents
  BY DEF PageShape
<1> QED BY <1>1 DEF Moment

\* The rows of a snapshot are finitely many.
LEMMA SnapshotsAreFinite ==
  ASSUME NEW events \in SUBSET RunEvents
  PROVE  IsFiniteSet(FromLog(events))
<1> DEFINE f == [e \in events |-> Row("log", e)]
<1>1. f \in Surjection(events, FromLog(events))
  BY DEF FromLog, Surjection
<1>2. IsFiniteSet(RunEvents)
  BY RunIsNumbered, CountTo
<1>3. IsFiniteSet(events)
  BY <1>2, FS_Subset
<1> QED BY <1>1, <1>3, FS_Surjection

\* A snapshot shows its events.
LEMMA EventsOfSnapshot ==
  ASSUME NEW events
  PROVE  EventsOf(FromLog(events)) = events
<1>1. ASSUME NEW e \in events PROVE e \in EventsOf(FromLog(events))
  <2>1. Row("log", e) \in FromLog(events) /\ Row("log", e).of = e
    BY DEF FromLog, Row
  <2> QED BY <2>1 DEF EventsOf
<1>2. ASSUME NEW e \in EventsOf(FromLog(events)) PROVE e \in events
  BY DEF EventsOf, FromLog, Row
<1> QED BY <1>1, <1>2

\* The longer of two snapshots holds both, so that choosing by length is enough
\* (traceCache.ts:108).
LEMMA LongerHoldsBoth ==
  ASSUME PageShape, NEW m \in 0 .. Len(found), NEW n \in 0 .. Len(found),
         NEW a, a = FromLog(Moment(m)), NEW b, b = FromLog(Moment(n)),
         NEW longer, longer = PreferLonger(a, b)
  PROVE  a \subseteq longer /\ b \subseteq longer /\ longer \in {a, b}
<1>1. IsFiniteSet(a) /\ IsFiniteSet(b)
  BY MomentsAreOfTheRun, SnapshotsAreFinite
<1>2. a \subseteq b \/ b \subseteq a
  <2>1. Moment(m) \subseteq Moment(n) \/ Moment(n) \subseteq Moment(m)
    BY MomentsNest DEF PageShape
  <2> QED BY <2>1 DEF FromLog
<1>3. Cardinality(a) \in Nat /\ Cardinality(b) \in Nat
  BY <1>1, FS_CardinalityType
<1>4. CASE a \subseteq b
  <2>1. Cardinality(b) >= Cardinality(a)
    BY <1>1, <1>3, <1>4, FS_Subset
  <2> QED BY <1>4, <2>1 DEF PreferLonger
<1>5. CASE b \subseteq a
  <2>1. Cardinality(b) <= Cardinality(a) /\ (Cardinality(a) = Cardinality(b) => a = b)
    BY <1>1, <1>5, FS_Subset
  <2> QED BY <1>3, <1>5, <2>1 DEF PreferLonger
<1> QED BY <1>2, <1>4, <1>5

-----------------------------------------------------------------------------
(* Steps                                                                   *)

\* Each step preserves the types.
LEMMA PageShapeStep == PageShape /\ [PageNext]_pageVars => PageShape'
<1> SUFFICES ASSUME PageShape, [PageNext]_pageVars PROVE PageShape'
  OBVIOUS
<1> USE RunIsNumbered
<1>1. NoRequest \in CallSet /\ Blank \in TabSet
  BY DEF NoRequest, Blank, CallSet, TabSet
<1>2. /\ logged \in 0 .. Len(Script) /\ found \in Seq(RunEvents)
      /\ call \in [Calls -> CallSet] /\ tab \in TabSet
  BY DEF PageShape
<1>3. \A src \in {"live", "log"}, e \in RunEvents :
        Row(src, e) \in [src : {"live", "log"}, of : RunEvents]
  BY DEF Row
<1>4. CASE LogAndStream
  <2>1. logged + 1 \in RunEvents /\ logged' = logged + 1
    BY <1>4 DEF LogAndStream
  <2> DEFINE rows == tab.rows \cup {Row("live", logged + 1)}
             sent == [tab EXCEPT !.rows = rows]
  <2>2. sent \in TabSet
    <3>1. Row("live", logged + 1) \in [src : {"live", "log"}, of : RunEvents]
      BY <1>3, <2>1
    <3>2. tab.rows \in SUBSET [src : {"live", "log"}, of : RunEvents]
      BY <1>2 DEF TabSet
    <3>3. rows \in SUBSET [src : {"live", "log"}, of : RunEvents]
      BY <3>1, <3>2
    <3> HIDE DEF rows
    <3> QED BY <1>2, <3>3 DEF TabSet
  <2>3. tab' \in {tab, sent}
    BY <1>4 DEF LogAndStream
  <2>4. tab' \in TabSet
    BY <1>2, <2>2, <2>3
  <2> QED BY <1>2, <1>4, <2>1, <2>4 DEF LogAndStream, PageShape
<1>5. CASE EndLive
  <2>1. tab' \in TabSet
    BY <1>2, <1>5 DEF EndLive, TabSet
  <2> QED BY <1>2, <1>5, <2>1 DEF EndLive, PageShape
<1>6. CASE Evict \/ Reload
  BY <1>1, <1>2, <1>6 DEF Evict, Reload, PageShape
<1>7. ASSUME NEW e \in RunEvents, Appear(e) PROVE PageShape'
  BY <1>2, <1>7 DEF Appear, PageShape
<1>8. ASSUME NEW c \in Calls, NEW lane \in {"backfill", "ensure"},
             NEW fallback \in {"loaded", "error"}, Ask(c, lane, fallback),
             tab' \in TabSet
      PROVE  PageShape'
  <2>1. [NoRequest EXCEPT !.lane = lane, !.fallback = fallback] \in CallSet
    BY <1>1 DEF CallSet
  <2> QED BY <1>2, <1>8, <2>1 DEF Ask, PageShape
<1>9. ASSUME NEW c \in Calls, Backfill(c) \/ Ensure(c) \/ Retry(c) PROVE PageShape'
  <2>1. tab' \in TabSet
    BY <1>2, <1>9 DEF Backfill, Ensure, Retry, TabSet
  <2> QED BY <1>8, <1>9, <2>1 DEF Backfill, Ensure, Retry
<1>10. ASSUME NEW c \in Calls, Answer(c) PROVE PageShape'
  <2>1. PICK n \in 0 .. Len(found), complete \in BOOLEAN :
          call' = [call EXCEPT ![c] = [call[c] EXCEPT
            !.answered = TRUE, !.events = Moment(n), !.complete = complete]]
    BY <1>10 DEF Answer
  <2>2. Moment(n) \in SUBSET RunEvents
    BY MomentsAreOfTheRun
  <2>3. [call[c] EXCEPT !.answered = TRUE, !.events = Moment(n),
                        !.complete = complete] \in CallSet
    BY <1>2, <2>2 DEF CallSet
  <2> QED BY <1>2, <1>10, <2>1, <2>3 DEF Answer, PageShape
<1>11. ASSUME NEW c \in Calls, Settle(c) PROVE PageShape'
  <2> DEFINE fetched == FromLog(call[c].events)
  <2>1. fetched \subseteq [src : {"live", "log"}, of : RunEvents]
    BY <1>2, <1>3 DEF FromLog, CallSet
  <2>2. PICK rows : /\ \/ rows = PreferLonger(tab.rows, fetched)
                       \/ rows = Reconcile(tab.rows, fetched)
                    /\ tab' = [tab EXCEPT !.rows = rows, !.enrich = "loaded",
                         !.complete = call[c].complete, !.held = TRUE,
                         !.whole = IF call[c].complete THEN call[c].events ELSE {}]
    BY <1>11 DEF Settle, FromLog
  <2>3. rows \subseteq [src : {"live", "log"}, of : RunEvents]
    BY <1>2, <2>1, <2>2 DEF PreferLonger, Reconcile, TabSet
  <2>4. tab' \in TabSet
    BY <1>2, <2>2, <2>3 DEF TabSet, CallSet
  <2> QED BY <1>1, <1>2, <1>11, <2>4 DEF Settle, PageShape
<1>12. ASSUME NEW c \in Calls, Fail(c) PROVE PageShape'
  <2>1. tab' \in TabSet
    BY <1>2, <1>12 DEF Fail, TabSet, CallSet
  <2> QED BY <1>1, <1>2, <1>12, <2>1 DEF Fail, PageShape
<1>13. CASE UNCHANGED pageVars
  BY <1>2, <1>13 DEF pageVars, PageShape
<1> QED BY <1>4, <1>5, <1>6, <1>7, <1>9, <1>10, <1>11, <1>12, <1>13 DEF PageNext

\* An event is found once, after it was logged.
LEMMA FoundOnceStep == PageShape /\ FoundOnce /\ [PageNext]_pageVars => FoundOnce'
<1> SUFFICES ASSUME PageShape, FoundOnce, [PageNext]_pageVars PROVE FoundOnce'
  OBVIOUS
<1>1. /\ logged \in Nat /\ found \in Seq(RunEvents)
      /\ Len(found) \in Nat /\ DOMAIN found = 1 .. Len(found)
      /\ \A i \in DOMAIN found : found[i] \in Nat
  BY RunIsNumbered DEF PageShape
<1>2. CASE LogAndStream
  BY <1>1, <1>2 DEF LogAndStream, FoundOnce
<1>3. ASSUME NEW e \in RunEvents, Appear(e) PROVE FoundOnce'
  <2>1. /\ found' = Append(found, e) /\ logged' = logged
        /\ e \in 1 .. logged /\ \A i \in DOMAIN found : found[i] # e
    BY <1>3 DEF Appear
  <2>2. /\ DOMAIN found' = 1 .. Len(found) + 1
        /\ \A i \in DOMAIN found' : found'[i] = IF i \in DOMAIN found THEN found[i] ELSE e
    BY <1>1, <2>1
  <2> QED BY <1>1, <2>1, <2>2 DEF FoundOnce
<1>4. CASE UNCHANGED <<logged, found>>
  BY <1>4 DEF FoundOnce
<1> QED BY <1>2, <1>3, <1>4 DEF PageNext, pageVars, EndLive, Evict, Reload, Backfill,
          Ensure, Retry, Ask, Answer, Settle, Fail

\* What was once a moment of the log stays one.
LEMMA MomentsStay ==
  ASSUME PageShape, [PageNext]_pageVars, NEW n \in 0 .. Len(found)
  PROVE  n \in 0 .. Len(found)' /\ Moment(n)' = Moment(n)
<1>1. found \in Seq(RunEvents) /\ Len(found) \in Nat
  BY DEF PageShape
<1>2. CASE \E e \in RunEvents : Appear(e)
  <2>1. PICK e \in RunEvents : found' = Append(found, e)
    BY <1>2 DEF Appear
  <2>2. Len(found') = Len(found) + 1 /\ \A i \in 1 .. n : found'[i] = found[i]
    BY <1>1, <2>1
  <2> QED BY <1>1, <2>2 DEF Moment
<1>3. CASE UNCHANGED found
  BY <1>3 DEF Moment
<1> QED BY <1>2, <1>3 DEF PageNext, pageVars, LogAndStream, EndLive, Evict, Reload,
          Backfill, Ensure, Retry, Ask, Answer, Settle, Fail

\* A slot is free again once its answer is settled or has failed.
LEMMA Returned ==
  ASSUME PageShape, Reload \/ \E d \in Calls : Settle(d) \/ Fail(d), NEW c \in Calls
  PROVE  call'[c] \in {NoRequest, call[c]}
<1>1. call \in [Calls -> CallSet]
  BY DEF PageShape
<1>2. CASE Reload
  BY <1>2 DEF Reload
<1>3. CASE \E d \in Calls : Settle(d) \/ Fail(d)
  <2>1. PICK d \in Calls : call' = [call EXCEPT ![d] = NoRequest]
    BY <1>3 DEF Settle, Fail
  <2> QED BY <1>1, <2>1
<1> QED BY <1>2, <1>3

\* Every answer still is a moment of the log.
LEMMA OldMomentsStep == PageShape /\ OldMoments /\ [PageNext]_pageVars => OldMoments'
<1> SUFFICES ASSUME PageShape, OldMoments, [PageNext]_pageVars, NEW c \in Calls
             PROVE  (/\ call[c].answered => call[c].lane # "none"
                     /\ \E n \in 0 .. Len(found) : call[c].events = Moment(n))'
  BY DEF OldMoments
<1>1. call \in [Calls -> CallSet]
  BY DEF PageShape
<1>2. CASE call'[c].events = {} /\ ~call'[c].answered
  <2>1. Moment(0)' = {} /\ Moment(0) = {}
    BY DEF Moment
  <2>2. 0 \in 0 .. Len(found)'
    BY PageShapeStep DEF PageShape
  <2> QED BY <1>2, <2>1, <2>2
<1>3. CASE /\ call'[c].lane # "none"
           /\ \E n \in 0 .. Len(found) : call'[c].events = Moment(n)
  BY <1>3, MomentsStay
<1>4. CASE call'[c] = call[c]
  BY <1>4, MomentsStay DEF OldMoments
<1>5. ASSUME NEW d \in Calls, NEW lane, NEW fallback, Ask(d, lane, fallback)
      PROVE  (call'[c].events = {} /\ ~call'[c].answered) \/ call'[c] = call[c]
  BY <1>1, <1>5 DEF Ask, NoRequest
<1>6. ASSUME NEW d \in Calls, Answer(d)
      PROVE  \/ call'[c] = call[c]
             \/ /\ call'[c].lane # "none"
                /\ \E n \in 0 .. Len(found) : call'[c].events = Moment(n)
  <2>1. PICK n \in 0 .. Len(found), complete \in BOOLEAN :
          call' = [call EXCEPT ![d] = [call[d] EXCEPT
            !.answered = TRUE, !.events = Moment(n), !.complete = complete]]
    BY <1>6 DEF Answer
  <2>2. /\ call'[d].events = Moment(n) /\ call'[d].lane = call[d].lane
        /\ c # d => call'[c] = call[c]
    BY <1>1, <2>1 DEF CallSet
  <2> QED BY <1>6, <2>2 DEF Answer
<1>7. ASSUME Reload \/ \E d \in Calls : Settle(d) \/ Fail(d)
      PROVE  (call'[c].events = {} /\ ~call'[c].answered) \/ call'[c] = call[c]
  <2>1. call'[c] \in {NoRequest, call[c]}
    BY <1>7, Returned
  <2> QED BY <2>1 DEF NoRequest
<1>8. CASE UNCHANGED call
  BY <1>4, <1>8
<1> QED BY <1>2, <1>3, <1>4, <1>5, <1>6, <1>7, <1>8 DEF PageNext, pageVars, LogAndStream,
          EndLive, Evict, Appear, Backfill, Ensure, Retry

-----------------------------------------------------------------------------
(* What each step does to the page                                         *)

\* The rows Settle leaves.
SettledRows(c) ==
  IF call[c].lane = "ensure" /\ tab.stream = "idle"
  THEN PreferLonger(tab.rows, FromLog(call[c].events))
  ELSE Reconcile(tab.rows, FromLog(call[c].events))

\* A settled answer changes the rows and the complete answer only.
LEMMA Settled ==
  ASSUME PageShape, NEW c \in Calls, Settle(c)
  PROVE  /\ tab'.rows = SettledRows(c)
         /\ tab'.stream = tab.stream /\ tab'.owed = tab.owed
         /\ tab'.whole = IF call[c].complete THEN call[c].events ELSE {}
<1>1. tab \in TabSet
  BY DEF PageShape
<1> QED BY <1>1 DEF Settle, SettledRows, FromLog, TabSet

\* Requests, answers and failures leave the rows and the complete answer alone.
LEMMA RowsUntouched ==
  ASSUME PageShape, [PageNext]_pageVars
  PROVE  \/ LogAndStream \/ EndLive \/ Evict \/ Reload
         \/ \E c \in Calls : Settle(c)
         \/ /\ tab'.rows = tab.rows /\ tab'.stream = tab.stream
            /\ tab'.whole = tab.whole /\ (tab'.owed => tab.owed)
<1>1. tab \in TabSet
  BY DEF PageShape
<1>2. CASE \E e \in RunEvents : Appear(e)
  BY <1>2 DEF Appear
<1>3. CASE \E c \in Calls : Backfill(c) \/ Ensure(c) \/ Retry(c)
  BY <1>1, <1>3 DEF Backfill, Ensure, Retry, Ask, TabSet
<1>4. CASE \E c \in Calls : Answer(c)
  BY <1>4 DEF Answer
<1>5. CASE \E c \in Calls : Fail(c)
  BY <1>1, <1>5 DEF Fail, TabSet
<1>6. CASE UNCHANGED pageVars
  BY <1>6 DEF pageVars
<1> QED BY <1>2, <1>3, <1>4, <1>5, <1>6 DEF PageNext

\* Backfills are asked for only while one is owed.
LEMMA OwedFirst ==
  ASSUME PageShape, [PageNext]_pageVars, NEW c \in Calls,
         call'[c].lane = "backfill", call[c].lane # "backfill"
  PROVE  tab.owed
<1>1. call \in [Calls -> CallSet]
  BY DEF PageShape
<1>2. ASSUME NEW d \in Calls, NEW fallback, Ask(d, "ensure", fallback) PROVE FALSE
  BY <1>1, <1>2 DEF Ask, NoRequest
<1>3. CASE \E d \in Calls : Ensure(d) \/ Retry(d)
  BY <1>2, <1>3 DEF Ensure, Retry
<1>4. CASE \E d \in Calls : Backfill(d)
  BY <1>4 DEF Backfill
<1>5. ASSUME NEW d \in Calls, Answer(d) PROVE FALSE
  <2>1. PICK n \in 0 .. Len(found), complete \in BOOLEAN :
          call' = [call EXCEPT ![d] = [call[d] EXCEPT
            !.answered = TRUE, !.events = Moment(n), !.complete = complete]]
    BY <1>5 DEF Answer
  <2> QED BY <1>1, <2>1 DEF CallSet
<1>6. CASE Reload \/ \E d \in Calls : Settle(d) \/ Fail(d)
  <2>1. call'[c] \in {NoRequest, call[c]}
    BY <1>6, Returned
  <2> QED BY <2>1 DEF NoRequest
<1>7. CASE UNCHANGED call
  BY <1>7
<1> QED BY <1>3, <1>4, <1>5, <1>6, <1>7 DEF PageNext, pageVars, LogAndStream, EndLive,
          Evict, Appear

\* An answer to a page that only asks.
LEMMA SettledByLength ==
  ASSUME PageShape, OldMoments, OnlyAsks, tab.stream = "idle", NEW c \in Calls, Settle(c)
  PROVE  /\ SettledRows(c) \in {tab.rows, FromLog(call[c].events)}
         /\ tab.rows \subseteq SettledRows(c)
         /\ FromLog(call[c].events) \subseteq SettledRows(c)
<1>1. call[c].lane = "ensure" /\ call \in [Calls -> CallSet]
  <2>1. call[c] \in CallSet /\ call[c].answered
    BY DEF PageShape, Settle
  <2>2. call[c].lane # "none" /\ call[c].lane # "backfill"
    BY <2>1 DEF OldMoments, OnlyAsks
  <2> QED BY <2>1, <2>2 DEF CallSet, PageShape
<1>2. SettledRows(c) = PreferLonger(tab.rows, FromLog(call[c].events))
  BY <1>1 DEF SettledRows
<1>3. PICK m \in 0 .. Len(found) : tab.rows = FromLog(Moment(m))
  BY DEF OnlyAsks
<1>4. PICK n \in 0 .. Len(found) : call[c].events = Moment(n)
  BY DEF OldMoments
<1> QED BY <1>2, <1>3, <1>4, LongerHoldsBoth

\* A page that only asks still shows one moment.
LEMMA OnlyAsksStep ==
  PageShape /\ OldMoments /\ OnlyAsks /\ [PageNext]_pageVars => OnlyAsks'
<1> SUFFICES ASSUME PageShape, OldMoments, OnlyAsks, [PageNext]_pageVars,
                    tab'.stream = "idle"
             PROVE  /\ ~tab'.owed /\ \A c \in Calls : call'[c].lane # "backfill"
                    /\ \E n \in 0 .. Len(found)' : tab'.rows = FromLog(Moment(n)')
                    /\ tab'.whole \subseteq EventsOf(tab'.rows)
  BY DEF OnlyAsks, FromLog, Row, EventsOf
<1>1. tab \in TabSet
  BY DEF PageShape
<1>2. CASE Evict \/ Reload
  <2>1. /\ tab' = Blank /\ \A c \in Calls : call'[c].lane # "backfill"
    BY <1>2 DEF Evict, Reload, NoRequest
  <2>2. 0 \in 0 .. Len(found)' /\ FromLog(Moment(0)') = {}
    BY PageShapeStep DEF PageShape, Moment, FromLog
  <2> QED BY <2>1, <2>2 DEF Blank
<1>3. CASE EndLive
  BY <1>1, <1>3 DEF EndLive, TabSet
<1>4. ASSUME tab'.stream = tab.stream, tab'.owed => tab.owed, ~tab.owed,
             \/ tab'.rows = tab.rows
             \/ \E n \in 0 .. Len(found) : tab'.rows = FromLog(Moment(n)),
             tab'.whole \subseteq EventsOf(tab'.rows)
      PROVE  /\ ~tab'.owed /\ \A c \in Calls : call'[c].lane # "backfill"
             /\ \E n \in 0 .. Len(found)' : tab'.rows = FromLog(Moment(n)')
             /\ tab'.whole \subseteq EventsOf(tab'.rows)
  <2>1. PICK n \in 0 .. Len(found) : tab'.rows = FromLog(Moment(n))
    BY <1>4 DEF OnlyAsks
  <2>2. n \in 0 .. Len(found)' /\ Moment(n)' = Moment(n)
    BY MomentsStay
  <2>3. \A c \in Calls : call'[c].lane # "backfill"
    BY <1>4, OwedFirst DEF OnlyAsks
  <2> QED BY <1>4, <2>1, <2>2, <2>3
<1>5. CASE LogAndStream
  <2>1. tab' = tab
    BY <1>1, <1>5 DEF LogAndStream, TabSet
  <2> QED BY <1>4, <2>1 DEF OnlyAsks
<1>6. ASSUME NEW c \in Calls, Settle(c)
      PROVE  /\ ~tab'.owed /\ \A d \in Calls : call'[d].lane # "backfill"
             /\ \E n \in 0 .. Len(found)' : tab'.rows = FromLog(Moment(n)')
             /\ tab'.whole \subseteq EventsOf(tab'.rows)
  <2>1. tab.stream = "idle" /\ ~tab.owed /\ tab'.rows = SettledRows(c)
    BY <1>6, Settled DEF OnlyAsks
  <2>2. /\ SettledRows(c) \in {tab.rows, FromLog(call[c].events)}
        /\ FromLog(call[c].events) \subseteq SettledRows(c)
    BY <1>6, <2>1, SettledByLength
  <2>3. tab'.whole \subseteq EventsOf(tab'.rows)
    <3>1. tab'.whole \subseteq call[c].events
      BY <1>6, Settled
    <3>2. EventsOf(FromLog(call[c].events)) = call[c].events
      BY EventsOfSnapshot
    <3> QED BY <2>1, <2>2, <3>1, <3>2 DEF EventsOf
  <2>4. \E n \in 0 .. Len(found) : call[c].events = Moment(n)
    BY DEF OldMoments
  <2> QED BY <1>4, <1>6, <2>1, <2>2, <2>3, <2>4, Settled
<1>7. CASE /\ tab'.rows = tab.rows /\ tab'.stream = tab.stream
           /\ tab'.whole = tab.whole /\ (tab'.owed => tab.owed)
  <2>1. tab.stream = "idle"
    BY <1>7
  <2>2. ~tab.owed /\ tab.whole \subseteq EventsOf(tab.rows)
    BY <2>1 DEF OnlyAsks
  <2>3. tab'.whole \subseteq EventsOf(tab'.rows)
    BY <1>7, <2>2
  <2> QED BY <1>4, <1>7, <2>2, <2>3
<1> QED BY <1>2, <1>3, <1>5, <1>6, <1>7, RowsUntouched

\* A page that streams still shows all that was sent.
LEMMA StreamsStep ==
  PageShape /\ OldMoments /\ Streams /\ [PageNext]_pageVars => Streams'
<1> SUFFICES ASSUME PageShape, OldMoments, Streams, [PageNext]_pageVars,
                    tab'.stream = "streaming"
             PROVE  /\ \A c \in Calls : call'[c].lane = "none"
                    /\ ~tab'.owed /\ tab'.enrich = "idle" /\ tab'.whole = {}
                    /\ tab'.rows = {Row("live", e) : e \in Sent(logged')}
  BY DEF Streams, Row, Sent
<1>1. /\ tab \in TabSet /\ call \in [Calls -> CallSet]
      /\ logged \in Nat /\ logged <= Len(Script)
  BY RunIsNumbered DEF PageShape
<1>2. CASE Evict \/ Reload \/ EndLive
  <2>1. CASE Evict \/ Reload
    <3>1. tab'.stream = "idle"
      BY <2>1 DEF Evict, Reload, Blank
    <3> QED BY <3>1
  <2>2. CASE EndLive
    <3>1. tab'.stream \in {"complete", "error"}
      BY <1>1, <2>2 DEF EndLive, TabSet
    <3> QED BY <3>1
  <2> QED BY <1>2, <2>1, <2>2
<1>3. CASE LogAndStream
  <2>1. /\ tab.stream = "streaming" /\ call' = call /\ logged' = logged + 1
        /\ tab'.owed = tab.owed /\ tab'.enrich = tab.enrich /\ tab'.whole = tab.whole
        /\ tab'.rows = IF Script[logged + 1] # "mcp"
                       THEN tab.rows \cup {Row("live", logged + 1)} ELSE tab.rows
    BY <1>1, <1>3 DEF LogAndStream, TabSet
  <2>2. Sent(logged + 1) = IF Script[logged + 1] # "mcp"
                           THEN Sent(logged) \cup {logged + 1} ELSE Sent(logged)
    <3>1. 1 .. logged + 1 = (1 .. logged) \cup {logged + 1}
      BY <1>1
    <3> QED BY <3>1 DEF Sent
  <2>3. tab.rows = {Row("live", e) : e \in Sent(logged)}
    BY <2>1 DEF Streams
  <2>4. tab'.rows = {Row("live", e) : e \in Sent(logged + 1)}
    <3>1. CASE Script[logged + 1] # "mcp"
      BY <2>1, <2>2, <2>3, <3>1
    <3>2. CASE Script[logged + 1] = "mcp"
      BY <2>1, <2>2, <2>3, <3>2
    <3> QED BY <3>1, <3>2
  <2> QED BY <2>1, <2>4 DEF Streams
<1>4. CASE tab.stream = "streaming" /\ ~LogAndStream
  <2>1. ~tab.owed /\ \A c \in Calls : call[c].lane = "none" /\ ~call[c].answered
    BY <1>4 DEF Streams, OldMoments
  <2>2. /\ ~\E c \in Calls : Backfill(c) \/ Ensure(c) \/ Retry(c)
        /\ ~\E c \in Calls : Answer(c) \/ Settle(c) \/ Fail(c)
    BY <1>4, <2>1 DEF Backfill, Ensure, Retry, Answer, Settle, Fail
  <2>3. CASE \E e \in RunEvents : Appear(e)
    BY <1>4, <2>3 DEF Appear, Streams
  <2>4. CASE UNCHANGED pageVars
    BY <1>4, <2>4 DEF pageVars, Streams
  <2> QED BY <1>2, <1>4, <2>2, <2>3, <2>4 DEF PageNext
<1>5. CASE tab.stream # "streaming" /\ ~(Evict \/ Reload \/ EndLive \/ LogAndStream)
  BY <1>5, RowsUntouched, Settled
<1> QED BY <1>2, <1>3, <1>4, <1>5

\* Only MCP calls join the rows of a run with a thought, which a clean stream has
\* shown (timeline.ts:135).
LEMMA Reconciled ==
  ASSUME PageShape, Streamed, tab.stream = "complete", NEW events \in SUBSET RunEvents,
         NEW rows, rows = Reconcile(tab.rows, FromLog(events))
  PROVE  /\ \A e \in RunEvents : Script[e] = "thought" => Row("live", e) \in rows
         /\ \A r \in rows : /\ Script[r.of] = "thought" => r.src = "live"
                            /\ Script[r.of] = "mcp" => r.src = "log"
         /\ \A e \in events : Script[e] = "mcp" => e \in EventsOf(rows)
<1>1. \A e \in events : Row("log", e) \in FromLog(events)
  BY DEF FromLog
<1>2. \A r \in FromLog(events) : r.src = "log" /\ r.of \in events
  BY DEF FromLog, Row
<1>3. \A e \in events : e \in EventsOf(FromLog(events))
  BY EventsOfSnapshot
<1>4. \A e \in RunEvents : Script[e] = "thought" => Row("live", e) \in tab.rows
  BY DEF Streamed
<1>5. \A r \in tab.rows : /\ Script[r.of] = "thought" => r.src = "live"
                          /\ Script[r.of] = "mcp" => r.src = "log"
  BY DEF Streamed
<1>6. CASE FromLog(events) = {}
  BY <1>1, <1>4, <1>5, <1>6 DEF Reconcile
<1>7. CASE FromLog(events) # {} /\ Displayed(tab.rows) = {}
  <2>1. \A e \in RunEvents : Script[e] # "thought"
    <3>1. \A e \in RunEvents : Script[e] = "thought" =>
            Row("live", e) \in Displayed(tab.rows)
      BY <1>4 DEF Displayed, Row
    <3> QED BY <1>7, <3>1
  <2>2. rows = FromLog(events)
    BY <1>7 DEF Reconcile
  <2> QED BY <1>2, <1>3, <2>1, <2>2
<1>8. CASE FromLog(events) # {} /\ Displayed(tab.rows) # {}
  <2>1. rows = tab.rows \cup {r \in FromLog(events) : Script[r.of] = "mcp"}
    BY <1>8 DEF Reconcile
  <2>2. \A e \in events : Script[e] = "mcp" =>
          Row("log", e) \in rows /\ Row("log", e).of = e
    BY <1>1, <2>1 DEF Row
  <2>3. \A e \in events : Script[e] = "mcp" => e \in EventsOf(rows)
    BY <2>2 DEF EventsOf
  <2>4. \A r \in rows : /\ Script[r.of] = "thought" => r.src = "live"
                        /\ Script[r.of] = "mcp" => r.src = "log"
    BY <1>2, <1>5, <2>1
  <2> QED BY <1>4, <2>1, <2>3, <2>4
<1> QED BY <1>6, <1>7, <1>8

\* After a clean end no streamed event is lost or doubled.
LEMMA StreamedStep ==
  PageShape /\ Streams /\ Streamed /\ [PageNext]_pageVars => Streamed'
<1> SUFFICES ASSUME PageShape, Streams, Streamed, [PageNext]_pageVars,
                    tab'.stream = "complete"
             PROVE  /\ \A e \in RunEvents : Script[e] = "thought" =>
                                              Row("live", e) \in tab'.rows
                    /\ \A r \in tab'.rows : /\ Script[r.of] = "thought" => r.src = "live"
                                            /\ Script[r.of] = "mcp" => r.src = "log"
                    /\ \A e \in tab'.whole : Script[e] = "mcp" =>
                                              e \in EventsOf(tab'.rows)
  BY DEF Streamed, Row, EventsOf, RunEvents
<1>1. /\ tab \in TabSet /\ call \in [Calls -> CallSet]
      /\ logged \in Nat /\ logged <= Len(Script)
  BY RunIsNumbered DEF PageShape
<1>2. CASE Evict \/ Reload
  BY <1>2 DEF Evict, Reload, Blank
<1>3. CASE LogAndStream
  BY <1>1, <1>3 DEF LogAndStream, Streamed, TabSet
<1>4. CASE EndLive
  <2>1. tab'.rows = tab.rows /\ tab'.whole = tab.whole /\ logged = Len(Script)
    BY <1>1, <1>4 DEF EndLive, TabSet
  <2>2. tab.rows = {Row("live", e) : e \in Sent(Len(Script))}
    BY <1>4, <2>1 DEF Streams, EndLive
  <2>3. tab.whole = {}
    BY <1>4 DEF Streams, EndLive
  <2>4. \A e \in RunEvents : Script[e] = "thought" => e \in Sent(Len(Script))
    BY RunIsNumbered DEF Sent
  <2>5. \A r \in tab.rows : r.src = "live" /\ Script[r.of] # "mcp"
    BY <2>2 DEF Row, Sent
  <2> QED BY <2>1, <2>2, <2>3, <2>4, <2>5
<1>5. ASSUME NEW c \in Calls, Settle(c)
      PROVE  /\ \A e \in RunEvents : Script[e] = "thought" => Row("live", e) \in tab'.rows
             /\ \A r \in tab'.rows : /\ Script[r.of] = "thought" => r.src = "live"
                                     /\ Script[r.of] = "mcp" => r.src = "log"
             /\ \A e \in tab'.whole : Script[e] = "mcp" => e \in EventsOf(tab'.rows)
  <2>1. /\ tab.stream = "complete" /\ tab'.whole \subseteq call[c].events
        /\ tab'.rows = Reconcile(tab.rows, FromLog(call[c].events))
    BY <1>5, Settled DEF SettledRows
  <2>2. call[c].events \in SUBSET RunEvents
    BY <1>1 DEF CallSet
  <2> QED BY <2>1, <2>2, Reconciled
<1>6. CASE tab'.rows = tab.rows /\ tab'.stream = tab.stream /\ tab'.whole = tab.whole
  BY <1>6 DEF Streamed
<1> QED BY <1>2, <1>3, <1>4, <1>5, <1>6, RowsUntouched

\* In the initial states nothing was logged, asked for or shown.
LEMMA PageStarts == PageInit => PageInv
<1> SUFFICES ASSUME PageInit PROVE PageInv
  OBVIOUS
<1>1. PageShape
  <2>1. NoRequest \in CallSet /\ Blank \in TabSet
    BY DEF NoRequest, Blank, CallSet, TabSet
  <2>2. [Blank EXCEPT !.stream = "streaming"] \in TabSet
    BY <2>1 DEF TabSet
  <2> QED BY <2>1, <2>2, RunIsNumbered DEF PageInit, PageShape
<1>2. FoundOnce
  BY DEF PageInit, FoundOnce
<1>3. Moment(0) = {} /\ Len(found) = 0 /\ \A c \in Calls : call[c] = NoRequest
  BY DEF Moment, PageInit
<1>4. OldMoments
  <2>1. 0 \in 0 .. Len(found)
    BY <1>3
  <2>2. NoRequest.events = Moment(0) /\ ~NoRequest.answered
    BY <1>3 DEF NoRequest
  <2> QED BY <1>3, <2>1, <2>2 DEF OldMoments
<1>5. OnlyAsks
  <2>1. tab.stream = "idle" => tab = Blank
    BY DEF PageInit, Blank
  <2>2. FromLog(Moment(0)) = {}
    BY <1>3 DEF FromLog
  <2>3. 0 \in 0 .. Len(found)
    BY <1>3
  <2>4. \A c \in Calls : call[c].lane # "backfill"
    BY <1>3 DEF NoRequest
  <2>5. tab.stream = "idle" =>
          ~tab.owed /\ tab.rows = FromLog(Moment(0)) /\ tab.whole = {}
    BY <2>1, <2>2 DEF Blank
  <2> QED BY <2>3, <2>4, <2>5 DEF OnlyAsks
<1>6. Streams
  <2>1. tab.stream = "streaming" => tab = [Blank EXCEPT !.stream = "streaming"]
    BY DEF PageInit, Blank
  <2>2. Sent(logged) = {}
    BY DEF PageInit, Sent
  <2> QED BY <1>3, <2>1, <2>2 DEF Streams, Blank, NoRequest
<1>7. Streamed
  BY DEF PageInit, Blank, Streamed
<1> QED BY <1>1, <1>2, <1>4, <1>5, <1>6, <1>7 DEF PageInv

\* The invariant of the page holds.
THEOREM PageInvariance == PageSpec => []PageInv
<1>1. PageInv /\ [PageNext]_pageVars => PageInv'
  <2> SUFFICES ASSUME PageInv, [PageNext]_pageVars PROVE PageInv'
    OBVIOUS
  <2> QED BY PageShapeStep, FoundOnceStep, OldMomentsStep, OnlyAsksStep, StreamsStep,
             StreamedStep DEF PageInv
<1> QED BY <1>1, PageStarts, PTL DEF PageSpec

\* The entry, its requests and the log have their types, and no more events can be
\* found than were logged (traceCache.ts:96, adk_agent.py:1485).
THEOREM PageTypeCorrect == PageSpec => []PageTypeOK
<1>1. PageInv => PageTypeOK
  BY FoundIsLogged DEF PageInv, PageShape, PageTypeOK, CallSet, TabSet
<1> QED BY <1>1, PageInvariance, PTL

\* No answer takes a row off the page, in whatever order the backfill, the disclosures
\* and the retries settle (traceCache.ts:108, timeline.ts:135).
THEOREM RowsNeverLeave == PageSpec => RowsStay
<1> DEFINE Kept == EventsOf(Displayed(tab.rows)) \subseteq EventsOf(tab'.rows)
<1>1. PageInv /\ [PageNext]_pageVars => [Reload \/ Evict \/ Kept]_pageVars
  <2> SUFFICES ASSUME PageInv, [PageNext]_pageVars, ~Reload, ~Evict
               PROVE  Kept
    OBVIOUS
  <2>1. tab \in TabSet
    BY DEF PageInv, PageShape
  <2>2. CASE tab.rows \subseteq tab'.rows
    BY <2>2 DEF EventsOf, Displayed
  <2>3. CASE LogAndStream \/ EndLive
    <3>1. tab.rows \subseteq tab'.rows
      BY <2>1, <2>3 DEF LogAndStream, EndLive, TabSet
    <3> QED BY <2>2, <3>1
  <2>4. ASSUME NEW c \in Calls, Settle(c) PROVE Kept
    <3>1. tab'.rows = SettledRows(c)
      BY <2>4, Settled DEF PageInv
    <3>2. CASE tab.stream = "idle"
      BY <2>2, <2>4, <3>1, <3>2, SettledByLength DEF PageInv
    <3>3. CASE tab.stream # "idle"
      <4>1. tab'.rows = Reconcile(tab.rows, FromLog(call[c].events))
        BY <3>1, <3>3 DEF SettledRows
      <4>2. tab.rows \subseteq tab'.rows \/ Displayed(tab.rows) = {}
        BY <4>1 DEF Reconcile
      <4> QED BY <2>2, <4>2 DEF EventsOf
    <3> QED BY <3>2, <3>3
  <2> QED BY <2>2, <2>3, <2>4, RowsUntouched DEF PageInv
<1> QED BY <1>1, PageInvariance, PTL DEF PageSpec, RowsStay

\* When a page whose stream did not break stops asking it shows every event of the
\* complete answer, and once: a call of the MCP server from the log, a streamed one
\* from the stream, and all of them from the log where nothing was streamed
\* (timeline.ts:155).
THEOREM PinnedPagesAreWhole == PageSpec => []PinnedIsWhole
<1>1. PageInv => PinnedIsWhole
  <2> SUFFICES ASSUME PageInv, tab.stream # "error",
                      NEW e \in tab.whole, Script[e] # "final"
               PROVE  Cardinality({r \in tab.rows : r.of = e}) = 1
    BY DEF PinnedIsWhole
  <2>1. /\ tab \in TabSet /\ e \in RunEvents /\ Script[e] \in {"thought", "mcp"}
        /\ tab.rows \subseteq [src : {"live", "log"}, of : RunEvents]
    BY RunIsNumbered DEF PageInv, PageShape, TabSet, Kinds
  <2>2. \A r \in tab.rows : r = Row(r.src, r.of) /\ r.src \in {"live", "log"}
    BY <2>1 DEF Row
  <2>3. \E src : {r \in tab.rows : r.of = e} = {Row(src, e)}
    <3>1. CASE tab.stream = "idle"
      <4>1. PICK events : tab.rows = FromLog(events)
        BY <3>1 DEF PageInv, OnlyAsks
      <4>2. e \in events
        BY <3>1, <4>1, EventsOfSnapshot DEF PageInv, OnlyAsks
      <4>3. {r \in tab.rows : r.of = e} = {Row("log", e)}
        BY <4>1, <4>2 DEF FromLog, Row
      <4> QED BY <4>3
    <3>2. CASE tab.stream = "streaming"
      BY <3>2 DEF PageInv, Streams
    <3>3. CASE tab.stream = "complete" /\ Script[e] = "thought"
      <4>1. Row("live", e) \in tab.rows
        BY <2>1, <3>3 DEF PageInv, Streamed
      <4>2. \A r \in tab.rows : r.of = e => r.src = "live"
        BY <3>3 DEF PageInv, Streamed
      <4>3. {r \in tab.rows : r.of = e} = {Row("live", e)}
        BY <2>2, <4>1, <4>2 DEF Row
      <4> QED BY <4>3
    <3>4. CASE tab.stream = "complete" /\ Script[e] = "mcp"
      <4>1. PICK r \in tab.rows : r.of = e
        BY <3>4 DEF PageInv, Streamed, EventsOf
      <4>2. \A s \in tab.rows : s.of = e => s.src = "log"
        BY <3>4 DEF PageInv, Streamed
      <4>3. {s \in tab.rows : s.of = e} = {Row("log", e)}
        BY <2>2, <4>1, <4>2 DEF Row
      <4> QED BY <4>3
    <3> QED BY <2>1, <3>1, <3>2, <3>3, <3>4 DEF TabSet
  <2> QED BY <2>3, FS_Singleton
<1> QED BY <1>1, PageInvariance, PTL

=============================================================================
