------------------------------- MODULE TracePage -------------------------------
(***************************************************************************)
(* The browser's record of one trace (frontend/src/lib/traceCache.ts): it  *)
(* joins the events of the stream with the answers of GET /trace/{id},     *)
(* which three callers ask for without waiting for each other -- the       *)
(* backfill after the stream, a disclosure that is opened and the retry    *)
(* button.                                                                 *)
(*                                                                         *)
(* Of the server only this is used: an answer is the log as it stood at    *)
(* one moment, possibly an old one (Timeline!AnswersAreMoments), and one   *)
(* that is called complete holds the end of the run.                       *)
(***************************************************************************)
EXTENDS Integers, Sequences, FiniteSets

CONSTANTS Script,   \* the kinds of the events of the run, in order
          Calls     \* slots of GET /trace/{id}

\* thought stands for every kind that is streamed and has a row: thoughts, usage,
\* tool calls and results.
Kinds == {"thought", "mcp", "final"}

ASSUME TracePageAssumption == Script \in Seq(Kinds)

VARIABLES
  logged,    \* how many events the run has logged
  found,     \* the events that can be found, in the order they could be
  call,      \* call[c]: a request and its answer
  tab        \* the entry of this trace

pageVars == <<logged, found, call, tab>>

RunEvents == DOMAIN Script

NoRequest == [lane |-> "none", answered |-> FALSE, fallback |-> "error",
              events |-> {}, complete |-> FALSE]

\* rows: what is on the page, from which source; stream and enrich: the two
\* axes; owed: the backfill after the stream is still to be asked for; held: an
\* answer was loaded since the entry was made or retried; whole: the events of the
\* answer that was called complete.
Blank == [rows |-> {}, stream |-> "idle", enrich |-> "idle", complete |-> FALSE,
          owed |-> FALSE, held |-> FALSE, whole |-> {}]

Row(src, e) == [src |-> src, of |-> e]
EventsOf(rows) == {r.of : r \in rows}

-----------------------------------------------------------------------------
(* The run, the log and the server.                                        *)

\* An event is logged and, but for a call of the MCP server, streamed.
LogAndStream ==
  LET e == logged + 1
  IN /\ e \in RunEvents
     /\ logged' = e
     /\ tab' = IF tab.stream = "streaming" /\ Script[e] # "mcp"
               THEN [tab EXCEPT !.rows = @ \cup {Row("live", e)}] ELSE tab
     /\ UNCHANGED <<found, call>>

Appear(e) ==
  /\ e \in 1 .. logged /\ \A i \in DOMAIN found : found[i] # e
  /\ found' = Append(found, e)
  /\ UNCHANGED <<logged, call, tab>>

\* The log as it stood when so many events could be found.
Moment(n) == {found[i] : i \in 1 .. n}

HoldsFinal(events) == \E e \in events : Script[e] = "final"

Answer(c) ==
  /\ call[c].lane # "none" /\ ~call[c].answered
  /\ \E n \in 0 .. Len(found), complete \in BOOLEAN :
       /\ complete => HoldsFinal(Moment(n))
       /\ call' = [call EXCEPT ![c] = [@ EXCEPT
            !.answered = TRUE, !.events = Moment(n), !.complete = complete]]
  /\ UNCHANGED <<logged, found, tab>>

-----------------------------------------------------------------------------
(* Asking.                                                                 *)

\* What a failure leaves behind is captured before the state is overwritten.
Ask(c, lane, fallback) ==
  /\ call[c].lane = "none"
  /\ call' = [call EXCEPT ![c] =
                [NoRequest EXCEPT !.lane = lane, !.fallback = fallback]]
  /\ UNCHANGED <<logged, found>>

\* endLive: a clean end needs the last frame, which follows the last event.
EndLive ==
  /\ tab.stream = "streaming"
  /\ \E end \in {"complete", "error"} :
       /\ end = "complete" => logged = Len(Script)
       /\ tab' = [tab EXCEPT !.stream = end, !.owed = TRUE]
  /\ UNCHANGED <<logged, found, call>>

\* backfillTrace: once, after the stream.
Backfill(c) ==
  /\ tab.owed
  /\ tab' = [tab EXCEPT !.owed = FALSE]
  /\ Ask(c, "backfill", "error")

\* ensure: a disclosure is opened.
Ensure(c) ==
  /\ tab.stream # "streaming"
  /\ tab.enrich \in {"idle", "error"} \/ (tab.enrich = "loaded" /\ ~tab.complete)
  /\ tab' = [tab EXCEPT !.enrich = "loading"]
  /\ Ask(c, "ensure", IF tab.enrich = "loaded" THEN "loaded" ELSE "error")

\* retry: the entry is idle before it is ensured.
Retry(c) ==
  /\ tab.stream # "streaming"
  /\ tab' = [tab EXCEPT !.enrich = "loading", !.held = FALSE]
  /\ Ask(c, "ensure", "error")

-----------------------------------------------------------------------------
(* Settling.                                                               *)

\* The rows of a group; final_response has none.
Displayed(rows) == {r \in rows : Script[r.of] # "final"}

\* Mutant: a timeline on the page gains nothing.
ReconcileNone(rows, fetched) == IF Displayed(rows) = {} THEN fetched ELSE rows

\* reconcileBackfill: a timeline on the page gains the calls of the MCP server
\* only; where there is nothing to protect the snapshot is trusted.
Reconcile(rows, fetched) ==
  IF fetched = {} THEN rows
  ELSE IF Displayed(rows) = {} THEN fetched
  ELSE rows \cup {r \in fetched : Script[r.of] = "mcp"}

\* Mutant: the newest snapshot wins.
PreferLatest(rows, fetched) == fetched

PreferLonger(rows, fetched) ==
  IF Cardinality(fetched) >= Cardinality(rows) THEN fetched ELSE rows

\* Both settle alike but for an entry that was never streamed: settleBackfill
\* and the good end of fetchTrace.
Settle(c) ==
  LET answer == call[c]
      fetched == {Row("log", e) : e \in answer.events}
      rows == IF answer.lane = "ensure" /\ tab.stream = "idle"
              THEN PreferLonger(tab.rows, fetched)
              ELSE Reconcile(tab.rows, fetched)
  IN /\ answer.answered
     /\ tab' = [tab EXCEPT
          !.rows = rows, !.enrich = "loaded", !.complete = answer.complete,
          !.held = TRUE, !.whole = IF answer.complete THEN answer.events ELSE {}]
     /\ call' = [call EXCEPT ![c] = NoRequest]
     /\ UNCHANGED <<logged, found>>

\* failEnrich; a backfill that failed says nothing.
Fail(c) ==
  /\ call[c].lane # "none"
  /\ tab' = IF call[c].lane = "ensure" /\ tab.enrich # "loaded"
            THEN [tab EXCEPT !.enrich = call[c].fallback] ELSE tab
  /\ call' = [call EXCEPT ![c] = NoRequest]
  /\ UNCHANGED <<logged, found>>

-----------------------------------------------------------------------------
\* evict: thirty newer entries push this one out; its requests go on.  Bound: not
\* within the seconds of the backfill.
Evict ==
  /\ tab.stream # "streaming" /\ ~tab.owed
  /\ \A c \in Calls : call[c].lane # "backfill"
  /\ tab' = Blank
  /\ UNCHANGED <<logged, found, call>>

Reload ==
  /\ tab' = Blank
  /\ call' = [c \in Calls |-> NoRequest]
  /\ UNCHANGED <<logged, found>>

PageInit ==
  /\ logged = 0 /\ found = <<>>
  /\ call = [c \in Calls |-> NoRequest]
  /\ tab \in {Blank, [Blank EXCEPT !.stream = "streaming"]}

PageNext ==
  \/ LogAndStream \/ EndLive \/ Evict \/ Reload
  \/ \E e \in RunEvents : Appear(e)
  \/ \E c \in Calls : \/ Backfill(c) \/ Ensure(c) \/ Retry(c)
                      \/ Answer(c) \/ Settle(c) \/ Fail(c)

PageSpec == PageInit /\ [][PageNext]_pageVars

-----------------------------------------------------------------------------
(* Properties.                                                             *)

PageTypeOK ==
  /\ logged \in 0 .. Len(Script)
  /\ found \in Seq(RunEvents) /\ Len(found) <= logged
  /\ call \in [Calls -> [lane : {"none", "backfill", "ensure"}, answered : BOOLEAN,
                         fallback : {"loaded", "error"}, events : SUBSET RunEvents,
                         complete : BOOLEAN]]
  /\ tab \in [rows : SUBSET [src : {"live", "log"}, of : RunEvents],
              stream : {"idle", "streaming", "complete", "error"},
              enrich : {"idle", "loading", "loaded", "error"},
              complete : BOOLEAN, owed : BOOLEAN, held : BOOLEAN, whole : SUBSET RunEvents]

\* No answer takes a row off the page, however the backfill and the
\* operator's own requests overtake each other: the length is enough to choose
\* between two snapshots because one of them holds the other (traceCache.ts:113).
RowsStay ==
  [][\/ Reload \/ Evict
     \/ EventsOf(Displayed(tab.rows)) \subseteq EventsOf(tab'.rows)]_pageVars

\* When the page stops asking it shows every event of the complete answer, and once,
\* although a streamed event has another identity in the log; unless the stream
\* broke (timeline.ts:155 and PinnedAfterBreak).
PinnedIsWhole ==
  tab.enrich = "loaded" /\ tab.complete /\ tab.stream # "error" =>
    \A e \in tab.whole :
      Script[e] # "final" => Cardinality({r \in tab.rows : r.of = e}) = 1

\* traceCache.ts:208: a failed request reports its failure "never over the top of a
\* successful one".  Does not hold (TracePageError): a request that was overtaken
\* by the backfill fails while the refresh that followed is under way.
NeverOverSuccess == tab.enrich = "error" => ~tab.held

\* timeline.ts:166: where the stream brought nothing there is "nothing to protect",
\* and traceCache.ts:49: a snapshot that was too early is looked at again.  Does not
\* hold (TracePageBroken): the first answer's own rows are protected from the next.
PinnedAfterBreak ==
  tab.enrich = "loaded" /\ tab.complete /\ (\A r \in tab.rows : r.src = "log") =>
    \A e \in tab.whole : Script[e] # "final" => e \in EventsOf(tab.rows)

=============================================================================
