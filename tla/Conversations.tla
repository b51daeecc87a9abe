--------------------------- MODULE Conversations ---------------------------
(***************************************************************************)
(* One conversation of the chat surface: POST /chat and POST               *)
(* /chat/handoff of agent/main.py over the conversation document of        *)
(* agent/state_store.py.  A conversation is bound to one crew; a crew may  *)
(* offer to hand it to another one, and the operator redeems the offer by  *)
(* its nonce.  A turn holds the run lease of the conversation, or runs     *)
(* without one: the lease is not taken when the store fails, and it can be *)
(* outlived.                                                               *)
(*                                                                         *)
(* Each store call is a transaction, hence one step.  From the look at the *)
(* conversation to the claim of its lease a request awaits nothing, and    *)
(* the deployment is one instance (cloudbuild.yaml: max-instances 1), so   *)
(* nothing but a redemption, which is off the event loop, comes between.   *)
(***************************************************************************)
EXTENDS Naturals, Sequences, FiniteSetsExt

CONSTANTS Crews,
          Requests,   \* requests in progress at once (cloudbuild: concurrency)
          MaxOffers,  \* bound: nonces minted
          MaxTurns,   \* bound: rows of the transcript
          MaxFaults,  \* bound: deaths, and store calls that raise
          None

ASSUME NoneAssumption == None \notin Crews \cup Requests \cup Nat
\* The transcript of a conversation that is already there is two rows long.
ASSUME BoundAssumption == /\ MaxOffers \in Nat /\ MaxFaults \in Nat
                          /\ MaxTurns \in Nat /\ MaxTurns >= 2

VARIABLES
  conv,       \* the conversation document
  turns,      \* its transcript
  req,        \* req[r]: request r, see Request
  minted,     \* the number of nonces minted so far: nonce n is the n-th one
  issued,     \* the nonces that were sent to a client
  recorded,   \* history: the nonces an offer was committed with
  retired,    \* history: the nonces redeemed, declined, answered, superseded
  faults      \* the number of deaths, and of store calls that raised

history == <<recorded, retired>>
vars == <<conv, turns, req, minted, issued, history, faults>>

-----------------------------------------------------------------------------
(* The document                                                            *)

Offer == [nonce : 0 .. MaxOffers, from : Crews \cup {None},
          to : Crews \cup {None}, fresh : BOOLEAN]
NoOffer == [nonce |-> 0, from |-> None, to |-> None, fresh |-> FALSE]

\* The run ids of requests in progress are their slots; Gone is the id of a
\* run that nobody will release any more.
Gone == "gone"
ASSUME GoneAssumption == Gone \notin Requests \cup {None}
Lease == [run : Requests \cup {Gone, None}, fresh : BOOLEAN]
NoLease == [run |-> None, fresh |-> FALSE]

\* Documents written before handoffs have no crews and no userTurns.
Conversation == [exists : BOOLEAN, workload : Crews \cup {None},
                 crews : SUBSET Crews, userTurns : Nat \cup {None},
                 pending : Offer, lease : Lease]
NoConversation == [exists |-> FALSE, workload |-> None, crews |-> {},
                   userTurns |-> None, pending |-> NoOffer, lease |-> NoLease]

\* held is history: whether the run that wrote the row had a lease and had
\* neither outlived it nor given it up.
Row == [role : {"user", "crew", "crew_change", "handoff_declined"},
        crew : Crews, held : BOOLEAN]

\* conversation_crews and conversation_user_turns.
CrewsOf(c) == IF c.crews = {} THEN {c.workload} ELSE c.crews
UserTurnsOf(c) == IF c.userTurns = None THEN (Len(turns) + 1) \div 2
                  ELSE c.userTurns

\* _lease_is_free.
IsFree(lease) == lease.run = None \/ ~lease.fresh
Held(r) == conv.lease.run = r

-----------------------------------------------------------------------------
(* Requests                                                                *)

Steps == {"idle", "acquire", "join", "run", "persist", "late", "release"}

\* A turn: whether the operator typed it, whether it starts the conversation,
\* the crew captured at entry, the offer that was open then, what the crew
\* offers, whether it knows the id of a lease, and, as history, whether it
\* took one that has not expired since.
Request == [step : Steps, typed : BOOLEAN, isNew : BOOLEAN,
            crew : Crews \cup {None}, saw : 0 .. MaxOffers,
            offers : Crews \cup {None}, leased : BOOLEAN,
            timely : BOOLEAN]
NoRequest == [step |-> "idle", typed |-> FALSE, isNew |-> FALSE, crew |-> None,
              saw |-> 0, offers |-> None, leased |-> FALSE, timely |-> FALSE]

Becomes(r, x) == req' = [req EXCEPT ![r] = x]
Goto(r, s) == Becomes(r, [req[r] EXCEPT !.step = s])
Ends(r) == Becomes(r, NoRequest)
Leaves(r) == Becomes(r, [NoRequest EXCEPT !.step = "release", !.leased = req[r].leased])

Fault == faults < MaxFaults /\ faults' = faults + 1

\* Nothing else runs on the event loop between the look and the claim.
LoopFree(r) == \A x \in Requests \ {r} : req[x].step # "acquire"

\* _resolve_chat_conversation, for a new conversation and for this one: the
\* crew must be the bound one.
Arrive(r, c) ==
  /\ req[r].step = "idle"
  /\ LoopFree(r)
  /\ \/ /\ conv.exists
        /\ conv.workload = c
        /\ Becomes(r, [NoRequest EXCEPT !.step = "acquire", !.typed = TRUE,
                          !.crew = c, !.saw = conv.pending.nonce])
     \/ /\ ~conv.exists
        /\ \A x \in Requests : ~req[x].isNew
        /\ Becomes(r, [NoRequest EXCEPT !.step = "acquire", !.typed = TRUE,
                          !.crew = c, !.isNew = TRUE])
  /\ UNCHANGED <<conv, turns, minted, issued, history, faults>>

\* _acquire_chat_run and begin_chat_run: taken, refused (409), or the store
\* raises, with the lease taken all the same or not, and the turn runs on.
Acquire(r) ==
  LET Takes(id) == conv' = [conv EXCEPT !.lease = [run |-> id, fresh |-> TRUE]]
      Runs(known) == Becomes(r, [req[r] EXCEPT !.step = "run", !.leased = known,
                                    !.timely = known /\ conv.exists])
  IN /\ req[r].step = "acquire"
     /\ \/ /\ ~conv.exists
           /\ Runs(TRUE)
           /\ UNCHANGED <<conv, faults>>
        \/ /\ conv.exists /\ IsFree(conv.lease)
           /\ \/ Takes(r) /\ Runs(TRUE) /\ UNCHANGED faults
              \/ Takes(Gone) /\ Runs(FALSE) /\ Fault
        \/ /\ conv.exists /\ ~IsFree(conv.lease)
           /\ Ends(r)
           /\ UNCHANGED <<conv, faults>>
        \/ Runs(FALSE) /\ Fault /\ UNCHANGED conv
     /\ UNCHANGED <<turns, minted, issued, history>>

\* The agent's turn: a reply, with an offer to another crew or without.
Answer(r) ==
  /\ req[r].step = "run"
  /\ LoopFree(r)
  /\ \E to \in (Crews \ {req[r].crew}) \cup {None} :
       Becomes(r, [req[r] EXCEPT !.step = "persist", !.offers = to])
  /\ UNCHANGED <<conv, turns, minted, issued, history, faults>>

\* Mutant: an error before the joining turn does not release.
FailForgets(r) ==
  /\ req[r].step \in {"join", "run"}
  /\ LoopFree(r)
  /\ conv' = IF Held(r) THEN [conv EXCEPT !.lease.run = Gone] ELSE conv
  /\ Ends(r)
  /\ UNCHANGED <<turns, minted, issued, history, faults>>

\* An error of the turn, or of what comes before a joining turn, or a client
\* that goes away: the lease is released on the way out.
Fail(r) ==
  /\ req[r].step \in {"join", "run"}
  /\ LoopFree(r)
  /\ Leaves(r)
  /\ UNCHANGED <<conv, turns, minted, issued, history, faults>>

-----------------------------------------------------------------------------
(* append_turns                                                            *)

\* Mutants: the proposal is fenced by the crew alone, or by its digest alone.
MayTouchByCrew(r) == conv.workload = req[r].crew
MayTouchByDigest(r) == conv.pending.nonce = req[r].saw

\* _may_touch_pending_handoff.
MayTouch(r) == /\ conv.workload = req[r].crew
               /\ conv.pending.nonce = req[r].saw

\* What becomes of the proposal: superseded, answered, or left alone.
PendingAfter(r) ==
  IF req[r].offers # None /\ (~conv.exists \/ MayTouch(r))
  THEN [nonce |-> minted + 1, from |-> req[r].crew, to |-> req[r].offers,
        fresh |-> TRUE]
  ELSE IF req[r].typed /\ conv.exists /\ MayTouch(r) THEN NoOffer
  ELSE conv.pending

Rows(r) ==
  LET row(role) == [role |-> role, crew |-> req[r].crew, held |-> req[r].timely]
  IN IF req[r].typed THEN <<row("user"), row("crew")>> ELSE <<row("crew")>>

Counted(r) == (IF conv.exists THEN UserTurnsOf(conv) ELSE 0)
              + (IF req[r].typed THEN 1 ELSE 0)

\* The transaction: rows, counters and the proposal at once.  A run that saw
\* the open offer and was typed, or makes one itself, settles it.
Appends(r) ==
  /\ Len(turns) + Len(Rows(r)) <= MaxTurns
  /\ turns' = turns \o Rows(r)
  /\ conv' = [conv EXCEPT
       !.exists = TRUE,
       !.workload = IF conv.exists THEN @ ELSE req[r].crew,
       !.crews = IF conv.exists THEN @ ELSE {req[r].crew},
       !.userTurns = Counted(r),
       !.pending = PendingAfter(r)]
  /\ recorded' = IF req[r].offers # None /\ conv'.pending.nonce = minted + 1
                 THEN recorded \cup {minted + 1} ELSE recorded
  /\ retired' = IF req[r].saw # 0 /\ (req[r].typed \/ req[r].offers # None)
                THEN retired \cup {req[r].saw} ELSE retired

\* _mint_handoff_for_turn mints before the commit.
Mints(r) == /\ req[r].offers # None => minted < MaxOffers
            /\ minted' = IF req[r].offers # None THEN minted + 1 ELSE minted

\* _persist_chat_turn, fail-soft: on success the client learns the nonce,
\* whether or not the store took the offer.
Persist(r) ==
  /\ req[r].step = "persist"
  /\ Mints(r)
  /\ \/ /\ Appends(r)
        /\ \/ /\ issued' = IF req[r].offers # None THEN issued \cup {minted + 1}
                           ELSE issued
              /\ UNCHANGED faults
           \/ Fault /\ UNCHANGED issued
     \/ Fault /\ UNCHANGED <<conv, turns, issued, history>>
  /\ Leaves(r)

\* Mutant: a release that does not look whose lease it is.
FreedBlind(r) == IF req[r].leased THEN [conv EXCEPT !.lease = NoLease] ELSE conv

\* finish_chat_run, for a run that knows an id: only the holder's is freed.
Freed(r) == IF req[r].leased /\ Held(r) THEN [conv EXCEPT !.lease = NoLease]
            ELSE conv

\* The client of a stream goes away during the write: the generator's finally
\* releases the lease, and the thread that writes goes on.
Disconnect(r) ==
  /\ req[r].step = "persist"
  /\ LoopFree(r)
  /\ conv' = Freed(r)
  /\ Becomes(r, [req[r] EXCEPT !.step = "late", !.leased = FALSE,
                    !.timely = FALSE])
  /\ UNCHANGED <<turns, minted, issued, history, faults>>

PersistLate(r) ==
  /\ req[r].step = "late"
  /\ Mints(r)
  /\ \/ Appends(r) /\ UNCHANGED faults
     \/ Fault /\ UNCHANGED <<conv, turns, history>>
  /\ Ends(r)
  /\ UNCHANGED issued

\* A run that is over and did not release leaves a lease for the TTL.
Abandons(r) ==
  /\ conv' = IF Held(r) THEN [conv EXCEPT !.lease.run = Gone] ELSE conv
  /\ Fault

\* _release_chat_run: a store error is swallowed.
Release(r) ==
  /\ req[r].step = "release"
  /\ LoopFree(r)
  /\ \/ conv' = Freed(r) /\ UNCHANGED faults
     \/ Abandons(r)
  /\ Ends(r)
  /\ UNCHANGED <<turns, minted, issued, history>>

\* The container dies, or the response stream is dropped before it started.
Crash(r) ==
  /\ req[r].step # "idle"
  /\ Abandons(r)
  /\ Ends(r)
  /\ UNCHANGED <<turns, minted, issued, history>>

-----------------------------------------------------------------------------
(* chat_handoff                                                            *)

\* Mutant: a redemption does not wait for the turn in flight.
RedeemableBusy(n) == /\ conv.exists
                     /\ n # 0 /\ conv.pending.nonce = n
                     /\ conv.pending.fresh
                     /\ conv.pending.from = conv.workload

\* _evaluate_handoff_redemption.
Redeemable(n) == /\ conv.exists
                 /\ n # 0 /\ conv.pending.nonce = n
                 /\ conv.pending.fresh
                 /\ conv.pending.from = conv.workload
                 /\ IsFree(conv.lease)

\* _with_crew, of the document before the flip.
Joined(to) == CrewsOf(conv) \cup {to}

\* The counter is pinned although the row is not the operator's.
Pinned == UserTurnsOf(conv)

\* redeem_handoff: burn, flip, reserve and record in one transaction.  When
\* the store raises after the commit, nobody runs the joining turn.
Redeem(r, n, accept, ok) ==
  LET to == conv.pending.to IN
  /\ req[r].step = "idle"
  /\ n \in issued /\ Redeemable(n)
  /\ Len(turns) < MaxTurns
  /\ turns' = Append(turns,
       [role |-> IF accept THEN "crew_change" ELSE "handoff_declined",
        crew |-> IF accept THEN to ELSE conv.pending.from, held |-> FALSE])
  /\ conv' = IF accept
       THEN [conv EXCEPT !.pending = NoOffer, !.userTurns = Pinned,
               !.workload = to, !.crews = Joined(to),
               !.lease = [run |-> IF ok THEN r ELSE Gone, fresh |-> TRUE]]
       ELSE [conv EXCEPT !.pending = NoOffer, !.userTurns = Pinned]
  /\ retired' = retired \cup {n}
  /\ IF accept /\ ok
     THEN Becomes(r, [NoRequest EXCEPT !.step = "join", !.crew = to,
                             !.leased = TRUE, !.timely = TRUE])
     ELSE UNCHANGED req
  /\ IF ok THEN UNCHANGED faults ELSE Fault
  /\ UNCHANGED <<minted, issued, recorded>>

\* The joining crew's turn begins: it answers no open offer.
Join(r) ==
  /\ req[r].step = "join"
  /\ LoopFree(r)
  /\ Goto(r, "run")
  /\ UNCHANGED <<conv, turns, minted, issued, history, faults>>

-----------------------------------------------------------------------------
(* Time.  Two store calls in a row do not take a lease's 330 seconds.      *)

OfferExpires ==
  /\ conv.pending.fresh
  /\ conv' = [conv EXCEPT !.pending.fresh = FALSE]
  /\ UNCHANGED <<turns, req, minted, issued, history, faults>>

LeaseExpires ==
  /\ conv.lease.fresh
  /\ \A r \in Requests : req[r].step # "acquire"
  /\ conv' = [conv EXCEPT !.lease.fresh = FALSE]
  /\ req' = [r \in Requests |-> IF Held(r) THEN [req[r] EXCEPT !.timely = FALSE]
                               ELSE req[r]]
  /\ UNCHANGED <<turns, minted, issued, history, faults>>

-----------------------------------------------------------------------------
\* No conversation yet, or one of a single exchange from before handoffs.
Legacy(c) == [NoConversation EXCEPT !.exists = TRUE, !.workload = c]

Init ==
  /\ \/ conv = NoConversation /\ turns = <<>>
     \/ \E c \in Crews :
          /\ conv = Legacy(c)
          /\ turns = <<[role |-> "user", crew |-> c, held |-> FALSE],
                       [role |-> "crew", crew |-> c, held |-> FALSE]>>
  /\ req = [r \in Requests |-> NoRequest]
  /\ minted = 0
  /\ issued = {} /\ recorded = {} /\ retired = {}
  /\ faults = 0

Next ==
  \/ \E r \in Requests :
       \/ \E c \in Crews : Arrive(r, c)
       \/ \E n \in issued, accept, ok \in BOOLEAN : Redeem(r, n, accept, ok)
       \/ Acquire(r) \/ Answer(r) \/ Fail(r) \/ Persist(r) \/ Disconnect(r)
       \/ PersistLate(r) \/ Release(r) \/ Join(r) \/ Crash(r)
  \/ OfferExpires \/ LeaseExpires

Spec == Init /\ [][Next]_vars

-----------------------------------------------------------------------------
(* Properties                                                              *)

TypeOK ==
  /\ conv \in Conversation
  /\ turns \in Seq(Row) /\ Len(turns) <= MaxTurns
  /\ req \in [Requests -> Request]
  /\ minted \in 0 .. MaxOffers
  /\ issued \subseteq 1 .. minted
  /\ recorded \subseteq 1 .. minted
  /\ retired \subseteq 1 .. minted
  /\ faults \in 0 .. MaxFaults

\* The crew the transcript says was bound when row i was written.
BoundAt(i) ==
  LET changes == {j \in 1 .. (i - 1) : turns[j].role = "crew_change"}
  IN IF changes = {} THEN turns[1].crew ELSE turns[Max(changes)].crew

\* A turn whose lease had not run out when it was written is attributed to
\* the crew that was bound (state_store.py 224-229): redemptions wait for it.
Attributed ==
  \A i \in DOMAIN turns : turns[i].role = "crew" /\ turns[i].held
                            => turns[i].crew = BoundAt(i)

\* The bound crew is the one the transcript moved the conversation to, and
\* everybody who was bound is remembered, in documents without crews too.
CrewsRemembered ==
  conv.exists =>
    /\ conv.workload = BoundAt(Len(turns) + 1)
    /\ CrewsOf(conv) = {turns[1].crew} \cup
         {turns[i].crew : i \in {j \in DOMAIN turns : turns[j].role = "crew_change"}}

\* An open offer starts at the bound crew: no writer that was overtaken by a
\* redemption leaves an offer that could only ever be refused.
OfferIsCurrent == conv.pending.nonce # 0 => conv.pending.from = conv.workload

\* An offer stays open until it is redeemed or declined, or a turn that began
\* with it open answers or supersedes it; then it is dead for good.  A stale
\* run, even back under the same crew, neither retires nor revives a chip.
OfferStandsUntilAnswered ==
  \A n \in recorded : conv.pending.nonce = n <=> n \notin retired

\* A lease nobody holds any more is left only by a death, a failed release
\* or a lost answer of the store: no error path drops it.
LeaseHasRun ==
  /\ conv.lease.run = Gone => faults > 0
  /\ \A r \in Requests : Held(r) => req[r].step # "idle" /\ req[r].leased

\* A run loses a lease that has not expired only by a step of its own: a late
\* finish of an older run does not free it, and nobody takes it.
LeaseIsOwn == [][\A r \in Requests :
  Held(r) /\ conv.lease.fresh /\ conv'.lease.run # r => req'[r] # req[r]]_vars

\* What the docstring of _persist_chat_turn says: no client is handed a nonce
\* of a proposal that did not commit.
NonceWasRecorded == issued \subseteq recorded
=============================================================================
