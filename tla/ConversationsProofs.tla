------------------------ MODULE ConversationsProofs ------------------------
(***************************************************************************)
(* What holds of a conversation for any crews, number of requests, offers, *)
(* failures and leases that run out.  The inductive invariant says which   *)
(* documents there are (Shape), what a request in progress knows of the    *)
(* one it looked at (Control), and the properties themselves.              *)
(***************************************************************************)
EXTENDS Conversations, TLAPS

\* Before the first turn there is nothing; an open offer has both its crews.
Shape ==
  /\ IF conv.exists THEN conv.workload \in Crews /\ turns # <<>>
     ELSE conv = NoConversation /\ turns = <<>>
  /\ IF conv.pending.nonce = 0 THEN conv.pending = NoOffer
     ELSE conv.pending.from \in Crews /\ conv.pending.to \in Crews

\* A request past the look knows its crew, and the conversation is there or
\* is its own to start; only an answer offers; who looks, or was cut off,
\* knows no lease.
InOrder(q, exists) ==
  /\ q.step = "idle" => q = NoRequest
  /\ q.step \notin {"idle", "release"} => q.crew \in Crews /\ (exists \/ q.isNew)
  /\ q.offers # None => q.step \in {"persist", "late"}
  /\ q.step \in {"acquire", "late"} => ~q.leased
  /\ q.isNew => ~exists

\* Every request is in order, and one at most starts the conversation.
Control ==
  \A r \in Requests :
    /\ InOrder(req[r], conv.exists)
    /\ req[r].isNew => \A x \in Requests : req[x].isNew => x = r

\* The offer a request saw is a recorded one, and while it is open the crew
\* that was bound then still is.
Sight ==
  /\ conv.pending.nonce # 0 => conv.pending.nonce \in recorded
  /\ \A r \in Requests : req[r].saw # 0 =>
       /\ req[r].saw \in recorded
       /\ conv.exists
       /\ req[r].step \notin {"idle", "release"}
       /\ conv.pending.nonce = req[r].saw => conv.workload = req[r].crew

IInv == /\ TypeOK /\ Shape /\ Control /\ Sight
        /\ OfferIsCurrent /\ OfferStandsUntilAnswered /\ LeaseHasRun

\* A step of one request, or of time.
Acts(r) == \/ \E c \in Crews : Arrive(r, c)
           \/ \E n \in issued, accept, ok \in BOOLEAN : Redeem(r, n, accept, ok)
           \/ Acquire(r) \/ Answer(r) \/ Fail(r) \/ Persist(r) \/ Disconnect(r)
           \/ PersistLate(r) \/ Release(r) \/ Join(r) \/ Crash(r)

-----------------------------------------------------------------------------
(* Types                                                                   *)

\* The rows of a turn are rows, one or two.
LEMMA RowsType ==
  ASSUME TypeOK, NEW r \in Requests, req[r].crew \in Crews
  PROVE  Rows(r) \in Seq(Row) /\ Len(Rows(r)) \in 1 .. 2
  <1> DEFINE row(role) == [role |-> role, crew |-> req[r].crew, held |-> req[r].timely]
  <1>1. row("user") \in Row /\ row("crew") \in Row
    BY DEF TypeOK, Row, Request
  <1> HIDE DEF row
  <1>2. CASE req[r].typed
    <2>1. Rows(r) = <<row("user"), row("crew")>>
      BY <1>2 DEF Rows, row
    <2> QED BY <1>1, <2>1
  <1>3. CASE ~req[r].typed
    <2>1. Rows(r) = <<row("crew")>>
      BY <1>3 DEF Rows, row
    <2> QED BY <1>1, <2>1
  <1> QED BY <1>2, <1>3

\* The count of prompts is a number.
LEMMA CountType ==
  ASSUME TypeOK
  PROVE  /\ UserTurnsOf(conv) \in Nat
         /\ \A r \in Requests : Counted(r) \in Nat
  <1>1. Len(turns) \in Nat
    BY DEF TypeOK
  <1>2. (Len(turns) + 1) \div 2 \in Nat
    BY <1>1
  <1>3. UserTurnsOf(conv) \in Nat
    BY <1>2 DEF TypeOK, UserTurnsOf, Conversation
  <1> QED BY <1>3 DEF Counted

\* What every record of the model is made of.
LEMMA Records ==
  /\ NoOffer \in Offer
  /\ NoLease \in Lease
  /\ NoConversation \in Conversation
  /\ NoRequest \in Request
  <1>1. NoOffer \in Offer
    BY BoundAssumption DEF NoOffer, Offer
  <1>2. NoLease \in Lease
    BY DEF NoLease, Lease
  <1>3. NoConversation \in Conversation
    BY <1>1, <1>2 DEF NoConversation, Conversation
  <1>4. NoRequest \in Request
    BY BoundAssumption DEF NoRequest, Request, Steps
  <1> QED BY <1>1, <1>2, <1>3, <1>4

\* What a run writes is a conversation and a transcript, and what it settles
\* was minted.
LEMMA AppendsType ==
  ASSUME TypeOK, Shape, Sight, NEW r \in Requests, req[r].crew \in Crews,
         Mints(r), Appends(r)
  PROVE  /\ conv' \in Conversation
         /\ turns' \in Seq(Row) /\ Len(turns') <= MaxTurns
         /\ minted' \in 0 .. MaxOffers /\ minted <= minted'
         /\ recorded' \subseteq 1 .. minted'
         /\ retired' \subseteq 1 .. minted'
  <1>1. turns' \in Seq(Row) /\ Len(turns') <= MaxTurns
    <2>1. Rows(r) \in Seq(Row)
      BY RowsType
    <2>2. turns \in Seq(Row)
      BY DEF TypeOK
    <2>3. turns' = turns \o Rows(r)
      BY DEF Appends
    <2>4. turns' \in Seq(Row) /\ Len(turns') = Len(turns) + Len(Rows(r))
      BY <2>1, <2>2, <2>3
    <2> QED BY <2>4 DEF Appends
  <1>2. minted' \in 0 .. MaxOffers /\ minted <= minted'
    BY BoundAssumption DEF TypeOK, Mints
  <1>3. PendingAfter(r) \in Offer
    <2>1. CASE req[r].offers # None /\ (~conv.exists \/ MayTouch(r))
      <3>1. minted + 1 \in 0 .. MaxOffers
        BY <2>1, BoundAssumption DEF TypeOK, Mints
      <3>2. req[r].offers \in Crews
        BY <2>1 DEF TypeOK, Request
      <3> QED BY <2>1, <3>1, <3>2 DEF PendingAfter, Offer
    <2>2. CASE ~(req[r].offers # None /\ (~conv.exists \/ MayTouch(r)))
      <3>1. conv.pending \in Offer /\ NoOffer \in Offer
        BY Records DEF TypeOK, Conversation
      <3> QED BY <2>2, <3>1 DEF PendingAfter
    <2> QED BY <2>1, <2>2
  <1>4. Counted(r) \in Nat
    BY CountType
  <1>5. conv' \in Conversation
    BY <1>3, <1>4 DEF Appends, TypeOK, Conversation
  <1>6. recorded' \subseteq 1 .. minted'
    BY <1>2 DEF Appends, TypeOK, Mints
  <1>7. retired' \subseteq 1 .. minted'
    BY <1>2 DEF Appends, TypeOK, Sight
  <1> QED BY <1>1, <1>2, <1>5, <1>6, <1>7

\* A request that becomes another one.
LEMMA BecomesType ==
  ASSUME TypeOK, NEW r \in Requests, NEW x \in Request, Becomes(r, x)
  PROVE  req' \in [Requests -> Request]
  BY DEF TypeOK, Becomes

\* Every step keeps the types.
LEMMA TypeStep ==
  ASSUME TypeOK, Shape, Control, Sight, [Next]_vars
  PROVE  TypeOK'
  <1> USE Records DEF history
  <1>0. CASE UNCHANGED vars
    BY <1>0 DEF vars, history, TypeOK
  <1>1. ASSUME NEW r \in Requests, NEW c \in Crews, Arrive(r, c) PROVE TypeOK'
    <2>1. conv.pending.nonce \in 0 .. MaxOffers
      BY DEF TypeOK, Conversation, Offer
    <2>2. /\ [NoRequest EXCEPT !.step = "acquire", !.typed = TRUE, !.crew = c,
                            !.saw = conv.pending.nonce] \in Request
          /\ [NoRequest EXCEPT !.step = "acquire", !.typed = TRUE, !.crew = c,
                            !.isNew = TRUE] \in Request
      BY <2>1 DEF NoRequest, Request, Steps
    <2>3. req' \in [Requests -> Request]
      BY <1>1, <2>2, BecomesType DEF Arrive
    <2> QED BY <1>1, <2>3 DEF Arrive, TypeOK
  <1>2. ASSUME NEW r \in Requests, Acquire(r) PROVE TypeOK'
    <2>1. req' \in [Requests -> Request]
      <3>1. ASSUME NEW known \in BOOLEAN
            PROVE  [req[r] EXCEPT !.step = "run", !.leased = known,
                      !.timely = known /\ conv.exists] \in Request
        BY DEF Request, Steps, TypeOK, Conversation
      <3> QED BY <1>2, <3>1, BecomesType DEF Acquire, Ends
    <2>2. conv' \in Conversation
      <3>1. ASSUME NEW id \in {r, Gone}
            PROVE  [conv EXCEPT !.lease = [run |-> id, fresh |-> TRUE]] \in Conversation
        BY DEF TypeOK, Conversation, Lease
      <3> QED BY <1>2, <3>1 DEF Acquire, TypeOK
    <2>3. faults' \in 0 .. MaxFaults
      BY <1>2, BoundAssumption DEF Acquire, Fault, TypeOK
    <2> QED BY <1>2, <2>1, <2>2, <2>3 DEF Acquire, TypeOK
  <1>3. ASSUME NEW r \in Requests, Answer(r) PROVE TypeOK'
    <2>1. req' \in [Requests -> Request]
      <3>1. ASSUME NEW to \in Crews \cup {None}
            PROVE  [req[r] EXCEPT !.step = "persist", !.offers = to] \in Request
        BY DEF Request, Steps, TypeOK
      <3> QED BY <1>3, <3>1, BecomesType DEF Answer
    <2> QED BY <1>3, <2>1 DEF Answer, TypeOK
  <1>4. ASSUME NEW r \in Requests, Leaves(r) PROVE req' \in [Requests -> Request]
    BY <1>4 DEF Leaves, Becomes, NoRequest, Request, Steps, TypeOK
  <1>5. ASSUME NEW r \in Requests, Ends(r) PROVE req' \in [Requests -> Request]
    BY <1>5 DEF Ends, Becomes, TypeOK
  <1>6. ASSUME NEW r \in Requests, Fail(r) PROVE TypeOK'
    BY <1>4, <1>6 DEF Fail, TypeOK
  <1>7. ASSUME NEW r \in Requests, Persist(r) PROVE TypeOK'
    <2>1. req' \in [Requests -> Request]
      BY <1>4, <1>7 DEF Persist
    <2>2. minted' \in 0 .. MaxOffers /\ minted <= minted'
      BY <1>7, BoundAssumption DEF Persist, Mints, TypeOK
    <2>3. issued' \subseteq 1 .. minted'
      <3>1. /\ issued \subseteq 1 .. minted /\ minted \in Nat
            /\ issued' \subseteq issued \cup (IF req[r].offers # None THEN {minted + 1} ELSE {})
        BY <1>7 DEF Persist, TypeOK
      <3>2. minted' = IF req[r].offers # None THEN minted + 1 ELSE minted
        BY <1>7 DEF Persist, Mints
      <3> QED BY <3>1, <3>2
    <2>4. faults' \in 0 .. MaxFaults
      BY <1>7, BoundAssumption DEF Persist, Fault, TypeOK
    <2>5. CASE Appends(r)
      <3>1. req[r].crew \in Crews /\ Mints(r)
        BY <1>7 DEF Persist, Control, InOrder
      <3> QED BY <3>1, <2>1, <2>2, <2>3, <2>4, <2>5, AppendsType DEF TypeOK
    <2>6. CASE UNCHANGED <<conv, turns, issued, history>>
      BY <2>1, <2>2, <2>4, <2>6 DEF TypeOK, history
    <2> QED BY <1>7, <2>5, <2>6 DEF Persist
  <1>8. ASSUME NEW r \in Requests PROVE Freed(r) \in Conversation
    BY DEF Freed, TypeOK, Conversation
  <1>9. ASSUME NEW r \in Requests, Abandons(r)
        PROVE  conv' \in Conversation /\ faults' \in 0 .. MaxFaults
    <2>1. conv' \in Conversation
      BY <1>9 DEF Abandons, TypeOK, Conversation, Lease
    <2> QED BY <1>9, <2>1, BoundAssumption DEF Abandons, Fault, TypeOK
  <1>10. ASSUME NEW r \in Requests, Disconnect(r) PROVE TypeOK'
    <2>1. req' \in [Requests -> Request]
      BY ZenonT(40), <1>10 DEF Disconnect, Becomes, Request, Steps, TypeOK
    <2> QED BY <1>10, <1>8, <2>1 DEF Disconnect, TypeOK
  <1>11. ASSUME NEW r \in Requests, PersistLate(r) PROVE TypeOK'
    <2>1. req' \in [Requests -> Request]
      BY <1>5, <1>11 DEF PersistLate
    <2>2. minted' \in 0 .. MaxOffers /\ minted <= minted'
      BY <1>11, BoundAssumption DEF PersistLate, Mints, TypeOK
    <2>3. faults' \in 0 .. MaxFaults /\ issued' = issued
      BY <1>11, BoundAssumption DEF PersistLate, Fault, TypeOK
    <2>4. CASE Appends(r)
      <3>1. req[r].crew \in Crews /\ Mints(r)
        BY <1>11 DEF PersistLate, Control, InOrder
      <3> QED BY <3>1, <2>1, <2>2, <2>3, <2>4, AppendsType DEF TypeOK
    <2>5. CASE UNCHANGED <<conv, turns, history>>
      BY <2>1, <2>2, <2>3, <2>5 DEF TypeOK, history
    <2> QED BY <1>11, <2>4, <2>5 DEF PersistLate
  <1>12. ASSUME NEW r \in Requests, Release(r) PROVE TypeOK'
    <2>1. conv' \in Conversation /\ faults' \in 0 .. MaxFaults
      BY <1>8, <1>9, <1>12 DEF Release, TypeOK
    <2> QED BY <1>5, <1>12, <2>1 DEF Release, TypeOK
  <1>13. ASSUME NEW r \in Requests, Crash(r) PROVE TypeOK'
    BY <1>5, <1>9, <1>13 DEF Crash, TypeOK
  <1>14. ASSUME NEW r \in Requests, NEW n \in issued, NEW accept \in BOOLEAN,
                NEW ok \in BOOLEAN, Redeem(r, n, accept, ok)
         PROVE  TypeOK'
    <2>1. /\ conv.exists /\ conv.workload \in Crews
          /\ conv.pending.to \in Crews /\ conv.pending.from \in Crews
          /\ n \in 1 .. minted
      BY <1>14 DEF Redeem, Redeemable, Shape, TypeOK
    <2>2. turns' \in Seq(Row) /\ Len(turns') <= MaxTurns
      <3> DEFINE row == [role |-> IF accept THEN "crew_change" ELSE "handoff_declined",
                         crew |-> IF accept THEN conv.pending.to ELSE conv.pending.from,
                         held |-> FALSE]
      <3>1. row \in Row
        BY <2>1 DEF Row
      <3>2. turns' = Append(turns, row) /\ Len(turns) < MaxTurns
        BY <1>14 DEF Redeem
      <3> HIDE DEF row
      <3>3. turns \in Seq(Row)
        BY DEF TypeOK
      <3>4. turns' \in Seq(Row) /\ Len(turns') = Len(turns) + 1
        BY <3>1, <3>2, <3>3
      <3>5. Len(turns) \in Nat
        BY <3>3
      <3> QED BY <3>2, <3>4, <3>5, BoundAssumption
    <2>3. conv' \in Conversation
      <3>1. Pinned \in Nat
        BY CountType DEF Pinned
      <3>2. Joined(conv.pending.to) \subseteq Crews
        BY <2>1 DEF Joined, CrewsOf, TypeOK, Conversation
      <3>3. CASE accept
        BY <1>14, <2>1, <3>1, <3>2, <3>3 DEF Redeem, TypeOK, Conversation, Lease
      <3>4. CASE ~accept
        BY <1>14, <3>1, <3>4 DEF Redeem, TypeOK, Conversation
      <3> QED BY <3>3, <3>4
    <2>4. req' \in [Requests -> Request]
      <3>1. [NoRequest EXCEPT !.step = "join", !.crew = conv.pending.to,
                !.leased = TRUE, !.timely = TRUE] \in Request
        BY <2>1 DEF NoRequest, Request, Steps
      <3> QED BY <1>14, <3>1, BecomesType DEF Redeem, TypeOK
    <2>5. faults' \in 0 .. MaxFaults
      BY <1>14, BoundAssumption DEF Redeem, Fault, TypeOK
    <2> QED BY <1>14, <2>1, <2>2, <2>3, <2>4, <2>5 DEF Redeem, TypeOK
  <1>15. ASSUME NEW r \in Requests, Join(r) PROVE TypeOK'
    <2>1. req' \in [Requests -> Request]
      BY ZenonT(40), <1>15 DEF Join, Goto, Becomes, Request, Steps, TypeOK
    <2> QED BY <1>15, <2>1 DEF Join, TypeOK
  <1>16. CASE OfferExpires
    <2>1. conv' \in Conversation
      BY <1>16 DEF OfferExpires, TypeOK, Conversation, Offer
    <2> QED BY <1>16, <2>1 DEF OfferExpires, TypeOK, history
  <1>17. CASE LeaseExpires
    <2>1. conv' \in Conversation
      BY <1>17 DEF LeaseExpires, TypeOK, Conversation, Lease
    <2>2. req' \in [Requests -> Request]
      BY <1>17 DEF LeaseExpires, TypeOK, Request
    <2> QED BY <1>17, <2>1, <2>2 DEF LeaseExpires, TypeOK, history
  <1> QED BY <1>0, <1>1, <1>2, <1>3, <1>6, <1>7, <1>10, <1>11, <1>12, <1>13,
             <1>14, <1>15, <1>16, <1>17 DEF Next

-----------------------------------------------------------------------------
(* What a step does to the document                                        *)

\* The part of the document that only a write or a redemption changes.
Binding == <<conv.exists, conv.workload, conv.pending, turns, recorded, retired>>

\* Giving a lease up, or leaving it to the TTL, changes the lease alone, and
\* only one that is held.
LEMMA LeaseAlone ==
  ASSUME TypeOK, Shape, NEW r \in Requests,
         conv' = Freed(r) \/ Abandons(r)
  PROVE  /\ conv'.exists = conv.exists /\ conv'.workload = conv.workload
         /\ conv'.pending = conv.pending
         /\ ~conv.exists => conv' = conv
         /\ ~Held(r) => conv' = conv
  <1>1. ~conv.exists => ~Held(r)
    BY NoneAssumption DEF Shape, Held, NoConversation, NoLease
  <1>2. \/ conv' = conv
        \/ Held(r) /\ conv' = [conv EXCEPT !.lease = NoLease]
        \/ Held(r) /\ conv' = [conv EXCEPT !.lease.run = Gone]
    BY DEF Freed, Abandons
  <1> QED BY <1>1, <1>2 DEF TypeOK, Conversation

\* What a write does: it starts the conversation or leaves its crew, and the
\* proposal is replaced, dropped or kept.
LEMMA Written ==
  ASSUME TypeOK, NEW r \in Requests, req[r].crew \in Crews, Mints(r), Appends(r)
  PROVE  /\ conv'.exists
         /\ conv'.workload = IF conv.exists THEN conv.workload ELSE req[r].crew
         /\ conv'.lease = conv.lease
         /\ conv'.pending = PendingAfter(r)
         /\ turns' # <<>>
  <1>1. Rows(r) \in Seq(Row) /\ Len(Rows(r)) >= 1
    BY RowsType
  <1>2. turns \in Seq(Row) /\ turns' = turns \o Rows(r)
    BY DEF TypeOK, Appends
  <1>3. Len(turns') >= 1
    BY <1>1, <1>2
  <1>4. turns' # <<>>
    BY <1>3
  <1> QED BY <1>4 DEF Appends, TypeOK, Conversation

\* The next proposal: a new one, none, or the one that stood, which is left
\* when the run may not touch it or has nothing to say to it.
LEMMA Settled ==
  ASSUME TypeOK, NEW r \in Requests
  PROVE  \/ /\ req[r].offers # None /\ (~conv.exists \/ MayTouch(r))
            /\ PendingAfter(r) = [nonce |-> minted + 1, from |-> req[r].crew,
                                  to |-> req[r].offers, fresh |-> TRUE]
         \/ /\ req[r].typed /\ req[r].offers = None /\ conv.exists /\ MayTouch(r)
            /\ PendingAfter(r) = NoOffer
         \/ /\ ~(req[r].offers # None /\ (~conv.exists \/ MayTouch(r)))
            /\ ~(req[r].typed /\ conv.exists /\ MayTouch(r))
            /\ PendingAfter(r) = conv.pending
  BY DEF PendingAfter

\* A step that is not a write and not a redemption leaves the binding alone,
\* except that the open offer may run out.
LEMMA Quiet ==
  ASSUME TypeOK, Shape, NEW r \in Requests,
         \/ \E c \in Crews : Arrive(r, c)
         \/ Acquire(r) \/ Answer(r) \/ Fail(r) \/ Disconnect(r)
         \/ Release(r) \/ Join(r) \/ Crash(r)
  PROVE  UNCHANGED Binding /\ (~conv.exists => conv' = conv) /\ minted' = minted
  <1> USE DEF Binding, history
  <1>1. CASE (\E c \in Crews : Arrive(r, c)) \/ Answer(r) \/ Fail(r) \/ Join(r)
    BY <1>1 DEF Arrive, Answer, Fail, Join
  <1>2. CASE Acquire(r)
    BY <1>2 DEF Acquire, TypeOK, Conversation
  <1>3. CASE Disconnect(r) \/ Release(r) \/ Crash(r)
    <2>1. conv' = Freed(r) \/ Abandons(r)
      BY <1>3 DEF Disconnect, Release, Crash
    <2>2. UNCHANGED <<turns, minted, recorded, retired>>
      BY <1>3 DEF Disconnect, Release, Crash
    <2> QED BY <2>1, <2>2, LeaseAlone
  <1> QED BY <1>1, <1>2, <1>3

\* So does time, but for the offer's freshness.
LEMMA Time ==
  ASSUME TypeOK, Shape, OfferExpires \/ LeaseExpires
  PROVE  /\ UNCHANGED <<conv.exists, conv.workload, conv.pending.nonce,
                        conv.pending.from, conv.pending.to,
                        turns, minted, recorded, retired>>
         /\ conv.exists
         /\ conv.pending.nonce = 0 => conv'.pending = conv.pending
         /\ conv'.lease.run = conv.lease.run
  <1> USE DEF history
  <1>1. CASE OfferExpires
    <2>1. conv.pending.nonce # 0 /\ conv.exists
      BY <1>1 DEF OfferExpires, Shape, NoOffer, NoConversation
    <2> QED BY <1>1, <2>1 DEF OfferExpires, TypeOK, Conversation, Offer
  <1>2. CASE LeaseExpires
    <2>1. conv.exists
      BY <1>2 DEF LeaseExpires, Shape, NoLease, NoConversation
    <2> QED BY <1>2, <2>1 DEF LeaseExpires, TypeOK, Conversation, Lease
  <1> QED BY <1>1, <1>2

\* A redemption: the offer is gone, and the crew it named is bound if the
\* operator accepted it.
LEMMA Redeemed ==
  ASSUME TypeOK, NEW r \in Requests, NEW n \in issued, NEW accept \in BOOLEAN,
         NEW ok \in BOOLEAN, Redeem(r, n, accept, ok)
  PROVE  /\ conv.exists /\ conv'.exists /\ n # 0 /\ conv.pending.nonce = n
         /\ conv.pending.from = conv.workload /\ IsFree(conv.lease)
         /\ conv'.pending = NoOffer
         /\ conv'.workload = IF accept THEN conv.pending.to ELSE conv.workload
         /\ conv'.lease = IF accept
                          THEN [run |-> IF ok THEN r ELSE Gone, fresh |-> TRUE]
                          ELSE conv.lease
         /\ turns' # <<>>
         /\ minted' = minted /\ recorded' = recorded /\ retired' = retired \cup {n}
  <1>1. turns' # <<>>
    <2>1. turns \in Seq(Row)
      BY DEF TypeOK
    <2> QED BY <2>1 DEF Redeem
  <1> QED BY <1>1 DEF Redeem, Redeemable, TypeOK, Conversation

-----------------------------------------------------------------------------
(* The document and the offers                                             *)

\* Every step keeps the shape of the document.
LEMMA ShapeStep ==
  ASSUME TypeOK, Shape, Control, [Next]_vars
  PROVE  Shape'
  <1>1. CASE UNCHANGED vars
    BY <1>1 DEF vars, Shape
  <1>2. ASSUME NEW r \in Requests,
               \/ \E c \in Crews : Arrive(r, c)
               \/ Acquire(r) \/ Answer(r) \/ Fail(r) \/ Disconnect(r)
               \/ Release(r) \/ Join(r) \/ Crash(r)
        PROVE  Shape'
    <2>1. UNCHANGED Binding /\ (~conv.exists => conv' = conv)
      BY <1>2, Quiet
    <2> QED BY <2>1 DEF Binding, Shape
  <1>3. ASSUME NEW r \in Requests, Persist(r) \/ PersistLate(r)
        PROVE  Shape'
    <2>1. req[r].crew \in Crews /\ Mints(r)
      BY <1>3 DEF Persist, PersistLate, Control, InOrder
    <2>2. CASE Appends(r)
      <3>1. /\ conv'.exists /\ conv'.pending = PendingAfter(r) /\ turns' # <<>>
            /\ conv'.workload = IF conv.exists THEN conv.workload ELSE req[r].crew
        BY <2>1, <2>2, Written
      <3>2. conv'.workload \in Crews
        BY <2>1, <3>1 DEF Shape
      <3>3. minted + 1 # 0 /\ req[r].offers \in Crews \cup {None}
        BY DEF TypeOK, Request
      <3>4. IF conv'.pending.nonce = 0 THEN conv'.pending = NoOffer
            ELSE conv'.pending.from \in Crews /\ conv'.pending.to \in Crews
        BY <2>1, <3>1, <3>3, Settled DEF Shape, NoOffer
      <3> QED BY <3>1, <3>2, <3>4 DEF Shape
    <2>3. CASE ~Appends(r)
      BY <1>3, <2>3 DEF Persist, PersistLate, Shape
    <2> QED BY <2>2, <2>3
  <1>4. ASSUME NEW r \in Requests, NEW n \in issued, NEW accept \in BOOLEAN,
               NEW ok \in BOOLEAN, Redeem(r, n, accept, ok)
        PROVE  Shape'
    <2>1. /\ conv.exists /\ conv'.exists /\ turns' # <<>>
          /\ conv.pending.nonce # 0
          /\ conv'.pending = NoOffer
          /\ conv'.workload = IF accept THEN conv.pending.to ELSE conv.workload
      BY <1>4, Redeemed
    <2>2. conv'.workload \in Crews
      BY <2>1 DEF Shape
    <2> QED BY <2>1, <2>2 DEF Shape, NoOffer
  <1>5. CASE OfferExpires \/ LeaseExpires
    BY <1>5, Time DEF Shape
  <1> QED BY <1>1, <1>2, <1>3, <1>4, <1>5 DEF Next

-----------------------------------------------------------------------------
(* The requests                                                            *)

\* A request that becomes another one in order leaves all of them in order.
LEMMA ControlOf ==
  ASSUME TypeOK, Control, NEW r \in Requests, NEW x \in Request,
         Becomes(r, x), InOrder(x, conv'.exists),
         \/ conv'.exists = conv.exists
         \/ conv'.exists /\ req[r].isNew,
         x.isNew => req[r].isNew \/ \A y \in Requests : ~req[y].isNew
  PROVE  Control'
  <1>1. req' = [req EXCEPT ![r] = x] /\ req \in [Requests -> Request]
    BY DEF Becomes, TypeOK
  <1>2. req'[r] = x /\ \A y \in Requests \ {r} : req'[y] = req[y]
    BY <1>1
  <1>3. ASSUME NEW y \in Requests PROVE InOrder(req'[y], conv'.exists)
    <2>1. CASE y = r
      BY <1>2, <2>1
    <2>2. CASE y # r
      <3>1. InOrder(req[y], conv.exists) /\ (req[r].isNew => ~req[y].isNew)
        BY <2>2 DEF Control
      <3> QED BY <1>2, <2>2, <3>1 DEF InOrder
    <2> QED BY <2>1, <2>2
  <1>4. ASSUME NEW y \in Requests, NEW z \in Requests, req'[y].isNew, req'[z].isNew
        PROVE  z = y
    BY <1>2, <1>4 DEF Control
  <1> QED BY <1>3, <1>4 DEF Control

\* Leaving and ending are in order whatever the conversation is.
LEMMA OutOfIt ==
  ASSUME TypeOK, Control, NEW r \in Requests, Leaves(r) \/ Ends(r),
         \/ conv'.exists = conv.exists
         \/ conv'.exists /\ req[r].isNew
  PROVE  Control'
  <1>1. CASE Leaves(r)
    <2> DEFINE x == [NoRequest EXCEPT !.step = "release", !.leased = req[r].leased]
    <2>1. x \in Request
      BY Records DEF TypeOK, Request, Steps, NoRequest
    <2>2. InOrder(x, conv'.exists) /\ ~x.isNew
      BY DEF InOrder, NoRequest
    <2>3. Becomes(r, x)
      BY <1>1 DEF Leaves
    <2> HIDE DEF x
    <2> QED BY <2>1, <2>2, <2>3, ControlOf
  <1>2. CASE Ends(r)
    <2>1. NoRequest \in Request /\ Becomes(r, NoRequest) /\ ~NoRequest.isNew
      BY <1>2, Records DEF Ends, NoRequest
    <2>2. InOrder(NoRequest, conv'.exists)
      BY DEF InOrder, NoRequest
    <2> QED BY <2>1, <2>2, ControlOf
  <1> QED BY <1>1, <1>2

\* Every step leaves the requests in order.
LEMMA ControlStep ==
  ASSUME TypeOK, Shape, Control, [Next]_vars
  PROVE  Control'
  <1> USE DEF history
  <1>1. CASE UNCHANGED vars
    BY <1>1 DEF vars, Control, InOrder
  <1>2. ASSUME NEW r \in Requests, NEW c \in Crews, Arrive(r, c) PROVE Control'
    <2>1. conv' = conv
      BY <1>2 DEF Arrive
    <2>2. CASE conv.exists /\ Becomes(r, [NoRequest EXCEPT !.step = "acquire",
                 !.typed = TRUE, !.crew = c, !.saw = conv.pending.nonce])
      <3> DEFINE x == [NoRequest EXCEPT !.step = "acquire", !.typed = TRUE,
                          !.crew = c, !.saw = conv.pending.nonce]
      <3>1. x \in Request
        BY Records DEF TypeOK, Conversation, Offer, NoRequest, Request, Steps
      <3>2. InOrder(x, conv'.exists) /\ ~x.isNew
        BY <2>1, <2>2 DEF InOrder, NoRequest
      <3> QED BY <2>1, <2>2, <3>1, <3>2, ControlOf
    <2>3. CASE /\ ~conv.exists /\ \A y \in Requests : ~req[y].isNew
               /\ Becomes(r, [NoRequest EXCEPT !.step = "acquire", !.typed = TRUE,
                                 !.crew = c, !.isNew = TRUE])
      <3> DEFINE x == [NoRequest EXCEPT !.step = "acquire", !.typed = TRUE,
                          !.crew = c, !.isNew = TRUE]
      <3>1. x \in Request
        BY Records DEF NoRequest, Request, Steps
      <3>2. InOrder(x, conv'.exists)
        BY <2>1, <2>3 DEF InOrder, NoRequest
      <3> QED BY <2>1, <2>3, <3>1, <3>2, ControlOf
    <2> QED BY <1>2, <2>2, <2>3 DEF Arrive
  <1>3. ASSUME NEW r \in Requests, Acquire(r) PROVE Control'
    <2>1. conv'.exists = conv.exists
      BY <1>3, Quiet DEF Binding
    <2>2. CASE Ends(r)
      BY <2>1, <2>2, OutOfIt
    <2>3. ASSUME NEW known \in BOOLEAN,
                 Becomes(r, [req[r] EXCEPT !.step = "run", !.leased = known,
                                !.timely = known /\ conv.exists])
          PROVE  Control'
      <3> DEFINE x == [req[r] EXCEPT !.step = "run", !.leased = known,
                          !.timely = known /\ conv.exists]
      <3>1. x \in Request
        BY ZenonT(40) DEF TypeOK, Request, Steps, Conversation
      <3>2. InOrder(x, conv'.exists) /\ x.isNew = req[r].isNew
        BY <1>3, <2>1 DEF Acquire, Control, InOrder, TypeOK, Request
      <3> QED BY <2>1, <2>3, <3>1, <3>2, ControlOf
    <2> QED BY <1>3, <2>2, <2>3 DEF Acquire
  <1>4. ASSUME NEW r \in Requests, Answer(r) PROVE Control'
    <2>1. PICK to \in (Crews \ {req[r].crew}) \cup {None} :
                 Becomes(r, [req[r] EXCEPT !.step = "persist", !.offers = to])
      BY <1>4 DEF Answer
    <2> DEFINE x == [req[r] EXCEPT !.step = "persist", !.offers = to]
    <2>2. x \in Request
      BY DEF TypeOK, Request, Steps
    <2>3. conv' = conv
      BY <1>4 DEF Answer
    <2>4. InOrder(x, conv'.exists) /\ x.isNew = req[r].isNew
      BY <1>4, <2>3 DEF Answer, Control, InOrder, TypeOK, Request
    <2> QED BY <2>1, <2>2, <2>3, <2>4, ControlOf
  <1>5. ASSUME NEW r \in Requests, Disconnect(r) PROVE Control'
    <2> DEFINE x == [req[r] EXCEPT !.step = "late", !.leased = FALSE, !.timely = FALSE]
    <2>1. x \in Request
      BY DEF TypeOK, Request, Steps
    <2>2. conv'.exists = conv.exists
      BY <1>5, Quiet DEF Binding
    <2>3. InOrder(x, conv'.exists) /\ x.isNew = req[r].isNew
      BY <1>5, <2>2 DEF Disconnect, Control, InOrder, TypeOK, Request
    <2> QED BY <1>5, <2>1, <2>2, <2>3, ControlOf DEF Disconnect
  <1>6. ASSUME NEW r \in Requests, Join(r) PROVE Control'
    <2> DEFINE x == [req[r] EXCEPT !.step = "run"]
    <2>1. x \in Request
      BY DEF TypeOK, Request, Steps
    <2>2. conv' = conv
      BY <1>6 DEF Join
    <2>3. InOrder(x, conv'.exists) /\ x.isNew = req[r].isNew
      BY <1>6, <2>2 DEF Join, Control, InOrder, TypeOK, Request
    <2> QED BY <1>6, <2>1, <2>2, <2>3, ControlOf DEF Join, Goto
  <1>7. ASSUME NEW r \in Requests, Fail(r) \/ Release(r) \/ Crash(r) PROVE Control'
    <2>1. conv'.exists = conv.exists
      BY <1>7, Quiet DEF Binding
    <2>2. Leaves(r) \/ Ends(r)
      BY <1>7 DEF Fail, Release, Crash
    <2> QED BY <2>1, <2>2, OutOfIt
  <1>8. ASSUME NEW r \in Requests, Persist(r) \/ PersistLate(r) PROVE Control'
    <2>1. Leaves(r) \/ Ends(r)
      BY <1>8 DEF Persist, PersistLate
    <2>2. req[r].crew \in Crews /\ (conv.exists \/ req[r].isNew) /\ Mints(r)
      BY <1>8 DEF Persist, PersistLate, Control, InOrder
    <2>3. conv'.exists = conv.exists \/ (conv'.exists /\ req[r].isNew)
      <3>1. CASE Appends(r)
        BY <2>2, <3>1, Written DEF TypeOK, Conversation
      <3>2. CASE ~Appends(r)
        BY <1>8, <3>2 DEF Persist, PersistLate
      <3> QED BY <3>1, <3>2
    <2> QED BY <2>1, <2>3, OutOfIt
  <1>9. ASSUME NEW r \in Requests, NEW n \in issued, NEW accept \in BOOLEAN,
               NEW ok \in BOOLEAN, Redeem(r, n, accept, ok)
        PROVE  Control'
    <2>1. conv.exists /\ conv'.exists
      BY <1>9, Redeemed
    <2>2. CASE UNCHANGED req
      BY <2>1, <2>2 DEF Control, InOrder
    <2>3. CASE Becomes(r, [NoRequest EXCEPT !.step = "join", !.crew = conv.pending.to,
                              !.leased = TRUE, !.timely = TRUE])
      <3> DEFINE x == [NoRequest EXCEPT !.step = "join", !.crew = conv.pending.to,
                          !.leased = TRUE, !.timely = TRUE]
      <3>1. conv.pending.to \in Crews
        BY <1>9, Redeemed DEF Shape
      <3>2. x \in Request
        BY <3>1, Records DEF NoRequest, Request, Steps
      <3>3. InOrder(x, conv'.exists) /\ ~x.isNew
        BY <2>1, <3>1 DEF InOrder, NoRequest
      <3>4. conv'.exists = conv.exists
        BY <1>9, <2>1 DEF Redeem, TypeOK, Conversation
      <3> QED BY <2>3, <3>2, <3>3, <3>4, ControlOf
    <2> QED BY <1>9, <2>2, <2>3 DEF Redeem
  <1>10. CASE OfferExpires
    BY <1>10, Time DEF OfferExpires, Control, InOrder
  <1>11. CASE LeaseExpires
    <2>1. \A r \in Requests :
            \/ req'[r] = req[r]
            \/ req'[r] = [req[r] EXCEPT !.timely = FALSE] /\ Held(r)
      BY <1>11 DEF LeaseExpires
    <2>2. ASSUME NEW r \in Requests PROVE InOrder(req'[r], conv'.exists) /\ req'[r].isNew = req[r].isNew
      <3>1. InOrder(req[r], conv.exists) /\ conv'.exists = conv.exists
        BY <1>11, Time DEF Control
      <3>2. CASE req'[r] = req[r]
        BY <3>1, <3>2
      <3>3. CASE req'[r] = [req[r] EXCEPT !.timely = FALSE]
        <4>1. req[r] \in Request
          BY DEF TypeOK
        <4>2. req[r] = NoRequest => req'[r] = NoRequest
          <5>1. ASSUME req[r] = NoRequest PROVE req[r].timely = FALSE
            BY <5>1 DEF NoRequest
          <5>2. req[r].timely = FALSE => [req[r] EXCEPT !.timely = FALSE] = req[r]
            BY <4>1 DEF Request
          <5> QED BY <3>3, <5>1, <5>2
        <4> QED BY <3>1, <3>3, <4>1, <4>2 DEF InOrder, Request
      <3> QED BY <2>1, <3>2, <3>3
    <2> QED BY <2>2 DEF Control
  <1> QED BY <1>1, <1>2, <1>3, <1>4, <1>5, <1>6, <1>7, <1>8, <1>9, <1>10, <1>11
       DEF Next

-----------------------------------------------------------------------------
(* The offers                                                              *)

\* What a step does to the offers that are open, recorded and dead.  While an
\* offer stays open its crew stays bound.
OffersKept ==
  /\ recorded \subseteq recorded'
  /\ conv.exists => conv'.exists
  /\ conv'.pending.nonce # 0 => conv'.pending.nonce \in recorded'
  /\ \A n \in recorded : conv.exists /\ conv'.pending.nonce = n =>
       conv.pending.nonce = n /\ conv'.workload = conv.workload

\* A step that leaves the binding alone, or only ages the offer, keeps them.
LEMMA QuietOffers ==
  ASSUME TypeOK, Sight, OfferIsCurrent, OfferStandsUntilAnswered,
         UNCHANGED <<conv.exists, conv.workload, conv.pending.nonce,
                     conv.pending.from, recorded, retired>>
  PROVE  OffersKept /\ OfferIsCurrent' /\ OfferStandsUntilAnswered'
  BY DEF OffersKept, Sight, OfferIsCurrent, OfferStandsUntilAnswered

\* A write that settles the offer its run saw retires it, and one that may
\* not touch the offer finds it dead already, or another one open.
LEMMA WrittenOffers ==
  ASSUME TypeOK, Shape, Control, Sight, OfferIsCurrent, OfferStandsUntilAnswered,
         NEW r \in Requests, req[r].step \in {"persist", "late"},
         Mints(r), Appends(r)
  PROVE  OffersKept /\ OfferIsCurrent' /\ OfferStandsUntilAnswered'
  <1> DEFINE saw == req[r].saw
  <1>1. /\ req[r].crew \in Crews /\ (conv.exists \/ req[r].isNew)
        /\ saw \in Nat
        /\ minted \in Nat /\ recorded \subseteq 1 .. minted /\ retired \subseteq 1 .. minted
        /\ conv.pending.nonce # 0 => conv.pending.nonce \in recorded
        /\ saw # 0 => saw \in recorded /\ conv.exists
        /\ saw # 0 /\ conv.pending.nonce = saw => conv.workload = req[r].crew
    BY DEF Control, InOrder, Sight, TypeOK, Request
  <1>2. /\ conv'.exists
        /\ conv'.workload = IF conv.exists THEN conv.workload ELSE req[r].crew
        /\ conv'.pending = PendingAfter(r)
    BY <1>1, Written
  <1>3. ~conv.exists => conv.pending.nonce = 0
    BY DEF Shape, NoConversation, NoOffer
  <1>4. /\ recorded' = IF req[r].offers # None /\ conv'.pending.nonce = minted + 1
                       THEN recorded \cup {minted + 1} ELSE recorded
        /\ retired' = IF saw # 0 /\ (req[r].typed \/ req[r].offers # None)
                      THEN retired \cup {saw} ELSE retired
    BY DEF Appends
  <1>5. CASE /\ req[r].offers # None /\ (~conv.exists \/ MayTouch(r))
             /\ PendingAfter(r) = [nonce |-> minted + 1, from |-> req[r].crew,
                                   to |-> req[r].offers, fresh |-> TRUE]
    <2>1. conv'.pending.nonce = minted + 1 /\ conv'.pending.from = conv'.workload
      BY <1>2, <1>5 DEF MayTouch
    <2>2. recorded' = recorded \cup {minted + 1}
      BY <1>4, <1>5, <2>1
    <2>3. conv.pending.nonce = saw \/ (conv.pending.nonce = 0 /\ saw = 0)
      BY <1>1, <1>3, <1>5 DEF MayTouch
    <2>4. retired' = IF saw # 0 THEN retired \cup {saw} ELSE retired
      BY <1>4, <1>5
    <2>5. ASSUME NEW n \in recorded PROVE n \in retired' /\ n # minted + 1
      BY <1>1, <2>3, <2>4 DEF OfferStandsUntilAnswered
    <2>6. minted + 1 \notin retired'
      BY <1>1, <2>4
    <2> QED BY <1>2, <2>1, <2>2, <2>5, <2>6
         DEF OffersKept, OfferIsCurrent, OfferStandsUntilAnswered
  <1>6. CASE /\ req[r].typed /\ req[r].offers = None /\ conv.exists /\ MayTouch(r)
             /\ PendingAfter(r) = NoOffer
    <2>1. conv'.pending.nonce = 0 /\ recorded' = recorded /\ conv.pending.nonce = saw
      BY <1>2, <1>4, <1>6 DEF NoOffer, MayTouch
    <2>2. ASSUME NEW n \in recorded PROVE n \in retired' /\ n # 0
      BY <1>1, <1>4, <1>6, <2>1 DEF OfferStandsUntilAnswered
    <2> QED BY <1>2, <2>1, <2>2 DEF OffersKept, OfferIsCurrent, OfferStandsUntilAnswered
  <1>7. CASE /\ ~(req[r].offers # None /\ (~conv.exists \/ MayTouch(r)))
             /\ ~(req[r].typed /\ conv.exists /\ MayTouch(r))
             /\ PendingAfter(r) = conv.pending
    <2>1. conv'.pending = conv.pending /\ conv.pending.nonce # minted + 1
      BY <1>1, <1>2, <1>7
    <2>2. recorded' = recorded
      BY <1>4, <2>1
    <2>3. retired' # retired => saw \in recorded /\ saw \in retired
      <3>1. ASSUME saw # 0, req[r].typed \/ req[r].offers # None
            PROVE  saw \in recorded /\ conv.pending.nonce # saw
        BY <1>1, <1>7, <3>1 DEF MayTouch
      <3> QED BY <1>4, <3>1 DEF OfferStandsUntilAnswered
    <2>4. retired' = retired
      BY <1>4, <2>3
    <2>5. conv.exists => conv'.workload = conv.workload
      BY <1>2
    <2>6. OfferIsCurrent'
      BY <1>2, <1>3, <2>1, <2>5 DEF OfferIsCurrent
    <2>7. OffersKept
      BY <1>1, <1>2, <2>1, <2>2, <2>5 DEF OffersKept
    <2> QED BY <2>1, <2>2, <2>4, <2>6, <2>7 DEF OfferStandsUntilAnswered
  <1> QED BY <1>5, <1>6, <1>7, Settled

\* Every step keeps the offers.
LEMMA OfferStep ==
  ASSUME TypeOK, Shape, Control, Sight, OfferIsCurrent, OfferStandsUntilAnswered,
         [Next]_vars
  PROVE  OffersKept /\ OfferIsCurrent' /\ OfferStandsUntilAnswered'
  <1>1. CASE UNCHANGED vars
    BY <1>1, QuietOffers DEF vars, history
  <1>2. ASSUME NEW r \in Requests,
               \/ \E c \in Crews : Arrive(r, c)
               \/ Acquire(r) \/ Answer(r) \/ Fail(r) \/ Disconnect(r)
               \/ Release(r) \/ Join(r) \/ Crash(r)
        PROVE  OffersKept /\ OfferIsCurrent' /\ OfferStandsUntilAnswered'
    <2>1. UNCHANGED Binding
      BY <1>2, Quiet
    <2> QED BY <2>1, QuietOffers DEF Binding
  <1>3. ASSUME NEW r \in Requests, Persist(r) \/ PersistLate(r)
        PROVE  OffersKept /\ OfferIsCurrent' /\ OfferStandsUntilAnswered'
    <2>1. req[r].step \in {"persist", "late"} /\ Mints(r)
      BY <1>3 DEF Persist, PersistLate
    <2>2. CASE Appends(r)
      BY <2>1, <2>2, WrittenOffers
    <2>3. CASE ~Appends(r)
      BY <1>3, <2>3, QuietOffers DEF Persist, PersistLate, history
    <2> QED BY <2>2, <2>3
  <1>4. ASSUME NEW r \in Requests, NEW n \in issued, NEW accept \in BOOLEAN,
               NEW ok \in BOOLEAN, Redeem(r, n, accept, ok)
        PROVE  OffersKept /\ OfferIsCurrent' /\ OfferStandsUntilAnswered'
    <2>1. /\ conv'.exists /\ n # 0 /\ conv.pending.nonce = n
          /\ conv'.pending = NoOffer
          /\ recorded' = recorded /\ retired' = retired \cup {n}
      BY <1>4, Redeemed
    <2>2. conv'.pending.nonce = 0
      BY <2>1 DEF NoOffer
    <2>3. ASSUME NEW m \in recorded PROVE m # 0 /\ m \in retired'
      BY <2>1 DEF TypeOK, OfferStandsUntilAnswered
    <2> QED BY <2>1, <2>2, <2>3 DEF OffersKept, OfferIsCurrent, OfferStandsUntilAnswered
  <1>5. CASE OfferExpires \/ LeaseExpires
    BY <1>5, Time, QuietOffers
  <1> QED BY <1>1, <1>2, <1>3, <1>4, <1>5 DEF Next

\* Every step keeps what the requests saw.
LEMMA SightStep ==
  ASSUME TypeOK, Shape, Control, Sight, OfferIsCurrent, OfferStandsUntilAnswered,
         [Next]_vars
  PROVE  Sight'
  <1>1. OffersKept
    BY OfferStep
  <1>2. ASSUME NEW x \in Requests,
               \/ req'[x].saw = 0
               \/ /\ req'[x].saw = req[x].saw /\ req'[x].crew = req[x].crew
                  /\ req'[x].step \notin {"idle", "release"}
               \/ req'[x] = req[x]
               \/ /\ req'[x].saw = conv.pending.nonce
                  /\ req'[x].crew = conv.workload
                  /\ conv.exists
                  /\ req'[x].step = "acquire"
                  /\ conv' = conv
        PROVE  req'[x].saw # 0 =>
                 /\ req'[x].saw \in recorded'
                 /\ conv'.exists
                 /\ req'[x].step \notin {"idle", "release"}
                 /\ conv'.pending.nonce = req'[x].saw => conv'.workload = req'[x].crew
    BY <1>1, <1>2 DEF Sight, OffersKept
  <1>3. ASSUME NEW x \in Requests
        PROVE  \/ req'[x].saw = 0
               \/ /\ req'[x].saw = req[x].saw /\ req'[x].crew = req[x].crew
                  /\ req'[x].step \notin {"idle", "release"}
               \/ req'[x] = req[x]
               \/ /\ req'[x].saw = conv.pending.nonce
                  /\ req'[x].crew = conv.workload
                  /\ conv.exists
                  /\ req'[x].step = "acquire"
                  /\ conv' = conv
    <2>0. ASSUME NEW r \in Requests, NEW q, Becomes(r, q)
          PROVE  (req'[x] = q /\ r = x) \/ req'[x] = req[x]
      BY <2>0 DEF Becomes, TypeOK
    <2>1. CASE UNCHANGED req
      BY <2>1
    <2>2. ASSUME NEW r \in Requests, Leaves(r) \/ Ends(r)
          PROVE  req'[x].saw = 0 \/ req'[x] = req[x]
      <3> DEFINE q == [NoRequest EXCEPT !.step = "release", !.leased = req[r].leased]
      <3>1. q.saw = 0 /\ NoRequest.saw = 0
        BY DEF NoRequest
      <3>2. Becomes(r, q) \/ Becomes(r, NoRequest)
        BY <2>2 DEF Leaves, Ends
      <3> HIDE DEF q
      <3> QED BY <2>0, <3>1, <3>2
    <2>3. ASSUME NEW r \in Requests, NEW c \in Crews, Arrive(r, c)
          PROVE  \/ req'[x].saw = 0
                 \/ req'[x] = req[x]
                 \/ /\ req'[x].saw = conv.pending.nonce
                    /\ req'[x].crew = conv.workload
                    /\ conv.exists
                    /\ req'[x].step = "acquire"
                    /\ conv' = conv
      <3> DEFINE old == [NoRequest EXCEPT !.step = "acquire", !.typed = TRUE,
                            !.crew = c, !.saw = conv.pending.nonce]
                 new == [NoRequest EXCEPT !.step = "acquire", !.typed = TRUE,
                            !.crew = c, !.isNew = TRUE]
      <3>1. /\ old.saw = conv.pending.nonce /\ old.crew = c /\ old.step = "acquire"
            /\ new.saw = 0
        BY DEF NoRequest
      <3>2. /\ conv' = conv
            /\ \/ conv.exists /\ conv.workload = c /\ Becomes(r, old)
               \/ Becomes(r, new)
        BY <2>3 DEF Arrive
      <3> HIDE DEF old, new
      <3> QED BY <2>0, <3>1, <3>2
    <2>4. ASSUME NEW r \in Requests,
                 Acquire(r) \/ Answer(r) \/ Disconnect(r) \/ Join(r),
                 ~Ends(r)
          PROVE  \/ req'[x] = req[x]
                 \/ /\ req'[x].saw = req[x].saw /\ req'[x].crew = req[x].crew
                    /\ req'[x].step \notin {"idle", "release"}
      <3>1. ASSUME NEW q, Becomes(r, q), q.saw = req[r].saw, q.crew = req[r].crew,
                   q.step \notin {"idle", "release"}
            PROVE  \/ req'[x] = req[x]
                   \/ /\ req'[x].saw = req[x].saw /\ req'[x].crew = req[x].crew
                      /\ req'[x].step \notin {"idle", "release"}
        BY <2>0, <3>1
      <3> DEFINE ran(known) == [req[r] EXCEPT !.step = "run", !.leased = known,
                                   !.timely = known /\ conv.exists]
                 replied(to) == [req[r] EXCEPT !.step = "persist", !.offers = to]
                 cut == [req[r] EXCEPT !.step = "late", !.leased = FALSE,
                            !.timely = FALSE]
                 joined == [req[r] EXCEPT !.step = "run"]
      <3>2. \/ \E known \in BOOLEAN : Becomes(r, ran(known))
            \/ \E to \in Crews \cup {None} : Becomes(r, replied(to))
            \/ Becomes(r, cut)
            \/ Becomes(r, joined)
        BY <2>4 DEF Acquire, Answer, Disconnect, Join, Goto
      <3>3. req[r] \in Request
        BY DEF TypeOK
      <3>4. ASSUME NEW known \in BOOLEAN
            PROVE  /\ ran(known).saw = req[r].saw /\ ran(known).crew = req[r].crew
                   /\ ran(known).step \notin {"idle", "release"}
        BY <3>3 DEF Request
      <3>5. ASSUME NEW to
            PROVE  /\ replied(to).saw = req[r].saw /\ replied(to).crew = req[r].crew
                   /\ replied(to).step \notin {"idle", "release"}
        BY <3>3 DEF Request
      <3>6. /\ cut.saw = req[r].saw /\ cut.crew = req[r].crew
            /\ cut.step \notin {"idle", "release"}
            /\ joined.saw = req[r].saw /\ joined.crew = req[r].crew
            /\ joined.step \notin {"idle", "release"}
        BY <3>3 DEF Request
      <3> HIDE DEF ran, replied, cut, joined
      <3> QED BY <3>1, <3>2, <3>4, <3>5, <3>6
    <2>5. ASSUME NEW r \in Requests,
                 Fail(r) \/ Persist(r) \/ PersistLate(r) \/ Release(r) \/ Crash(r)
          PROVE  Leaves(r) \/ Ends(r)
      BY <2>5 DEF Fail, Persist, PersistLate, Release, Crash
    <2>6. ASSUME NEW r \in Requests, NEW n \in issued, NEW accept \in BOOLEAN,
                 NEW ok \in BOOLEAN, Redeem(r, n, accept, ok)
          PROVE  req'[x].saw = 0 \/ req'[x] = req[x]
      <3> DEFINE q == [NoRequest EXCEPT !.step = "join", !.crew = conv.pending.to,
                          !.leased = TRUE, !.timely = TRUE]
      <3>1. q.saw = 0
        BY DEF NoRequest
      <3>2. Becomes(r, q) \/ UNCHANGED req
        BY <2>6 DEF Redeem
      <3> HIDE DEF q
      <3> QED BY <2>0, <3>1, <3>2
    <2>9. req[x] \in Request
      BY DEF TypeOK
    <2>7. CASE OfferExpires
      BY <2>7 DEF OfferExpires
    <2>8. CASE LeaseExpires
      <3>1. req'[x] = req[x] \/ req'[x] = [req[x] EXCEPT !.timely = FALSE]
        BY <2>8 DEF LeaseExpires
      <3>2. /\ req'[x].saw = req[x].saw /\ req'[x].crew = req[x].crew
            /\ req'[x].step = req[x].step
        BY <2>9, <3>1 DEF Request
      <3>3. req[x].saw # 0 => req[x].step \notin {"idle", "release"}
        BY DEF Sight
      <3> QED BY <3>2, <3>3
    <2> QED BY <2>1, <2>2, <2>3, <2>4, <2>5, <2>6, <2>7, <2>8 DEF Next, vars
  <1> QED BY <1>1, <1>2, <1>3 DEF Sight, OffersKept

-----------------------------------------------------------------------------
(* The lease                                                               *)

\* What a step of request r may do to the run of the lease: leave it, take it,
\* free it, or leave it to nobody at the price of a failure.
LeaseMove(r) ==
  \/ /\ conv'.lease.run = conv.lease.run
     /\ Held(r) => req'[r].step # "idle" /\ req'[r].leased
  \/ /\ conv'.lease.run = r
     /\ req'[r].step # "idle" /\ req'[r].leased
  \/ conv'.lease.run = None
  \/ conv'.lease.run = Gone /\ faults' > 0

\* Such a step leaves a holder to every lease.
LEMMA LeaseOf ==
  ASSUME TypeOK, LeaseHasRun, NEW r \in Requests, NEW x, Becomes(r, x),
         LeaseMove(r), faults' \in Nat, faults' >= faults
  PROVE  LeaseHasRun'
  <1>1. \A y \in Requests \ {r} : req'[y] = req[y]
    BY DEF Becomes, TypeOK
  <1>2. Gone \notin Requests /\ None \notin Requests /\ Gone # None /\ faults \in Nat
    BY GoneAssumption, NoneAssumption, BoundAssumption DEF TypeOK
  <1> QED BY <1>1, <1>2 DEF LeaseMove, LeaseHasRun, Held

\* A failure is counted, and a step that is not one leaves the count.
LEMMA FaultCount ==
  ASSUME TypeOK, Fault \/ UNCHANGED faults
  PROVE  /\ faults \in Nat /\ faults' \in Nat /\ faults' >= faults
         /\ Fault => faults' > 0
  BY BoundAssumption DEF TypeOK, Fault

\* Every step leaves a lease only to somebody who will release it.
LEMMA LeaseStep ==
  ASSUME TypeOK, Shape, Control, LeaseHasRun, [Next]_vars
  PROVE  LeaseHasRun'
  <1> USE DEF history
  <1>0. ASSUME NEW r \in Requests
        PROVE  /\ req[r] \in Request
               /\ Held(r) => req[r].step # "idle" /\ req[r].leased
               /\ req[r].step \in {"idle", "acquire", "late"} => ~Held(r)
               /\ conv \in Conversation
    <2>1. req[r].step \in {"acquire", "late"} => ~req[r].leased
      BY DEF Control, InOrder
    <2> QED BY <2>1 DEF TypeOK, LeaseHasRun
  <1>1. CASE UNCHANGED vars
    BY <1>1 DEF vars, LeaseHasRun, Held
  <1>2. ASSUME NEW r \in Requests, NEW c \in Crews, Arrive(r, c) PROVE LeaseHasRun'
    <2>1. conv' = conv /\ faults' = faults /\ ~Held(r)
      BY <1>0, <1>2 DEF Arrive
    <2>2. \E x : Becomes(r, x)
      BY <1>2 DEF Arrive
    <2> QED BY <2>1, <2>2, LeaseOf, FaultCount DEF LeaseMove
  <1>3. ASSUME NEW r \in Requests, Acquire(r) PROVE LeaseHasRun'
    <2>1. (Fault \/ UNCHANGED faults) /\ ~Held(r)
      BY <1>0, <1>3 DEF Acquire
    <2> DEFINE ran(known) == [req[r] EXCEPT !.step = "run", !.leased = known,
                                 !.timely = known /\ conv.exists]
               taken(id) == [conv EXCEPT !.lease = [run |-> id, fresh |-> TRUE]]
    <2>2. \/ conv' = conv /\ \E x : Becomes(r, x)
          \/ conv' = taken(r) /\ Becomes(r, ran(TRUE))
          \/ conv' = taken(Gone) /\ Becomes(r, ran(FALSE)) /\ Fault
      BY <1>3 DEF Acquire, Ends
    <2>3. ran(TRUE).step # "idle" /\ ran(TRUE).leased
      BY <1>0 DEF Request
    <2>4. \A id : taken(id).lease.run = id
      BY <1>0 DEF Conversation
    <2>5. Becomes(r, ran(TRUE)) => req'[r] = ran(TRUE)
      BY DEF Becomes, TypeOK
    <2> HIDE DEF ran, taken
    <2>6. LeaseMove(r)
      BY <2>1, <2>2, <2>3, <2>4, <2>5, FaultCount DEF LeaseMove
    <2> QED BY <2>1, <2>2, <2>6, LeaseOf, FaultCount
  <1>4. ASSUME NEW r \in Requests, NEW x, Becomes(r, x),
               x.step # "idle", x.leased = req[r].leased,
               conv'.lease = conv.lease, Fault \/ UNCHANGED faults
        PROVE  LeaseHasRun'
    <2>1. req'[r] = x
      BY <1>4 DEF Becomes, TypeOK
    <2>2. LeaseMove(r)
      BY <1>0, <1>4, <2>1 DEF LeaseMove
    <2> QED BY <1>4, <2>2, LeaseOf, FaultCount
  <1>5. ASSUME NEW r \in Requests, Leaves(r), conv'.lease = conv.lease,
               Fault \/ UNCHANGED faults
        PROVE  LeaseHasRun'
    <2> DEFINE x == [NoRequest EXCEPT !.step = "release", !.leased = req[r].leased]
    <2>1. Becomes(r, x)
      BY <1>5 DEF Leaves
    <2>2. x.step # "idle" /\ x.leased = req[r].leased
      BY DEF NoRequest
    <2> HIDE DEF x
    <2> QED BY <1>4, <1>5, <2>1, <2>2
  <1>6. ASSUME NEW r \in Requests, Answer(r) PROVE LeaseHasRun'
    <2>1. PICK to : Becomes(r, [req[r] EXCEPT !.step = "persist", !.offers = to])
      BY <1>6 DEF Answer
    <2> DEFINE x == [req[r] EXCEPT !.step = "persist", !.offers = to]
    <2>2. x.step # "idle" /\ x.leased = req[r].leased
      BY <1>0 DEF Request
    <2>3. conv' = conv /\ UNCHANGED faults
      BY <1>6 DEF Answer
    <2> HIDE DEF x
    <2> QED BY <1>4, <2>1, <2>2, <2>3 DEF x
  <1>7. ASSUME NEW r \in Requests, Join(r) PROVE LeaseHasRun'
    <2> DEFINE x == [req[r] EXCEPT !.step = "run"]
    <2>1. Becomes(r, x) /\ conv' = conv /\ UNCHANGED faults
      BY <1>7 DEF Join, Goto
    <2>2. x.step # "idle" /\ x.leased = req[r].leased
      BY <1>0 DEF Request
    <2> HIDE DEF x
    <2> QED BY <1>4, <2>1, <2>2
  <1>8. ASSUME NEW r \in Requests, Fail(r) PROVE LeaseHasRun'
    BY <1>5, <1>8 DEF Fail
  <1>9. ASSUME NEW r \in Requests, Persist(r) \/ PersistLate(r)
        PROVE  conv'.lease = conv.lease /\ (Fault \/ UNCHANGED faults)
    <2>1. req[r].crew \in Crews /\ Mints(r)
      BY <1>9 DEF Persist, PersistLate, Control, InOrder
    <2>2. Appends(r) => conv'.lease = conv.lease
      BY <2>1, Written
    <2> QED BY <1>9, <2>2 DEF Persist, PersistLate
  <1>10. ASSUME NEW r \in Requests, Persist(r) PROVE LeaseHasRun'
    BY <1>5, <1>9, <1>10 DEF Persist
  <1>11. ASSUME NEW r \in Requests, PersistLate(r) PROVE LeaseHasRun'
    <2>1. ~Held(r) /\ Becomes(r, NoRequest)
      BY <1>0, <1>11 DEF PersistLate, Ends
    <2> QED BY <1>9, <1>11, <2>1, LeaseOf, FaultCount DEF LeaseMove
  <1>12. ASSUME NEW r \in Requests, conv' = Freed(r)
         PROVE  conv'.lease.run = None \/ (conv' = conv /\ ~Held(r))
    BY <1>0, <1>12 DEF Freed, NoLease, Conversation
  <1>13. ASSUME NEW r \in Requests, Abandons(r)
         PROVE  /\ Fault
                /\ \/ conv'.lease.run = Gone /\ faults' > 0
                   \/ conv' = conv /\ ~Held(r)
    BY <1>0, <1>13, FaultCount DEF Abandons, Conversation, Lease
  <1>14. ASSUME NEW r \in Requests, Disconnect(r) \/ Release(r) \/ Crash(r)
         PROVE  LeaseHasRun'
    <2>1. \E x : Becomes(r, x)
      BY <1>14 DEF Disconnect, Release, Crash, Ends
    <2>2. (conv' = Freed(r) /\ UNCHANGED faults) \/ Abandons(r)
      BY <1>14 DEF Disconnect, Release, Crash
    <2>3. LeaseMove(r) /\ (Fault \/ UNCHANGED faults)
      BY <1>12, <1>13, <2>2 DEF LeaseMove
    <2> QED BY <2>1, <2>3, LeaseOf, FaultCount
  <1>15. ASSUME NEW r \in Requests, NEW n \in issued, NEW accept \in BOOLEAN,
                NEW ok \in BOOLEAN, Redeem(r, n, accept, ok)
         PROVE  LeaseHasRun'
    <2> DEFINE x == [NoRequest EXCEPT !.step = "join", !.crew = conv.pending.to,
                        !.leased = TRUE, !.timely = TRUE]
    <2>1. /\ IF accept /\ ok THEN Becomes(r, x) ELSE UNCHANGED req
          /\ IF ok THEN UNCHANGED faults ELSE Fault
          /\ ~Held(r)
      BY <1>0, <1>15 DEF Redeem
    <2>2. conv'.lease.run = IF accept THEN (IF ok THEN r ELSE Gone) ELSE conv.lease.run
      <3>1. conv'.lease = IF accept THEN [run |-> IF ok THEN r ELSE Gone, fresh |-> TRUE]
                          ELSE conv.lease
        BY <1>15, Redeemed
      <3>2. CASE accept
        BY <3>1, <3>2
      <3>3. CASE ~accept
        BY <3>1, <3>3
      <3> QED BY <3>2, <3>3
    <2>3. x.step # "idle" /\ x.leased /\ (Becomes(r, x) => req'[r] = x)
      BY DEF NoRequest, Becomes, TypeOK
    <2> HIDE DEF x
    <2>4. LeaseMove(r)
      BY <2>1, <2>2, <2>3, FaultCount DEF LeaseMove
    <2>5. \E y : Becomes(r, y)
      <3>1. UNCHANGED req => Becomes(r, req[r])
        BY DEF Becomes, TypeOK
      <3> QED BY <2>1, <3>1
    <2> QED BY <2>1, <2>4, <2>5, LeaseOf, FaultCount
  <1>16. CASE OfferExpires
    BY <1>16, Time DEF OfferExpires, LeaseHasRun, Held
  <1>17. CASE LeaseExpires
    <2>1. conv'.lease.run = conv.lease.run /\ faults' = faults
      BY <1>17, Time DEF LeaseExpires
    <2>2. ASSUME NEW r \in Requests
          PROVE  req'[r].step = req[r].step /\ req'[r].leased = req[r].leased
      <3>1. req'[r] = req[r] \/ req'[r] = [req[r] EXCEPT !.timely = FALSE]
        BY <1>17 DEF LeaseExpires
      <3> QED BY <1>0, <3>1 DEF Request
    <2> QED BY <2>1, <2>2 DEF LeaseHasRun, Held
  <1> QED BY <1>1, <1>2, <1>3, <1>6, <1>7, <1>8, <1>10, <1>11, <1>14, <1>15, <1>16,
             <1>17 DEF Next

-----------------------------------------------------------------------------
(* The theorems                                                            *)

\* The invariant holds at the start and every step keeps it.
LEMMA Start == Init => IInv
  <1> SUFFICES ASSUME Init PROVE IInv
    OBVIOUS
  <1> USE Records
  <1>1. /\ conv \in Conversation /\ turns \in Seq(Row) /\ Len(turns) <= MaxTurns
        /\ Shape /\ conv.pending.nonce = 0 /\ conv.lease.run = None
    <2>1. CASE conv = NoConversation /\ turns = <<>>
      BY <2>1, BoundAssumption DEF Shape, NoConversation, NoOffer, NoLease
    <2>2. ASSUME NEW c \in Crews, conv = Legacy(c),
                 turns = <<[role |-> "user", crew |-> c, held |-> FALSE],
                           [role |-> "crew", crew |-> c, held |-> FALSE]>>
          PROVE  /\ conv \in Conversation /\ turns \in Seq(Row) /\ Len(turns) <= MaxTurns
                 /\ Shape /\ conv.pending.nonce = 0 /\ conv.lease.run = None
      <3>1. NoConversation.pending = NoOffer /\ NoConversation.lease = NoLease
        BY DEF NoConversation
      <3>2. /\ conv \in Conversation /\ conv.exists /\ conv.workload = c
            /\ conv.pending = NoOffer /\ conv.lease = NoLease
        BY <2>2, <3>1 DEF Legacy, Conversation
      <3>3. /\ [role |-> "user", crew |-> c, held |-> FALSE] \in Row
            /\ [role |-> "crew", crew |-> c, held |-> FALSE] \in Row
        BY DEF Row
      <3>4. turns \in Seq(Row) /\ Len(turns) = 2
        BY <2>2, <3>3
      <3>5. turns # <<>>
        BY <3>4
      <3>6. Shape
        BY <3>2, <3>5 DEF Shape, NoOffer
      <3> QED BY <3>2, <3>4, <3>6, BoundAssumption DEF NoOffer, NoLease
    <2> QED BY <2>1, <2>2 DEF Init
  <1>2. TypeOK
    BY <1>1, BoundAssumption DEF Init, TypeOK
  <1>3. \A r \in Requests : req[r] = NoRequest
    BY DEF Init
  <1>4. Control
    <2>1. InOrder(NoRequest, conv.exists) /\ ~NoRequest.isNew
      BY DEF InOrder, NoRequest
    <2> QED BY <1>3, <2>1 DEF Control
  <1>5. Sight
    BY <1>1, <1>3 DEF Sight, NoRequest
  <1>6. OfferIsCurrent /\ OfferStandsUntilAnswered
    BY <1>1 DEF Init, OfferIsCurrent, OfferStandsUntilAnswered
  <1>7. LeaseHasRun
    BY <1>1, GoneAssumption, NoneAssumption DEF LeaseHasRun, Held
  <1> QED BY <1>1, <1>2, <1>4, <1>5, <1>6, <1>7 DEF IInv

LEMMA Kept == IInv /\ [Next]_vars => IInv'
  BY TypeStep, ShapeStep, ControlStep, SightStep, OfferStep, LeaseStep DEF IInv

LEMMA Invariant == Spec => []IInv
  BY Start, Kept, PTL DEF Spec

\* A document of the conversation and its requests are what they should be.
THEOREM TypeCorrect == Spec => []TypeOK
  BY Invariant, PTL DEF IInv

\* An open offer starts at the bound crew.
THEOREM OffersAreCurrent == Spec => []OfferIsCurrent
  BY Invariant, PTL DEF IInv

\* An offer stands until it is answered, and is then dead for good.
THEOREM OffersStand == Spec => []OfferStandsUntilAnswered
  BY Invariant, PTL DEF IInv

\* A lease is released by its run, or is the trace of a failure.
THEOREM LeasesHaveRuns == Spec => []LeaseHasRun
  BY Invariant, PTL DEF IInv

-----------------------------------------------------------------------------
(* Who loses a lease                                                       *)

\* What a step of request r does to the lease and to the bound crew: nothing;
\* it takes a free lease, and may change the crew; it frees its own with the
\* event loop for itself; it leaves its own behind.
LeaseFate(r) ==
  \/ conv'.lease = conv.lease /\ (conv.exists => conv'.workload = conv.workload)
  \/ IsFree(conv.lease) /\ conv'.lease.fresh /\ conv'.lease.run \in {r, Gone}
  \/ /\ Held(r) /\ LoopFree(r) /\ conv'.workload = conv.workload
     /\ conv'.lease = NoLease /\ req'[r] # req[r]
  \/ /\ Held(r) /\ conv'.workload = conv.workload
     /\ conv'.lease.run = Gone /\ conv'.lease.fresh = conv.lease.fresh
     /\ req'[r] # req[r]

\* Every step of a request is one of these.
LEMMA Fate ==
  ASSUME TypeOK, Shape, Control, NEW r \in Requests, Acts(r)
  PROVE  LeaseFate(r)
  <1>0. conv \in Conversation /\ req \in [Requests -> Request]
    BY DEF TypeOK
  <1>1. CASE (\E c \in Crews : Arrive(r, c)) \/ Answer(r) \/ Fail(r) \/ Join(r)
    BY <1>1 DEF Arrive, Answer, Fail, Join, LeaseFate
  <1>2. CASE Acquire(r)
    <2>1. \/ conv' = conv
          \/ /\ IsFree(conv.lease)
             /\ \E id \in {r, Gone} : conv' = [conv EXCEPT !.lease = [run |-> id, fresh |-> TRUE]]
      BY <1>2 DEF Acquire
    <2> QED BY <1>0, <2>1 DEF LeaseFate, Conversation
  <1>3. CASE Persist(r) \/ PersistLate(r)
    <2>1. req[r].crew \in Crews /\ Mints(r)
      BY <1>3 DEF Persist, PersistLate, Control, InOrder
    <2>2. Appends(r) => /\ conv'.lease = conv.lease
                        /\ conv.exists => conv'.workload = conv.workload
      BY <2>1, Written
    <2> QED BY <1>3, <2>2 DEF Persist, PersistLate, LeaseFate
  <1>4. CASE Disconnect(r) \/ Release(r) \/ Crash(r)
    <2>1. \A x : Becomes(r, x) => req'[r] = x
      BY <1>0 DEF Becomes
    <2>2. ASSUME Ends(r), req[r].step # "idle" PROVE req'[r] # req[r]
      BY <2>1, <2>2 DEF Ends, NoRequest
    <2>3. ASSUME Disconnect(r) PROVE req'[r] # req[r]
      <3> DEFINE x == [req[r] EXCEPT !.step = "late", !.leased = FALSE, !.timely = FALSE]
      <3>1. req'[r] = x /\ req[r].step = "persist"
        BY <2>1, <2>3 DEF Disconnect
      <3>2. x.step = "late"
        BY <1>0 DEF Request
      <3> QED BY <3>1, <3>2
    <2>4. req'[r] # req[r]
      BY <1>4, <2>2, <2>3 DEF Release, Crash
    <2>5. \/ conv' = Freed(r) /\ LoopFree(r)
          \/ Abandons(r)
      BY <1>4 DEF Disconnect, Release, Crash
    <2>6. \/ conv' = conv
          \/ Held(r) /\ LoopFree(r) /\ conv' = [conv EXCEPT !.lease = NoLease]
          \/ Held(r) /\ conv' = [conv EXCEPT !.lease.run = Gone]
      BY <2>5 DEF Freed, Abandons
    <2> QED BY <1>0, <2>4, <2>6 DEF LeaseFate, Conversation, Lease
  <1>5. ASSUME NEW n \in issued, NEW accept \in BOOLEAN, NEW ok \in BOOLEAN,
               Redeem(r, n, accept, ok)
        PROVE  LeaseFate(r)
    <2>1. /\ IsFree(conv.lease)
          /\ conv'.workload = IF accept THEN conv.pending.to ELSE conv.workload
          /\ conv'.lease = IF accept THEN [run |-> IF ok THEN r ELSE Gone, fresh |-> TRUE]
                           ELSE conv.lease
      BY <1>5, Redeemed
    <2>2. CASE accept
      <3>1. conv'.lease = [run |-> IF ok THEN r ELSE Gone, fresh |-> TRUE]
        BY <2>1, <2>2
      <3>2. conv'.lease.fresh /\ conv'.lease.run \in {r, Gone}
        BY <3>1
      <3> QED BY <2>1, <3>2 DEF LeaseFate
    <2>3. CASE ~accept
      BY <2>1, <2>3 DEF LeaseFate
    <2> QED BY <2>2, <2>3
  <1> QED BY <1>1, <1>2, <1>3, <1>4, <1>5 DEF Acts

\* A run loses a lease that has not expired only by a step of its own.
THEOREM LeasesAreOwn == Spec => LeaseIsOwn
  <1>1. ASSUME IInv, [Next]_vars, NEW h \in Requests,
               Held(h), conv.lease.fresh, conv'.lease.run # h
        PROVE  req'[h] # req[h]
    <2>1. TypeOK /\ Shape /\ Control /\ ~IsFree(conv.lease)
      BY <1>1, NoneAssumption DEF IInv, IsFree, Held
    <2>2. CASE UNCHANGED vars
      BY <1>1, <2>2 DEF vars, Held
    <2>3. ASSUME NEW r \in Requests, Acts(r) PROVE req'[h] # req[h]
      <3>1. LeaseFate(r)
        BY <2>1, <2>3, Fate
      <3> QED BY <1>1, <2>1, <3>1 DEF LeaseFate, Held
    <2>4. CASE OfferExpires \/ LeaseExpires
      BY <1>1, <2>1, <2>4, Time DEF Held
    <2> QED BY <1>1, <2>2, <2>3, <2>4 DEF Next, Acts
  <1>2. IInv /\ [Next]_vars =>
          [\A r \in Requests :
             Held(r) /\ conv.lease.fresh /\ conv'.lease.run # r => req'[r] # req[r]]_vars
    BY <1>1
  <1> QED BY <1>2, Invariant, PTL DEF Spec, LeaseIsOwn

-----------------------------------------------------------------------------
(* Who wrote what                                                          *)

\* A run whose lease stands works for the bound crew, and so does one about to
\* take a lease, unless a redemption took it meanwhile.
Bound ==
  \A r \in Requests :
    /\ req[r].timely => /\ Held(r) /\ conv.lease.fresh
                        /\ conv.workload = req[r].crew
    /\ req[r].step = "acquire" /\ ~req[r].isNew =>
         conv.workload = req[r].crew \/ ~IsFree(conv.lease)

\* A run that writes in time held the lease; its step tells its fate.
LEMMA BoundStep ==
  ASSUME TypeOK, Shape, Control, LeaseHasRun, Bound, [Next]_vars
  PROVE  Bound'
  <1> DEFINE Fine(x) ==
        /\ req'[x].timely => /\ Held(x)' /\ conv'.lease.fresh
                             /\ conv'.workload = req'[x].crew
        /\ req'[x].step = "acquire" /\ ~req'[x].isNew =>
             conv'.workload = req'[x].crew \/ ~IsFree(conv'.lease)
  <1>0. /\ conv \in Conversation /\ req \in [Requests -> Request]
        /\ None \notin Requests /\ Gone # None
    BY NoneAssumption, GoneAssumption DEF TypeOK
  <1>1. CASE UNCHANGED vars
    BY <1>1 DEF vars, Bound, Held
  <1>2. ASSUME NEW r \in Requests, Acts(r), NEW x \in Requests, req'[x] = req[x], x # r
        PROVE  Fine(x)
    <2>1. LeaseFate(r)
      BY <1>2, Fate
    <2>2. req[x].timely \/ (req[x].step = "acquire" /\ ~req[x].isNew) => conv.exists
      BY <1>0, NoneAssumption DEF Bound, Shape, Control, InOrder, Held, NoConversation, NoLease
    <2> QED BY <1>0, <1>2, <2>1, <2>2 DEF LeaseFate, Bound, Held, IsFree, LoopFree
  <1>3. ASSUME NEW r \in Requests, Acts(r) PROVE Fine(r) /\ \A x \in Requests \ {r} : req'[x] = req[x]
    <2>0. ASSUME NEW y, Becomes(r, y)
          PROVE  req'[r] = y /\ \A x \in Requests \ {r} : req'[x] = req[x]
      BY <1>0, <2>0 DEF Becomes
    <2>1. ASSUME NEW y, Becomes(r, y), y.timely = FALSE, y.step # "acquire"
          PROVE  Fine(r) /\ \A x \in Requests \ {r} : req'[x] = req[x]
      BY <2>0, <2>1
    <2>2. ASSUME NEW y, Becomes(r, y), y.timely = req[r].timely, y.crew = req[r].crew,
                 y.step # "acquire", conv' = conv
          PROVE  Fine(r) /\ \A x \in Requests \ {r} : req'[x] = req[x]
      BY <2>0, <2>2 DEF Bound, Held
    <2>3. ASSUME NEW c \in Crews, Arrive(r, c)
          PROVE  Fine(r) /\ \A x \in Requests \ {r} : req'[x] = req[x]
      <3> DEFINE old == [NoRequest EXCEPT !.step = "acquire", !.typed = TRUE,
                            !.crew = c, !.saw = conv.pending.nonce]
                 new == [NoRequest EXCEPT !.step = "acquire", !.typed = TRUE,
                            !.crew = c, !.isNew = TRUE]
      <3>1. /\ old.timely = FALSE /\ old.crew = c
            /\ new.timely = FALSE /\ new.isNew = TRUE
        BY DEF NoRequest
      <3>2. /\ conv' = conv
            /\ \/ conv.workload = c /\ Becomes(r, old)
               \/ Becomes(r, new)
        BY <2>3 DEF Arrive
      <3> HIDE DEF old, new
      <3> QED BY <2>0, <3>1, <3>2
    <2>4. ASSUME Acquire(r)
          PROVE  Fine(r) /\ \A x \in Requests \ {r} : req'[x] = req[x]
      <3> DEFINE ran(known) == [req[r] EXCEPT !.step = "run", !.leased = known,
                                   !.timely = known /\ conv.exists]
                 taken(id) == [conv EXCEPT !.lease = [run |-> id, fresh |-> TRUE]]
      <3>1. \/ Becomes(r, NoRequest)
            \/ Becomes(r, ran(FALSE))
            \/ ~conv.exists /\ Becomes(r, ran(TRUE))
            \/ /\ conv.exists /\ IsFree(conv.lease) /\ req[r].step = "acquire"
               /\ conv' = taken(r) /\ Becomes(r, ran(TRUE))
        BY <2>4 DEF Acquire, Ends
      <3>2. /\ NoRequest.timely = FALSE /\ NoRequest.step = "idle"
            /\ \A k \in BOOLEAN : /\ ran(k).timely = (k /\ conv.exists)
                                  /\ ran(k).step = "run" /\ ran(k).crew = req[r].crew
        BY <1>0 DEF NoRequest, Request
      <3>3. /\ taken(r).lease.run = r /\ taken(r).lease.fresh
            /\ taken(r).workload = conv.workload
        BY <1>0 DEF Conversation
      <3>4. conv.exists /\ req[r].step = "acquire" /\ IsFree(conv.lease)
              => conv.workload = req[r].crew
        BY DEF Bound, Control, InOrder
      <3> HIDE DEF ran, taken
      <3>5. CASE \/ Becomes(r, NoRequest) \/ Becomes(r, ran(FALSE))
                 \/ ~conv.exists /\ Becomes(r, ran(TRUE))
        BY <2>1, <3>2, <3>5
      <3>6. CASE /\ conv.exists /\ IsFree(conv.lease) /\ req[r].step = "acquire"
                 /\ conv' = taken(r) /\ Becomes(r, ran(TRUE))
        BY <2>0, <3>2, <3>3, <3>4, <3>6 DEF Held
      <3> QED BY <3>1, <3>5, <3>6
    <2>5. ASSUME Answer(r) \/ Join(r)
          PROVE  Fine(r) /\ \A x \in Requests \ {r} : req'[x] = req[x]
      <3> DEFINE replied(to) == [req[r] EXCEPT !.step = "persist", !.offers = to]
                 joined == [req[r] EXCEPT !.step = "run"]
      <3>1. conv' = conv /\ ((\E to : Becomes(r, replied(to))) \/ Becomes(r, joined))
        BY <2>5 DEF Answer, Join, Goto
      <3>2. /\ \A to : /\ replied(to).timely = req[r].timely
                       /\ replied(to).crew = req[r].crew /\ replied(to).step # "acquire"
            /\ joined.timely = req[r].timely
            /\ joined.crew = req[r].crew /\ joined.step # "acquire"
        BY <1>0 DEF Request
      <3> HIDE DEF replied, joined
      <3> QED BY <2>2, <3>1, <3>2
    <2>6. ASSUME Disconnect(r)
          PROVE  Fine(r) /\ \A x \in Requests \ {r} : req'[x] = req[x]
      <3> DEFINE cut == [req[r] EXCEPT !.step = "late", !.leased = FALSE, !.timely = FALSE]
      <3>1. cut.timely = FALSE /\ cut.step # "acquire" /\ Becomes(r, cut)
        BY <1>0, <2>6 DEF Request, Disconnect
      <3> HIDE DEF cut
      <3> QED BY <2>1, <3>1
    <2>7. ASSUME Fail(r) \/ Persist(r) \/ PersistLate(r) \/ Release(r) \/ Crash(r)
          PROVE  Fine(r) /\ \A x \in Requests \ {r} : req'[x] = req[x]
      <3> DEFINE left == [NoRequest EXCEPT !.step = "release", !.leased = req[r].leased]
      <3>1. Becomes(r, left) \/ Becomes(r, NoRequest)
        BY <2>7 DEF Fail, Persist, PersistLate, Release, Crash, Leaves, Ends
      <3>2. /\ left.timely = FALSE /\ left.step # "acquire"
            /\ NoRequest.timely = FALSE /\ NoRequest.step # "acquire"
        BY DEF NoRequest
      <3> HIDE DEF left
      <3> QED BY <2>1, <3>1, <3>2
    <2>8. ASSUME NEW n \in issued, NEW accept \in BOOLEAN, NEW ok \in BOOLEAN,
                 Redeem(r, n, accept, ok)
          PROVE  Fine(r) /\ \A x \in Requests \ {r} : req'[x] = req[x]
      <3> DEFINE x == [NoRequest EXCEPT !.step = "join", !.crew = conv.pending.to,
                          !.leased = TRUE, !.timely = TRUE]
      <3>1. CASE accept /\ ok
        <4>1. Becomes(r, x)
          BY <2>8, <3>1 DEF Redeem
        <4>2. x.crew = conv.pending.to /\ x.step = "join"
          BY DEF NoRequest
        <4>3. conv'.workload = conv.pending.to /\ conv'.lease = [run |-> r, fresh |-> TRUE]
          BY <2>8, <3>1, Redeemed
        <4>4. conv'.lease.run = r /\ conv'.lease.fresh
          BY <4>3
        <4> HIDE DEF x
        <4> QED BY <2>0, <4>1, <4>2, <4>3, <4>4 DEF Held
      <3>2. CASE ~(accept /\ ok)
        <4>1. UNCHANGED req /\ req[r].step = "idle"
          BY <2>8, <3>2 DEF Redeem
        <4>2. ~req[r].timely
          BY <4>1 DEF Control, InOrder, NoRequest
        <4> QED BY <4>1, <4>2
      <3> QED BY <3>1, <3>2
    <2> QED BY <1>3, <2>3, <2>4, <2>5, <2>6, <2>7, <2>8 DEF Acts
  <1>4. CASE OfferExpires
    BY <1>0, <1>4 DEF OfferExpires, Bound, Held, Conversation, IsFree
  <1>5. CASE LeaseExpires
    <2>1. \A r \in Requests : req[r].step # "acquire"
      BY <1>5 DEF LeaseExpires
    <2>2. ASSUME NEW r \in Requests PROVE ~req'[r].timely /\ req'[r].step # "acquire"
      <3>1. req'[r] = IF Held(r) THEN [req[r] EXCEPT !.timely = FALSE] ELSE req[r]
        BY <1>5 DEF LeaseExpires
      <3> QED BY <1>0, <2>1, <3>1 DEF Bound, Request
    <2> QED BY <2>2 DEF Bound
  <1>6. ASSUME NEW r \in Requests, Acts(r) PROVE Bound'
    BY <1>2, <1>3, <1>6 DEF Bound
  <1> QED BY <1>1, <1>4, <1>5, <1>6 DEF Next, Acts

\* The rows before row i that moved the conversation, and their crews.
Changes(i) == {j \in 1 .. (i - 1) : turns[j].role = "crew_change"}
Movers == {turns[j].crew : j \in {k \in DOMAIN turns : turns[k].role = "crew_change"}}

\* Among the rows that moved the conversation there is a last one.
LastChange ==
  \A i \in 1 .. (Len(turns) + 1) :
    Changes(i) # {} => \E m \in Changes(i) : \A j \in Changes(i) : m >= j

\* The largest of a set of numbers that has one is its member.
LEMMA MaxIsMember ==
  ASSUME NEW S, NEW m \in S, \A j \in S : m >= j
  PROVE  Max(S) \in S
  BY DEF Max

\* What was written earlier stays, and who was bound then too.
LEMMA PastStays ==
  ASSUME turns \in Seq(Row), turns # <<>>, LastChange,
         NEW rows \in Seq(Row), turns' = turns \o rows
  PROVE  /\ turns' \in Seq(Row) /\ Len(turns') = Len(turns) + Len(rows)
         /\ \A i \in DOMAIN turns : turns'[i] = turns[i]
         /\ \A i \in 1 .. (Len(turns) + 1) : /\ Changes(i)' = Changes(i)
                                             /\ BoundAt(i)' = BoundAt(i)
  <1>1. /\ turns' \in Seq(Row) /\ Len(turns') = Len(turns) + Len(rows)
        /\ \A i \in 1 .. Len(turns) : turns'[i] = turns[i]
        /\ Len(turns) \in Nat /\ Len(turns) >= 1
    OBVIOUS
  <1>2. ASSUME NEW i \in 1 .. (Len(turns) + 1)
        PROVE  Changes(i)' = Changes(i) /\ BoundAt(i)' = BoundAt(i)
    <2>1. \A j \in 1 .. (i - 1) : turns'[j] = turns[j]
      BY <1>1
    <2>2. Changes(i)' = Changes(i)
      BY <2>1 DEF Changes
    <2>3. CASE Changes(i) = {}
      <3>1. BoundAt(i) = turns[1].crew /\ BoundAt(i)' = turns'[1].crew
        BY <2>2, <2>3 DEF BoundAt, Changes
      <3> QED BY <1>1, <2>2, <3>1
    <2>4. CASE Changes(i) # {}
      <3>1. Max(Changes(i)) \in Changes(i)
        BY <2>4, MaxIsMember DEF LastChange
      <3>2. turns'[Max(Changes(i))] = turns[Max(Changes(i))]
        BY <2>1, <3>1 DEF Changes
      <3>3. BoundAt(i) = turns[Max(Changes(i))].crew
        BY <2>4 DEF BoundAt, Changes
      <3>4. BoundAt(i)' = turns'[Max(Changes(i))].crew
        <4>1. {j \in 1 .. (i - 1) : turns'[j].role = "crew_change"} = Changes(i)
          BY <2>2 DEF Changes
        <4> QED BY <2>4, <4>1 DEF BoundAt
      <3> QED BY <2>2, <3>2, <3>3, <3>4
    <2> QED BY <2>3, <2>4
  <1> QED BY <1>1, <1>2

\* Who moved the conversation is who its changes name.
LEMMA MoversAre ==
  ASSUME turns \in Seq(Row)
  PROVE  Movers = {turns[j].crew : j \in Changes(Len(turns) + 1)}
  <1>1. DOMAIN turns = 1 .. ((Len(turns) + 1) - 1)
    OBVIOUS
  <1> QED BY <1>1 DEF Movers, Changes

\* Rows that change no crew leave everybody bound as before.
LEMMA NoMove ==
  ASSUME turns \in Seq(Row), turns # <<>>, LastChange,
         NEW rows \in Seq(Row), turns' = turns \o rows,
         \A i \in DOMAIN rows : rows[i].role # "crew_change"
  PROVE  /\ \A i \in (Len(turns) + 1) .. (Len(turns') + 1) :
              BoundAt(i)' = BoundAt(Len(turns) + 1)
         /\ BoundAt(Len(turns) + 1)' = BoundAt(Len(turns) + 1)
         /\ Movers' = Movers
         /\ LastChange'
  <1>0. PICK n \in Nat : n = Len(turns) /\ n >= 1
    OBVIOUS
  <1>1. /\ turns' \in Seq(Row) /\ Len(turns') = n + Len(rows)
        /\ \A i \in 1 .. n : turns'[i] = turns[i]
        /\ \A i \in 1 .. (n + 1) : Changes(i)' = Changes(i) /\ BoundAt(i)' = BoundAt(i)
        /\ n \in Nat /\ n >= 1 /\ Len(rows) \in Nat
    BY <1>0, PastStays
  <1>2. \A j \in (n + 1) .. (n + Len(rows)) : turns'[j].role # "crew_change"
    <2>1. ASSUME NEW j \in (n + 1) .. (n + Len(rows))
          PROVE  turns'[j] = rows[j - n] /\ j - n \in DOMAIN rows
      BY <1>1
    <2> QED BY <2>1
  <1>3. ASSUME NEW i \in (n + 1) .. (n + Len(rows) + 1)
        PROVE  Changes(i)' = Changes(n + 1)
    <2>1. \A j \in 1 .. (i - 1) : j \in 1 .. n \/ j \in (n + 1) .. (n + Len(rows))
      BY <1>1
    <2>2. \A j \in 1 .. n : j \in 1 .. (i - 1)
      BY <1>1
    <2>3. 1 .. ((n + 1) - 1) = 1 .. n
      BY <1>1
    <2> QED BY <1>1, <1>2, <2>1, <2>2, <2>3 DEF Changes
  <1>4. ASSUME NEW i \in (n + 1) .. (n + Len(rows) + 1)
        PROVE  BoundAt(i)' = BoundAt(n + 1)
    <2>1. {j \in 1 .. (i - 1) : turns'[j].role = "crew_change"} = Changes(n + 1)
      BY <1>3 DEF Changes
    <2>2. {j \in 1 .. ((n + 1) - 1) : turns[j].role = "crew_change"} = Changes(n + 1)
      BY DEF Changes
    <2>3. Changes(n + 1) # {} => Max(Changes(n + 1)) \in 1 .. n
      <3>1. n + 1 \in 1 .. (Len(turns) + 1)
        BY <1>1
      <3>2. Changes(n + 1) # {} => Max(Changes(n + 1)) \in Changes(n + 1)
        BY <3>1, MaxIsMember DEF LastChange
      <3> QED BY <1>1, <3>2 DEF Changes
    <2>4. CASE Changes(n + 1) = {}
      BY <1>1, <2>1, <2>2, <2>4 DEF BoundAt
    <2>5. CASE Changes(n + 1) # {}
      <3>1. BoundAt(i)' = turns'[Max(Changes(n + 1))].crew
        BY <2>1, <2>5 DEF BoundAt
      <3>2. BoundAt(n + 1) = turns[Max(Changes(n + 1))].crew
        BY <2>2, <2>5 DEF BoundAt
      <3> QED BY <1>1, <2>3, <2>5, <3>1, <3>2
    <2> QED BY <2>4, <2>5
  <1>5. Movers' = Movers
    <2>1. Movers' = {turns'[j].crew : j \in Changes(Len(turns) + 1)'}
      <3>1. {k \in DOMAIN turns' : turns'[k].role = "crew_change"}
              = {j \in 1 .. ((Len(turns') + 1) - 1) : turns'[j].role = "crew_change"}
        BY <1>1
      <3> QED BY <3>1 DEF Movers, Changes
    <2>2. Changes(Len(turns) + 1)' = Changes(n + 1)
      <3>1. Len(turns') + 1 \in (n + 1) .. (n + Len(rows) + 1)
        BY <1>1
      <3> QED BY <1>1, <1>3, <3>1 DEF Changes
    <2>3. \A j \in Changes(n + 1) : turns'[j] = turns[j]
      BY <1>1 DEF Changes
    <2>4. Movers' = {turns'[j].crew : j \in Changes(n + 1)}
      BY <2>1, <2>2
    <2> QED BY <1>0, <2>3, <2>4, MoversAre
  <1>6. LastChange'
    <2>1. ASSUME NEW i \in 1 .. (n + Len(rows) + 1)
          PROVE  Changes(i)' = Changes(i) \/ Changes(i)' = Changes(n + 1)
      BY <1>1, <1>3
    <2>2. ASSUME NEW i \in 1 .. (n + Len(rows) + 1), Changes(i)' # {}
          PROVE  \E m \in Changes(i)' : \A j \in Changes(i)' : m >= j
      <3>1. CASE i \in 1 .. (n + 1)
        BY <1>1, <2>2, <3>1 DEF LastChange
      <3>2. CASE i \in (n + 1) .. (n + Len(rows) + 1)
        <4>1. n + 1 \in 1 .. (n + 1)
          BY <1>1
        <4> QED BY <1>0, <1>3, <2>2, <3>2, <4>1 DEF LastChange
      <3> QED BY <1>1, <3>1, <3>2
    <2> QED BY <1>1, <2>2 DEF LastChange
  <1>7. BoundAt(Len(turns) + 1)' = BoundAt(n + 1)
    <2>1. PICK m \in Nat : m = Len(turns') + 1
      BY <1>1
    <2>2. m \in (n + 1) .. (n + Len(rows) + 1)
      BY <1>1, <2>1
    <2>3. BoundAt(Len(turns) + 1)' = BoundAt(m)'
      BY <2>1 DEF BoundAt
    <2> QED BY <1>4, <2>2, <2>3
  <1> QED BY <1>0, <1>1, <1>4, <1>5, <1>6, <1>7

\* A change of crew binds the crew it names.
LEMMA Move ==
  ASSUME turns \in Seq(Row), turns # <<>>, LastChange,
         NEW t \in Row, turns' = Append(turns, t), t.role = "crew_change"
  PROVE  /\ BoundAt(Len(turns) + 1)' = t.crew
         /\ Movers' = Movers \cup {t.crew}
         /\ LastChange'
  <1>0. PICK n \in Nat : n = Len(turns) /\ n >= 1
    OBVIOUS
  <1>1. /\ turns' \in Seq(Row) /\ Len(turns') = n + 1 /\ turns'[n + 1] = t
        /\ \A i \in 1 .. n : turns'[i] = turns[i]
        /\ \A i \in 1 .. (n + 1) : Changes(i)' = Changes(i)
        /\ n \in Nat /\ n >= 1
    <2>1. turns' = turns \o <<t>> /\ <<t>> \in Seq(Row)
      OBVIOUS
    <2>2. /\ turns' \in Seq(Row) /\ Len(turns') = n + 1 /\ turns'[n + 1] = t
          /\ n \in Nat /\ n >= 1
      BY <1>0
    <2>3. DOMAIN turns = 1 .. n
      BY <1>0
    <2> QED BY <1>0, <2>1, <2>2, <2>3, PastStays
  <1>2. {j \in 1 .. (n + 1) : turns'[j].role = "crew_change"} = Changes(n + 1) \cup {n + 1}
    <2>1. \A j \in 1 .. (n + 1) : j \in 1 .. n \/ j = n + 1
      BY <1>1
    <2>2. 1 .. ((n + 1) - 1) = 1 .. n /\ n + 1 \in 1 .. (n + 1)
      BY <1>1
    <2>3. \A j \in 1 .. n : j \in 1 .. (n + 1)
      BY <1>1
    <2> QED BY <1>1, <2>1, <2>2, <2>3 DEF Changes
  <1>3. Changes(n + 2)' = Changes(n + 1) \cup {n + 1}
    <2>1. (n + 2) - 1 = n + 1
      BY <1>1
    <2> QED BY <1>2, <2>1 DEF Changes
  <1>4. \A j \in Changes(n + 1) \cup {n + 1} : n + 1 >= j /\ j \in Nat
    BY <1>1 DEF Changes
  <1>5. Max(Changes(n + 1) \cup {n + 1}) = n + 1
    <2>1. ASSUME NEW m \in Changes(n + 1) \cup {n + 1},
                 \A j \in Changes(n + 1) \cup {n + 1} : m >= j
          PROVE  m = n + 1
      <3>1. m \in Nat /\ n + 1 >= m
        BY <1>4, <2>1
      <3>2. m >= n + 1
        BY <2>1
      <3> QED BY <3>1, <3>2
    <2> QED BY <1>4, <2>1 DEF Max
  <1>6. BoundAt(n + 2)' = t.crew
    <2>1. (n + 2) - 1 = n + 1
      BY <1>1
    <2>2. {j \in 1 .. ((n + 2) - 1) : turns'[j].role = "crew_change"} # {}
      BY <1>2, <2>1
    <2> QED BY <1>1, <1>2, <1>5, <2>1, <2>2 DEF BoundAt
  <1>7. Movers' = Movers \cup {t.crew}
    <2>1. {k \in DOMAIN turns' : turns'[k].role = "crew_change"} = Changes(n + 1) \cup {n + 1}
      BY <1>1, <1>2
    <2>2. Movers' = {turns'[j].crew : j \in Changes(n + 1) \cup {n + 1}}
      BY <2>1 DEF Movers
    <2>3. \A j \in Changes(n + 1) : turns'[j] = turns[j]
      BY <1>1 DEF Changes
    <2> QED BY ZenonT(40), <1>0, <1>1, <2>2, <2>3, MoversAre
  <1>8. LastChange'
    <2>1. ASSUME NEW i \in 1 .. (n + 2), Changes(i)' # {}
          PROVE  \E m \in Changes(i)' : \A j \in Changes(i)' : m >= j
      <3>1. CASE i \in 1 .. (n + 1)
        BY <1>1, <2>1, <3>1 DEF LastChange
      <3>2. CASE i = n + 2
        BY <1>3, <1>4, <3>2
      <3> QED BY <1>1, <3>1, <3>2
    <2> QED BY <1>1, <2>1 DEF LastChange
  <1>9. Len(turns') + 1 = n + 2
    BY <1>1
  <1>10. BoundAt(Len(turns) + 1)' = BoundAt(n + 2)'
    BY <1>9 DEF BoundAt
  <1> QED BY <1>6, <1>7, <1>8, <1>10

\* The transcript names who is bound and who was, and attributes what was
\* written in time to who was bound.
Told == LastChange /\ Attributed /\ CrewsRemembered

\* A turn's rows are the operator's and its crew's.
LEMMA RowsAre ==
  ASSUME TypeOK, NEW r \in Requests, req[r].crew \in Crews
  PROVE  \A i \in DOMAIN Rows(r) : /\ Rows(r)[i].role # "crew_change"
                                   /\ Rows(r)[i].crew = req[r].crew
                                   /\ Rows(r)[i].held = req[r].timely
  <1>1. CASE req[r].typed
    BY <1>1 DEF Rows
  <1>2. CASE ~req[r].typed
    BY <1>2 DEF Rows
  <1> QED BY <1>1, <1>2

\* A write tells the truth.
LEMMA WriteTold ==
  ASSUME TypeOK, Shape, Bound, Told, NEW r \in Requests,
         req[r].crew \in Crews, Mints(r), Appends(r)
  PROVE  Told'
  <1>1. /\ Rows(r) \in Seq(Row) /\ Len(Rows(r)) \in 1 .. 2
        /\ turns \in Seq(Row) /\ turns' = turns \o Rows(r)
        /\ conv \in Conversation
    BY RowsType DEF TypeOK, Appends
  <1>2. \A i \in DOMAIN Rows(r) : /\ Rows(r)[i].role # "crew_change"
                                  /\ Rows(r)[i].crew = req[r].crew
                                  /\ Rows(r)[i].held = req[r].timely
    BY RowsAre
  <1>3. req[r].timely => conv.workload = req[r].crew /\ conv.exists
    BY NoneAssumption DEF Bound, Held, Shape, NoConversation, NoLease
  <1>4. /\ conv'.workload = IF conv.exists THEN conv.workload ELSE req[r].crew
        /\ conv'.crews = IF conv.exists THEN conv.crews ELSE {req[r].crew}
        /\ conv'.exists
    BY <1>1 DEF Appends, Conversation
  <1>5. CASE conv.exists
    <2>1. turns # <<>>
      BY <1>5 DEF Shape
    <2>2. PICK n \in Nat : n = Len(turns) /\ n >= 1
      BY <1>1, <2>1
    <2>3. /\ Len(turns') = n + Len(Rows(r)) /\ turns' \in Seq(Row)
          /\ \A i \in 1 .. n : turns'[i] = turns[i] /\ BoundAt(i)' = BoundAt(i)
      BY <1>1, <2>1, <2>2, PastStays DEF Told
    <2>4. /\ \A i \in (n + 1) .. (Len(turns') + 1) : BoundAt(i)' = BoundAt(n + 1)
          /\ BoundAt(Len(turns) + 1)' = BoundAt(n + 1)
          /\ Movers' = Movers
          /\ LastChange'
      BY <1>1, <1>2, <2>1, <2>2, NoMove DEF Told
    <2>5. conv.workload = BoundAt(n + 1) /\ CrewsOf(conv) = {turns[1].crew} \cup Movers
      BY <1>5, <2>2 DEF Told, CrewsRemembered, Movers
    <2>6. Attributed'
      <3>1. ASSUME NEW i \in DOMAIN turns', turns'[i].role = "crew", turns'[i].held
            PROVE  turns'[i].crew = BoundAt(i)'
        <4>1. CASE i \in 1 .. n
          BY <2>2, <2>3, <3>1, <4>1 DEF Told, Attributed
        <4>2. CASE i \in (n + 1) .. (n + Len(Rows(r)))
          <5>1. turns'[i] = Rows(r)[i - n] /\ i - n \in DOMAIN Rows(r)
            BY <1>1, <2>2, <4>2
          <5>2. turns'[i].crew = conv.workload
            BY <1>2, <1>3, <3>1, <5>1
          <5> QED BY <2>3, <2>4, <2>5, <4>2, <5>2
        <4>3. i \in 1 .. (n + Len(Rows(r)))
          BY <2>3, <3>1
        <4> QED BY <1>1, <2>2, <4>1, <4>2, <4>3
      <3> QED BY <3>1 DEF Attributed
    <2>7. CrewsRemembered'
      <3>1. conv'.workload = BoundAt(Len(turns) + 1)'
        BY <1>4, <1>5, <2>4, <2>5
      <3>2. CrewsOf(conv)' = CrewsOf(conv)
        BY <1>4, <1>5 DEF CrewsOf
      <3>3. turns'[1] = turns[1]
        BY <2>2, <2>3
      <3> QED BY <2>4, <2>5, <3>1, <3>2, <3>3 DEF CrewsRemembered, Movers
    <2> QED BY <2>4, <2>6, <2>7 DEF Told
  <1>6. CASE ~conv.exists
    <2>1. turns' = Rows(r) /\ Len(turns') \in Nat /\ Len(turns') >= 1 /\ ~req[r].timely
      <3>1. turns = <<>>
        BY <1>6 DEF Shape
      <3>2. turns' = Rows(r)
        BY <1>1, <3>1
      <3>3. ~req[r].timely
        BY <1>3, <1>6
      <3>4. Len(turns') \in 1 .. 2
        BY <1>1, <3>2
      <3> QED BY <3>2, <3>3, <3>4
    <2>2. \A i \in 1 .. (Len(turns') + 1) : Changes(i)' = {}
      BY <1>2, <2>1 DEF Changes
    <2>3. LastChange'
      BY <2>2 DEF LastChange
    <2>4. Attributed'
      BY <1>2, <2>1 DEF Attributed
    <2>5. turns'[1].crew = req[r].crew
      BY <1>2, <2>1
    <2>6. Movers' = {}
      BY <1>2, <2>1 DEF Movers
    <2>7. BoundAt(Len(turns) + 1)' = req[r].crew
      <3>1. Changes(Len(turns) + 1)' = {}
        BY <2>1, <2>2 DEF Changes
      <3> QED BY <2>5, <3>1 DEF BoundAt, Changes
    <2>8. CrewsOf(conv)' = {req[r].crew}
      BY <1>4, <1>6 DEF CrewsOf
    <2> QED BY <1>4, <1>6, <2>3, <2>4, <2>5, <2>6, <2>7, <2>8 DEF Told, CrewsRemembered, Movers
  <1> QED BY <1>5, <1>6

\* A redemption tells the truth.
LEMMA RedeemTold ==
  ASSUME TypeOK, Shape, Told, NEW r \in Requests, NEW n \in issued,
         NEW accept \in BOOLEAN, NEW ok \in BOOLEAN, Redeem(r, n, accept, ok)
  PROVE  Told'
  <1> DEFINE t == [role |-> IF accept THEN "crew_change" ELSE "handoff_declined",
                   crew |-> IF accept THEN conv.pending.to ELSE conv.pending.from,
                   held |-> FALSE]
  <1>1. /\ conv.exists /\ conv'.exists /\ conv.pending.nonce # 0 /\ turns # <<>>
        /\ conv.pending.to \in Crews /\ conv.pending.from \in Crews
        /\ conv'.workload = IF accept THEN conv.pending.to ELSE conv.workload
        /\ turns \in Seq(Row) /\ conv \in Conversation
    BY Redeemed DEF Shape, TypeOK
  <1>2. /\ t \in Row /\ ~t.held
        /\ t.role = IF accept THEN "crew_change" ELSE "handoff_declined"
        /\ t.crew = IF accept THEN conv.pending.to ELSE conv.pending.from
    BY <1>1 DEF Row
  <1>3. turns' = Append(turns, t)
    BY DEF Redeem
  <1> HIDE DEF t
  <1>4. PICK k \in Nat : k = Len(turns) /\ k >= 1
    BY <1>1
  <1>5. turns' = turns \o <<t>> /\ <<t>> \in Seq(Row)
    BY <1>1, <1>2, <1>3
  <1>6. /\ Len(turns') = k + 1 /\ turns'[k + 1] = t /\ turns' \in Seq(Row)
        /\ \A i \in 1 .. k : turns'[i] = turns[i] /\ BoundAt(i)' = BoundAt(i)
    <2>1. /\ \A i \in DOMAIN turns : turns'[i] = turns[i]
          /\ \A i \in 1 .. (k + 1) : BoundAt(i)' = BoundAt(i)
      BY <1>1, <1>4, <1>5, PastStays DEF Told
    <2>2. DOMAIN turns = 1 .. k
      BY <1>1, <1>4
    <2>3. Len(turns') = k + 1 /\ turns'[k + 1] = t /\ turns' \in Seq(Row)
      BY <1>1, <1>2, <1>3, <1>4
    <2> QED BY <2>1, <2>2, <2>3
  <1>7. conv.workload = BoundAt(k + 1) /\ CrewsOf(conv) = {turns[1].crew} \cup Movers
    BY <1>1, <1>4 DEF Told, CrewsRemembered, Movers
  <1>8. Attributed'
    <2>1. ASSUME NEW i \in DOMAIN turns', turns'[i].held
          PROVE  turns[i] = turns'[i] /\ BoundAt(i)' = BoundAt(i) /\ i \in DOMAIN turns
      <3>1. i \in 1 .. k \/ i = k + 1
        BY <1>6
      <3> QED BY <1>1, <1>2, <1>4, <1>6, <2>1, <3>1
    <2> QED BY <2>1 DEF Told, Attributed
  <1>9. CASE accept
    <2>1. /\ BoundAt(Len(turns) + 1)' = conv.pending.to
          /\ Movers' = Movers \cup {conv.pending.to}
          /\ LastChange'
      BY <1>1, <1>2, <1>3, <1>9, Move DEF Told
    <2>2. CrewsOf(conv)' = CrewsOf(conv) \cup {conv.pending.to}
      <3>1. conv'.crews = CrewsOf(conv) \cup {conv.pending.to}
        BY <1>1, <1>9 DEF Redeem, Joined, Conversation
      <3> QED BY <3>1 DEF CrewsOf
    <2>3. CrewsOf(conv)' = {turns'[1].crew} \cup Movers'
      <3>1. turns'[1] = turns[1]
        BY <1>4, <1>6
      <3> QED BY <1>7, <2>1, <2>2, <3>1
    <2>4. conv'.workload = BoundAt(Len(turns) + 1)'
      BY <1>1, <1>9, <2>1
    <2> QED BY <1>8, <2>1, <2>3, <2>4 DEF Told, CrewsRemembered, Movers
  <1>10. CASE ~accept
    <2>1. /\ BoundAt(Len(turns) + 1)' = BoundAt(k + 1)
          /\ Movers' = Movers
          /\ LastChange'
      <3>1. \A i \in DOMAIN <<t>> : <<t>>[i].role # "crew_change"
        BY <1>2, <1>10
      <3> QED BY <1>1, <1>4, <1>5, <3>1, NoMove DEF Told
    <2>3. CrewsOf(conv)' = CrewsOf(conv)
      <3>1. conv'.crews = conv.crews /\ conv'.workload = conv.workload
        BY <1>1, <1>10 DEF Redeem, Conversation
      <3> QED BY <3>1 DEF CrewsOf
    <2> QED BY <1>1, <1>4, <1>6, <1>7, <1>8, <1>10, <2>1, <2>3
         DEF Told, CrewsRemembered, Movers
  <1> QED BY <1>9, <1>10

\* Every step tells the truth.
LEMMA ToldStep ==
  ASSUME TypeOK, Shape, Control, Bound, Told, [Next]_vars
  PROVE  Told'
  <1>0. ASSUME UNCHANGED <<turns, conv.exists, conv.workload, conv.crews>>
        PROVE  Told'
    <2>1. LastChange' = LastChange /\ Attributed' = Attributed
      BY <1>0 DEF LastChange, Changes, Attributed, BoundAt
    <2>2. CrewsRemembered' = CrewsRemembered
      BY <1>0 DEF CrewsRemembered, BoundAt, CrewsOf
    <2> QED BY <2>1, <2>2 DEF Told
  <1>1. CASE UNCHANGED vars
    BY <1>0, <1>1 DEF vars
  <1>2. ASSUME NEW r \in Requests,
               \/ \E c \in Crews : Arrive(r, c)
               \/ Acquire(r) \/ Answer(r) \/ Fail(r) \/ Disconnect(r)
               \/ Release(r) \/ Join(r) \/ Crash(r)
        PROVE  Told'
    <2>1. UNCHANGED <<turns, conv.exists, conv.workload>>
      BY <1>2, Quiet DEF Binding
    <2>2. conv'.crews = conv.crews
      BY <1>2 DEF TypeOK, Conversation, Arrive, Acquire, Answer, Fail, Disconnect,
                  Release, Join, Crash, Freed, Abandons
    <2> QED BY <1>0, <2>1, <2>2
  <1>3. ASSUME NEW r \in Requests, Persist(r) \/ PersistLate(r) PROVE Told'
    <2>1. req[r].crew \in Crews /\ Mints(r)
      BY <1>3 DEF Persist, PersistLate, Control, InOrder
    <2>2. CASE Appends(r)
      BY <2>1, <2>2, WriteTold
    <2>3. CASE ~Appends(r)
      BY <1>0, <1>3, <2>3 DEF Persist, PersistLate
    <2> QED BY <2>2, <2>3
  <1>4. ASSUME NEW r \in Requests, NEW n \in issued, NEW accept \in BOOLEAN,
               NEW ok \in BOOLEAN, Redeem(r, n, accept, ok)
        PROVE  Told'
    BY <1>4, RedeemTold
  <1>5. CASE OfferExpires \/ LeaseExpires
    BY <1>0, <1>5 DEF OfferExpires, LeaseExpires, TypeOK, Conversation
  <1> QED BY <1>1, <1>2, <1>3, <1>4, <1>5 DEF Next

\* At the start nobody runs and nobody has moved the conversation.
LEMMA StartTold == Init => Bound /\ Told
  <1> SUFFICES ASSUME Init PROVE Bound /\ Told
    OBVIOUS
  <1>1. Bound
    BY DEF Init, Bound, NoRequest
  <1>2. /\ \A i \in DOMAIN turns : turns[i].role # "crew_change" /\ ~turns[i].held
        /\ turns \in Seq(Row)
        /\ conv.exists => CrewsOf(conv) = {turns[1].crew} /\ conv.workload = turns[1].crew
    <2>1. CASE conv = NoConversation /\ turns = <<>>
      BY <2>1 DEF NoConversation
    <2>2. ASSUME NEW c \in Crews, conv = Legacy(c),
                 turns = <<[role |-> "user", crew |-> c, held |-> FALSE],
                           [role |-> "crew", crew |-> c, held |-> FALSE]>>
          PROVE  /\ \A i \in DOMAIN turns : turns[i].role # "crew_change" /\ ~turns[i].held
                 /\ turns \in Seq(Row)
                 /\ CrewsOf(conv) = {turns[1].crew} /\ conv.workload = turns[1].crew
      <3>1. conv.workload = c /\ conv.crews = {}
        BY <2>2 DEF Legacy, NoConversation
      <3>2. /\ [role |-> "user", crew |-> c, held |-> FALSE] \in Row
            /\ [role |-> "crew", crew |-> c, held |-> FALSE] \in Row
        BY DEF Row
      <3> QED BY <2>2, <3>1, <3>2 DEF CrewsOf
    <2> QED BY <2>1, <2>2 DEF Init
  <1>3. \A i \in 1 .. (Len(turns) + 1) : Changes(i) = {}
    <2>1. DOMAIN turns = 1 .. Len(turns) /\ Len(turns) \in Nat
      BY <1>2
    <2> QED BY <1>2, <2>1 DEF Changes
  <1>4. LastChange /\ Attributed
    BY <1>2, <1>3 DEF LastChange, Attributed
  <1>5. BoundAt(Len(turns) + 1) = turns[1].crew /\ Movers = {}
    <2>1. Changes(Len(turns) + 1) = {}
      BY <1>2, <1>3
    <2> QED BY <1>2, <2>1 DEF BoundAt, Changes, Movers
  <1>6. CrewsRemembered
    BY <1>2, <1>5 DEF CrewsRemembered, Movers
  <1> QED BY <1>1, <1>4, <1>6 DEF Told

LEMMA Truth == Spec => [](Bound /\ Told)
  <1>1. IInv /\ Bound /\ Told /\ [Next]_vars => (Bound /\ Told)'
    BY BoundStep, ToldStep DEF IInv
  <1> QED BY <1>1, StartTold, Invariant, PTL DEF Spec

\* A turn whose lease stood when it was written is attributed to the crew
\* that was bound then.
THEOREM TurnsAreAttributed == Spec => []Attributed
  BY Truth, PTL DEF Told

\* The bound crew and the participants are the ones the transcript names.
THEOREM CrewsAreRemembered == Spec => []CrewsRemembered
  BY Truth, PTL DEF Told

=============================================================================
