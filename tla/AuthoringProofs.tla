---------------------------- MODULE AuthoringProofs ----------------------------
(***************************************************************************)
(* What holds of authoring for any number of turns, slices, requests to    *)
(* the editor and adoptions, whatever the agents write and whoever dies.   *)
(***************************************************************************)
EXTENDS Authoring, FiniteSetTheorems, TLAPS

-----------------------------------------------------------------------------
(* The inductive invariant                                                 *)

Stages == {"checks", "write", "label", "replied", "failed"}
FileMaps == UNION {[D -> Files \cup {NoFile}] : D \in SUBSET Slots}

TurnSet == [pc : {"idle", "decompose", "author", "send", "calling", "chat",
                  "adopt", "tool", "over", "gone"},
            mode : Modes, anon : BOOLEAN, slots : SUBSET Slots,
            sinks : [Slots -> Contents \cup {NoFile}],
            adopting : Adoptions \cup {Nothing},
            buffer : 0..1, seq : Nat, shown : Seq(Nat)]

CallSet == [by : Runs, branch : Calls, files : FileMaps,
            adopts : Adoptions \cup {Nothing}, blind : BOOLEAN, at : Stages,
            wait : {"yes", "heard", "no"}, written : SUBSET Slots, pull : Nat,
            fresh : BOOLEAN]

PullSet == [call : Nat, state : {"open", "merged"}, labelled : BOOLEAN]

Shape ==
  /\ run \in [Runs -> TurnSet]
  /\ loop \in Runs \cup {NoRun}
  /\ calls \in Seq(CallSet) /\ Len(calls) <= MaxCalls
  /\ branches \in [Calls -> [Slots -> Files \cup {NoFile}]]
  /\ pulls \in Seq(PullSet)
  /\ declared \subseteq Labels
  /\ traces \in [Calls -> Runs \cup {NoRun}]

\* The events shown are numbered as they came, and the next number is the next.
Numbered(t) == /\ t.seq = Len(t.shown)
               /\ \A i \in DOMAIN t.shown : t.shown[i] = i

\* Nothing is shown before it is known who answers; a turn that has slices is
\* the fan-out's to its end; what is sent has passed the barrier, and what is
\* about to be adopted the recipe.
Turn(t) ==
  /\ Numbered(t)
  /\ t.pc \in {"idle", "decompose"} => t.shown = <<>> /\ t.slots = {}
  /\ t.slots # {} => t.pc \in {"author", "send", "calling", "over", "gone"}
  /\ t.pc = "send" => /\ ~EditorRefuses(Merged(t))
                      /\ \A s \in t.slots : ~FreehandImport(t.sinks[s])
  /\ t.pc = "adopt" => t.adopting \in Adoptions /\ ~AdoptRefused(t.adopting)

Turns == \A r \in Runs : Turn(run[r])

\* A tool of the single agent holds the loop, and nobody else's request comes
\* between its look and its own.
Blocks == \A r \in Runs :
            /\ run[r].pc \in {"adopt", "tool"} => loop = r
            /\ run[r].pc = "adopt" => Len(calls) < MaxCalls

\* Where a turn may be of which a request was sent.
Sent == {"calling", "chat", "adopt", "tool", "over", "gone"}

\* A turn waits for one request at most, an adoption's in its tool.
Waits ==
  /\ \A n \in DOMAIN calls :
       /\ run[calls[n].by].pc \in Sent
       /\ calls[n].wait = "yes" =>
            /\ run[calls[n].by].pc \in {"calling", "tool"}
            /\ calls[n].adopts # Nothing => run[calls[n].by].pc = "tool"
  /\ \A m, n \in DOMAIN calls :
       /\ calls[m].wait = "yes" /\ calls[n].wait = "yes"
       /\ calls[m].by = calls[n].by
       => m = n

\* A turn with slices asks once, for all of them.
Committed ==
  \A n \in DOMAIN calls : run[calls[n].by].slots # {} =>
    /\ \A m \in DOMAIN calls : calls[m].by = calls[n].by => m = n
    /\ DOMAIN calls[n].files = run[calls[n].by].slots
    /\ NoFile \notin {calls[n].files[s] : s \in DOMAIN calls[n].files}

Admitted(files) == ~EditorRefuses(files) /\ ~GateRefuses("agent", Change(files))

\* A request is for files without an import of the author's own or for the
\* rendered adoption.
Asks(files, adopts) ==
  IF adopts = Nothing THEN \A s \in DOMAIN files : ~FreehandImport(files[s])
  ELSE /\ ~AdoptRefused(adopts)
       /\ \E s \in Slots : files = [t \in {s} |-> Rendered(adopts)]

\* It is past the gate when it writes; nobody hears of it before its end.
Sound(c) ==
  /\ Asks(c.files, c.adopts)
  /\ c.at = "write" => Admitted(c.files)
  /\ c.written \subseteq DOMAIN c.files
  /\ c.at = "checks" => c.written = {}
  /\ c.wait = "heard" => c.at \in {"replied", "failed"}

Requests == \A n \in DOMAIN calls : Sound(calls[n])

\* A pull request was opened by one call, past its gate.
Opens ==
  /\ \A p \in DOMAIN pulls :
       /\ pulls[p].call \in DOMAIN calls
       /\ calls[pulls[p].call].at \notin {"checks", "write"}
       /\ Admitted(calls[pulls[p].call].files)
  /\ \A p, q \in DOMAIN pulls : pulls[p].call = pulls[q].call => p = q

\* What a call says of a pull request is true of it.
Truthful(n) ==
  /\ calls[n].at = "label" =>
       /\ calls[n].pull \in DOMAIN pulls
       /\ calls[pulls[calls[n].pull].call].branch = calls[n].branch
  /\ calls[n].fresh => /\ calls[n].pull \in DOMAIN pulls
                       /\ pulls[calls[n].pull].call = n

Answers == \A n \in DOMAIN calls : Truthful(n)

\* A branch nobody shares holds what its call has written, all of it once there
\* is a pull request.
Holds(n, D) ==
  \A s \in Slots : branches[calls[n].branch][s] =
                     IF s \in D THEN calls[n].files[s] ELSE NoFile

Branches ==
  /\ \A b \in Calls : (\A n \in DOMAIN calls : calls[n].branch # b) =>
       \A s \in Slots : branches[b][s] = NoFile
  /\ \A n \in DOMAIN calls : Alone(n) /\ calls[n].at \in {"checks", "write"} =>
       Holds(n, calls[n].written)
  /\ \A p \in DOMAIN pulls, n \in DOMAIN calls : pulls[p].call = n /\ Alone(n) =>
       Holds(n, DOMAIN calls[n].files)

\* An adoption that was sent after a look found every earlier one of the same
\* resource heard, and without an open labelled pull request.
Settled(m) ==
  /\ calls[m].wait = "heard"
  /\ \A p \in DOMAIN pulls :
       pulls[p].call = m => ~(pulls[p].state = "open" /\ pulls[p].labelled)

Exclusive ==
  \A m, n \in DOMAIN calls :
    /\ m < n
    /\ calls[m].adopts = calls[n].adopts /\ calls[m].adopts # Nothing
    /\ Alone(m) /\ ~calls[n].blind /\ calls[m].wait # "no"
    => Settled(m)

IInv == /\ Shape /\ Turns /\ Blocks /\ Waits /\ Committed /\ Requests
        /\ Opens /\ Answers /\ Branches /\ TraceIsAuthors /\ Exclusive

-----------------------------------------------------------------------------
(* Turns                                                                   *)

LEMMA EmittedFields ==
  ASSUME NEW t \in TurnSet
  PROVE  /\ Emitted(t) \in TurnSet
         /\ Numbered(t) => Numbered(Emitted(t))
         /\ Emitted(t).pc = t.pc /\ Emitted(t).slots = t.slots
         /\ Emitted(t).sinks = t.sinks /\ Emitted(t).adopting = t.adopting
<1>1. /\ t.seq \in Nat /\ t.shown \in Seq(Nat)
      /\ Append(t.shown, t.seq + 1) \in Seq(Nat)
  BY DEF TurnSet
<1>2. Emitted(t) = [t EXCEPT !.seq = t.seq + 1, !.shown = Append(t.shown, t.seq + 1)]
  BY DEF Emitted
<1>3. /\ Emitted(t).seq = t.seq + 1
      /\ Emitted(t).shown = Append(t.shown, t.seq + 1)
      /\ Emitted(t).pc = t.pc /\ Emitted(t).slots = t.slots
      /\ Emitted(t).sinks = t.sinks /\ Emitted(t).adopting = t.adopting
  BY <1>2 DEF TurnSet
<1>5. Emitted(t) \in TurnSet
  <2> DEFINE n == t.seq + 1
             e == Append(t.shown, n)
  <2>1. n \in Nat /\ e \in Seq(Nat) /\ Emitted(t) = [t EXCEPT !.seq = n, !.shown = e]
    BY <1>1, <1>2
  <2> HIDE DEF n, e
  <2> QED
    BY <2>1 DEF TurnSet
<1>4. ASSUME Numbered(t) PROVE Numbered(Emitted(t))
  BY <1>1, <1>3, <1>4 DEF Numbered
<1> QED
  BY <1>3, <1>4, <1>5

LEMMA FlushedFields ==
  ASSUME NEW t \in TurnSet
  PROVE  /\ Flushed(t) \in TurnSet
         /\ Numbered(t) => Numbered(Flushed(t))
         /\ Flushed(t).slots = t.slots /\ Flushed(t).sinks = t.sinks
<1>1. CASE t.buffer = 0
  BY <1>1 DEF Flushed
<1>2. CASE t.buffer # 0
  <2>1. Flushed(t) = [Emitted(t) EXCEPT !.buffer = 0]
    BY <1>2 DEF Flushed
  <2> DEFINE u == Emitted(t)
  <2>2. u \in TurnSet /\ (Numbered(t) => Numbered(u))
        /\ u.slots = t.slots /\ u.sinks = t.sinks
    BY EmittedFields
  <2> HIDE DEF u
  <2>3. Flushed(t) = [u EXCEPT !.buffer = 0]
    BY <2>1 DEF u
  <2>4. Flushed(t) \in TurnSet
    <3>1. Flushed(t) = [pc |-> u.pc, mode |-> u.mode, anon |-> u.anon,
                        slots |-> u.slots, sinks |-> u.sinks,
                        adopting |-> u.adopting, buffer |-> 0, seq |-> u.seq,
                        shown |-> u.shown]
      BY <2>2, <2>3 DEF TurnSet
    <3> QED
      BY <2>2, <3>1 DEF TurnSet
  <2>5. /\ Flushed(t).slots = u.slots /\ Flushed(t).sinks = u.sinks
        /\ Flushed(t).seq = u.seq /\ Flushed(t).shown = u.shown
    BY <2>2, <2>3 DEF TurnSet
  <2> QED
    BY <2>2, <2>4, <2>5 DEF Numbered
<1> QED
  BY <1>1, <1>2

LEMMA ReleasedFields ==
  ASSUME NEW t \in TurnSet, NEW pc \in {"over", "gone"}
  PROVE  /\ Released(t, pc) \in TurnSet
         /\ Released(t, pc).pc = pc /\ Released(t, pc).slots = t.slots
         /\ Numbered(t) => Turn(Released(t, pc))
<1> DEFINE none == [s \in Slots |-> NoFile]
<1>1. Released(t, pc) = [t EXCEPT !.pc = pc, !.mode = "observe", !.anon = FALSE,
                                  !.sinks = none, !.buffer = 0]
  BY DEF Released, NewRun
<1>2. none \in [Slots -> Contents \cup {NoFile}]
  OBVIOUS
<1> HIDE DEF none
<1>3. Released(t, pc) \in TurnSet
  <2>1. Released(t, pc) = [pc |-> pc, mode |-> "observe", anon |-> FALSE,
                           slots |-> t.slots, sinks |-> none,
                           adopting |-> t.adopting, buffer |-> 0, seq |-> t.seq,
                           shown |-> t.shown]
    BY <1>1 DEF TurnSet
  <2> QED
    BY <1>2, <2>1 DEF TurnSet, Modes
<1>4. /\ Released(t, pc).pc = pc /\ Released(t, pc).slots = t.slots
      /\ Released(t, pc).seq = t.seq /\ Released(t, pc).shown = t.shown
  BY <1>1 DEF TurnSet
<1> QED
  BY <1>3, <1>4 DEF Turn, Numbered

LEMMA EndedFields ==
  ASSUME NEW t \in TurnSet
  PROVE  /\ Ended(t) \in TurnSet
         /\ Ended(t).pc = "over" /\ Ended(t).slots = t.slots
         /\ Numbered(t) => Turn(Ended(t))
BY EmittedFields, ReleasedFields DEF Ended

LEMMA DelegatedFields ==
  ASSUME NEW t \in TurnSet, t.shown = <<>>, t.slots = {}
  PROVE  /\ Delegated(t) \in TurnSet
         /\ Delegated(t).pc = "chat" /\ Delegated(t).slots = {}
         /\ Turn(Delegated(t))
<1>1. Delegated(t) \in TurnSet
  <2>1. Delegated(t) = [pc |-> "chat", mode |-> t.mode, anon |-> t.anon,
                        slots |-> t.slots, sinks |-> t.sinks,
                        adopting |-> t.adopting, buffer |-> 0, seq |-> 0,
                        shown |-> t.shown]
    <3>1. Delegated(t) = [t EXCEPT !.pc = "chat", !.buffer = 0, !.seq = 0]
      BY DEF Delegated
    <3> QED
      BY <3>1 DEF TurnSet
  <2> QED
    BY <2>1 DEF TurnSet
<1>2. /\ Delegated(t).pc = "chat" /\ Delegated(t).slots = {}
      /\ Delegated(t).seq = 0 /\ Delegated(t).shown = <<>>
  BY DEF Delegated, TurnSet
<1> QED
  BY <1>1, <1>2 DEF Turn, Numbered

\* Where a turn goes, and what it is about to adopt.
Moved(t, pc, x) == [t EXCEPT !.pc = pc, !.adopting = x]
MovedOn(t, pc) == [t EXCEPT !.pc = pc]

LEMMA MovedFields ==
  ASSUME NEW o \in TurnSet, NEW x \in Adoptions \cup {Nothing},
         NEW pc \in {"send", "calling", "chat", "adopt", "tool", "over"}, NEW t,
         t = Moved(o, pc, x) \/ (x = o.adopting /\ t = MovedOn(o, pc))
  PROVE  /\ t \in TurnSet /\ t.pc = pc /\ t.adopting = x
         /\ t.slots = o.slots /\ t.sinks = o.sinks
         /\ t.seq = o.seq /\ t.shown = o.shown
<1>1. t = [pc |-> pc, mode |-> o.mode, anon |-> o.anon, slots |-> o.slots,
           sinks |-> o.sinks, adopting |-> x, buffer |-> o.buffer,
           seq |-> o.seq, shown |-> o.shown]
  BY DEF TurnSet, Moved, MovedOn
<1> QED
  BY <1>1 DEF TurnSet

LEMMA MovedOnFields ==
  ASSUME NEW o \in TurnSet,
         NEW pc \in {"send", "calling", "chat", "adopt", "tool", "over"}, NEW t,
         t = MovedOn(o, pc)
  PROVE  /\ t \in TurnSet /\ t.pc = pc /\ t.adopting = o.adopting
         /\ t.slots = o.slots /\ t.sinks = o.sinks
         /\ t.seq = o.seq /\ t.shown = o.shown
<1>1. o.adopting \in Adoptions \cup {Nothing}
  BY DEF TurnSet
<1> QED
  BY <1>1, MovedFields

-----------------------------------------------------------------------------
(* Requests whose answer is used or lost                                   *)

\* What a request is for, and of whom, never changes.
Same(c, d) == /\ d.by = c.by /\ d.branch = c.branch /\ d.files = c.files
              /\ d.adopts = c.adopts /\ d.blind = c.blind

\* Only whether it is waited for changes, and what is left of an answer.
Rests(c, d) ==
  /\ Same(c, d) /\ d.at = c.at
  /\ d.written \subseteq c.written
  /\ c.at \notin {"replied", "failed"} => d.written = c.written /\ d.pull = c.pull
  /\ d.fresh => c.fresh /\ d.pull = c.pull
  /\ c.wait # "yes" => d.wait = c.wait
  /\ d.wait = "heard" => c.wait = "heard" \/ c.at \in {"replied", "failed"}

LEMMA SpentFields ==
  ASSUME NEW c \in CallSet, NEW w \in {"heard", "no"}, c.wait = "yes",
         w = "heard" => c.at \in {"replied", "failed"}
  PROVE  /\ Spent(c, w) \in CallSet /\ Spent(c, w).wait = w
         /\ Rests(c, Spent(c, w))
<1> DEFINE d == Spent(c, w)
<1>1. CASE c.at \in {"replied", "failed"}
  <2>1. d = [c EXCEPT !.wait = w, !.pull = 0, !.fresh = FALSE, !.written = {}]
    BY <1>1 DEF Spent
  <2> HIDE DEF d
  <2>2. d = [by |-> c.by, branch |-> c.branch, files |-> c.files,
             adopts |-> c.adopts, blind |-> c.blind, at |-> c.at, wait |-> w,
             written |-> {}, pull |-> 0, fresh |-> FALSE]
    BY <2>1 DEF CallSet
  <2>3. d \in CallSet
    BY <2>2 DEF CallSet
  <2>4. Rests(c, d)
    BY <1>1, <2>2 DEF Rests, Same
  <2> QED
    BY <2>2, <2>3, <2>4 DEF d
<1>2. CASE c.at \notin {"replied", "failed"}
  <2>1. d = [c EXCEPT !.wait = w]
    BY <1>2 DEF Spent
  <2> HIDE DEF d
  <2>2. d = [by |-> c.by, branch |-> c.branch, files |-> c.files,
             adopts |-> c.adopts, blind |-> c.blind, at |-> c.at, wait |-> w,
             written |-> c.written, pull |-> c.pull, fresh |-> c.fresh]
    BY <2>1 DEF CallSet
  <2>3. d \in CallSet
    BY <2>2 DEF CallSet
  <2>4. Rests(c, d)
    BY <1>2, <2>2 DEF Rests, Same
  <2> QED
    BY <2>2, <2>3, <2>4 DEF d
<1> QED
  BY <1>1, <1>2

LEMMA GivenUpFields ==
  ASSUME NEW c \in CallSet
  PROVE  /\ GivenUp(c) \in CallSet /\ GivenUp(c).wait # "yes"
         /\ Rests(c, GivenUp(c))
<1>1. CASE c.wait = "yes"
  BY <1>1, SpentFields DEF GivenUp
<1>2. CASE c.wait # "yes"
  BY <1>2 DEF GivenUp, Rests, Same
<1> QED
  BY <1>1, <1>2

\* The requests stay as they are or rest.
Resting == /\ calls' \in Seq(CallSet) /\ Len(calls') = Len(calls)
           /\ \A n \in DOMAIN calls : Rests(calls[n], calls'[n])

LEMMA CallsAreTyped ==
  ASSUME Shape
  PROVE  /\ DOMAIN calls = 1 .. Len(calls) /\ Len(calls) \in Nat
         /\ \A n \in DOMAIN calls : calls[n] \in CallSet /\ n \in Nat
         /\ DOMAIN pulls = 1 .. Len(pulls) /\ Len(pulls) \in Nat
         /\ \A p \in DOMAIN pulls : pulls[p] \in PullSet /\ p \in Nat
BY DEF Shape

LEMMA UnchangedRests ==
  ASSUME Shape, UNCHANGED calls
  PROVE  Resting
BY DEF Shape, Resting, Rests, Same

LEMMA SoundRests ==
  ASSUME NEW c, NEW d, Sound(c), Rests(c, d)
  PROVE  Sound(d)
BY DEF Sound, Rests, Same

LEMMA RestKeeps ==
  ASSUME IInv, Resting, UNCHANGED github
  PROVE  Requests' /\ Opens' /\ Answers' /\ Branches' /\ Exclusive'
<1>1. /\ DOMAIN calls' = DOMAIN calls
      /\ \A n \in DOMAIN calls : Rests(calls[n], calls'[n])
      /\ UNCHANGED <<pulls, branches>>
  BY CallsAreTyped DEF IInv, Shape, Resting, github
<1>2. \A n \in DOMAIN calls : Same(calls[n], calls'[n]) /\ calls'[n].at = calls[n].at
  BY <1>1 DEF Rests
<1>3. Requests'
  BY <1>1, SoundRests DEF IInv, Requests
<1>4. Opens'
  BY <1>1, <1>2 DEF IInv, Opens, Same
<1>5. \A n \in DOMAIN calls : Alone(n)' <=> Alone(n)
  BY <1>1, <1>2 DEF Alone, Same
<1>6. Answers'
  <2> SUFFICES ASSUME NEW n \in DOMAIN calls PROVE Truthful(n)'
    BY <1>1 DEF Answers
  <2>1. Truthful(n)
    BY DEF IInv, Answers
  <2>2. calls'[n].at = "label" => calls'[n].pull = calls[n].pull
    BY <1>1 DEF Rests, Same
  <2>3. calls'[n].fresh => calls[n].fresh /\ calls'[n].pull = calls[n].pull
    BY <1>1 DEF Rests
  <2>4. ASSUME calls'[n].at = "label"
        PROVE  /\ calls'[n].pull \in DOMAIN pulls'
               /\ calls'[pulls'[calls'[n].pull].call].branch = calls'[n].branch
    <3>1. calls[n].pull \in DOMAIN pulls /\ calls[n].at = "label"
      BY <1>2, <2>1, <2>4 DEF Truthful
    <3>2. pulls[calls[n].pull].call \in DOMAIN calls
      BY <3>1 DEF IInv, Opens
    <3> QED
      BY <1>1, <1>2, <2>1, <2>2, <2>4, <3>1, <3>2 DEF Truthful, Same
  <2> QED
    BY <1>1, <2>1, <2>3, <2>4 DEF Truthful
<1>7. Branches'
  <2>1. ASSUME NEW n \in DOMAIN calls, NEW D, Holds(n, D)
        PROVE  Holds(n, D)'
    BY <1>1, <1>2, <2>1 DEF Holds, Same
  <2>2. \A b \in Calls : (\A n \in DOMAIN calls' : calls'[n].branch # b) =>
          \A s \in Slots : branches'[b][s] = NoFile
    BY <1>1, <1>2 DEF IInv, Branches, Same
  <2>3. \A n \in DOMAIN calls' : Alone(n)' /\ calls'[n].at \in {"checks", "write"} =>
          Holds(n, calls[n].written)' /\ calls'[n].written = calls[n].written
    BY <1>1, <1>2, <1>5, <2>1 DEF IInv, Branches, Rests
  <2>4. \A p \in DOMAIN pulls', n \in DOMAIN calls' : pulls'[p].call = n /\ Alone(n)' =>
          Holds(n, DOMAIN calls[n].files)'
    <3> SUFFICES ASSUME NEW p \in DOMAIN pulls, NEW n \in DOMAIN calls,
                        pulls[p].call = n, Alone(n)'
                 PROVE  Holds(n, DOMAIN calls[n].files)'
      BY <1>1
    <3>1. Holds(n, DOMAIN calls[n].files)
      BY <1>5 DEF IInv, Branches
    <3>2. calls'[n].files = calls[n].files
      BY <1>2 DEF Same
    <3> QED
      BY <2>1, <3>1, <3>2
  <2> QED
    BY <1>1, <2>2, <2>3, <2>4 DEF Branches, Holds
<1>8. Exclusive'
  <2> SUFFICES ASSUME NEW m \in DOMAIN calls, NEW n \in DOMAIN calls, m < n,
                      calls'[m].adopts = calls'[n].adopts,
                      calls'[m].adopts # Nothing,
                      Alone(m)', ~calls'[n].blind, calls'[m].wait # "no"
               PROVE  Settled(m)'
    BY <1>1 DEF Exclusive
  <2>1. Rests(calls[m], calls'[m])
    BY <1>1
  <2>2. calls[m] \in CallSet
    BY CallsAreTyped DEF IInv
  <2>3. calls[m].wait # "no"
    BY <2>1 DEF Rests
  <2>4. Settled(m)
    BY <1>2, <1>5, <2>3 DEF IInv, Exclusive, Same
  <2> QED
    BY <1>1, <2>1, <2>4 DEF Settled, Rests
<1> QED
  BY <1>3, <1>4, <1>6, <1>7, <1>8

-----------------------------------------------------------------------------
(* A turn by itself                                                        *)

\* Turn r becomes t, and no request of it was waited for.
Owns(r, t) ==
  /\ run' = [run EXCEPT ![r] = t]
  /\ t \in TurnSet /\ Turn(t)
  /\ run[r].pc \notin {"calling", "tool"}
  /\ t.pc \in Sent \/ run[r].pc \notin Sent
  /\ t.slots = run[r].slots \/ run[r].pc \notin Sent

LEMMA OwnKeeps ==
  ASSUME IInv, NEW r \in Runs, NEW t, Owns(r, t), Blocks',
         loop' \in Runs \cup {NoRun}, UNCHANGED <<traces, calls, github>>
  PROVE  IInv'
<1>1. /\ run \in [Runs -> TurnSet] /\ run' \in [Runs -> TurnSet] /\ run'[r] = t
      /\ \A o \in Runs : o # r => run'[o] = run[o]
      /\ UNCHANGED <<branches, pulls, declared>>
  BY DEF IInv, Shape, Owns, github
<1>2. Shape'
  BY <1>1 DEF IInv, Shape
<1>3. Turns'
  BY <1>1 DEF IInv, Turns, Owns
<1>4. \A n \in DOMAIN calls : calls[n].by \in Runs
  BY CallsAreTyped DEF IInv, CallSet
<1>5. \A n \in DOMAIN calls : run[calls[n].by].pc \in Sent
  BY DEF IInv, Waits
<1>6. Waits'
  BY <1>1, <1>4, <1>5 DEF IInv, Waits, Owns
<1>7. Committed'
  BY <1>1, <1>4, <1>5 DEF IInv, Committed, Owns
<1>8. Requests' /\ Opens' /\ Answers' /\ Branches' /\ Exclusive'
  BY UnchangedRests, RestKeeps DEF IInv
<1>9. TraceIsAuthors'
  BY <1>1 DEF IInv, TraceIsAuthors
<1> QED
  BY <1>2, <1>3, <1>6, <1>7, <1>8, <1>9 DEF IInv

\* The loop stays where it is while a turn does something else.
LEMMA BlocksStand ==
  ASSUME IInv, NEW r \in Runs, NEW t, run' = [run EXCEPT ![r] = t],
         t.pc \notin {"adopt", "tool"}, UNCHANGED <<loop, calls>>
  PROVE  Blocks'
<1>1. run'[r] = t /\ \A o \in Runs : o # r => run'[o] = run[o]
  BY DEF IInv, Shape
<1> QED
  BY <1>1 DEF IInv, Blocks

LEMMA RunIsTyped ==
  ASSUME IInv, NEW r \in Runs
  PROVE  run[r] \in TurnSet /\ Turn(run[r]) /\ Numbered(run[r])
BY DEF IInv, Shape, Turns, Turn

LEMMA BeginKeeps ==
  ASSUME IInv, NEW r \in Runs, NEW mode \in Modes, NEW anon \in BOOLEAN,
         Begin(r, mode, anon)
  PROVE  IInv'
<1> DEFINE o == run[r]
           t == [o EXCEPT !.mode = mode, !.anon = anon]
           u == IF mode = "observe" \/ anon THEN Delegated(t)
                ELSE [t EXCEPT !.pc = "decompose"]
<1>1. o \in TurnSet /\ Turn(o) /\ o.pc = "idle"
  BY RunIsTyped DEF Begin
<1>2. t \in TurnSet /\ t.shown = <<>> /\ t.slots = {} /\ t.seq = 0
  <2> HIDE DEF o
  <2>0. t = [o EXCEPT !.mode = mode, !.anon = anon]
    OBVIOUS
  <2> HIDE DEF t
  <2>1. t = [pc |-> o.pc, mode |-> mode, anon |-> anon,
             slots |-> o.slots, sinks |-> o.sinks,
             adopting |-> o.adopting, buffer |-> o.buffer,
             seq |-> o.seq, shown |-> o.shown]
    BY <1>1, <2>0 DEF TurnSet
  <2>2. t \in TurnSet
    BY <1>1, <2>1 DEF TurnSet
  <2> QED
    BY <1>1, <2>1, <2>2 DEF Turn, Numbered
<1>3. run' = [run EXCEPT ![r] = u] /\ UNCHANGED <<loop, traces, calls, github>>
  BY DEF Begin
<1> HIDE DEF t
<1>4. u \in TurnSet /\ Turn(u) /\ u.pc \in {"chat", "decompose"}
  <2>1. CASE mode = "observe" \/ anon
    BY <1>2, <2>1, DelegatedFields
  <2>2. CASE ~(mode = "observe" \/ anon)
    <3>1. u = [t EXCEPT !.pc = "decompose"]
      BY <2>2
    <3> HIDE DEF u
    <3>2. u = [pc |-> "decompose", mode |-> t.mode, anon |-> t.anon,
               slots |-> t.slots, sinks |-> t.sinks, adopting |-> t.adopting,
               buffer |-> t.buffer, seq |-> t.seq, shown |-> t.shown]
      BY <1>2, <3>1 DEF TurnSet
    <3>3. u \in TurnSet
      BY <1>2, <3>2 DEF TurnSet
    <3> QED
      BY <1>2, <3>2, <3>3 DEF Turn, Numbered
  <2> QED
    BY <2>1, <2>2
<1> HIDE DEF u
<1>5. Owns(r, u)
  BY <1>1, <1>3, <1>4 DEF Owns, Sent, o
<1> QED
  BY <1>3, <1>4, <1>5, BlocksStand, OwnKeeps DEF IInv, Shape

LEMMA ThinkKeeps ==
  ASSUME IInv, NEW r \in Runs, Think(r)
  PROVE  IInv'
<1> DEFINE t == run[r]
           u == [t EXCEPT !.buffer = 1]
<1>1. t \in TurnSet /\ Turn(t) /\ t.pc = "decompose"
  BY RunIsTyped DEF Think
<1>2. run' = [run EXCEPT ![r] = u] /\ UNCHANGED <<loop, traces, calls, github>>
  BY DEF Think, IInv, Shape
<1> HIDE DEF t
<1>3. u = [pc |-> t.pc, mode |-> t.mode, anon |-> t.anon, slots |-> t.slots,
           sinks |-> t.sinks, adopting |-> t.adopting, buffer |-> 1,
           seq |-> t.seq, shown |-> t.shown]
  BY <1>1 DEF TurnSet
<1> HIDE DEF u
<1>4. u \in TurnSet
  BY <1>1, <1>3 DEF TurnSet
<1>5. Turn(u) /\ u.pc = "decompose"
  BY <1>1, <1>3 DEF Turn, Numbered
<1>6. Owns(r, u)
  BY <1>1, <1>2, <1>4, <1>5 DEF Owns, Sent, t
<1> QED
  BY <1>2, <1>5, <1>6, BlocksStand, OwnKeeps DEF IInv, Shape

LEMMA DecomposeKeeps ==
  ASSUME IInv, NEW r \in Runs, Decompose(r)
  PROVE  IInv'
<1>1. /\ run[r] \in TurnSet /\ Turn(run[r]) /\ run[r].pc = "decompose"
      /\ run[r].shown = <<>> /\ run[r].slots = {} /\ Numbered(run[r])
  BY RunIsTyped DEF Decompose, Turn
<1>2. PICK t \in {Ended(run[r]), Delegated(run[r])}
                 \cup {[Flushed(run[r]) EXCEPT !.pc = "author", !.slots = plan] :
                       plan \in {S \in SUBSET Slots : Cardinality(S) > 1}} :
        run' = [run EXCEPT ![r] = t]
  BY DEF Decompose
<1>3. t \in TurnSet /\ Turn(t) /\ t.pc \in {"over", "chat", "author"}
  <2>1. CASE t = Ended(run[r])
    BY <1>1, <2>1, EndedFields
  <2>2. CASE t = Delegated(run[r])
    BY <1>1, <2>2, DelegatedFields
  <2>3. ASSUME NEW S \in SUBSET Slots,
               t = [Flushed(run[r]) EXCEPT !.pc = "author", !.slots = S]
        PROVE  t \in TurnSet /\ Turn(t) /\ t.pc = "author"
    <3> DEFINE u == Flushed(run[r])
    <3>1. u \in TurnSet /\ Numbered(u) /\ t = [u EXCEPT !.pc = "author", !.slots = S]
      BY <1>1, <2>3, FlushedFields
    <3> HIDE DEF u
    <3>2. t = [pc |-> "author", mode |-> u.mode, anon |-> u.anon, slots |-> S,
               sinks |-> u.sinks, adopting |-> u.adopting, buffer |-> u.buffer,
               seq |-> u.seq, shown |-> u.shown]
      BY <3>1 DEF TurnSet
    <3>3. t \in TurnSet
      BY <3>1, <3>2 DEF TurnSet
    <3> QED
      BY <3>1, <3>2, <3>3 DEF Turn, Numbered
  <2> QED
    BY <1>2, <2>1, <2>2, <2>3
<1>4. Owns(r, t)
  BY <1>1, <1>2, <1>3 DEF Owns, Sent
<1>5. UNCHANGED <<loop, traces, calls, github>>
  BY DEF Decompose
<1> QED
  BY <1>2, <1>3, <1>4, <1>5, BlocksStand, OwnKeeps DEF IInv, Shape

LEMMA SubmitKeeps ==
  ASSUME IInv, NEW r \in Runs, NEW s \in Slots, NEW c \in Contents, Submit(r, s, c)
  PROVE  IInv'
<1> DEFINE e == Emitted(run[r])
           t == [e EXCEPT !.sinks[s] = c]
<1>1. /\ run[r] \in TurnSet /\ Turn(run[r]) /\ run[r].pc = "author"
      /\ e \in TurnSet /\ Numbered(e) /\ e.pc = "author" /\ e.slots = run[r].slots
  BY RunIsTyped, EmittedFields DEF Submit
<1>2. run' = [run EXCEPT ![r] = t] /\ UNCHANGED <<loop, traces, calls, github>>
  BY DEF Submit
<1> HIDE DEF e
<1>3. t \in TurnSet /\ Turn(t) /\ t.pc = "author" /\ t.slots = e.slots
  <2> DEFINE w == [e.sinks EXCEPT ![s] = c]
  <2>1. w \in [Slots -> Contents \cup {NoFile}]
    BY <1>1 DEF TurnSet
  <2>2. t = [e EXCEPT !.sinks = w]
    BY <1>1 DEF TurnSet
  <2> HIDE DEF t, w
  <2>3. t = [pc |-> e.pc, mode |-> e.mode, anon |-> e.anon, slots |-> e.slots,
             sinks |-> w, adopting |-> e.adopting, buffer |-> e.buffer,
             seq |-> e.seq, shown |-> e.shown]
    BY <1>1, <2>2 DEF TurnSet
  <2>4. t \in TurnSet
    BY <1>1, <2>1, <2>3 DEF TurnSet
  <2> QED
    BY <1>1, <2>3, <2>4 DEF Turn, Numbered
<1> HIDE DEF t
<1>4. Owns(r, t)
  BY <1>1, <1>2, <1>3 DEF Owns, Sent
<1> QED
  BY <1>2, <1>3, <1>4, BlocksStand, OwnKeeps DEF IInv, Shape

\* An author that fails, the barrier and a turn's own end.
LEMMA EndKeeps ==
  ASSUME IInv, NEW r \in Runs, run[r].pc \in {"author", "chat"},
         run' = [run EXCEPT ![r] = Ended(run[r])],
         UNCHANGED <<loop, traces, calls, github>>
  PROVE  IInv'
<1>1. run[r] \in TurnSet /\ Numbered(run[r])
  BY RunIsTyped
<1>2. /\ Ended(run[r]) \in TurnSet /\ Turn(Ended(run[r]))
      /\ Ended(run[r]).pc = "over" /\ Ended(run[r]).slots = run[r].slots
  BY <1>1, EndedFields
<1>3. Owns(r, Ended(run[r]))
  BY <1>2 DEF Owns, Sent
<1> QED
  BY <1>2, <1>3, BlocksStand, OwnKeeps DEF IInv, Shape

LEMMA BarrierKeeps ==
  ASSUME IInv, NEW r \in Runs, Barrier(r)
  PROVE  IInv'
<1> DEFINE o == run[r]
           t == [o EXCEPT !.pc = "send"]
<1>1. /\ o \in TurnSet /\ Turn(o) /\ o.pc = "author"
      /\ run \in [Runs -> TurnSet]
      /\ UNCHANGED <<loop, traces, calls, github>>
  BY RunIsTyped DEF Barrier, IInv, Shape
<1>2. CASE run' = [run EXCEPT ![r] = Ended(o)]
  BY <1>1, <1>2, EndKeeps
<1>3. ASSUME ~EditorRefuses(Merged(o)),
             \A s \in DOMAIN Merged(o) : ~FreehandImport(Merged(o)[s]),
             run' = [run EXCEPT ![r] = t]
      PROVE  IInv'
  <2>1. \A s \in o.slots : ~FreehandImport(o.sinks[s])
    BY <1>3 DEF Merged
  <2> HIDE DEF o
  <2>2. t = MovedOn(o, "send")
    BY DEF MovedOn
  <2> HIDE DEF t
  <2>3. /\ t \in TurnSet /\ t.pc = "send" /\ t.slots = o.slots
        /\ t.sinks = o.sinks /\ t.seq = o.seq /\ t.shown = o.shown
    BY <1>1, <2>2, MovedOnFields
  <2>4. Merged(t) = Merged(o)
    BY <2>3 DEF Merged
  <2>5. Turn(t) /\ t.pc = "send" /\ t.slots = o.slots
    BY <1>1, <1>3, <2>1, <2>3, <2>4 DEF Turn, Numbered
  <2>6. Owns(r, t)
    BY <1>1, <1>3, <2>3, <2>5 DEF Owns, Sent, o
  <2> QED
    BY <1>1, <1>3, <2>5, <2>6, BlocksStand, OwnKeeps DEF IInv, Shape
<1> QED
  BY <1>2, <1>3 DEF Barrier

LEMMA ProposeKeeps ==
  ASSUME IInv, NEW r \in Runs, NEW x \in Adoptions, ProposeAdoption(r, x)
  PROVE  IInv'
<1> DEFINE o == run[r]
           t == [o EXCEPT !.pc = "adopt", !.adopting = x]
<1>1. /\ o \in TurnSet /\ Turn(o) /\ o.pc = "chat"
      /\ run \in [Runs -> TurnSet]
      /\ UNCHANGED <<traces, calls, github>> /\ loop' = r
      /\ loop \in {NoRun, r} /\ Len(calls) < MaxCalls /\ ~AdoptRefused(x)
  BY RunIsTyped DEF ProposeAdoption, IInv, Shape, LoopFree
<1>2. run' = [run EXCEPT ![r] = t]
  BY <1>1 DEF ProposeAdoption
<1> HIDE DEF o
<1>3. t = Moved(o, "adopt", x)
  BY DEF Moved
<1> HIDE DEF t
<1>4. /\ t \in TurnSet /\ t.pc = "adopt" /\ t.slots = o.slots /\ t.adopting = x
      /\ t.seq = o.seq /\ t.shown = o.shown
  BY <1>1, <1>3, MovedFields
<1>5. Turn(t) /\ t.pc = "adopt" /\ t.slots = o.slots
  BY <1>1, <1>4 DEF Turn, Numbered
<1>6. Owns(r, t)
  BY <1>1, <1>2, <1>4, <1>5 DEF Owns, Sent, o
<1>7. Blocks'
  <2>1. run'[r] = t /\ \A q \in Runs : q # r => run'[q] = run[q]
    BY <1>1, <1>2
  <2> QED
    BY <1>1, <2>1, AuthoringAssumption DEF IInv, Blocks
<1> QED
  BY <1>1, <1>6, <1>7, OwnKeeps

\* The look found an open adoption of the same resource.
LEMMA DuplicateKeeps ==
  ASSUME IInv, NEW r \in Runs, run[r].pc = "adopt",
         run' = [run EXCEPT ![r].pc = "chat", ![r].adopting = Nothing],
         loop' = NoRun, UNCHANGED <<traces, calls, github>>
  PROVE  IInv'
<1> DEFINE o == run[r]
           t == [o EXCEPT !.pc = "chat", !.adopting = Nothing]
<1>1. o \in TurnSet /\ Turn(o) /\ o.pc = "adopt" /\ run \in [Runs -> TurnSet]
      /\ loop = r
  BY RunIsTyped DEF IInv, Shape, Blocks
<1>2. run' = [run EXCEPT ![r] = t]
  BY <1>1
<1> HIDE DEF o
<1>3. t = Moved(o, "chat", Nothing)
  BY DEF Moved
<1> HIDE DEF t
<1>4. /\ t \in TurnSet /\ t.pc = "chat" /\ t.slots = o.slots
      /\ t.seq = o.seq /\ t.shown = o.shown
  BY <1>1, <1>3, MovedFields
<1>5. Turn(t) /\ t.pc = "chat" /\ t.slots = o.slots
  BY <1>1, <1>4 DEF Turn, Numbered
<1>6. Owns(r, t)
  BY <1>1, <1>2, <1>4, <1>5 DEF Owns, Sent, o
<1>7. Blocks'
  <2>1. run'[r] = t /\ \A q \in Runs : q # r => run'[q] = run[q]
    BY <1>1, <1>2
  <2> QED
    BY <1>1, <1>5, <2>1 DEF IInv, Blocks
<1> QED
  BY <1>6, <1>7, OwnKeeps

-----------------------------------------------------------------------------
(* Asking the editor                                                       *)

\* Turn r becomes t and asks for the files, which have passed their checks.
Asking(r, b, files, x, blind, t) ==
  /\ run' = [run EXCEPT ![r] = t]
  /\ calls' = Append(calls, Request(r, b, files, x, blind))
  /\ t \in TurnSet /\ Turn(t) /\ t.slots = run[r].slots
  /\ run[r].pc \in {"send", "chat", "adopt"}
  /\ t.pc = IF run[r].pc = "send" THEN "calling" ELSE "tool"
  /\ run[r].pc = "send" =>
       /\ DOMAIN files = t.slots /\ x = Nothing
       /\ NoFile \notin {files[s] : s \in DOMAIN files}
  /\ b \in Calls /\ files \in FileMaps /\ x \in Adoptions \cup {Nothing}
  /\ blind \in BOOLEAN /\ Asks(files, x)
  /\ Len(calls) < MaxCalls
  /\ x # Nothing /\ ~blind => OpenAdoptions(x) = {} /\ run[r].pc = "adopt"

LEMMA AskKeeps ==
  ASSUME IInv, NEW r \in Runs, NEW b, NEW files, NEW x, NEW blind, NEW t,
         Asking(r, b, files, x, blind, t), Blocks',
         loop' \in Runs \cup {NoRun}, UNCHANGED <<traces, github>>
  PROVE  IInv'
<1> DEFINE N == Len(calls) + 1
           c == Request(r, b, files, x, blind)
<1>1. /\ run \in [Runs -> TurnSet] /\ run' \in [Runs -> TurnSet] /\ run'[r] = t
      /\ \A o \in Runs : o # r => run'[o] = run[o]
      /\ UNCHANGED <<branches, pulls, declared>>
  BY DEF IInv, Shape, Asking, github
<1>2. /\ c \in CallSet /\ c.by = r /\ c.branch = b /\ c.files = files
      /\ c.adopts = x /\ c.blind = blind /\ c.at = "checks" /\ c.wait = "yes"
      /\ c.written = {} /\ c.fresh = FALSE
  BY DEF Asking, Request, CallSet, Stages
<1> HIDE DEF c
<1>3. /\ calls' \in Seq(CallSet) /\ Len(calls') = N /\ N <= MaxCalls
      /\ DOMAIN calls' = DOMAIN calls \cup {N} /\ N \notin DOMAIN calls
      /\ \A n \in DOMAIN calls : calls'[n] = calls[n] /\ n < N
      /\ calls'[N] = c
  <2>1. calls' = Append(calls, c)
    BY DEF Asking, c
  <2>2. calls \in Seq(CallSet) /\ Len(calls) < MaxCalls /\ MaxCalls \in Nat
    BY AuthoringAssumption DEF IInv, Shape, Asking
  <2> QED
    BY <1>2, <2>1, <2>2
<1> HIDE DEF N
<1>4. \A n \in DOMAIN calls : calls[n] \in CallSet /\ calls[n].by \in Runs
  BY CallsAreTyped DEF IInv, CallSet
<1>5. \A n \in DOMAIN calls : run[calls[n].by].pc \in Sent
  BY DEF IInv, Waits
<1>6. Shape'
  BY <1>1, <1>3 DEF IInv, Shape
<1>7. Turns'
  BY <1>1 DEF IInv, Turns, Asking
<1>8. \A n \in DOMAIN calls : calls[n].by = r => calls[n].wait # "yes"
  BY DEF IInv, Waits, Asking
<1>9. Waits'
  <2>1. ASSUME NEW n \in DOMAIN calls'
        PROVE  /\ run'[calls'[n].by].pc \in Sent
               /\ calls'[n].wait = "yes" =>
                    /\ run'[calls'[n].by].pc \in {"calling", "tool"}
                    /\ calls'[n].adopts # Nothing => run'[calls'[n].by].pc = "tool"
    <3>1. CASE n = N
      BY <1>1, <1>2, <1>3, <3>1 DEF Asking, Sent
    <3>2. CASE n \in DOMAIN calls
      <4>1. CASE calls[n].by = r
        BY <1>1, <1>3, <1>8, <3>2, <4>1 DEF Asking, Sent
      <4>2. CASE calls[n].by # r
        BY <1>1, <1>3, <1>4, <3>2, <4>2 DEF IInv, Waits
      <4> QED
        BY <4>1, <4>2
    <3> QED
      BY <1>3, <3>1, <3>2
  <2>2. ASSUME NEW m \in DOMAIN calls', NEW n \in DOMAIN calls',
               calls'[m].wait = "yes", calls'[n].wait = "yes",
               calls'[m].by = calls'[n].by
        PROVE  m = n
    BY <1>2, <1>3, <1>8, <2>2 DEF IInv, Waits
  <2> QED
    BY <2>1, <2>2 DEF Waits
<1>10. Committed'
  <2> SUFFICES ASSUME NEW n \in DOMAIN calls', run'[calls'[n].by].slots # {}
               PROVE  /\ \A m \in DOMAIN calls' : calls'[m].by = calls'[n].by => m = n
                      /\ DOMAIN calls'[n].files = run'[calls'[n].by].slots
                      /\ NoFile \notin {calls'[n].files[s] : s \in DOMAIN calls'[n].files}
    BY DEF Committed
  <2>1. run[r].slots # {} => run[r].pc = "send"
    BY DEF IInv, Turns, Turn, Asking
  <2>2. CASE n = N
    <3>1. run[r].pc = "send"
      BY <1>1, <1>2, <1>3, <2>1, <2>2 DEF Asking
    <3>2. \A m \in DOMAIN calls : calls[m].by # r
      BY <1>5, <3>1 DEF Sent
    <3> QED
      BY <1>1, <1>2, <1>3, <2>2, <3>1, <3>2 DEF Asking
  <2>3. CASE n \in DOMAIN calls
    <3>1. calls[n].by # r
      <4>1. ASSUME calls[n].by = r PROVE FALSE
        BY <1>1, <1>3, <1>5, <2>1, <2>3, <4>1 DEF Asking, Sent
      <4> QED
        BY <4>1
    <3>2. run'[calls'[n].by] = run[calls[n].by] /\ calls'[n] = calls[n]
      BY <1>1, <1>3, <1>4, <2>3, <3>1
    <3>3. /\ \A m \in DOMAIN calls : calls[m].by = calls[n].by => m = n
          /\ DOMAIN calls[n].files = run[calls[n].by].slots
          /\ NoFile \notin {calls[n].files[s] : s \in DOMAIN calls[n].files}
      BY <2>3, <3>2 DEF IInv, Committed
    <3> QED
      BY <1>2, <1>3, <3>1, <3>2, <3>3
  <2> QED
    BY <1>3, <2>2, <2>3
<1>11. Requests'
  <2>1. Sound(c)
    BY <1>2 DEF Sound, Asking
  <2> QED
    BY <1>3, <2>1 DEF IInv, Requests
<1>12. Opens'
  BY <1>1, <1>3 DEF IInv, Opens
<1>13. Answers'
  <2> SUFFICES ASSUME NEW n \in DOMAIN calls' PROVE Truthful(n)'
    BY DEF Answers
  <2>1. CASE n = N
    BY <1>2, <1>3, <2>1 DEF Truthful
  <2>2. CASE n \in DOMAIN calls
    <3>1. Truthful(n)
      BY <2>2 DEF IInv, Answers
    <3> QED
      BY <1>1, <1>3, <2>2, <3>1 DEF Truthful, IInv, Opens
  <2> QED
    BY <1>3, <2>1, <2>2
<1>14. \A n \in DOMAIN calls : Alone(n)' => Alone(n)
  BY <1>3 DEF Alone
<1>15. Branches'
  <2>0. ASSUME NEW n \in DOMAIN calls, NEW D, Holds(n, D)
        PROVE  Holds(n, D)'
    BY <1>1, <1>3, <2>0 DEF Holds
  <2>1. ASSUME NEW a \in Calls, \A n \in DOMAIN calls' : calls'[n].branch # a
        PROVE  \A s \in Slots : branches'[a][s] = NoFile
    BY <1>1, <1>3, <2>1 DEF IInv, Branches
  <2>2. ASSUME NEW n \in DOMAIN calls', Alone(n)', calls'[n].at \in {"checks", "write"}
        PROVE  Holds(n, calls[n].written)'
    <3>1. CASE n = N
      <4>1. \A m \in DOMAIN calls : calls[m].branch # b
        BY <1>2, <1>3, <2>2, <3>1 DEF Alone
      <4>2. \A s \in Slots : branches[b][s] = NoFile
        BY <4>1 DEF IInv, Branches, Asking
      <4> QED
        BY <1>1, <1>2, <1>3, <3>1, <4>2 DEF Holds
    <3>2. CASE n \in DOMAIN calls
      <4>1. Holds(n, calls[n].written)
        BY <1>3, <1>14, <2>2, <3>2 DEF IInv, Branches
      <4>2. calls'[n] = calls[n]
        BY <1>3, <3>2
      <4> QED
        BY <1>1, <4>1, <4>2 DEF Holds
    <3> QED
      BY <1>3, <3>1, <3>2
  <2>3. ASSUME NEW p \in DOMAIN pulls', NEW n \in DOMAIN calls', pulls'[p].call = n,
               Alone(n)'
        PROVE  Holds(n, DOMAIN calls[n].files)' /\ calls'[n].files = calls[n].files
    <3>1. n \in DOMAIN calls /\ pulls[p].call = n /\ p \in DOMAIN pulls
      BY <1>1, <2>3 DEF IInv, Opens
    <3> QED
      BY <1>3, <1>14, <2>0, <2>3, <3>1 DEF IInv, Branches
  <2> QED
    BY <1>2, <1>3, <2>1, <2>2, <2>3 DEF Branches, Holds
<1>16. TraceIsAuthors'
  BY <1>1, <1>3 DEF IInv, TraceIsAuthors, Opens
<1>17. Exclusive'
  <2> SUFFICES ASSUME NEW m \in DOMAIN calls', NEW n \in DOMAIN calls', m < n,
                      calls'[m].adopts = calls'[n].adopts,
                      calls'[m].adopts # Nothing,
                      Alone(m)', ~calls'[n].blind, calls'[m].wait # "no"
               PROVE  Settled(m)'
    BY DEF Exclusive
  <2>1. m \in DOMAIN calls /\ calls'[m] = calls[m]
    <3>1. \A k \in DOMAIN calls : k \in Nat /\ N \in Nat
      BY <1>3, CallsAreTyped DEF IInv, N
    <3> QED
      BY <1>3, <3>1
  <2>2. CASE n \in DOMAIN calls
    BY <1>1, <1>3, <1>14, <2>1, <2>2 DEF IInv, Exclusive, Settled
  <2>3. CASE n = N
    <3>1. calls[m].adopts = x /\ x # Nothing /\ ~blind
      BY <1>2, <1>3, <2>1, <2>3
    <3>2. OpenAdoptions(x) = {} /\ run[r].pc = "adopt" /\ loop = r
      BY <3>1 DEF Asking, IInv, Blocks
    <3>3. calls[m].wait # "yes"
      <4>1. ASSUME calls[m].wait = "yes" PROVE FALSE
        <5>1. run[calls[m].by].pc = "tool" /\ calls[m].by \in Runs
          BY <1>4, <2>1, <3>1, <4>1 DEF IInv, Waits
        <5>2. loop = calls[m].by
          BY <5>1 DEF IInv, Blocks
        <5> QED
          BY <3>2, <5>1, <5>2
      <4> QED
        BY <4>1
    <3>4. calls[m].wait = "heard"
      BY <1>4, <2>1, <3>3 DEF CallSet
    <3>5. \A p \in DOMAIN pulls : pulls[p].call = m =>
            ~(pulls[p].state = "open" /\ pulls[p].labelled)
      BY <3>1, <3>2 DEF OpenAdoptions
    <3> QED
      BY <1>1, <2>1, <3>4, <3>5 DEF Settled
  <2> QED
    BY <1>3, <2>2, <2>3
<1> QED
  BY <1>6, <1>7, <1>9, <1>10, <1>11, <1>12, <1>13, <1>15, <1>16, <1>17 DEF IInv

LEMMA SendKeeps ==
  ASSUME IInv, NEW r \in Runs, NEW b \in Calls, Send(r, b)
  PROVE  IInv'
<1> DEFINE o == run[r]
           t == [o EXCEPT !.pc = "calling"]
           files == Merged(o)
<1>1. /\ o \in TurnSet /\ Turn(o) /\ o.pc = "send" /\ run \in [Runs -> TurnSet]
      /\ Len(calls) < MaxCalls /\ LoopFree(r)
      /\ calls' = Append(calls, Request(r, b, files, Nothing, FALSE))
      /\ UNCHANGED <<loop, traces, github>>
  BY RunIsTyped DEF Send, IInv, Shape
<1>2. run' = [run EXCEPT ![r] = t]
  BY <1>1 DEF Send
<1>3. /\ files \in FileMaps /\ DOMAIN files = o.slots /\ Asks(files, Nothing)
      /\ NoFile \notin {files[s] : s \in DOMAIN files}
  <2> HIDE DEF o
  <2>1. o.slots \in SUBSET Slots /\ o.sinks \in [Slots -> Files \cup {NoFile}]
    BY <1>1, AuthoringAssumption DEF TurnSet
  <2>2. \A s \in o.slots : ~FreehandImport(o.sinks[s]) /\ o.sinks[s] # NoFile
    BY <1>1 DEF Turn, EditorRefuses, Merged
  <2>3. files \in [o.slots -> Files \cup {NoFile}]
    BY <2>1 DEF Merged
  <2> QED
    BY <2>1, <2>2, <2>3 DEF FileMaps, Asks, Merged
<1>4. t = MovedOn(o, "calling")
  BY DEF MovedOn
<1> HIDE DEF o, t, files
<1>5. /\ t \in TurnSet /\ t.pc = "calling" /\ t.slots = o.slots
      /\ t.seq = o.seq /\ t.shown = o.shown
  BY <1>1, <1>4, MovedOnFields
<1>6. Turn(t)
  BY <1>1, <1>5 DEF Turn, Numbered
<1>7. Asking(r, b, files, Nothing, FALSE, t)
  BY <1>1, <1>2, <1>3, <1>5, <1>6 DEF Asking, o
<1>8. Blocks'
  <2>1. run'[r] = t /\ \A q \in Runs : q # r => run'[q] = run[q]
    BY <1>1, <1>2
  <2>2. \A q \in Runs : q # r => run[q].pc # "adopt"
    BY <1>1, AuthoringAssumption DEF LoopFree, IInv, Blocks
  <2> QED
    BY <1>1, <1>5, <2>1, <2>2 DEF IInv, Blocks
<1> QED
  BY <1>1, <1>7, <1>8, AskKeeps DEF IInv, Shape

\* A tool of the single agent takes the loop and asks.
LEMMA ToolKeeps ==
  ASSUME IInv, NEW r \in Runs, NEW b \in Calls, NEW files \in FileMaps,
         NEW x \in Adoptions \cup {Nothing}, NEW blind \in BOOLEAN, NEW t \in TurnSet,
         run[r].pc \in {"chat", "adopt"}, LoopFree(r), Len(calls) < MaxCalls,
         run' = [run EXCEPT ![r] = t], t.pc = "tool", t.slots = run[r].slots,
         t.seq = run[r].seq, t.shown = run[r].shown,
         calls' = Append(calls, Request(r, b, files, x, blind)),
         loop' = r, Asks(files, x), UNCHANGED <<traces, github>>,
         x # Nothing /\ ~blind => OpenAdoptions(x) = {} /\ run[r].pc = "adopt"
  PROVE  IInv'
<1>1. Turn(run[r]) /\ run \in [Runs -> TurnSet]
  BY RunIsTyped DEF IInv, Shape
<1>2. Turn(t)
  BY <1>1 DEF Turn, Numbered
<1>3. Asking(r, b, files, x, blind, t)
  BY <1>2 DEF Asking
<1>4. Blocks'
  <2>1. run'[r] = t /\ \A q \in Runs : q # r => run'[q] = run[q]
    BY <1>1
  <2>2. \A q \in Runs : q # r => run[q].pc \notin {"adopt", "tool"}
    BY AuthoringAssumption DEF LoopFree, IInv, Blocks
  <2> QED
    BY <2>1, <2>2 DEF Blocks
<1> QED
  BY <1>3, <1>4, AskKeeps

LEMMA OneFile ==
  ASSUME NEW s \in Slots, NEW f \in Files
  PROVE  [t \in {s} |-> f] \in FileMaps
<1>1. [t \in {s} |-> f] \in [{s} -> Files \cup {NoFile}] /\ {s} \in SUBSET Slots
  OBVIOUS
<1> QED
  BY <1>1 DEF FileMaps

LEMMA RenderedType ==
  ASSUME NEW x \in Resources
  PROVE  Rendered(x) \in Files
<1>1. x.label \in Labels
  BY DEF Resources
<1>2. [to |-> x.label, each |-> FALSE, id |-> "literal"] \in Imports
  BY <1>1 DEF Imports
<1> QED
  BY <1>2 DEF Rendered, Files, Paths, Texts, Providers

LEMMA OpenInfraPrKeeps ==
  ASSUME IInv, NEW r \in Runs, NEW b \in Calls, NEW s \in Slots, NEW c \in Contents,
         OpenInfraPr(r, b, [t \in {s} |-> c])
  PROVE  IInv'
<1> DEFINE o == run[r]
           t == [o EXCEPT !.pc = "tool"]
           files == [u \in {s} |-> c]
<1>1. /\ o \in TurnSet /\ o.pc = "chat" /\ run \in [Runs -> TurnSet] /\ LoopFree(r)
      /\ Len(calls) < MaxCalls /\ loop' = r
      /\ \A u \in DOMAIN files : ~FreehandImport(files[u])
      /\ calls' = Append(calls, Request(r, b, files, Nothing, FALSE))
      /\ UNCHANGED <<traces, github>>
  BY RunIsTyped DEF OpenInfraPr, IInv, Shape
<1>2. run' = [run EXCEPT ![r] = t]
  BY <1>1 DEF OpenInfraPr
<1>3. files \in FileMaps /\ Asks(files, Nothing)
  BY <1>1, OneFile, AuthoringAssumption DEF Asks
<1>4. t = MovedOn(o, "tool")
  BY DEF MovedOn
<1> HIDE DEF o, t, files
<1>5. /\ t \in TurnSet /\ t.pc = "tool" /\ t.slots = o.slots
      /\ t.seq = o.seq /\ t.shown = o.shown
  BY <1>1, <1>4, MovedOnFields
<1> QED
  BY <1>1, <1>2, <1>3, <1>5, ToolKeeps DEF o

LEMMA SendAdoptionKeeps ==
  ASSUME IInv, NEW r \in Runs, NEW b \in Calls, NEW s \in Slots,
         NEW answered \in BOOLEAN, SendAdoption(r, b, s, answered)
  PROVE  IInv'
<1> DEFINE o == run[r]
           x == o.adopting
           t == [o EXCEPT !.pc = "tool", !.adopting = Nothing]
           files == [u \in {s} |-> Rendered(x)]
           duplicate == answered /\ OpenAdoptions(x) # {}
<1>1. /\ o \in TurnSet /\ Turn(o) /\ o.pc = "adopt" /\ run \in [Runs -> TurnSet]
      /\ UNCHANGED <<traces, github>> /\ loop = r /\ Len(calls) < MaxCalls
      /\ x \in Adoptions /\ ~AdoptRefused(x)
  BY RunIsTyped DEF SendAdoption, IInv, Shape, Blocks, Turn
<1>2. CASE duplicate
  BY <1>1, <1>2, DuplicateKeeps DEF SendAdoption
<1>3. CASE ~duplicate
  <2>1. /\ run' = [run EXCEPT ![r] = t] /\ loop' = r
        /\ calls' = Append(calls, Request(r, b, files, x, ~answered))
    BY <1>1, <1>3 DEF SendAdoption
  <2>2. x \in Resources /\ x # Nothing
    BY <1>1, AuthoringAssumption
  <2>3. files \in FileMaps /\ Asks(files, x)
    BY <1>1, <2>2, OneFile, RenderedType DEF Asks
  <2>4. t = Moved(o, "tool", Nothing)
    BY DEF Moved
  <2>5. ~(~answered) => OpenAdoptions(x) = {}
    BY <1>3
  <2> HIDE DEF o, t, files, x, duplicate
  <2>6. /\ t \in TurnSet /\ t.pc = "tool" /\ t.slots = o.slots
        /\ t.seq = o.seq /\ t.shown = o.shown
    BY <1>1, <2>4, MovedFields
  <2> QED
    BY <1>1, <2>1, <2>2, <2>3, <2>5, <2>6, ToolKeeps DEF o, LoopFree
<1> QED
  BY <1>2, <1>3

-----------------------------------------------------------------------------
(* The editor worker                                                       *)

\* The request n becomes d, which asks the same and is waited for the same.
Works(n, d) ==
  /\ calls' = [calls EXCEPT ![n] = d]
  /\ d \in CallSet /\ Same(calls[n], d) /\ d.wait = calls[n].wait /\ Sound(d)
  /\ calls[n].at \notin {"replied", "failed"}
  /\ d.at \in {"checks", "write"} => calls[n].at \in {"checks", "write"}

LEMMA WorkIsLocal ==
  ASSUME IInv, NEW n \in DOMAIN calls, NEW d, Works(n, d)
  PROVE  /\ DOMAIN calls' = DOMAIN calls /\ calls' \in Seq(CallSet)
         /\ Len(calls') = Len(calls) /\ calls'[n] = d
         /\ \A m \in DOMAIN calls : m # n => calls'[m] = calls[m]
         /\ \A m \in DOMAIN calls : /\ Same(calls[m], calls'[m])
                                    /\ calls'[m].wait = calls[m].wait
         /\ \A m \in DOMAIN calls : Alone(m)' <=> Alone(m)
<1>1. /\ calls \in Seq(CallSet) /\ calls' = [calls EXCEPT ![n] = d] /\ d \in CallSet
  BY DEF IInv, Shape, Works
<1>2. /\ DOMAIN calls' = DOMAIN calls /\ calls' \in Seq(CallSet)
      /\ Len(calls') = Len(calls) /\ calls'[n] = d
      /\ \A m \in DOMAIN calls : m # n => calls'[m] = calls[m]
  BY <1>1
<1>3. \A m \in DOMAIN calls : Same(calls[m], calls'[m]) /\ calls'[m].wait = calls[m].wait
  BY <1>2 DEF Works, Same
<1>4. \A m \in DOMAIN calls : Alone(m)' <=> Alone(m)
  BY <1>2, <1>3 DEF Alone, Same
<1> QED
  BY <1>2, <1>3, <1>4

\* What the worker does is nothing to the turns.
LEMMA WorkKeeps ==
  ASSUME IInv, NEW n \in DOMAIN calls, NEW d, Works(n, d), UNCHANGED coordinator
  PROVE  Turns' /\ Blocks' /\ Waits' /\ Committed' /\ Requests'
<1>1. /\ DOMAIN calls' = DOMAIN calls /\ Len(calls') = Len(calls)
      /\ calls'[n] = d /\ \A m \in DOMAIN calls : m # n => calls'[m] = calls[m]
      /\ \A m \in DOMAIN calls : Same(calls[m], calls'[m])
      /\ \A m \in DOMAIN calls : calls'[m].wait = calls[m].wait
      /\ UNCHANGED <<run, loop>>
  BY WorkIsLocal DEF coordinator
<1>2. Turns' /\ Blocks'
  BY <1>1 DEF IInv, Turns, Blocks
<1>3. Waits'
  BY <1>1 DEF IInv, Waits, Same
<1>4. Committed'
  BY <1>1 DEF IInv, Committed, Same
<1>5. Requests'
  BY <1>1 DEF IInv, Requests, Works
<1> QED
  BY <1>2, <1>3, <1>4, <1>5

\* An earlier adoption that was heard stays heard, and as little open, if only
\* pull requests of calls that are still at work are opened or labelled.
LEMMA WorkKeepsExclusive ==
  ASSUME IInv, NEW n \in DOMAIN calls, NEW d, Works(n, d),
         \A m \in DOMAIN calls \ {n}, p \in DOMAIN pulls' :
           /\ pulls'[p].call = m /\ Alone(m)
           /\ pulls'[p].state = "open" /\ pulls'[p].labelled
           => /\ p \in DOMAIN pulls /\ pulls[p].call = m
              /\ pulls[p].state = "open" /\ pulls[p].labelled
  PROVE  Exclusive'
<1> SUFFICES ASSUME NEW m \in DOMAIN calls', NEW k \in DOMAIN calls', m < k,
                    calls'[m].adopts = calls'[k].adopts, calls'[m].adopts # Nothing,
                    Alone(m)', ~calls'[k].blind, calls'[m].wait # "no"
             PROVE  Settled(m)'
  BY DEF Exclusive
<1>1. /\ m \in DOMAIN calls /\ k \in DOMAIN calls /\ Alone(m)
      /\ Same(calls[m], calls'[m]) /\ Same(calls[k], calls'[k])
      /\ calls'[m].wait = calls[m].wait
  BY WorkIsLocal
<1>2. Settled(m)
  BY <1>1 DEF IInv, Exclusive, Same
<1>3. m # n
  BY <1>1, <1>2 DEF IInv, Requests, Sound, Settled, Works
<1> QED
  BY <1>1, <1>2, <1>3 DEF Settled

\* A step of the worker that reaches nobody else.
LEMMA QuietKeeps ==
  ASSUME IInv, NEW n \in DOMAIN calls, NEW d, Works(n, d),
         UNCHANGED <<coordinator, github>>,
         d.written = calls[n].written,
         d.at = "label" => /\ d.pull \in DOMAIN pulls
                           /\ calls[pulls[d.pull].call].branch = d.branch,
         d.fresh => calls[n].fresh /\ d.pull = calls[n].pull
  PROVE  IInv'
<1>1. /\ DOMAIN calls' = DOMAIN calls /\ calls' \in Seq(CallSet)
      /\ Len(calls') = Len(calls) /\ calls'[n] = d
      /\ \A m \in DOMAIN calls : m # n => calls'[m] = calls[m]
      /\ \A m \in DOMAIN calls : /\ Same(calls[m], calls'[m])
                                 /\ calls'[m].wait = calls[m].wait
      /\ \A m \in DOMAIN calls : Alone(m)' <=> Alone(m)
      /\ UNCHANGED <<run, loop, traces, branches, pulls, declared>>
  BY WorkIsLocal DEF coordinator, github
<1>2. Shape'
  BY <1>1 DEF IInv, Shape
<1>3. \A p \in DOMAIN pulls : pulls[p].call \in DOMAIN calls
  BY DEF IInv, Opens
<1>4. Opens'
  <2>1. \A m \in DOMAIN calls : calls'[m].at \in {"checks", "write"} =>
          calls[m].at \in {"checks", "write"}
    BY <1>1 DEF Works
  <2> QED
    BY <1>1, <1>3, <2>1 DEF IInv, Opens, Same
<1>5. Answers'
  <2> SUFFICES ASSUME NEW m \in DOMAIN calls PROVE Truthful(m)'
    BY <1>1 DEF Answers
  <2>1. Truthful(m)
    BY DEF IInv, Answers
  <2>2. CASE m = n
    BY <1>1, <1>3, <2>1, <2>2 DEF Truthful, Same
  <2>3. CASE m # n
    BY <1>1, <1>3, <2>1, <2>3 DEF Truthful, Same
  <2> QED
    BY <2>2, <2>3
<1>6. Branches'
  <2>1. \A b \in Calls : (\A m \in DOMAIN calls' : calls'[m].branch # b) =>
          \A s \in Slots : branches'[b][s] = NoFile
    BY <1>1 DEF IInv, Branches, Same
  <2>2. ASSUME NEW m \in DOMAIN calls', Alone(m)', calls'[m].at \in {"checks", "write"}
        PROVE  Holds(m, calls[m].written)'
    <3>1. m \in DOMAIN calls /\ calls'[m].written = calls[m].written
          /\ calls[m].at \in {"checks", "write"} /\ Same(calls[m], calls'[m])
      BY <1>1, <2>2 DEF Works
    <3>2. Holds(m, calls[m].written)
      BY <1>1, <2>2, <3>1 DEF IInv, Branches
    <3> QED
      BY <1>1, <3>1, <3>2 DEF Holds, Same
  <2>3. ASSUME NEW p \in DOMAIN pulls', NEW m \in DOMAIN calls', pulls'[p].call = m,
               Alone(m)'
        PROVE  Holds(m, DOMAIN calls[m].files)'
    <3>1. m \in DOMAIN calls /\ Same(calls[m], calls'[m])
          /\ Holds(m, DOMAIN calls[m].files)
      BY <1>1, <2>3 DEF IInv, Branches
    <3> QED
      BY <1>1, <3>1 DEF Holds, Same
  <2> QED
    BY <2>1, <2>2, <2>3 DEF Branches
<1>7. TraceIsAuthors'
  BY <1>1, <1>3 DEF IInv, TraceIsAuthors, Same
<1>8. Exclusive'
  BY <1>1, WorkKeepsExclusive
<1> QED
  BY <1>2, <1>4, <1>5, <1>6, <1>7, <1>8, WorkKeeps DEF IInv

\* A request that only goes to another stage.
Went(c, at) == [c EXCEPT !.at = at]

LEMMA WentFields ==
  ASSUME NEW c \in CallSet, NEW at \in Stages, NEW d, d = Went(c, at)
  PROVE  /\ d \in CallSet /\ d.at = at /\ Same(c, d) /\ d.wait = c.wait
         /\ d.written = c.written /\ d.pull = c.pull /\ d.fresh = c.fresh
<1>1. d = [by |-> c.by, branch |-> c.branch, files |-> c.files,
           adopts |-> c.adopts, blind |-> c.blind, at |-> at, wait |-> c.wait,
           written |-> c.written, pull |-> c.pull, fresh |-> c.fresh]
  BY DEF CallSet, Went
<1>2. d \in CallSet
  BY <1>1 DEF CallSet
<1> QED
  BY <1>1, <1>2 DEF Same

\* The worker fails, or goes on to write what the gate has admitted.
LEMMA GotoKeeps ==
  ASSUME IInv, NEW n \in DOMAIN calls, NEW at \in {"write", "failed"}, Goto(n, at),
         calls[n].at \notin {"replied", "failed"},
         at = "write" => calls[n].at = "checks" /\ Admitted(calls[n].files),
         UNCHANGED <<coordinator, github>>
  PROVE  IInv'
<1> DEFINE c == calls[n]
           d == [c EXCEPT !.at = at]
<1>1. c \in CallSet /\ Sound(c) /\ calls \in Seq(CallSet)
  BY CallsAreTyped DEF IInv, Requests, Shape
<1>2. calls' = [calls EXCEPT ![n] = d]
  BY <1>1 DEF Goto
<1>3. /\ d \in CallSet /\ d.at = at /\ Same(c, d) /\ d.wait = c.wait
      /\ d.written = c.written /\ d.pull = c.pull /\ d.fresh = c.fresh
  <2>1. d = Went(c, at) /\ at \in Stages
    BY DEF Went, Stages
  <2> HIDE DEF c, d
  <2> QED
    BY <1>1, <2>1, WentFields
<1> HIDE DEF d
<1>4. Sound(d)
  BY <1>1, <1>3 DEF Sound, Same
<1>5. Works(n, d)
  BY <1>2, <1>3, <1>4 DEF Works
<1> QED
  BY <1>3, <1>5, QuietKeeps

\* A request that found the open pull request of its branch.
LEMMA FoundKeeps ==
  ASSUME IInv, NEW n \in DOMAIN calls, NEW k \in PullOf(calls[n].branch),
         calls' = [calls EXCEPT ![n].at = "label", ![n].pull = k],
         calls[n].at \in {"checks", "write"},
         UNCHANGED <<coordinator, github>>
  PROVE  IInv'
<1> DEFINE c == calls[n]
           d == [c EXCEPT !.at = "label", !.pull = k]
<1>1. c \in CallSet /\ Sound(c) /\ calls \in Seq(CallSet) /\ Truthful(n)
  BY CallsAreTyped DEF IInv, Requests, Shape, Answers
<1>2. calls' = [calls EXCEPT ![n] = d]
  BY <1>1
<1>3. k \in DOMAIN pulls /\ calls[pulls[k].call].branch = c.branch /\ k \in Nat
  BY CallsAreTyped DEF PullOf, IInv
<1>4. ~c.fresh
  BY <1>1 DEF IInv, Opens, Truthful
<1>5. d = [c EXCEPT !.at = "label", !.pull = k]
  OBVIOUS
<1> HIDE DEF c, d
<1>6. d = [by |-> c.by, branch |-> c.branch, files |-> c.files,
           adopts |-> c.adopts, blind |-> c.blind, at |-> "label", wait |-> c.wait,
           written |-> c.written, pull |-> k, fresh |-> c.fresh]
  BY <1>1, <1>5 DEF CallSet
<1>7. d \in CallSet
  BY <1>1, <1>3, <1>6 DEF CallSet, Stages
<1>8. Sound(d) /\ Same(c, d)
  BY <1>1, <1>6 DEF Sound, Same, c
<1>9. Works(n, d)
  BY <1>2, <1>6, <1>7, <1>8 DEF Works, c
<1> QED
  BY <1>3, <1>4, <1>6, <1>9, QuietKeeps DEF c

LEMMA CreateBranchKeeps ==
  ASSUME IInv, NEW n \in DOMAIN calls, CreateBranch(n)
  PROVE  IInv'
<1>1. /\ calls[n].at = "checks" /\ UNCHANGED <<coordinator, github>>
  BY DEF CreateBranch
<1>2. CASE Goto(n, "failed")
  BY <1>1, <1>2, GotoKeeps
<1>3. CASE /\ PullOf(calls[n].branch) # {}
           /\ calls' = [calls EXCEPT ![n].at = "label",
                          ![n].pull = CHOOSE p \in PullOf(calls[n].branch) : TRUE]
  BY <1>1, <1>3, FoundKeeps
<1>4. CASE Admitted(calls[n].files) /\ Goto(n, "write")
  BY <1>1, <1>4, GotoKeeps
<1> QED
  BY <1>2, <1>3, <1>4 DEF CreateBranch, Admitted

LEMMA WorkerDiesKeeps ==
  ASSUME IInv, NEW n \in DOMAIN calls, WorkerDies(n)
  PROVE  IInv'
BY GotoKeeps DEF WorkerDies

\* One more file of the request is on its branch.
Wrote(c, s) == [c EXCEPT !.written = c.written \cup {s}]

LEMMA WroteFields ==
  ASSUME NEW c \in CallSet, NEW s \in Slots, NEW d, d = Wrote(c, s)
  PROVE  /\ d \in CallSet /\ d.at = c.at /\ Same(c, d) /\ d.wait = c.wait
         /\ d.written = c.written \cup {s} /\ d.pull = c.pull /\ d.fresh = c.fresh
<1>1. d = [by |-> c.by, branch |-> c.branch, files |-> c.files,
           adopts |-> c.adopts, blind |-> c.blind, at |-> c.at, wait |-> c.wait,
           written |-> c.written \cup {s}, pull |-> c.pull, fresh |-> c.fresh]
  BY DEF CallSet, Wrote
<1>2. c.written \cup {s} \in SUBSET Slots
  BY DEF CallSet
<1>3. d \in CallSet
  BY <1>1, <1>2 DEF CallSet
<1> QED
  BY <1>1, <1>3 DEF Same

LEMMA WroteKeeps ==
  ASSUME IInv, NEW n \in DOMAIN calls, NEW s \in Slots, calls[n].at = "write",
         s \in DOMAIN calls[n].files,
         calls' = [calls EXCEPT ![n].written = @ \cup {s}],
         branches' = [branches EXCEPT ![calls[n].branch][s] = calls[n].files[s]],
         UNCHANGED <<coordinator, pulls, declared>>
  PROVE  IInv'
<1> DEFINE c == calls[n]
           d == Wrote(c, s)
           b == c.branch
<1>1. /\ c \in CallSet /\ Sound(c) /\ calls \in Seq(CallSet)
      /\ branches \in [Calls -> [Slots -> Files \cup {NoFile}]]
  BY CallsAreTyped DEF IInv, Requests, Shape
<1>2. calls' = [calls EXCEPT ![n] = d]
  BY <1>1 DEF Wrote
<1>3. /\ d \in CallSet /\ d.at = "write" /\ Same(c, d) /\ d.wait = c.wait
      /\ d.written = c.written \cup {s} /\ d.pull = c.pull /\ d.fresh = c.fresh
  BY <1>1, WroteFields
<1> HIDE DEF d
<1>4. Works(n, d)
  <2>1. Sound(d)
    BY <1>1, <1>3 DEF Sound, Same
  <2> QED
    BY <1>2, <1>3, <2>1 DEF Works
<1>5. /\ DOMAIN calls' = DOMAIN calls /\ calls' \in Seq(CallSet)
      /\ Len(calls') = Len(calls) /\ calls'[n] = d
      /\ \A m \in DOMAIN calls : m # n => calls'[m] = calls[m]
      /\ \A m \in DOMAIN calls : /\ Same(calls[m], calls'[m])
                                 /\ calls'[m].wait = calls[m].wait
      /\ \A m \in DOMAIN calls : Alone(m)' <=> Alone(m)
      /\ UNCHANGED <<run, loop, traces, pulls, declared>>
  BY <1>4, WorkIsLocal DEF coordinator
<1>6. b \in Calls /\ c.files[s] \in Files \cup {NoFile}
  BY <1>1 DEF CallSet, FileMaps
<1>7. /\ branches' \in [Calls -> [Slots -> Files \cup {NoFile}]]
      /\ branches'[b][s] = c.files[s]
      /\ \A u \in Slots : u # s => branches'[b][u] = branches[b][u]
      /\ \A a \in Calls : a # b => branches'[a] = branches[a]
  <2>1. branches' = [branches EXCEPT ![b] = [branches[b] EXCEPT ![s] = c.files[s]]]
    BY <1>1, <1>6
  <2> DEFINE w == [branches[b] EXCEPT ![s] = c.files[s]]
  <2>2. /\ w \in [Slots -> Files \cup {NoFile}] /\ w[s] = c.files[s]
        /\ \A u \in Slots : u # s => w[u] = branches[b][u]
    BY <1>1, <1>6
  <2> HIDE DEF w, b, c
  <2> QED
    BY <1>1, <1>6, <2>1, <2>2 DEF w
<1>8. Shape'
  BY <1>5, <1>7 DEF IInv, Shape
<1>9. Opens'
  BY <1>3, <1>5 DEF IInv, Opens, Same
<1>10. Answers'
  <2> SUFFICES ASSUME NEW m \in DOMAIN calls PROVE Truthful(m)'
    BY <1>5 DEF Answers
  <2>1. Truthful(m)
    BY DEF IInv, Answers
  <2>2. \A p \in DOMAIN pulls : pulls[p].call \in DOMAIN calls
    BY DEF IInv, Opens
  <2>3. CASE m = n
    BY <1>3, <1>5, <2>1, <2>2, <2>3 DEF Truthful, Same
  <2>4. CASE m # n
    BY <1>5, <2>1, <2>2, <2>4 DEF Truthful, Same
  <2> QED
    BY <2>3, <2>4
<1>11. ASSUME NEW m \in DOMAIN calls, Alone(m), m # n
       PROVE  calls[m].branch # b /\ branches'[calls[m].branch] = branches[calls[m].branch]
  <2>1. calls[m].branch \in Calls /\ calls[m].branch # b
    BY <1>11, CallsAreTyped DEF IInv, CallSet, Alone
  <2> QED
    BY <1>7, <2>1
<1>12. Branches'
  <2>1. ASSUME NEW a \in Calls, \A m \in DOMAIN calls' : calls'[m].branch # a
        PROVE  \A u \in Slots : branches'[a][u] = NoFile
    <3>1. a # b /\ \A m \in DOMAIN calls : calls[m].branch # a
      BY <1>5, <2>1 DEF Same
    <3> QED
      BY <1>7, <3>1 DEF IInv, Branches
  <2>2. ASSUME NEW m \in DOMAIN calls', Alone(m)', calls'[m].at \in {"checks", "write"}
        PROVE  Holds(m, calls[m].written)'
    <3>1. CASE m = n
      <4>1. Holds(n, c.written)
        BY <1>5, <2>2, <3>1 DEF IInv, Branches
      <4>2. \A u \in Slots : branches'[b][u] = IF u \in d.written THEN c.files[u] ELSE NoFile
        BY <1>3, <1>7, <4>1 DEF Holds
      <4>3. /\ calls'[m].branch = b /\ calls'[m].files = c.files
            /\ calls'[m].written = d.written
        BY <1>3, <1>5, <3>1 DEF Same
      <4> QED
        BY <4>2, <4>3 DEF Holds
    <3>2. CASE m # n
      <4>1. m \in DOMAIN calls /\ calls'[m] = calls[m] /\ Alone(m)
        BY <1>5, <2>2, <3>2
      <4>2. Holds(m, calls[m].written)
        BY <2>2, <4>1 DEF IInv, Branches
      <4> QED
        BY <1>11, <3>2, <4>1, <4>2 DEF Holds
    <3> QED
      BY <3>1, <3>2
  <2>3. ASSUME NEW p \in DOMAIN pulls', NEW m \in DOMAIN calls', pulls'[p].call = m,
               Alone(m)'
        PROVE  Holds(m, DOMAIN calls[m].files)'
    <3>1. m \in DOMAIN calls /\ Alone(m) /\ p \in DOMAIN pulls /\ pulls[p].call = m
      BY <1>5, <2>3
    <3>2. m # n
      BY <3>1 DEF IInv, Opens
    <3>3. Holds(m, DOMAIN calls[m].files) /\ calls'[m] = calls[m]
      BY <1>5, <3>1, <3>2 DEF IInv, Branches
    <3> QED
      BY <1>11, <3>1, <3>2, <3>3 DEF Holds
  <2> QED
    BY <2>1, <2>2, <2>3 DEF Branches
<1>13. TraceIsAuthors'
  BY <1>5 DEF IInv, TraceIsAuthors, Opens, Same
<1>14. Exclusive'
  BY <1>4, <1>5, WorkKeepsExclusive
<1> QED
  BY <1>4, <1>8, <1>9, <1>10, <1>12, <1>13, <1>14, WorkKeeps DEF IInv

LEMMA WriteFileKeeps ==
  ASSUME IInv, NEW n \in DOMAIN calls, NEW s \in Slots, WriteFile(n, s)
  PROVE  IInv'
<1>1. CASE Goto(n, "failed") /\ UNCHANGED branches
  BY <1>1, GotoKeeps DEF WriteFile, github
<1>2. CASE /\ calls' = [calls EXCEPT ![n].written = @ \cup {s}]
           /\ branches' = [branches EXCEPT ![calls[n].branch][s] = calls[n].files[s]]
  BY <1>2, WroteKeeps DEF WriteFile
<1> QED
  BY <1>1, <1>2 DEF WriteFile

LEMMA OpenedKeeps ==
  ASSUME IInv, NEW n \in DOMAIN calls, NEW d, Works(n, d), calls[n].at = "write",
         Written(n), pulls' = Append(pulls, Opened(n)),
         d.at \in {"label", "failed"},
         d.at = "label" \/ d.fresh => d.pull = Len(pulls) + 1,
         UNCHANGED <<coordinator, branches, declared>>
  PROVE  IInv'
<1> DEFINE P == Len(pulls) + 1
           o == Opened(n)
<1>1. /\ DOMAIN calls' = DOMAIN calls /\ calls' \in Seq(CallSet)
      /\ Len(calls') = Len(calls) /\ calls'[n] = d
      /\ \A m \in DOMAIN calls : m # n => calls'[m] = calls[m]
      /\ \A m \in DOMAIN calls : /\ Same(calls[m], calls'[m])
                                 /\ calls'[m].wait = calls[m].wait
      /\ \A m \in DOMAIN calls : Alone(m)' <=> Alone(m)
      /\ UNCHANGED <<run, loop, traces, branches, declared>>
  BY WorkIsLocal DEF coordinator
<1>2. o \in PullSet /\ o.call = n /\ ~o.labelled
  BY CallsAreTyped DEF IInv, Opened, PullSet
<1>3. /\ pulls' \in Seq(PullSet) /\ DOMAIN pulls' = DOMAIN pulls \cup {P}
      /\ P \notin DOMAIN pulls /\ pulls'[P] = o
      /\ \A p \in DOMAIN pulls : pulls'[p] = pulls[p]
  <2>1. pulls \in Seq(PullSet) /\ pulls' = Append(pulls, o)
    BY DEF IInv, Shape
  <2> HIDE DEF o
  <2> QED
    BY <1>2, <2>1
<1> HIDE DEF P, o
<1>4. Sound(calls[n]) /\ \A p \in DOMAIN pulls : /\ pulls[p].call # n
                                                 /\ pulls[p].call \in DOMAIN calls
  BY DEF IInv, Requests, Opens
<1>5. Shape'
  BY <1>1, <1>3 DEF IInv, Shape
<1>6. Opens'
  <2>1. \A m \in DOMAIN calls : calls'[m].files = calls[m].files
    BY <1>1 DEF Same
  <2>2. calls'[n].at \notin {"checks", "write"} /\ Admitted(calls'[n].files)
    BY <1>1, <1>4, <2>1 DEF Sound
  <2>3. ASSUME NEW p \in DOMAIN pulls'
        PROVE  /\ pulls'[p].call \in DOMAIN calls'
               /\ calls'[pulls'[p].call].at \notin {"checks", "write"}
               /\ Admitted(calls'[pulls'[p].call].files)
    <3>1. CASE p = P
      BY <1>1, <1>2, <1>3, <2>2, <3>1
    <3>2. CASE p \in DOMAIN pulls
      BY <1>1, <1>3, <1>4, <3>2 DEF IInv, Opens
    <3> QED
      BY <1>3, <3>1, <3>2
  <2>4. \A p, q \in DOMAIN pulls' : pulls'[p].call = pulls'[q].call => p = q
    BY <1>2, <1>3, <1>4 DEF IInv, Opens
  <2> QED
    BY <2>3, <2>4 DEF Opens, Admitted
<1>7. Answers'
  <2> SUFFICES ASSUME NEW m \in DOMAIN calls PROVE Truthful(m)'
    BY <1>1 DEF Answers
  <2>1. Truthful(m)
    BY DEF IInv, Answers
  <2>2. CASE m = n
    <3>1. d.at = "label" \/ d.fresh => d.pull = P
      BY DEF P
    <3> QED
      BY <1>1, <1>2, <1>3, <2>2, <3>1 DEF Truthful
  <2>3. CASE m # n
    BY <1>1, <1>3, <1>4, <2>1, <2>3 DEF Truthful, Same
  <2> QED
    BY <2>2, <2>3
<1>8. Branches'
  <2>1. \A b \in Calls : (\A m \in DOMAIN calls' : calls'[m].branch # b) =>
          \A s \in Slots : branches'[b][s] = NoFile
    BY <1>1 DEF IInv, Branches, Same
  <2>2. ASSUME NEW m \in DOMAIN calls', Alone(m)', calls'[m].at \in {"checks", "write"}
        PROVE  Holds(m, calls[m].written)'
    <3>1. m \in DOMAIN calls /\ m # n /\ calls'[m] = calls[m] /\ Alone(m)
      BY <1>1, <2>2
    <3>2. Holds(m, calls[m].written)
      BY <2>2, <3>1 DEF IInv, Branches
    <3> QED
      BY <1>1, <3>1, <3>2 DEF Holds
  <2>3. ASSUME NEW p \in DOMAIN pulls', NEW m \in DOMAIN calls', pulls'[p].call = m,
               Alone(m)'
        PROVE  Holds(m, DOMAIN calls[m].files)'
    <3>1. m \in DOMAIN calls /\ Alone(m) /\ Same(calls[m], calls'[m])
      BY <1>1, <2>3
    <3>2. Holds(m, DOMAIN calls[m].files)
      <4>1. CASE p = P
        <5>1. m = n /\ calls[n].written = DOMAIN calls[n].files
          BY <1>2, <1>3, <2>3, <4>1 DEF Written
        <5> QED
          BY <3>1, <5>1 DEF IInv, Branches
      <4>2. CASE p \in DOMAIN pulls
        BY <1>3, <2>3, <3>1, <4>2 DEF IInv, Branches
      <4> QED
        BY <1>3, <4>1, <4>2
    <3> QED
      BY <1>1, <3>1, <3>2 DEF Holds, Same
  <2> QED
    BY <2>1, <2>2, <2>3 DEF Branches
<1>9. TraceIsAuthors'
  BY <1>1, <1>3, <1>4 DEF IInv, TraceIsAuthors, Same
<1>10. Exclusive'
  BY <1>2, <1>3, WorkKeepsExclusive
<1> QED
  BY <1>5, <1>6, <1>7, <1>8, <1>9, <1>10, WorkKeeps DEF IInv

LEMMA OpenPullKeeps ==
  ASSUME IInv, NEW n \in DOMAIN calls, OpenPull(n)
  PROVE  IInv'
<1> DEFINE c == calls[n]
<1>1. /\ c.at = "write" /\ Written(n) /\ UNCHANGED <<coordinator, branches, declared>>
      /\ c \in CallSet /\ Sound(c) /\ calls \in Seq(CallSet)
  BY CallsAreTyped DEF OpenPull, IInv, Requests, Shape
<1>2. ASSUME NEW fresh \in BOOLEAN, pulls' = Append(pulls, Opened(n)),
             calls' = [calls EXCEPT ![n].at = "label", ![n].fresh = fresh,
                                    ![n].pull = Len(pulls) + 1]
      PROVE  IInv'
  <2> DEFINE k == Len(pulls) + 1
             d == [c EXCEPT !.at = "label", !.fresh = fresh, !.pull = k]
  <2>1. calls' = [calls EXCEPT ![n] = d] /\ k \in Nat
    <3>1. k \in Nat
      BY CallsAreTyped DEF IInv
    <3> HIDE DEF k
    <3>2. calls' = [calls EXCEPT ![n].at = "label", ![n].fresh = fresh, ![n].pull = k]
      BY <1>2 DEF k
    <3> QED
      BY <1>1, <3>1, <3>2
  <2>2. d = [c EXCEPT !.at = "label", !.fresh = fresh, !.pull = k]
    OBVIOUS
  <2> HIDE DEF c, d, k
  <2>3. d = [by |-> c.by, branch |-> c.branch, files |-> c.files,
             adopts |-> c.adopts, blind |-> c.blind, at |-> "label", wait |-> c.wait,
             written |-> c.written, pull |-> k, fresh |-> fresh]
    BY <1>1, <2>2 DEF CallSet
  <2>4. d \in CallSet
    BY <1>1, <2>1, <2>3 DEF CallSet, Stages
  <2>5. Sound(d) /\ Same(c, d)
    BY <1>1, <2>3 DEF Sound, Same
  <2>6. Works(n, d)
    BY <1>1, <2>1, <2>3, <2>4, <2>5 DEF Works, c
  <2> QED
    BY <1>1, <1>2, <2>3, <2>6, OpenedKeeps DEF c, k
<1>3. CASE pulls' = Append(pulls, Opened(n)) /\ Goto(n, "failed")
  <2> DEFINE d == Went(c, "failed")
  <2>1. calls' = [calls EXCEPT ![n] = d]
    BY <1>1, <1>3 DEF Goto, Went
  <2>2. /\ d \in CallSet /\ d.at = "failed" /\ Same(c, d) /\ d.wait = c.wait
        /\ d.written = c.written /\ d.fresh = c.fresh
    BY <1>1, WentFields DEF Stages
  <2> HIDE DEF d
  <2>3. Works(n, d)
    <3>1. Sound(d)
      BY <1>1, <2>2 DEF Sound, Same
    <3> QED
      BY <1>1, <2>1, <2>2, <3>1 DEF Works
  <2>4. ~c.fresh
    <3>1. ASSUME c.fresh PROVE FALSE
      <4>1. c.pull \in DOMAIN pulls /\ pulls[c.pull].call = n
        BY <3>1 DEF IInv, Answers, Truthful
      <4> QED
        BY <1>1, <4>1 DEF IInv, Opens
    <3> QED
      BY <3>1
  <2> QED
    BY <1>1, <1>3, <2>2, <2>3, <2>4, OpenedKeeps
<1>4. CASE /\ PullOf(c.branch) # {} /\ UNCHANGED pulls
           /\ calls' = [calls EXCEPT ![n].at = "label",
                          ![n].pull = CHOOSE p \in PullOf(c.branch) : TRUE]
  BY <1>1, <1>4, FoundKeeps DEF github
<1>5. CASE Goto(n, "failed") /\ UNCHANGED pulls
  BY <1>1, <1>5, GotoKeeps DEF github
<1> QED
  BY <1>2, <1>3, <1>4, <1>5 DEF OpenPull

LEMMA FinalizeKeeps ==
  ASSUME IInv, NEW n \in DOMAIN calls, Finalize(n)
  PROVE  IInv'
<1> DEFINE c == calls[n]
           d == Went(c, "replied")
           k == c.pull
<1>1. /\ c.at = "label" /\ UNCHANGED <<coordinator, branches, declared>>
      /\ c \in CallSet /\ Sound(c) /\ calls \in Seq(CallSet) /\ pulls \in Seq(PullSet)
      /\ k \in DOMAIN pulls /\ calls[pulls[k].call].branch = c.branch
  BY CallsAreTyped DEF Finalize, IInv, Requests, Shape, Answers, Truthful
<1>2. calls' = [calls EXCEPT ![n] = d]
  BY <1>1 DEF Finalize, Goto, Went
<1>3. /\ d \in CallSet /\ d.at = "replied" /\ Same(c, d) /\ d.wait = c.wait
      /\ d.written = c.written /\ d.pull = k /\ d.fresh = c.fresh
  BY <1>1, WentFields DEF Stages
<1> HIDE DEF d
<1>4. Works(n, d)
  <2>1. Sound(d)
    BY <1>1, <1>3 DEF Sound, Same
  <2> QED
    BY <1>1, <1>2, <1>3, <2>1 DEF Works
<1>5. /\ DOMAIN calls' = DOMAIN calls /\ calls' \in Seq(CallSet)
      /\ Len(calls') = Len(calls) /\ calls'[n] = d
      /\ \A m \in DOMAIN calls : m # n => calls'[m] = calls[m]
      /\ \A m \in DOMAIN calls : /\ Same(calls[m], calls'[m])
                                 /\ calls'[m].wait = calls[m].wait
      /\ \A m \in DOMAIN calls : Alone(m)' <=> Alone(m)
      /\ UNCHANGED <<run, loop, traces, branches, declared>>
  BY <1>1, <1>4, WorkIsLocal DEF coordinator
<1>6. PICK labelled \in BOOLEAN :
        pulls' = [pulls EXCEPT ![k].labelled = @ \/ labelled]
  BY DEF Finalize
<1>7. /\ pulls' \in Seq(PullSet) /\ DOMAIN pulls' = DOMAIN pulls
      /\ \A p \in DOMAIN pulls : pulls'[p].call = pulls[p].call
      /\ \A p \in DOMAIN pulls : p # k => pulls'[p] = pulls[p]
  <2> DEFINE old == pulls[k]
             new == [old EXCEPT !.labelled = old.labelled \/ labelled]
  <2>1. pulls' = [pulls EXCEPT ![k] = new] /\ old \in PullSet
    BY <1>1, <1>6
  <2>2. new = [old EXCEPT !.labelled = old.labelled \/ labelled]
    OBVIOUS
  <2> HIDE DEF old, new
  <2>3. new \in PullSet /\ new.call = old.call
    BY <2>1, <2>2 DEF PullSet
  <2> HIDE DEF k
  <2> QED
    BY <1>1, <2>1, <2>3 DEF old
<1> HIDE DEF k
<1>8. \A p \in DOMAIN pulls : pulls[p].call \in DOMAIN calls
  BY DEF IInv, Opens
<1>9. Shape'
  BY <1>5, <1>7 DEF IInv, Shape
<1>10. Opens'
  <2>1. \A m \in DOMAIN calls : /\ calls'[m].files = calls[m].files
                                /\ calls[m].at \notin {"checks", "write"} =>
                                     calls'[m].at \notin {"checks", "write"}
    BY <1>3, <1>5 DEF Same
  <2> QED
    BY <1>5, <1>7, <1>8, <2>1 DEF IInv, Opens
<1>11. Answers'
  <2> SUFFICES ASSUME NEW m \in DOMAIN calls PROVE Truthful(m)'
    BY <1>5 DEF Answers
  <2>1. Truthful(m)
    BY DEF IInv, Answers
  <2>2. CASE m = n
    BY <1>3, <1>5, <1>7, <2>1, <2>2 DEF Truthful, k
  <2>3. CASE m # n
    BY <1>5, <1>7, <1>8, <2>1, <2>3 DEF Truthful, Same
  <2> QED
    BY <2>2, <2>3
<1>12. Branches'
  <2>1. \A b \in Calls : (\A m \in DOMAIN calls' : calls'[m].branch # b) =>
          \A s \in Slots : branches'[b][s] = NoFile
    BY <1>5 DEF IInv, Branches, Same
  <2>2. ASSUME NEW m \in DOMAIN calls', Alone(m)', calls'[m].at \in {"checks", "write"}
        PROVE  Holds(m, calls[m].written)'
    <3>1. m \in DOMAIN calls /\ m # n /\ calls'[m] = calls[m] /\ Alone(m)
      BY <1>3, <1>5, <2>2
    <3>2. Holds(m, calls[m].written)
      BY <2>2, <3>1 DEF IInv, Branches
    <3> QED
      BY <1>5, <3>1, <3>2 DEF Holds
  <2>3. ASSUME NEW p \in DOMAIN pulls', NEW m \in DOMAIN calls', pulls'[p].call = m,
               Alone(m)'
        PROVE  Holds(m, DOMAIN calls[m].files)'
    <3>1. m \in DOMAIN calls /\ Same(calls[m], calls'[m])
          /\ Holds(m, DOMAIN calls[m].files)
      BY <1>5, <1>7, <2>3 DEF IInv, Branches
    <3> QED
      BY <1>5, <3>1 DEF Holds, Same
  <2> QED
    BY <2>1, <2>2, <2>3 DEF Branches
<1>13. TraceIsAuthors'
  BY <1>5, <1>7, <1>8 DEF IInv, TraceIsAuthors, Same
<1>14. Exclusive'
  <2>1. ASSUME NEW m \in DOMAIN calls \ {n}, NEW p \in DOMAIN pulls',
               pulls'[p].call = m, Alone(m)
        PROVE  p # k
    BY <1>1, <1>7, <2>1 DEF Alone
  <2> QED
    BY <1>4, <1>7, <2>1, WorkKeepsExclusive
<1> QED
  BY <1>1, <1>4, <1>9, <1>10, <1>11, <1>12, <1>13, <1>14, WorkKeeps DEF IInv

-----------------------------------------------------------------------------
(* The answer, and those who go away                                       *)

\* One request is used, lost or given up, and the rest stay.
LEMMA OneRests ==
  ASSUME IInv, NEW n \in DOMAIN calls, NEW d \in CallSet, Rests(calls[n], d),
         calls' = [calls EXCEPT ![n] = d]
  PROVE  /\ Resting /\ calls'[n] = d /\ DOMAIN calls' = DOMAIN calls
         /\ \A m \in DOMAIN calls : m # n => calls'[m] = calls[m]
<1>1. /\ calls' \in Seq(CallSet) /\ Len(calls') = Len(calls) /\ calls'[n] = d
      /\ DOMAIN calls' = DOMAIN calls
      /\ \A m \in DOMAIN calls : m # n => calls'[m] = calls[m]
  BY DEF IInv, Shape
<1>2. \A m \in DOMAIN calls : Rests(calls[m], calls[m])
  BY DEF Rests, Same
<1> QED
  BY <1>1, <1>2 DEF Resting

\* A turn goes on without its request.
LEMMA HeardKeeps ==
  ASSUME IInv, NEW n \in DOMAIN calls, NEW d \in CallSet, NEW t \in TurnSet,
         Rests(calls[n], d), calls' = [calls EXCEPT ![n] = d],
         calls[n].wait = "yes", d.wait # "yes",
         Turn(t), t.pc \in {"chat", "over"}, t.slots = run[calls[n].by].slots,
         run' = [run EXCEPT ![calls[n].by] = t],
         LoopFree(calls[n].by), loop' = Unblocked(calls[n].by),
         traces' \in [Calls -> Runs \cup {NoRun}], TraceIsAuthors', UNCHANGED github
  PROVE  IInv'
<1> DEFINE r == calls[n].by
<1>1. /\ Resting /\ calls'[n] = d /\ DOMAIN calls' = DOMAIN calls
      /\ \A m \in DOMAIN calls : m # n => calls'[m] = calls[m]
  BY OneRests
<1>2. /\ r \in Runs /\ d.by = r
      /\ \A m \in DOMAIN calls : /\ calls[m].by \in Runs
                                 /\ Same(calls[m], calls'[m])
  BY <1>1, CallsAreTyped DEF IInv, CallSet, Rests, Same, Resting
<1> HIDE DEF r
<1>3. /\ run' \in [Runs -> TurnSet] /\ run'[r] = t
      /\ \A o \in Runs : o # r => run'[o] = run[o]
      /\ UNCHANGED <<branches, pulls, declared>>
  BY <1>2 DEF IInv, Shape, github, r
<1>4. Shape'
  BY <1>1, <1>2, <1>3 DEF IInv, Shape, Resting, Unblocked, r
<1>5. Turns'
  BY <1>3 DEF IInv, Turns
<1>6. Blocks'
  <2>1. \A o \in Runs : o # r => run[o].pc \notin {"adopt", "tool"}
    BY AuthoringAssumption DEF LoopFree, IInv, Blocks, r
  <2> QED
    BY <1>3, <2>1 DEF Blocks
<1>7. \A m \in DOMAIN calls : calls[m].by = r /\ m # n => calls[m].wait # "yes"
  BY DEF IInv, Waits, r
<1>8. Waits'
  <2>1. ASSUME NEW m \in DOMAIN calls
        PROVE  /\ run'[calls'[m].by].pc \in Sent
               /\ calls'[m].wait = "yes" =>
                    /\ run'[calls'[m].by].pc \in {"calling", "tool"}
                    /\ calls'[m].adopts # Nothing => run'[calls'[m].by].pc = "tool"
    <3>1. CASE m = n
      BY <1>1, <1>2, <1>3, <3>1 DEF Sent
    <3>2. CASE m # n /\ calls[m].by = r
      BY <1>1, <1>3, <1>7, <3>2 DEF Sent
    <3>3. CASE m # n /\ calls[m].by # r
      BY <1>1, <1>2, <1>3, <3>3 DEF IInv, Waits
    <3> QED
      BY <3>1, <3>2, <3>3
  <2>2. ASSUME NEW l \in DOMAIN calls, NEW m \in DOMAIN calls,
               calls'[l].wait = "yes", calls'[m].wait = "yes",
               calls'[l].by = calls'[m].by
        PROVE  l = m
    BY <1>1, <2>2 DEF IInv, Waits
  <2> QED
    BY <1>1, <2>1, <2>2 DEF Waits
<1>9. Committed'
  <2>1. \A o \in Runs : run'[o].slots = run[o].slots
    BY <1>3 DEF r
  <2>2. /\ DOMAIN calls' = DOMAIN calls
        /\ \A m \in DOMAIN calls : /\ calls'[m].by = calls[m].by
                                   /\ calls'[m].files = calls[m].files
                                   /\ run'[calls[m].by].slots = run[calls[m].by].slots
    BY <1>1, <1>2, <2>1 DEF Same
  <2> SUFFICES ASSUME NEW k \in DOMAIN calls, run'[calls'[k].by].slots # {}
               PROVE  /\ \A m \in DOMAIN calls : calls'[m].by = calls'[k].by => m = k
                      /\ DOMAIN calls'[k].files = run'[calls'[k].by].slots
                      /\ NoFile \notin {calls'[k].files[s] : s \in DOMAIN calls'[k].files}
    BY <2>2 DEF Committed
  <2>3. /\ \A m \in DOMAIN calls : calls[m].by = calls[k].by => m = k
        /\ DOMAIN calls[k].files = run[calls[k].by].slots
        /\ NoFile \notin {calls[k].files[s] : s \in DOMAIN calls[k].files}
    BY <2>2 DEF IInv, Committed
  <2> QED
    BY <2>2, <2>3
<1> QED
  BY <1>1, <1>4, <1>5, <1>6, <1>8, <1>9, RestKeeps DEF IInv

LEMMA WaitingTurn ==
  ASSUME IInv, NEW n \in DOMAIN calls, calls[n].wait = "yes"
  PROVE  /\ calls[n] \in CallSet /\ calls[n].by \in Runs
         /\ run[calls[n].by] \in TurnSet /\ Turn(run[calls[n].by])
         /\ run[calls[n].by].pc \in {"calling", "tool"}
<1>1. calls[n] \in CallSet /\ calls[n].by \in Runs
  BY CallsAreTyped DEF IInv, CallSet
<1> QED
  BY <1>1, RunIsTyped DEF IInv, Waits

\* What becomes of a turn that has its answer.
LEMMA AfterFields ==
  ASSUME NEW o \in TurnSet, Turn(o), o.pc \in {"calling", "tool"}, NEW t,
         t \in {AfterPull(o), AfterError(o)}
  PROVE  /\ t \in TurnSet /\ Turn(t) /\ t.pc \in {"chat", "over"}
         /\ t.slots = o.slots
<1>1. CASE o.pc = "tool"
  <2>1. t = MovedOn(o, "chat") \/ t = MovedOn(o, "over")
    BY <1>1 DEF MovedOn, AfterPull, AfterError
  <2>2. /\ t \in TurnSet /\ t.pc \in {"chat", "over"} /\ t.slots = o.slots
        /\ t.seq = o.seq /\ t.shown = o.shown
    BY <2>1, MovedOnFields
  <2> QED
    BY <1>1, <2>2 DEF Turn, Numbered
<1>2. CASE o.pc # "tool"
  <2>1. t = Ended(o) /\ Numbered(o)
    BY <1>2 DEF AfterPull, AfterError, Turn
  <2> QED
    BY <2>1, EndedFields
<1> QED
  BY <1>1, <1>2

LEMMA HearKeeps ==
  ASSUME IInv, NEW n \in DOMAIN calls, Hear(n)
  PROVE  IInv'
<1> DEFINE c == calls[n]
           r == c.by
           p == c.pull
           d == Spent(c, "heard")
           t == AfterPull(run[r])
<1>1. /\ c.wait = "yes" /\ c.at = "replied" /\ LoopFree(r)
      /\ run' = [run EXCEPT ![r] = t] /\ loop' = Unblocked(r) /\ UNCHANGED github
      /\ calls' = [calls EXCEPT ![n] = d]
      /\ \/ UNCHANGED traces
         \/ c.fresh /\ traces[p] = NoRun /\ traces' = [traces EXCEPT ![p] = r]
  BY DEF Hear, Records, IInv, Shape
<1>2. /\ c \in CallSet /\ r \in Runs /\ run[r] \in TurnSet /\ Turn(run[r])
      /\ run[r].pc \in {"calling", "tool"}
  BY <1>1, WaitingTurn
<1>3. d \in CallSet /\ d.wait = "heard" /\ Rests(c, d)
  BY <1>1, <1>2, SpentFields
<1>4. /\ t \in TurnSet /\ Turn(t) /\ t.pc \in {"chat", "over"} /\ t.slots = run[r].slots
  BY <1>2, AfterFields
<1>5. traces' \in [Calls -> Runs \cup {NoRun}]
  BY <1>1, <1>2 DEF IInv, Shape
<1>6. TraceIsAuthors'
  <2> SUFFICES ASSUME NEW q \in Calls, traces'[q] # NoRun
               PROVE  q \in DOMAIN pulls' /\ traces'[q] = calls'[pulls'[q].call].by
    BY DEF TraceIsAuthors
  <2> HIDE DEF d, t
  <2>1. Resting /\ calls'[n] = d /\ d.by = r /\ UNCHANGED pulls
    BY <1>1, <1>3, OneRests DEF Rests, Same, github
  <2>2. CASE traces'[q] = traces[q]
    <3>1. q \in DOMAIN pulls /\ traces[q] = calls[pulls[q].call].by
      BY <2>2 DEF IInv, TraceIsAuthors
    <3>2. pulls[q].call \in DOMAIN calls
      BY <3>1 DEF IInv, Opens
    <3> QED
      BY <2>1, <2>2, <3>1, <3>2 DEF Resting, Rests, Same
  <2>3. CASE traces'[q] # traces[q]
    <3>1. q = p /\ c.fresh /\ traces'[q] = r
      BY <1>1, <2>3 DEF IInv, Shape
    <3>2. p \in DOMAIN pulls /\ pulls[p].call = n
      BY <3>1 DEF IInv, Answers, Truthful
    <3> QED
      BY <2>1, <3>1, <3>2
  <2> QED
    BY <2>2, <2>3
<1> HIDE DEF d, t
<1> QED
  BY <1>1, <1>3, <1>4, <1>5, <1>6, HeardKeeps

LEMMA TracesRest ==
  ASSUME IInv, Resting, UNCHANGED <<traces, pulls>>
  PROVE  TraceIsAuthors'
<1>1. \A n \in DOMAIN calls : calls'[n].by = calls[n].by
  BY DEF Resting, Rests, Same
<1> QED
  BY <1>1 DEF IInv, TraceIsAuthors, Opens

LEMMA HearErrorKeeps ==
  ASSUME IInv, NEW n \in DOMAIN calls, HearError(n)
  PROVE  IInv'
<1> DEFINE c == calls[n]
           r == c.by
           d == IF c.at = "failed" THEN Spent(c, "heard") ELSE GivenUp(c)
           t == AfterError(run[r])
<1>1. /\ c.wait = "yes" /\ LoopFree(r)
      /\ run' = [run EXCEPT ![r] = t] /\ loop' = Unblocked(r)
      /\ UNCHANGED <<traces, github>>
      /\ calls' = [calls EXCEPT ![n] = d]
  BY DEF HearError, IInv, Shape
<1>2. /\ c \in CallSet /\ r \in Runs /\ run[r] \in TurnSet /\ Turn(run[r])
      /\ run[r].pc \in {"calling", "tool"}
  BY <1>1, WaitingTurn
<1>3. d \in CallSet /\ d.wait # "yes" /\ Rests(c, d)
  <2>1. CASE c.at = "failed"
    BY <1>1, <1>2, <2>1, SpentFields
  <2>2. CASE c.at # "failed"
    BY <1>2, <2>2, GivenUpFields
  <2> QED
    BY <2>1, <2>2
<1>4. /\ t \in TurnSet /\ Turn(t) /\ t.pc \in {"chat", "over"} /\ t.slots = run[r].slots
  BY <1>2, AfterFields
<1> HIDE DEF d, t
<1>5. traces' \in [Calls -> Runs \cup {NoRun}] /\ TraceIsAuthors'
  <2>1. Resting
    BY <1>1, <1>3, OneRests
  <2> QED
    BY <1>1, <2>1, TracesRest DEF IInv, Shape, github
<1> QED
  BY <1>1, <1>3, <1>4, <1>5, HeardKeeps

\* Turns are left, with nobody waiting for what they asked.
LEMMA LeaveKeeps ==
  ASSUME IInv, Resting, run' \in [Runs -> TurnSet], Blocks',
         \A r \in Runs : run'[r] = run[r] \/ /\ Turn(run'[r]) /\ run'[r].pc = "gone"
                                             /\ run'[r].slots = run[r].slots,
         \A n \in DOMAIN calls : calls'[n].wait = "yes" =>
           run'[calls[n].by] = run[calls[n].by],
         loop' \in Runs \cup {NoRun}, UNCHANGED <<traces, github>>
  PROVE  IInv'
<1>1. /\ DOMAIN calls' = DOMAIN calls
      /\ \A n \in DOMAIN calls : /\ Rests(calls[n], calls'[n])
                                 /\ Same(calls[n], calls'[n])
                                 /\ calls[n] \in CallSet /\ calls[n].by \in Runs
      /\ UNCHANGED <<pulls, branches, declared>>
  BY CallsAreTyped DEF IInv, Shape, Resting, Rests, github, CallSet
<1>2. Shape'
  BY <1>1 DEF IInv, Shape, Resting
<1>3. Turns'
  BY DEF IInv, Turns
<1>4. Waits'
  <2>1. \A n \in DOMAIN calls : calls'[n].wait = "yes" => calls[n].wait = "yes"
    BY <1>1 DEF Rests
  <2>2. ASSUME NEW n \in DOMAIN calls
        PROVE  /\ run'[calls'[n].by].pc \in Sent
               /\ calls'[n].wait = "yes" =>
                    /\ run'[calls'[n].by].pc \in {"calling", "tool"}
                    /\ calls'[n].adopts # Nothing => run'[calls'[n].by].pc = "tool"
    <3>1. calls'[n].by = calls[n].by /\ calls'[n].adopts = calls[n].adopts
      BY <1>1 DEF Same
    <3>2. run'[calls[n].by].pc \in {"gone", run[calls[n].by].pc}
      BY <1>1
    <3>3. /\ run[calls[n].by].pc \in Sent
          /\ calls[n].wait = "yes" =>
               /\ run[calls[n].by].pc \in {"calling", "tool"}
               /\ calls[n].adopts # Nothing => run[calls[n].by].pc = "tool"
      BY DEF IInv, Waits
    <3> QED
      BY <2>1, <3>1, <3>2, <3>3 DEF Sent
  <2>3. \A m, n \in DOMAIN calls :
          calls'[m].wait = "yes" /\ calls'[n].wait = "yes" /\ calls'[m].by = calls'[n].by
          => m = n
    BY <1>1, <2>1 DEF IInv, Waits, Same
  <2> QED
    BY <1>1, <2>2, <2>3 DEF Waits
<1>5. Committed'
  <2>1. \A n \in DOMAIN calls :
          /\ calls'[n].by = calls[n].by /\ calls'[n].files = calls[n].files
          /\ run'[calls[n].by].slots = run[calls[n].by].slots
    BY <1>1 DEF Same
  <2>2. Committed
    BY DEF IInv
  <2> QED
    BY <1>1, <2>1, <2>2 DEF Committed
<1> QED
  BY <1>1, <1>2, <1>3, <1>4, <1>5, RestKeeps, TracesRest DEF IInv

LEMMA DisconnectKeeps ==
  ASSUME IInv, NEW r \in Runs, Disconnect(r)
  PROVE  IInv'
<1> DEFINE t == Dropped(run[r])
<1>1. /\ loop = NoRun /\ run' = [run EXCEPT ![r] = t]
      /\ calls' = [n \in DOMAIN calls |->
                     IF calls[n].by = r THEN GivenUp(calls[n]) ELSE calls[n]]
      /\ UNCHANGED <<loop, traces, github>>
  BY DEF Disconnect, IInv, Shape
<1>2. t \in TurnSet /\ Turn(t) /\ t.pc = "gone" /\ t.slots = run[r].slots
  BY RunIsTyped, ReleasedFields DEF Dropped
<1> HIDE DEF t
<1>3. /\ run' \in [Runs -> TurnSet] /\ run'[r] = t
      /\ \A o \in Runs : o # r => run'[o] = run[o]
  BY <1>1, <1>2 DEF IInv, Shape
<1>4. /\ DOMAIN calls = 1 .. Len(calls) /\ Len(calls) \in Nat
      /\ \A n \in DOMAIN calls : /\ calls[n] \in CallSet
                                 /\ GivenUp(calls[n]) \in CallSet
                                 /\ GivenUp(calls[n]).wait # "yes"
                                 /\ Rests(calls[n], GivenUp(calls[n]))
                                 /\ Rests(calls[n], calls[n])
  BY CallsAreTyped, GivenUpFields DEF IInv, Rests, Same
<1>5. Resting
  <2>1. calls' \in [1 .. Len(calls) -> CallSet]
    BY <1>1, <1>4
  <2>2. calls' \in Seq(CallSet) /\ Len(calls') = Len(calls)
    BY <1>4, <2>1
  <2> QED
    BY <1>1, <1>4, <2>2 DEF Resting
<1>6. Blocks'
  <2>1. \A o \in Runs : run[o].pc \notin {"adopt", "tool"}
    BY <1>1, AuthoringAssumption DEF IInv, Blocks
  <2> QED
    BY <1>2, <1>3, <2>1 DEF Blocks
<1>7. \A n \in DOMAIN calls : calls'[n].wait = "yes" =>
        run'[calls[n].by] = run[calls[n].by]
  BY <1>1, <1>3, <1>4 DEF CallSet
<1> QED
  BY <1>1, <1>2, <1>3, <1>5, <1>6, <1>7, LeaveKeeps DEF IInv, Shape

LEMMA CoordinatorDiesKeeps ==
  ASSUME IInv, CoordinatorDies
  PROVE  IInv'
<1>1. /\ run' = [r \in Runs |-> IF run[r].pc \in {"idle", "over"} THEN run[r]
                                ELSE Dropped(run[r])]
      /\ loop' = NoRun /\ calls' = [n \in DOMAIN calls |-> GivenUp(calls[n])]
      /\ UNCHANGED <<traces, github>>
  BY DEF CoordinatorDies
<1>2. \A r \in Runs : /\ run[r] \in TurnSet
                      /\ Dropped(run[r]) \in TurnSet /\ Turn(Dropped(run[r]))
                      /\ Dropped(run[r]).pc = "gone"
                      /\ Dropped(run[r]).slots = run[r].slots
  BY RunIsTyped, ReleasedFields DEF Dropped
<1>3. /\ run' \in [Runs -> TurnSet]
      /\ \A r \in Runs : run'[r] = run[r] \/ /\ Turn(run'[r]) /\ run'[r].pc = "gone"
                                             /\ run'[r].slots = run[r].slots
      /\ \A r \in Runs : run'[r].pc \in {"idle", "over", "gone"}
  BY <1>1, <1>2
<1>4. /\ DOMAIN calls = 1 .. Len(calls) /\ Len(calls) \in Nat
      /\ \A n \in DOMAIN calls : /\ GivenUp(calls[n]) \in CallSet
                                 /\ GivenUp(calls[n]).wait # "yes"
                                 /\ Rests(calls[n], GivenUp(calls[n]))
  BY CallsAreTyped, GivenUpFields DEF IInv
<1>5. Resting
  <2>1. calls' \in [1 .. Len(calls) -> CallSet]
    BY <1>1, <1>4
  <2>2. calls' \in Seq(CallSet) /\ Len(calls') = Len(calls)
    BY <1>4, <2>1
  <2> QED
    BY <1>1, <1>4, <2>2 DEF Resting
<1>6. Blocks'
  BY <1>3 DEF Blocks
<1> QED
  BY <1>1, <1>3, <1>4, <1>5, <1>6, LeaveKeeps

-----------------------------------------------------------------------------
(* The operator merges                                                     *)

LEMMA LabelsOfType ==
  ASSUME IInv, NEW p \in DOMAIN pulls
  PROVE  LabelsOf(p) \subseteq Labels
<1> DEFINE b == calls[pulls[p].call].branch
<1>1. b \in Calls /\ branches[b] \in [Slots -> Files \cup {NoFile}]
  BY CallsAreTyped DEF IInv, Opens, CallSet, Shape
<1>2. \A f \in Files : f.resource \in Resources \cup {NoBlock}
  BY DEF Files
<1>3. \A x \in Resources : x.label \in Labels
  BY DEF Resources
<1>4. \A s \in Slots : branches[b][s] # NoFile => branches[b][s] \in Files
  BY <1>1
<1>5. LabelsOf(p) = {x.label : x \in {branches[b][s].resource :
                       s \in {s \in Slots : branches[b][s] # NoFile}} \ {NoBlock}}
  BY DEF LabelsOf
<1> HIDE DEF b
<1>6. {branches[b][s].resource : s \in {s \in Slots : branches[b][s] # NoFile}} \ {NoBlock}
        \subseteq Resources
  BY <1>2, <1>4
<1> QED
  BY <1>3, <1>5, <1>6

LEMMA MergeKeeps ==
  ASSUME IInv, NEW p \in DOMAIN pulls, Merge(p)
  PROVE  IInv'
<1>1. /\ pulls' = [pulls EXCEPT ![p].state = "merged"] /\ pulls \in Seq(PullSet)
      /\ declared' = declared \cup LabelsOf(p)
      /\ UNCHANGED <<run, loop, traces, calls, branches>>
  BY DEF Merge, coordinator, IInv, Shape
<1>2. /\ pulls' \in Seq(PullSet) /\ DOMAIN pulls' = DOMAIN pulls
      /\ \A q \in DOMAIN pulls : /\ pulls'[q].call = pulls[q].call
                                 /\ pulls'[q].state = "open" => pulls[q].state = "open"
                                 /\ pulls'[q].labelled = pulls[q].labelled
  <2> DEFINE old == pulls[p]
             new == [old EXCEPT !.state = "merged"]
  <2>1. pulls' = [pulls EXCEPT ![p] = new] /\ old \in PullSet
    BY <1>1
  <2>2. new = [old EXCEPT !.state = "merged"]
    OBVIOUS
  <2> HIDE DEF old, new
  <2>3. /\ new \in PullSet /\ new.call = old.call /\ new.state = "merged"
        /\ new.labelled = old.labelled
    BY <2>1, <2>2 DEF PullSet
  <2> QED
    BY <1>1, <2>1, <2>3 DEF old
<1>3. \A n \in DOMAIN calls : Alone(n)' <=> Alone(n)
  BY <1>1 DEF Alone
<1>4. Shape'
  BY <1>1, <1>2, LabelsOfType DEF IInv, Shape
<1>5. Turns' /\ Blocks' /\ Waits' /\ Committed' /\ Requests'
  BY <1>1 DEF IInv, Turns, Blocks, Waits, Committed, Requests
<1>6. Opens' /\ TraceIsAuthors'
  BY <1>1, <1>2 DEF IInv, Opens, TraceIsAuthors
<1>7. Answers'
  BY <1>1, <1>2 DEF IInv, Answers, Truthful
<1>8. Branches'
  <2>1. ASSUME NEW n \in DOMAIN calls, NEW D, Holds(n, D)
        PROVE  Holds(n, D)'
    BY <1>1, <2>1 DEF Holds
  <2>2. \A n \in DOMAIN calls' : Alone(n)' /\ calls'[n].at \in {"checks", "write"} =>
          Holds(n, calls[n].written)'
    BY <1>1, <1>3, <2>1 DEF IInv, Branches
  <2>3. \A q \in DOMAIN pulls', n \in DOMAIN calls' : pulls'[q].call = n /\ Alone(n)' =>
          Holds(n, DOMAIN calls[n].files)'
    BY <1>1, <1>2, <1>3, <2>1 DEF IInv, Branches
  <2>4. \A b \in Calls : (\A n \in DOMAIN calls' : calls'[n].branch # b) =>
          \A s \in Slots : branches'[b][s] = NoFile
    BY <1>1 DEF IInv, Branches
  <2> QED
    BY <1>1, <2>2, <2>3, <2>4 DEF Branches, Holds
<1>9. Exclusive'
  BY <1>1, <1>2, <1>3 DEF IInv, Exclusive, Settled
<1> QED
  BY <1>4, <1>5, <1>6, <1>7, <1>8, <1>9 DEF IInv

-----------------------------------------------------------------------------
(* The invariant                                                           *)

LEMMA InvInit == Init => IInv
<1> SUFFICES ASSUME Init PROVE IInv
  OBVIOUS
<1>1. NewRun \in TurnSet /\ Turn(NewRun) /\ NewRun.pc = "idle"
  <2>1. [s \in Slots |-> NoFile] \in [Slots -> Contents \cup {NoFile}]
    OBVIOUS
  <2> DEFINE none == [s \in Slots |-> NoFile]
  <2> HIDE DEF none
  <2>2. NewRun = [pc |-> "idle", mode |-> "observe", anon |-> FALSE, slots |-> {},
                  sinks |-> none, adopting |-> Nothing,
                  buffer |-> 0, seq |-> 0, shown |-> <<>>]
    BY DEF NewRun, none
  <2>3. NewRun \in TurnSet
    BY <2>1, <2>2 DEF TurnSet, Modes, none
  <2> QED
    BY <2>2, <2>3 DEF Turn, Numbered
<1>2. /\ \A r \in Runs : run[r] = NewRun
      /\ run \in [Runs -> TurnSet] /\ loop = NoRun
      /\ calls = <<>> /\ pulls = <<>> /\ DOMAIN calls = {} /\ DOMAIN pulls = {}
      /\ declared = {}
  BY <1>1 DEF Init
<1>3. /\ branches \in [Calls -> [Slots -> Files \cup {NoFile}]]
      /\ \A b \in Calls, s \in Slots : branches[b][s] = NoFile
      /\ traces \in [Calls -> Runs \cup {NoRun}]
      /\ \A p \in Calls : traces[p] = NoRun
  BY DEF Init
<1>4. Shape
  BY <1>2, <1>3, AuthoringAssumption DEF Shape
<1>5. Turns /\ Blocks /\ Waits /\ Committed /\ Requests
  BY <1>1, <1>2 DEF Turns, Blocks, Waits, Committed, Requests
<1>6. Opens /\ Answers /\ Branches /\ TraceIsAuthors /\ Exclusive
  BY <1>2, <1>3 DEF Opens, Answers, Branches, TraceIsAuthors, Exclusive
<1> QED
  BY <1>4, <1>5, <1>6 DEF IInv

LEMMA InvStep == IInv /\ [Next]_vars => IInv'
<1> SUFFICES ASSUME IInv, [Next]_vars PROVE IInv'
  OBVIOUS
<1>1. ASSUME NEW r \in Runs, RunStep(r) PROVE IInv'
  <2>1. ASSUME NEW mode \in Modes, NEW anon \in BOOLEAN, Begin(r, mode, anon) PROVE IInv'
    BY <2>1, BeginKeeps
  <2>2. CASE Think(r)
    BY <2>2, ThinkKeeps
  <2>3. CASE Decompose(r)
    BY <2>3, DecomposeKeeps
  <2>4. ASSUME NEW s \in Slots, NEW c \in Contents, Submit(r, s, c) PROVE IInv'
    BY <2>4, SubmitKeeps
  <2>5. CASE AuthorFails(r)
    BY <2>5, EndKeeps DEF AuthorFails
  <2>6. CASE Barrier(r)
    BY <2>6, BarrierKeeps
  <2>7. ASSUME NEW b \in Calls, Send(r, b) PROVE IInv'
    BY <2>7, SendKeeps
  <2>8. ASSUME NEW b \in Calls, NEW s \in Slots, NEW c \in Contents,
               OpenInfraPr(r, b, [t \in {s} |-> c])
        PROVE  IInv'
    BY <2>8, OpenInfraPrKeeps
  <2>9. ASSUME NEW x \in Adoptions, ProposeAdoption(r, x) PROVE IInv'
    BY <2>9, ProposeKeeps
  <2>10. ASSUME NEW b \in Calls, NEW s \in Slots, NEW answered \in BOOLEAN,
                SendAdoption(r, b, s, answered)
         PROVE  IInv'
    BY <2>10, SendAdoptionKeeps
  <2>11. CASE EndChat(r)
    BY <2>11, EndKeeps DEF EndChat
  <2>12. CASE Disconnect(r)
    BY <2>12, DisconnectKeeps
  <2> QED
    BY <1>1, <2>1, <2>2, <2>3, <2>4, <2>5, <2>6, <2>7, <2>8, <2>9, <2>10, <2>11, <2>12
    DEF RunStep
<1>2. ASSUME NEW n \in DOMAIN calls, CallStep(n) PROVE IInv'
  BY <1>2, CreateBranchKeeps, OpenPullKeeps, FinalizeKeeps, WorkerDiesKeeps,
     WriteFileKeeps, HearKeeps, HearErrorKeeps DEF CallStep
<1>3. CASE CoordinatorDies
  BY <1>3, CoordinatorDiesKeeps
<1>4. ASSUME NEW p \in DOMAIN pulls, Merge(p) PROVE IInv'
  BY <1>4, MergeKeeps
<1>5. CASE UNCHANGED vars
  <2>1. UNCHANGED <<run, loop, traces, calls, branches, pulls, declared>>
    BY <1>5 DEF vars, coordinator, github
  <2>2. Shape' /\ Turns' /\ Blocks' /\ Waits' /\ Committed' /\ TraceIsAuthors'
    BY <2>1 DEF IInv, Shape, Turns, Blocks, Waits, Committed, TraceIsAuthors
  <2>3. Requests' /\ Opens' /\ Answers' /\ Branches' /\ Exclusive'
    BY <2>1, UnchangedRests, RestKeeps DEF IInv, github
  <2> QED
    BY <2>2, <2>3 DEF IInv
<1> QED
  BY <1>1, <1>2, <1>3, <1>4, <1>5 DEF Next

\* Between any two steps a turn, its requests, their branches and their pull
\* requests agree.
THEOREM Invariance == Spec => []IInv
BY InvInit, InvStep, PTL DEF Spec

-----------------------------------------------------------------------------
(* The properties                                                          *)

LEMMA UpTo ==
  ASSUME NEW k \in Nat
  PROVE  IsFiniteSet(1 .. k) /\ Cardinality(1 .. k) = k
<1>1. Cardinality(1 .. k) = IF 1 > k THEN 0 ELSE k - 1 + 1
  BY FS_Interval
<1> QED
  BY <1>1, FS_Interval

\* Pull requests are no more than the requests that opened them.
LEMMA PullsAreBounded ==
  ASSUME IInv
  PROVE  Len(pulls) <= MaxCalls
<1> DEFINE f == [p \in 1 .. Len(pulls) |-> pulls[p].call]
<1>1. /\ DOMAIN pulls = 1 .. Len(pulls) /\ Len(pulls) \in Nat
      /\ DOMAIN calls = 1 .. Len(calls) /\ Len(calls) \in Nat
      /\ Len(calls) <= MaxCalls /\ MaxCalls \in Nat
  BY CallsAreTyped, AuthoringAssumption DEF IInv, Shape
<1>2. f \in Injection(1 .. Len(pulls), 1 .. Len(calls))
  BY <1>1 DEF IInv, Opens, Injection, IsInjective
<1>3. /\ IsFiniteSet(1 .. Len(calls)) /\ Cardinality(1 .. Len(calls)) = Len(calls)
      /\ IsFiniteSet(1 .. Len(pulls)) /\ Cardinality(1 .. Len(pulls)) = Len(pulls)
  BY <1>1, UpTo
<1>4. Cardinality(1 .. Len(pulls)) <= Cardinality(1 .. Len(calls))
  BY <1>2, <1>3, FS_Injection
<1> QED
  BY <1>1, <1>3, <1>4

\* The state of every turn, request, branch and pull request has its type, and
\* no more pull requests are opened than were asked for (agent/fanout.py,
\* agent/adk_tools.py and the tofu-editor worker together).
THEOREM TypeCorrect == Spec => []TypeOK
<1>1. IInv => TypeOK
  <2> SUFFICES ASSUME IInv PROVE TypeOK
    OBVIOUS
  <2>1. Len(pulls) <= MaxCalls
    BY PullsAreBounded
  <2> QED
    BY <2>1 DEF IInv, Shape, Opens, TypeOK, TurnSet
<1> QED
  BY <1>1, Invariance, PTL

\* The operator's timeline of a turn is numbered 1, 2, 3, ..., whether the turn
\* is committed, delegated or refused, and however many events its decomposer
\* and its authors emit (the buffer of agent/fanout.py).
THEOREM StreamIsInOrder == Spec => []StreamInOrder
<1>1. IInv => StreamInOrder
  BY DEF IInv, Turns, Turn, Numbered, StreamInOrder
<1> QED
  BY <1>1, Invariance, PTL

\* A pull request on a branch of its own holds exactly the files of the call
\* that opened it, and a committed turn asks once, for every slice of its plan.
THEOREM ChangesAreWhole == Spec => []WholeChange
<1>1. IInv => WholeChange
  <2> SUFFICES ASSUME IInv PROVE WholeChange
    OBVIOUS
  <2>1. ASSUME NEW p \in DOMAIN pulls, Alone(pulls[p].call)
        PROVE  Holds(pulls[p].call, DOMAIN calls[pulls[p].call].files)
    BY <2>1 DEF IInv, Opens, Branches
  <2> QED
    BY <2>1 DEF IInv, Committed, WholeChange, Holds
<1> QED
  BY <1>1, Invariance, PTL

\* A change lists the files of its request.
LEMMA ChangeLists ==
  ASSUME NEW files \in FileMaps
  PROVE  \A i \in DOMAIN Change(files) : \E s \in DOMAIN files : Change(files)[i] = files[s]
<1> DEFINE S == {files[s] : s \in DOMAIN files}
<1>1. IsFiniteSet(S)
  <2>1. IsFiniteSet(DOMAIN files)
    BY AuthoringAssumption, FS_Subset DEF FileMaps
  <2>2. files \in Surjection(DOMAIN files, S)
    BY DEF FileMaps, Surjection
  <2> HIDE DEF S
  <2> QED
    BY <2>1, <2>2, FS_Surjection
<1>2. SetToSeq(S) \in [1 .. Cardinality(S) -> S]
  <2>1. Cardinality(S) \in Nat /\ ExistsBijection(1 .. Cardinality(S), S)
    BY <1>1, FS_CardinalityType
  <2>2. \E f \in [1 .. Cardinality(S) -> S] : IsInjective(f)
    BY <2>1 DEF ExistsBijection, Bijection, Injection
  <2> HIDE DEF S
  <2> QED
    BY <2>1, <2>2 DEF SetToSeq
<1>3. \A i \in DOMAIN SetToSeq(S) : SetToSeq(S)[i] \in S
  BY <1>2
<1> QED
  BY <1>3 DEF Change

\* Files without an import of the author's own import nothing.
LEMMA FreehandImportsNothing ==
  ASSUME NEW files \in FileMaps, ~EditorRefuses(files),
         \A s \in DOMAIN files : ~FreehandImport(files[s])
  PROVE  ImportFiles(Change(files)) = {}
<1> SUFFICES ASSUME NEW i \in DOMAIN Change(files),
                    IsParsed(Change(files)[i]), Change(files)[i].import # NoBlock
             PROVE  FALSE
  BY DEF ImportFiles
<1>1. PICK s \in DOMAIN files : Change(files)[i] = files[s]
  BY ChangeLists
<1>2. files[s].path = "tf"
  BY <1>1 DEF EditorRefuses, PathRefused, IsParsed, IsRead
<1> QED
  BY <1>1, <1>2 DEF FreehandImport

\* The one row planned for an adoption is not on the deny list.
LEMMA AdoptionIsNotDenied ==
  ASSUME NEW x \in Resources, ~AdoptRefused(x), NEW s
  PROVE  ~Denied(PlanOf(Change([t \in {s} |-> Rendered(x)]), FALSE))
<1> DEFINE f == Rendered(x)
           change == Change([t \in {s} |-> f])
           L == {i \in DOMAIN change : IsLoaded(change[i]) /\ change[i].resource # NoBlock}
           planned == SetToSeq(L)
           plan == PlanOf(change, FALSE)
<1>1. change = SetToSeq({f})
  <2>1. {[t \in {s} |-> f][u] : u \in DOMAIN [t \in {s} |-> f]} = {f}
    OBVIOUS
  <2> QED
    BY <2>1 DEF Change
<1>2. \A S : IsFiniteSet(S) =>
        SetToSeq(S) \in [1 .. Cardinality(S) -> S] /\ Cardinality(S) \in Nat
  <2> SUFFICES ASSUME NEW S, IsFiniteSet(S)
               PROVE  SetToSeq(S) \in [1 .. Cardinality(S) -> S] /\ Cardinality(S) \in Nat
    OBVIOUS
  <2>1. Cardinality(S) \in Nat /\ ExistsBijection(1 .. Cardinality(S), S)
    BY FS_CardinalityType
  <2>2. \E g \in [1 .. Cardinality(S) -> S] : IsInjective(g)
    BY <2>1 DEF ExistsBijection, Bijection, Injection
  <2> QED
    BY <2>1, <2>2 DEF SetToSeq
<1>3. DOMAIN change = {1} /\ change[1] = f
  <2>1. IsFiniteSet({f}) /\ Cardinality({f}) = 1
    BY FS_Singleton
  <2>2. SetToSeq({f}) \in [1 .. 1 -> {f}]
    BY <1>2, <2>1
  <2> QED
    BY <1>1, <2>2
<1> HIDE DEF change
<1>4. L \subseteq {1} /\ IsFiniteSet(L) /\ Cardinality(L) <= 1 /\ Cardinality(L) \in Nat
  <2>1. L \subseteq {1}
    BY <1>3
  <2>2. IsFiniteSet({1}) /\ Cardinality({1}) = 1
    BY FS_Singleton
  <2> HIDE DEF L
  <2> QED
    BY <2>1, <2>2, FS_Subset, FS_CardinalityType
<1>5. planned \in [1 .. Cardinality(L) -> L]
  BY <1>2, <1>4
<1> DEFINE fromFiles == [k \in DOMAIN planned |->
                           PlannedRow(change, change[planned[k]], FALSE)]
<1>6. plan = [listed |-> TRUE, rows |-> fromFiles \o <<>>]
  BY DEF PlanOf
<1> DEFINE row == PlannedRow(change, f, FALSE)
<1>7. /\ fromFiles \in Seq({row}) /\ Len(fromFiles) <= 1 /\ Len(fromFiles) \in Nat
  <2>1. \A k \in DOMAIN planned : k \in 1 .. Cardinality(L) /\ change[planned[k]] = f
    BY <1>3, <1>4, <1>5
  <2>2. DOMAIN fromFiles = 1 .. Cardinality(L)
    BY <1>5
  <2>3. fromFiles \in [1 .. Cardinality(L) -> {row}]
    BY <1>5, <2>1
  <2> HIDE DEF fromFiles, row, L
  <2> QED
    BY <1>4, <2>2, <2>3
<1> HIDE DEF fromFiles
<1>8. /\ plan.listed /\ plan.rows \in Seq({row})
      /\ DOMAIN plan.rows \subseteq {1} /\ \A k \in DOMAIN plan.rows : plan.rows[k] = row
  <2> HIDE DEF row
  <2>1. fromFiles \o <<>> = fromFiles
    BY <1>7
  <2>2. DOMAIN fromFiles = 1 .. Len(fromFiles) /\ \A k \in DOMAIN fromFiles : fromFiles[k] = row
    BY <1>7
  <2>3. plan.listed /\ plan.rows = fromFiles
    <3> DEFINE all == fromFiles \o <<>>
    <3>1. plan = [listed |-> TRUE, rows |-> all]
      BY <1>6
    <3> HIDE DEF plan, all
    <3>2. plan.listed /\ plan.rows = all
      BY <3>1
    <3> QED
      BY <2>1, <3>2 DEF all
  <2> HIDE DEF plan
  <2> QED
    BY <1>7, <2>2, <2>3
<1> HIDE DEF plan
<1>9. /\ row.kind = x.kind /\ row.importing \in {"object", "null"}
      /\ row.actions \in {"no-op", "update", "create"}
      /\ row.importing = "object" => row.actions = "no-op"
      /\ row.after = x.name /\ row.before \in {"none", x.name}
  BY DEF PlannedRow, Rendered
<1> HIDE DEF row
<1>10. /\ x.kind \in AdoptableKinds /\ x.name # "none" /\ x.name \in Names
       /\ x.kind = "service" => x.name # "own"
       /\ x.kind = "bucket" => x.name \notin {"own", "managed"}
       /\ x.kind = "topic" => x.name # "managed"
  BY DEF AdoptRefused, Resources
<1>11. SidesOf(row) \subseteq {"none", x.name} /\ x.name \in SidesOf(row)
  BY <1>9 DEF SidesOf
<1>12. ~IdentityOffends(row)
  BY <1>9, <1>10, <1>11 DEF IdentityOffends, ControlPlaneService, ControlPlaneAccount,
     ControlPlaneBucket, ServiceManagedBucket, ServiceManagedTopic, ControlPlaneSecret,
     ControlPlaneKey, IdentityFederation, AnyIam, Nameless, AdoptableKinds
<1>13. ~Offends(row)
  BY <1>9, <1>10, <1>12 DEF Offends, Malformed, ImportOffends, FloorOffends, Importing
<1> DEFINE imports == {i \in DOMAIN plan.rows : CountsAsImport(plan.rows[i])}
           others == {i \in DOMAIN plan.rows : CountsAsOther(plan.rows[i])}
<1>14. \A T : T \subseteq {1} => Cardinality(T) <= 1 /\ (Cardinality(T) > 0 => T # {})
  <2> SUFFICES ASSUME NEW T, T \subseteq {1}
               PROVE  Cardinality(T) <= 1 /\ (Cardinality(T) > 0 => T # {})
    OBVIOUS
  <2>1. CASE T = {}
    BY <2>1, FS_EmptySet
  <2>2. CASE T = {1}
    <3>1. Cardinality({1}) = 1
      BY FS_Singleton
    <3> QED
      BY <2>2, <3>1
  <2> QED
    BY <2>1, <2>2
<1>15. imports \subseteq {1} /\ others \subseteq {1}
  BY <1>8
<1>16. /\ ~(Cardinality(imports) > 1)
       /\ ~(Cardinality(imports) > 0 /\ Cardinality(others) > 0)
  <2>1. ~(imports # {} /\ others # {})
    BY <1>8 DEF CountsAsImport, CountsAsOther
  <2>2. Cardinality(imports) <= 1
    <3> HIDE DEF imports
    <3> QED
      BY <1>14, <1>15
  <2>3. Cardinality(imports) \in Nat
    <3> HIDE DEF imports
    <3>1. IsFiniteSet({1})
      BY FS_Singleton
    <3> QED
      BY <1>15, <3>1, FS_Subset, FS_CardinalityType
  <2> HIDE DEF imports, others
  <2> QED
    BY <1>14, <1>15, <2>1, <2>2, <2>3
<1>17. \A k \in DOMAIN plan.rows : ~Offends(plan.rows[k])
  BY <1>8, <1>13
<1>18. ~Denied(plan)
  BY <1>8, <1>16, <1>17 DEF Denied, RowsOf, CountRows
<1> QED
  BY <1>18 DEF plan, change

\* Whoever wrote a pull request on a branch of its own, the static gate would
\* admit its change; it imports only if an adoption was asked for, and the plan of
\* that adoption passes the deny list.
THEOREM AdmittedOnly == Spec => []OnlyAdmitted
<1>1. IInv => OnlyAdmitted
  <2> SUFFICES ASSUME IInv, NEW p \in DOMAIN pulls
               PROVE  LET c == calls[pulls[p].call]
                          change == Change(c.files)
                      IN /\ ~GateRefuses("agent", change)
                         /\ IF c.adopts = Nothing THEN ImportFiles(change) = {}
                            ELSE ~Denied(PlanOf(change, FALSE))
    BY DEF OnlyAdmitted
  <2> DEFINE c == calls[pulls[p].call]
  <2>1. /\ c \in CallSet /\ Sound(c) /\ Admitted(c.files)
    BY CallsAreTyped DEF IInv, Opens, Requests
  <2> HIDE DEF c
  <2>2. c.files \in FileMaps /\ c.adopts \in Adoptions \cup {Nothing}
    BY <2>1 DEF CallSet
  <2>3. CASE c.adopts = Nothing
    <3>1. ImportFiles(Change(c.files)) = {}
      BY <2>1, <2>2, <2>3, FreehandImportsNothing DEF Sound, Asks, Admitted
    <3> QED
      BY <2>1, <2>3, <3>1 DEF Admitted, c
  <2>4. CASE c.adopts # Nothing
    <3>1. c.adopts \in Resources /\ ~AdoptRefused(c.adopts)
      BY <2>1, <2>2, <2>4, AuthoringAssumption DEF Sound, Asks
    <3>2. PICK s \in Slots : c.files = [t \in {s} |-> Rendered(c.adopts)]
      BY <2>1, <2>4 DEF Sound, Asks
    <3>3. ~Denied(PlanOf(Change(c.files), FALSE))
      BY <3>1, <3>2, AdoptionIsNotDenied
    <3> QED
      BY <2>1, <2>4, <3>3 DEF Admitted, c
  <2> QED
    BY <2>3, <2>4
<1> QED
  BY <1>1, Invariance, PTL

\* A recorded trace is that of the turn whose call opened the pull request.
THEOREM TracesAreAuthors == Spec => []TraceIsAuthors
<1>1. IInv => TraceIsAuthors
  BY DEF IInv
<1> QED
  BY <1>1, Invariance, PTL

\* Two labelled open adoptions of one resource need a look that had no answer, a
\* call that nobody waited for any more, or a branch that two calls wrote to.
THEOREM AdoptedOnce == Spec => []OneAdoption
<1>1. IInv => OneAdoption
  <2> SUFFICES ASSUME IInv, NEW p \in DOMAIN pulls, NEW q \in DOMAIN pulls,
                      pulls[p].call < pulls[q].call,
                      calls[pulls[p].call].adopts = calls[pulls[q].call].adopts,
                      calls[pulls[p].call].adopts # Nothing,
                      pulls[p].state = "open", pulls[p].labelled,
                      Alone(pulls[p].call)
               PROVE  \/ calls[pulls[q].call].blind
                      \/ calls[pulls[p].call].wait = "no"
    BY DEF OneAdoption
  <2> QED
    BY DEF IInv, Opens, Exclusive, Settled
<1> QED
  BY <1>1, Invariance, PTL
================================================================================
