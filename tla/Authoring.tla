------------------------------- MODULE Authoring -------------------------------
(***************************************************************************)
(* How a provision turn becomes a pull request: the fan-out of            *)
(* agent/fanout.py (decompose, author the slices in parallel, a barrier,   *)
(* one call of the editor), the two authoring tools of                     *)
(* agent/adk_tools.py that the single agent has instead, and the           *)
(* tofu-editor worker, which commits file by file and then opens the pull  *)
(* request.                                                                *)
(*                                                                         *)
(* A run is one turn.  What an agent writes is a file of StaticGate, so    *)
(* that the gates a change passes here are those its plan meets later.     *)
(* A tool of the single agent is a synchronous function: the event loop,   *)
(* and with it every other turn of the one instance, waits for it.  The    *)
(* fan-out makes its call in a thread.                                     *)
(***************************************************************************)
EXTENDS StaticGate

CONSTANTS Runs, NoRun,
          Slots,        \* the concrete paths agents write to
          Contents,     \* what an agent may write to one
          NoFile,       \* nothing, or only blanks
          Adoptions,    \* the resources an operator may ask to adopt
          Nothing,      \* a change that adopts no resource
          MaxCalls, MaxEvents

ASSUME AuthoringAssumption ==
  /\ MaxCalls \in Nat /\ MaxEvents \in Nat
  /\ NoRun \notin Runs /\ IsFiniteSet(Slots)
  /\ Contents \subseteq Files /\ NoFile \notin Contents
  /\ Adoptions \subseteq Resources /\ Nothing \notin Adoptions

VARIABLES
  run,       \* run[r]: a turn
  loop,      \* the run whose tool blocks the event loop, or NoRun
  calls,     \* the requests to the editor worker, oldest first
  branches,  \* branches[b][slot]: what was committed, or NoFile
  pulls,     \* the pull requests, by number
  declared,  \* labels declared on main
  traces     \* traces[p]: the run recorded as the author of p, or NoRun

coordinator == <<run, loop, traces>>
github == <<branches, pulls, declared>>
vars == <<coordinator, calls, github>>

Calls == 1..MaxCalls
\* The two positions of the dial above Observe differ in the dispatch only.
Modes == {"observe", "propose"}

NewRun == [pc |-> "idle", mode |-> "observe", anon |-> FALSE, slots |-> {},
           sinks |-> [s \in Slots |-> NoFile], adopting |-> Nothing,
           buffer |-> 0, seq |-> 0, shown |-> <<>>]

\* A request of the editor: at: where its handler is; wait: whether the
\* coordinator waits, heard, or gave up; blind: the check for a duplicate had
\* no answer; fresh: the worker can say that the pull request is a new one.
Request(r, b, files, adopts, blind) ==
  [by |-> r, branch |-> b, files |-> files, adopts |-> adopts, blind |-> blind,
   at |-> "checks", wait |-> "yes", written |-> {}, pull |-> 0, fresh |-> FALSE]

-----------------------------------------------------------------------------
(* The stream of a run.                                                    *)

\* Mutant: the tools await instead of blocking.
LoopShared(r) == TRUE

LoopFree(r) == loop \in {NoRun, r}

\* One event, under the next sequence number.
Emitted(t) == [t EXCEPT !.seq = @ + 1, !.shown = Append(@, t.seq + 1)]

\* The buffered events of the decomposer, then nothing of it is left.
Flushed(t) == IF t.buffer = 0 THEN t ELSE [Emitted(t) EXCEPT !.buffer = 0]

\* The generator's own state goes with it.
Released(t, pc) == [t EXCEPT !.pc = pc, !.mode = "observe", !.anon = FALSE,
                             !.sinks = NewRun.sinks, !.buffer = 0]

\* The final response and the terminal item.
Ended(t) == Released(Emitted(t), "over")

\* Mutant: the events buffered so far are sent before the run is delegated.
DelegatedLate(t) == [Flushed(t) EXCEPT !.pc = "chat", !.seq = 0]

\* The single agent answers instead; its numbers start from one.
Delegated(t) == [t EXCEPT !.pc = "chat", !.buffer = 0, !.seq = 0]

Begin(r, mode, anon) ==
  /\ run[r].pc = "idle"
  /\ LoopFree(r)
  /\ LET t == [run[r] EXCEPT !.mode = mode, !.anon = anon]
     IN run' = [run EXCEPT ![r] = IF mode = "observe" \/ anon THEN Delegated(t)
                                  ELSE [t EXCEPT !.pc = "decompose"]]
  /\ UNCHANGED <<loop, traces, calls, github>>

Think(r) ==
  /\ run[r].pc = "decompose"
  /\ LoopFree(r)
  /\ run[r].buffer = 0
  /\ run' = [run EXCEPT ![r].buffer = 1]
  /\ UNCHANGED <<loop, traces, calls, github>>

\* A plan against the path policy ends the run; one that is not usable, or has
\* a single slice, is left to the single agent; two slices commit it.
Decompose(r) ==
  /\ run[r].pc = "decompose"
  /\ LoopFree(r)
  /\ \E t \in {Ended(run[r]), Delegated(run[r])}
              \cup {[Flushed(run[r]) EXCEPT !.pc = "author", !.slots = plan] :
                    plan \in {S \in SUBSET Slots : Cardinality(S) > 1}} :
       run' = [run EXCEPT ![r] = t]
  /\ UNCHANGED <<loop, traces, calls, github>>

-----------------------------------------------------------------------------
(* Parallel authoring.  That an author ends changes nothing but that it      *)
(* submits no more: the barrier is where all have.                         *)

\* submit_slice_file: to the path the slice was given; the last write stands.
\* A blank one is as good as none.
Submit(r, s, content) ==
  /\ run[r].pc = "author"
  /\ LoopFree(r)
  /\ s \in run[r].slots
  /\ run[r].sinks[s] # content
  /\ Len(run[r].shown) < MaxEvents
  /\ run' = [run EXCEPT ![r] = [Emitted(@) EXCEPT !.sinks[s] = content]]
  /\ UNCHANGED <<loop, traces, calls, github>>

\* One author fails: its siblings are cancelled and nothing is merged.
AuthorFails(r) ==
  /\ run[r].pc = "author"
  /\ LoopFree(r)
  /\ run' = [run EXCEPT ![r] = Ended(@)]
  /\ UNCHANGED <<loop, traces, calls, github>>

\* find_import_violations: an import block, or a file that cannot be parsed.
FreehandImport(f) == f.path = "tf" /\ (f.text = "unparsable" \/ f.import # NoBlock)

\* validate_iac_path: plain .tf and .md files under iac/, no foundation file.
PathRefused(f) == f.path \notin {"tf", "doc"}

\* validate_file_writes.
EditorRefuses(files) ==
  \/ DOMAIN files = {}
  \/ \E s \in DOMAIN files : files[s] = NoFile \/ PathRefused(files[s])

\* Mutant: a slice that was not submitted is left out.
MergedFound(t) ==
  LET found == {s \in t.slots : t.sinks[s] # NoFile}
  IN [s \in found |-> t.sinks[s]]

\* _merge_slice_sinks: every slice of the plan.
Merged(t) == [s \in t.slots |-> t.sinks[s]]

\* The barrier, and the bounds on the title and the body of the request.
Barrier(r) ==
  /\ run[r].pc = "author"
  /\ LoopFree(r)
  /\ LET files == Merged(run[r])
         accepted == ~EditorRefuses(files) /\ \A s \in DOMAIN files : ~FreehandImport(files[s])
     IN \/ run' = [run EXCEPT ![r] = Ended(@)]
        \/ accepted /\ run' = [run EXCEPT ![r].pc = "send"]
  /\ UNCHANGED <<loop, traces, calls, github>>

-----------------------------------------------------------------------------
(* Calling the editor.                                                     *)

\* derive_iac_pr_authority: a branch of its own, but for the rare collision of
\* title, second and two random bytes.
NewBranch(b) == b <= Len(calls) + 1

\* A committed run calls the editor once, in a thread.
Send(r, b) ==
  /\ run[r].pc = "send"
  /\ LoopFree(r)
  /\ run[r].mode # "observe"
  /\ Len(calls) < MaxCalls /\ NewBranch(b)
  /\ calls' = Append(calls, Request(r, b, Merged(run[r]), Nothing, FALSE))
  /\ run' = [run EXCEPT ![r].pc = "calling"]
  /\ UNCHANGED <<loop, traces, github>>

\* The tools of the single agent that a mode and a visitor leave it.
MayAuthor(t) == t.mode # "observe" /\ ~t.anon
MayAdopt(t) == t.mode # "observe"

\* open_infra_pr_tool, past its guard and the local validation.
OpenInfraPr(r, b, files) ==
  /\ run[r].pc = "chat"
  /\ LoopFree(r)
  /\ MayAuthor(run[r])
  /\ Len(calls) < MaxCalls /\ NewBranch(b)
  /\ ~EditorRefuses(files)
  /\ \A s \in DOMAIN files : ~FreehandImport(files[s])
  /\ calls' = Append(calls, Request(r, b, files, Nothing, FALSE))
  /\ run' = [run EXCEPT ![r].pc = "tool"]
  /\ loop' = r
  /\ UNCHANGED <<traces, github>>

\* Mutant: only the control plane's own names are refused.
AdoptRefusedOwn(x) ==
  \/ x.kind \notin AdoptableKinds
  \/ x.kind # "topic" /\ x.name = "own"

\* _canonicalize_resource_type and _reject_control_plane.
AdoptRefused(x) ==
  \/ x.kind \notin AdoptableKinds
  \/ x.kind = "service" /\ x.name = "own"
  \/ x.kind = "bucket" /\ x.name \in {"own", "managed"}
  \/ x.kind = "topic" /\ x.name = "managed"

\* render_adoption: the resource and its import block, in one file.
Rendered(x) ==
  [path |-> "tf", text |-> "parsed", provider |-> "none", module |-> FALSE,
   resource |-> x, data |-> "none",
   import |-> [to |-> x.label, each |-> FALSE, id |-> "literal"]]

\* propose_adoption_tool: render, read main (a failed read refuses), and look
\* for a conflict there.
ProposeAdoption(r, x) ==
  /\ run[r].pc = "chat"
  /\ LoopFree(r)
  /\ MayAdopt(run[r])
  /\ Len(calls) < MaxCalls
  /\ ~AdoptRefused(x)
  /\ x.label \notin declared
  /\ run' = [run EXCEPT ![r].pc = "adopt", ![r].adopting = x]
  /\ loop' = r
  /\ UNCHANGED <<traces, calls, github>>

\* find_open_adopt_pr_for_resource sees open pull requests with the label.
OpenAdoptions(x) ==
  {p \in DOMAIN pulls : /\ pulls[p].state = "open" /\ pulls[p].labelled
                        /\ calls[pulls[p].call].adopts = x}

\* The look for an open duplicate fails open.
SendAdoption(r, b, s, answered) ==
  LET x == run[r].adopting
      duplicate == answered /\ OpenAdoptions(x) # {}
      files == [t \in {s} |-> Rendered(x)]
  IN /\ run[r].pc = "adopt"
     /\ NewBranch(b)
     /\ run' = [run EXCEPT ![r].pc = IF duplicate THEN "chat" ELSE "tool",
                           ![r].adopting = Nothing]
     /\ loop' = IF duplicate THEN NoRun ELSE r
     /\ calls' = IF duplicate THEN calls
                 ELSE Append(calls, Request(r, b, files, x, ~answered))
     /\ UNCHANGED <<traces, github>>

-----------------------------------------------------------------------------
(* The editor worker.                                                      *)

Goto(n, at) == calls' = [calls EXCEPT ![n].at = at]

Change(files) == SetToSeq({files[s] : s \in DOMAIN files})

PullOf(b) == {p \in DOMAIN pulls : calls[pulls[p].call].branch = b /\ pulls[p].state = "open"}

\* Policy and gate precede every GitHub call; the policy is applied again to the
\* formatted files.  An existing branch with an open pull request is returned as
\* it is; one without is written to.
CreateBranch(n) ==
  LET b == calls[n].branch
      admitted == /\ ~EditorRefuses(calls[n].files)
                  /\ ~GateRefuses("agent", Change(calls[n].files))
  IN /\ calls[n].at = "checks"
     /\ \/ Goto(n, "failed")
        \/ /\ admitted /\ PullOf(b) # {}
           /\ calls' = [calls EXCEPT ![n].at = "label",
                                     ![n].pull = CHOOSE p \in PullOf(b) : TRUE]
        \/ admitted /\ PullOf(b) = {} /\ Goto(n, "write")
     /\ UNCHANGED <<coordinator, github>>

\* One commit per file.
WriteFile(n, s) ==
  /\ calls[n].at = "write"
  /\ s \in DOMAIN calls[n].files \ calls[n].written
  /\ \/ Goto(n, "failed") /\ UNCHANGED branches
     \/ /\ calls' = [calls EXCEPT ![n].written = @ \cup {s}]
        /\ branches' = [branches EXCEPT ![calls[n].branch][s] = calls[n].files[s]]
  /\ UNCHANGED <<coordinator, pulls, declared>>

Written(n) == calls[n].written = DOMAIN calls[n].files

Opened(n) == [call |-> n, state |-> "open", labelled |-> FALSE]

\* Opened and answered; opened, and the client's retry finds that it already
\* exists; opened by another call of the branch; or an error, opened or not.
OpenPull(n) ==
  LET b == calls[n].branch
      found == PullOf(b)
  IN /\ calls[n].at = "write"
     /\ Written(n)
     /\ \/ /\ found = {}
           /\ pulls' = Append(pulls, Opened(n))
           /\ \/ \E fresh \in BOOLEAN :
                   calls' = [calls EXCEPT ![n].at = "label", ![n].fresh = fresh,
                                          ![n].pull = Len(pulls) + 1]
              \/ Goto(n, "failed")
        \/ /\ found # {}
           /\ calls' = [calls EXCEPT ![n].at = "label", ![n].pull = CHOOSE p \in found : TRUE]
           /\ UNCHANGED pulls
        \/ Goto(n, "failed") /\ UNCHANGED pulls
     /\ UNCHANGED <<coordinator, branches, declared>>

\* _finalize_iac_pr: best effort, and so is the dispatch of the plan builder,
\* which changes nothing here: a build is a step of IacReview.
Finalize(n) ==
  /\ calls[n].at = "label"
  /\ \E labelled \in BOOLEAN : pulls' = [pulls EXCEPT ![calls[n].pull].labelled = @ \/ labelled]
  /\ Goto(n, "replied")
  /\ UNCHANGED <<coordinator, branches, declared>>

WorkerDies(n) ==
  /\ calls[n].at \notin {"replied", "failed"}
  /\ Goto(n, "failed")
  /\ UNCHANGED <<coordinator, github>>

-----------------------------------------------------------------------------
(* The answer.                                                             *)

\* Mutant: every confirmed pull request is recorded as this run's.
RecordsAny(n) == TRUE

\* Recorded only if the worker said, in so many words, that it is not reused.
Records(n) == calls[n].fresh

\* An error of the editor aborts a turn of the single agent, and is the final
\* of a fan-out.
AfterError(t) == IF t.pc = "tool" THEN [t EXCEPT !.pc = "over"] ELSE Ended(t)
AfterPull(t) == IF t.pc = "tool" THEN [t EXCEPT !.pc = "chat"] ELSE Ended(t)

\* What the worker answered is used, or lost, once.
Spent(call, wait) ==
  IF call.at \in {"replied", "failed"}
  THEN [call EXCEPT !.wait = wait, !.pull = 0, !.fresh = FALSE, !.written = {}]
  ELSE [call EXCEPT !.wait = wait]
GivenUp(call) == IF call.wait = "yes" THEN Spent(call, "no") ELSE call

Unblocked(r) == IF loop = r THEN NoRun ELSE loop

\* A confirmed pull request: its trace is recorded, unless the store fails or
\* has one, before the operator is told.  An older worker does not say whether
\* it was reused.
Hear(n) ==
  LET r == calls[n].by
      p == calls[n].pull
  IN /\ calls[n].wait = "yes"
     /\ calls[n].at = "replied"
     /\ LoopFree(r)
     /\ run' = [run EXCEPT ![r] = AfterPull(@)]
     /\ \/ UNCHANGED traces
        \/ Records(n) /\ traces[p] = NoRun /\ traces' = [traces EXCEPT ![p] = r]
     /\ loop' = Unblocked(r)
     /\ calls' = [calls EXCEPT ![n] = Spent(@, "heard")]
     /\ UNCHANGED github

HearError(n) ==
  LET r == calls[n].by
  IN /\ calls[n].wait = "yes"
     /\ LoopFree(r)
     /\ run' = [run EXCEPT ![r] = AfterError(@)]
     /\ loop' = Unblocked(r)
     /\ calls' = [calls EXCEPT ![n] = IF calls[n].at = "failed" THEN Spent(@, "heard")
                                       ELSE GivenUp(@)]
     /\ UNCHANGED <<traces, github>>

-----------------------------------------------------------------------------
(* The operator and the coordinator's process.                             *)

EndChat(r) ==
  /\ run[r].pc = "chat"
  /\ LoopFree(r)
  /\ run' = [run EXCEPT ![r] = Ended(@)]
  /\ UNCHANGED <<loop, traces, calls, github>>

Dropped(t) == Released(t, "gone")

\* The client goes away: authors are cancelled and reaped, a call in a thread
\* goes on with nobody to take its answer.
Disconnect(r) ==
  /\ run[r].pc \in {"decompose", "author", "send", "calling", "chat"}
  /\ loop = NoRun
  /\ run' = [run EXCEPT ![r] = Dropped(@)]
  /\ calls' = [n \in DOMAIN calls |->
                 IF calls[n].by = r THEN GivenUp(calls[n]) ELSE calls[n]]
  /\ UNCHANGED <<loop, traces, github>>

CoordinatorDies ==
  /\ \E r \in Runs : run[r].pc \notin {"idle", "over", "gone"}
  /\ run' = [r \in Runs |-> IF run[r].pc \in {"idle", "over"} THEN run[r] ELSE Dropped(run[r])]
  /\ loop' = NoRun
  /\ calls' = [n \in DOMAIN calls |-> GivenUp(calls[n])]
  /\ UNCHANGED <<traces, github>>

LabelsOf(p) ==
  {x.label : x \in {branches[calls[pulls[p].call].branch][s].resource :
                    s \in {s \in Slots : branches[calls[pulls[p].call].branch][s] # NoFile}}
                   \ {NoBlock}}

\* Merged by the lane of IacReview.  One that is closed instead reads here like
\* one that is not labelled.
Merge(p) ==
  /\ pulls[p].state = "open"
  /\ pulls' = [pulls EXCEPT ![p].state = "merged"]
  /\ declared' = declared \cup LabelsOf(p)
  /\ UNCHANGED <<coordinator, calls, branches>>

-----------------------------------------------------------------------------
Init ==
  /\ run = [r \in Runs |-> NewRun]
  /\ loop = NoRun
  /\ calls = <<>> /\ pulls = <<>>
  /\ branches = [b \in Calls |-> [s \in Slots |-> NoFile]]
  /\ declared = {}
  /\ traces = [p \in Calls |-> NoRun]

RunStep(r) ==
  \/ \E mode \in Modes, anon \in BOOLEAN : Begin(r, mode, anon)
  \/ Think(r) \/ Decompose(r)
  \/ \E s \in Slots, c \in Contents : Submit(r, s, c)
  \/ AuthorFails(r) \/ Barrier(r)
  \/ \E b \in Calls : Send(r, b)
  \/ \E b \in Calls, s \in Slots, c \in Contents : OpenInfraPr(r, b, [t \in {s} |-> c])
  \/ \E x \in Adoptions : ProposeAdoption(r, x)
  \/ \E b \in Calls, s \in Slots, answered \in BOOLEAN : SendAdoption(r, b, s, answered)
  \/ EndChat(r) \/ Disconnect(r)

CallStep(n) ==
  \/ CreateBranch(n) \/ OpenPull(n) \/ Finalize(n) \/ WorkerDies(n)
  \/ \E s \in Slots : WriteFile(n, s)
  \/ Hear(n) \/ HearError(n)

Next ==
  \/ \E r \in Runs : RunStep(r)
  \/ \E n \in DOMAIN calls : CallStep(n)
  \/ CoordinatorDies
  \/ \E p \in DOMAIN pulls : Merge(p)

Spec == Init /\ [][Next]_vars

-----------------------------------------------------------------------------
(* Properties.                                                             *)

TypeOK ==
  /\ run \in [Runs -> [pc : {"idle", "decompose", "author", "send", "calling", "chat",
                             "adopt", "tool", "over", "gone"},
                       mode : Modes, anon : BOOLEAN, slots : SUBSET Slots,
                       sinks : [Slots -> Contents \cup {NoFile}],
                       adopting : Adoptions \cup {Nothing},
                       buffer : 0..1, seq : Nat, shown : Seq(Nat)]]
  /\ loop \in Runs \cup {NoRun}
  /\ Len(calls) <= MaxCalls /\ Len(pulls) <= MaxCalls
  /\ \A p \in DOMAIN pulls : pulls[p].call \in DOMAIN calls
  /\ declared \subseteq Labels
  /\ traces \in [Calls -> Runs \cup {NoRun}]

\* No other call wrote to the branch of call n (the derived name collided).
Alone(n) == \A m \in DOMAIN calls \ {n} : calls[m].branch # calls[n].branch

\* The operator's timeline of a turn is numbered 1, 2, 3, ... whether the turn is
\* committed, delegated or refused: the decomposer's events are held back until
\* it is known whose numbers count (agent/fanout.py:1217).
StreamInOrder == \A r \in Runs : \A i \in DOMAIN run[r].shown : run[r].shown[i] = i

\* A pull request on a branch of its own holds exactly the files of the call that
\* opened it, although they are committed one by one; a committed turn asks once,
\* for every slice of its plan, whatever its authors submitted, failed or left out.
WholeChange ==
  /\ \A p \in DOMAIN pulls :
       LET n == pulls[p].call
       IN Alone(n) => \A s \in Slots :
            branches[calls[n].branch][s] = IF s \in DOMAIN calls[n].files
                                           THEN calls[n].files[s] ELSE NoFile
  /\ \A n \in DOMAIN calls :
       run[calls[n].by].slots # {} =>
         /\ \A m \in DOMAIN calls : calls[m].by = calls[n].by => m = n
         /\ DOMAIN calls[n].files = run[calls[n].by].slots
         /\ NoFile \notin {calls[n].files[s] : s \in DOMAIN calls[n].files}

\* Whoever wrote a pull request on a branch of its own, the gate its build runs
\* would admit it; it imports only if the operator asked to adopt, and then its
\* undisturbed plan passes the deny list of the lane it is headed for.
OnlyAdmitted ==
  \A p \in DOMAIN pulls :
    LET n == pulls[p].call
        change == Change(calls[n].files)
    IN Alone(n) =>
         /\ ~GateRefuses("agent", change)
         /\ IF calls[n].adopts = Nothing THEN ImportFiles(change) = {}
                                         ELSE ~Denied(PlanOf(change, FALSE))

\* The reasoning shown beside a pull request is that of the turn whose call
\* opened it, never of one that found it (colliding branch, repeated request).
TraceIsAuthors ==
  \A p \in Calls : traces[p] # NoRun =>
    p \in DOMAIN pulls /\ traces[p] = calls[pulls[p].call].by

\* Two labelled open adoptions of one resource: the look for the first one had no
\* answer, or the coordinator had stopped waiting for the call that made it, or
\* another call wrote to its branch.
OneAdoption ==
  \A p, q \in DOMAIN pulls :
    LET m == pulls[p].call
        n == pulls[q].call
    IN /\ m < n
       /\ calls[m].adopts = calls[n].adopts /\ calls[m].adopts # Nothing
       /\ \A x \in {p, q} : pulls[x].state = "open" /\ pulls[x].labelled
       /\ Alone(m)
       => calls[n].blind \/ calls[m].wait = "no"

=============================================================================
