------------------------------- MODULE IacReview -------------------------------
(***************************************************************************)
(* The road of an infrastructure plan to the operator: the plan builder    *)
(* (.github/workflows/iac.yml) that gates a head, plans it, stores the     *)
(* artifacts and comments, the approval page of agent/main.py that reads   *)
(* the newest comment and decides whether to offer the form, the signed    *)
(* form token that pins what was displayed, the admission of the POST, and *)
(* the gates the tofu-apply worker runs again before it applies.           *)
(*                                                                         *)
(* One pull request.  IacApply models what happens to a plan from its      *)
(* admission on, request by request; here a request has two steps, its     *)
(* admission and its effect, and the subject is what the plan says.        *)
(***************************************************************************)
EXTENDS StaticGate

CONSTANTS Changes,     \* the changes a head of the pull request may carry
          Faults,      \* what may be wrong with the stored artifacts
          BrakeSets,   \* the brakes that may be on together
          Versions,    \* the OpenTofu versions main pins, one after the other
          MaxHeads, MaxBuilds

\* What may be wrong with what a build stored: an object gone, altered or not
\* what it should be, one about something else, or a comment that says
\* something else or lost a field.
ArtifactFaults == {"none", "metadata_gone", "metadata_odd", "other_repo",
                   "other_pr", "json_gone", "json_altered", "json_unparsable",
                   "plan_altered", "comment_odd", "comment_malformed",
                   "sidecar_odd", "no_sidecar"}

ASSUME BoundAssumption == MaxHeads \in Nat /\ MaxBuilds \in Nat
ASSUME PinAssumption == Versions \in Seq(ToSet(Versions)) /\ Versions # <<>>
ASSUME FaultAssumption == Faults \subseteq ArtifactFaults
ASSUME ChangeAssumption == \A change \in Changes : change \in Seq(Files)

VARIABLES
  pr,        \* the state of the pull request and the number of its head
  content,   \* content[h]: the change head h carries
  builds,    \* builds[b]: head, plan and fault of an artifact
  run,       \* the plan builder's run: 0 or its build, and whether it
             \* has just seen the pull request open at its head
  comments,  \* the builds the C2 comments name, oldest first
  baked,     \* the head whose merged tree is baked into the worker, or 0
  pin,       \* the pin of main: which of Versions plans are made with
  bakedPin,  \* the pin the worker was last built with
  decided,   \* decided[b]: the decision on record for a build
  tokens,    \* builds whose form token is out and has not expired
  source,    \* the head whose source files are cached for the page, or 0
  seen,      \* <<b, h>>: a page has displayed build b with a form, beside the
             \* source of head h (0: none)
  posted,    \* the build an admitted POST is about, or 0
  applied,   \* builds the worker has applied
  brakes     \* {"not_configured", "dry_run", "paused", "dial"}

world == <<pr, content, baked, pin, bakedPin>>
builder == <<builds, run, comments>>
desk == <<decided, tokens, source, seen, posted, applied>>
vars == <<world, builder, desk, brakes>>

Heads == 1..MaxHeads
Builds == 1..MaxBuilds
\* unready: closed, a draft, or pointed at another base.
PullStates == {"open", "unready", "merged"}
Decisions == {"none", "waiting_pending", "waiting_merged", "applied_merged",
              "applied_unmerged", "failed"}

-----------------------------------------------------------------------------
(* The pull request and the baked tree.                                    *)

Push(change) ==
  /\ pr.state # "merged"
  /\ Len(content) < MaxHeads
  /\ content' = Append(content, change)
  /\ pr' = [pr EXCEPT !.head = Len(content) + 1]
  /\ UNCHANGED <<baked, pin, bakedPin, builder, desk, brakes>>

\* Made unready or ready again, or merged by somebody.
Move(state) ==
  /\ pr.state # "merged"
  /\ state = "merged" => pr.state = "open"
  /\ pr.state # state
  /\ pr' = [pr EXCEPT !.state = state]
  /\ UNCHANGED <<content, baked, pin, bakedPin, builder, desk, brakes>>

\* The worker is built from main: its pin, and the tree of the merged head
\* unless another change to iac/ went in since.
Rebake ==
  /\ baked' \in IF pr.state = "merged" THEN {pr.head, 0} ELSE {0}
  /\ bakedPin' = pin
  /\ <<baked, bakedPin>>' # <<baked, bakedPin>>
  /\ UNCHANGED <<pr, content, pin, builder, desk, brakes>>

\* The OpenTofu pin of main is moved, for the plan builder and the Dockerfile of
\* the worker in lockstep.  It is outside of iac/: no tree hash changes.
Bump ==
  /\ pin < Len(Versions)
  /\ pin' = pin + 1
  /\ UNCHANGED <<pr, content, baked, bakedPin, builder, desk, brakes>>

SetBrakes(b) ==
  /\ brakes' = b
  /\ brakes # b
  /\ UNCHANGED <<world, builder, desk>>

-----------------------------------------------------------------------------
(* The plan builder.  Runs for one pull request are serialized.            *)

\* It gates the head in agent mode, plans it against the live infrastructure,
\* which may have been changed by hand (drift), and uploads plan, metadata and
\* sidecar.
Build(fault, drift) ==
  /\ run.build = 0
  /\ pr.state = "open"
  /\ Len(builds) < MaxBuilds
  /\ ~GateRefuses("agent", content[pr.head])
  /\ builds' = Append(builds, [head |-> pr.head, fault |-> fault, pin |-> pin,
                               plan |-> PlanOf(content[pr.head], drift)])
  /\ run' = [build |-> Len(builds) + 1, checked |-> FALSE]
  /\ UNCHANGED <<world, comments, desk, brakes>>

\* Right before it comments it looks at the pull request again.
Recheck ==
  /\ run.build # 0
  /\ ~run.checked
  /\ run' = IF pr.state = "open" /\ pr.head = builds[run.build].head
            THEN [run EXCEPT !.checked = TRUE]
            ELSE [build |-> 0, checked |-> FALSE]
  /\ UNCHANGED <<world, builds, comments, desk, brakes>>

Comment ==
  /\ run.checked
  /\ comments' = Append(comments, run.build)
  /\ run' = [build |-> 0, checked |-> FALSE]
  /\ UNCHANGED <<world, builds, desk, brakes>>

-----------------------------------------------------------------------------
(* The view: the newest comment, and what it names.                        *)

\* parse_c2_pr_comment: every field is there, once and well formed.
Parses(b) == builds[b].fault # "comment_malformed"

\* find_latest_c2_comment: the newest marker that parses.
Latest ==
  LET parsed == {i \in DOMAIN comments : Parses(comments[i])}
      newest == CHOOSE i \in parsed : \A j \in parsed : j <= i
  IN IF \E i \in parsed : \A j \in parsed : j <= i THEN comments[newest] ELSE 0

\* fetch_gcs_object: the objects, each at its very generation.
Fetched(b) == builds[b].fault \notin {"metadata_gone", "json_gone"}

\* It is what build_metadata would have built.
WellFormed(b) == builds[b].fault # "metadata_odd"

\* load_plan_view: metadata that cannot be fetched or is not c2.v1 or names
\* another repository, and a plan.json that is not there.
Unverifiable(b) ==
  \/ ~Fetched(b)
  \/ ~WellFormed(b)
  \/ builds[b].fault = "other_repo"

IntegrityOk(b) == builds[b].fault # "json_altered"

\* load_plan_json refuses a text that is no object.
DenylistViolated(b) ==
  builds[b].fault = "json_unparsable" \/ Denied(builds[b].plan)

\* _iac_artifact_consistent: the metadata is about this pull request, and says
\* what the comment says.
Consistent(b) == builds[b].fault \notin {"other_pr", "comment_odd"}

ArtifactSound(b) ==
  ~Unverifiable(b) /\ IntegrityOk(b) /\ ~DenylistViolated(b) /\ Consistent(b)

HasCreate(b) ==
  builds[b].fault = "json_unparsable" \/ PlanHasCreate(builds[b].plan)

-----------------------------------------------------------------------------
(* The page.                                                               *)

\* fresh_apply_blocker: what one look at the pull request settles.
FreshBlocked(b) == pr.state # "open" \/ pr.head # builds[b].head

\* A decision lookup that fails leaves the form as it is; an answered one
\* withholds it when the apply is terminal, and when there is no decision and
\* the pull request has moved past the plan.  A decision still waiting or
\* unmerged keeps it, but an unmerged one that GitHub shows merged is done
\* (reconcile_merge_state).
DecisionAllows(b, answered) ==
  answered => CASE decided[b] = "none" -> ~FreshBlocked(b)
                [] decided[b] = "applied_unmerged" ->
                     ~(pr.state = "merged" /\ pr.head = builds[b].head)
                [] OTHER -> decided[b] \notin {"applied_merged", "failed"}

\* The ladder of iac_approval_get.  An anonymous viewer never gets the form.
Offers(b, known, answered) ==
  /\ b # 0
  /\ ArtifactSound(b)
  /\ known
  /\ brakes = {}
  /\ DecisionAllows(b, answered)

\* _read_iac_source_cache: a record of another head is a miss.
CacheHits(h) == source = h

\* _resolve_iac_source: the files of the head the view has verified, from the
\* cache or from GitHub, which may fail (and is then shown as no source).  A
\* record may be too old, or lost with its write.
ResolveSource(h, shown, force) ==
  \/ /\ CacheHits(h) /\ ~force
     /\ shown = source
     /\ UNCHANGED source
  \/ shown = h /\ source' \in {h, source}
  \/ shown = 0 /\ UNCHANGED source

\* iac_approval_get: always 200; the form's token pins what is displayed, and
\* the source is shown beside it.
Get(known, answered, shown) ==
  /\ Offers(Latest, known, answered)
  /\ Latest \notin tokens
  /\ ResolveSource(builds[Latest].head, shown, FALSE)
  /\ tokens' = tokens \cup {Latest}
  /\ seen' = seen \cup {<<Latest, shown>>}
  /\ UNCHANGED <<world, builder, decided, posted, applied, brakes>>

\* A page without a form still shows, and caches, the source of a plan that
\* can be trusted; iac_refresh_source reads it again.
ShowSource(force) ==
  /\ Latest # 0
  /\ ~Unverifiable(Latest) /\ IntegrityOk(Latest) /\ Consistent(Latest)
  /\ \E shown \in 0..MaxHeads : ResolveSource(builds[Latest].head, shown, force)
  /\ source' # source
  /\ UNCHANGED <<world, builder, decided, tokens, seen, posted, applied, brakes>>

\* A token is good for thirty minutes.
Expire(b) ==
  /\ b \in tokens
  /\ tokens' = tokens \ {b}
  /\ UNCHANGED <<world, builder, decided, source, seen, posted, applied, brakes>>

-----------------------------------------------------------------------------
(* The admission of the POST.                                              *)

\* What the browser says of where the POST comes from.  The page is served
\* with no-referrer, so its own form arrives with the origin "null".
Origins == [origin : {"absent", "null", "same", "other", "malformed"},
            site : {"same-origin", "cross-site"}]

\* Mutant: an opaque origin is refused.
SameOriginOnly(o) == o.origin = "same"

\* _check_iac_origin, where the coordinator's origin is configured.
SameOrigin(o) ==
  IF o.origin \in {"absent", "null"} THEN o.site = "same-origin"
  ELSE o.origin = "same"

\* Mutant: the token pins the head and no generation.
PinsHead(b) == /\ Latest # 0
               /\ b # 0
               /\ builds[b].head = builds[Latest].head

\* What was displayed is what is latest: head, generations, digests, comment
\* and sidecar of the token are those of the view.
Pins(b) == Latest # 0 /\ b = Latest

\* The refusals before any decision is read.
Admits(b, o) ==
  /\ SameOrigin(o)
  /\ b \in tokens
  /\ brakes = {}
  /\ Pins(b)
  /\ ArtifactSound(Latest)

Submit(b, o) ==
  /\ posted = 0
  /\ Admits(b, o)
  /\ posted' = Latest
  /\ UNCHANGED <<world, builder, decided, tokens, source, seen, applied, brakes>>

-----------------------------------------------------------------------------
(* The worker's gates, at /propose and again at /apply.                    *)

\* _fetch_and_verify_artifacts: the three objects at their generations, and
\* the digests of both plans.
ArtifactsVerified(b) ==
  /\ Fetched(b)
  /\ WellFormed(b)
  /\ builds[b].fault \notin {"json_altered", "json_unparsable", "plan_altered"}

\* build_sidecar: it is there, and about this plan.
SidecarSound(b) == builds[b].fault \notin {"sidecar_odd", "no_sidecar"}

\* iac_tree_hash: two trees hash alike only if they are the same.
BakedIs(head) == baked = head

\* _verify_iac_tree_or_raise: the sidecar is the plan's, and its hash that of
\* the baked tree.
TreeProven(b) == SidecarSound(b) /\ BakedIs(builds[b].head)

\* assert_fidelity: the plan was made with the version the worker has.  It
\* compares the lockfile too, which is part of the tree: where the tree is
\* proven it is the same, and where it need not be a difference is among the
\* refusals TurnedAway stands for.
SameTofu(b) == Versions[builds[b].pin] = Versions[bakedPin]

WorkerAdmits(b) ==
  /\ ArtifactsVerified(b)
  /\ ~Denied(builds[b].plan)
  /\ HasCreate(b) => TreeProven(b)
  /\ SameTofu(b)
  /\ ~GuardRefuses(builds[b].plan, HasCreate(b))

-----------------------------------------------------------------------------
(* The effect of an admitted POST.                                         *)

\* merge_pr_at_sha: the exact head, whether open or merged already.
Mergeable(b) == pr.state \in {"open", "merged"} /\ pr.head = builds[b].head

Done(b, d) == decided' = [decided EXCEPT ![b] = d] /\ posted' = 0

\* With no decision on record: assert_pr_ready_at_sha.
Fresh(b) == decided[b] = "none" /\ pr.state = "open" /\ pr.head = builds[b].head

\* A plan that creates is merged first, if its comment names a sidecar.  The
\* pointer precedes the merge, which may fail.
MergeFirst ==
  LET b == posted
  IN /\ b # 0
     /\ \/ Fresh(b) /\ HasCreate(b) /\ builds[b].fault # "no_sidecar"
        \/ decided[b] = "waiting_pending"
     /\ \/ /\ Mergeable(b)
           /\ pr' = [pr EXCEPT !.state = "merged"]
           /\ Done(b, "waiting_merged")
        \/ UNCHANGED pr /\ Done(b, "waiting_pending")
     /\ UNCHANGED <<content, baked, pin, bakedPin, builder, tokens, source, seen,
                    applied, brakes>>

\* A plan that creates nothing is applied, then merged.
ApplyFirst ==
  LET b == posted
  IN /\ b # 0
     /\ Fresh(b)
     /\ ~HasCreate(b)
     /\ WorkerAdmits(b)
     /\ \/ /\ applied' = applied \cup {b}
           /\ \/ pr' = [pr EXCEPT !.state = "merged"] /\ Done(b, "applied_merged")
              \/ UNCHANGED pr /\ Done(b, "applied_unmerged")
        \/ UNCHANGED <<pr, applied>> /\ Done(b, "failed")
     /\ UNCHANGED <<content, baked, pin, bakedPin, builder, tokens, source, seen,
                    brakes>>

\* After the re-bake the merged plan is applied.
Resume ==
  LET b == posted
  IN /\ b # 0
     /\ decided[b] = "waiting_merged"
     /\ WorkerAdmits(b)
     /\ \/ applied' = applied \cup {b} /\ Done(b, "applied_merged")
        \/ UNCHANGED applied /\ Done(b, "failed")
     /\ UNCHANGED <<world, builder, tokens, source, seen, brakes>>

MergeOnly ==
  LET b == posted
  IN /\ b # 0
     /\ decided[b] = "applied_unmerged"
     /\ Mergeable(b)
     /\ pr' = [pr EXCEPT !.state = "merged"]
     /\ Done(b, "applied_merged")
     /\ UNCHANGED <<content, baked, pin, bakedPin, builder, tokens, source, seen,
                    applied, brakes>>

\* A refusal, or an answer that changes nothing.
TurnedAway ==
  /\ posted # 0
  /\ posted' = 0
  /\ UNCHANGED <<world, builder, decided, tokens, source, seen, applied, brakes>>

-----------------------------------------------------------------------------
Init ==
  /\ pr = [state |-> "open", head |-> 1]
  /\ content \in {<<c>> : c \in Changes}
  /\ builds = <<>> /\ comments = <<>>
  /\ run = [build |-> 0, checked |-> FALSE]
  /\ baked = 0 /\ pin = 1 /\ bakedPin = 1
  /\ decided = [b \in Builds |-> "none"]
  /\ tokens = {} /\ source = 0 /\ seen = {} /\ posted = 0 /\ applied = {}
  /\ brakes = {}

Next ==
  \/ \E c \in Changes : Push(c)
  \/ \E s \in PullStates : Move(s)
  \/ Rebake
  \/ Bump
  \/ \E s \in BrakeSets : SetBrakes(s)
  \/ \E f \in Faults, drift \in BOOLEAN : Build(f, drift)
  \/ Recheck
  \/ Comment
  \/ \E known, answered \in BOOLEAN, h \in 0..MaxHeads : Get(known, answered, h)
  \/ \E force \in BOOLEAN : ShowSource(force)
  \/ \E b \in Builds : Expire(b)
  \/ \E b \in Builds, o \in Origins : Submit(b, o)
  \/ MergeFirst
  \/ ApplyFirst
  \/ Resume
  \/ MergeOnly
  \/ TurnedAway

Spec == Init /\ [][Next]_vars

-----------------------------------------------------------------------------
(* Properties.                                                             *)

\* The shape of the state.
TypeOK ==
  /\ pr.state \in PullStates
  /\ pr.head \in 1..Len(content)
  /\ baked \in 0..Len(content)
  /\ pin \in DOMAIN Versions /\ bakedPin \in 1..pin
  /\ run.build \in 0..Len(builds) /\ run.checked \in BOOLEAN
  /\ \A i \in DOMAIN comments : comments[i] \in DOMAIN builds
  /\ decided \in [Builds -> Decisions]
  /\ tokens \subseteq Builds /\ seen \subseteq Builds \X (0..MaxHeads)
  /\ source \in 0..Len(content)
  /\ posted \in 0..MaxBuilds
  /\ applied \subseteq Builds

\* The sentence the approval page prints beside every plan
\* (BLAST_CANNOT_TOUCH_NOTE, driftscribe_lib/iac_plan_summary.py): whatever
\* was applied touched nothing of the control plane and no IAM, deleted,
\* replaced and forgot nothing, and adopted at most one resource, of an
\* allowed type, in a plan that modified nothing.
IsHarmless(plan) ==
  LET rows == RowsOf(plan)
      touched == {row \in rows : row.actions \notin NoOps \/ row.importing # "null"}
      adopted == {i \in DOMAIN plan.rows : plan.rows[i].importing # "null"}
  IN /\ \A row \in rows : row.actions \in NoOps \cup {"create", "update"}
     /\ \A row \in touched :
          /\ row.kind \notin {"iam", "account", "wif"}
          /\ "own" \in {row.before, row.after} => row.kind \in {"topic", "other"}
     /\ Cardinality(adopted) <= 1
     /\ adopted # {} => /\ \A row \in rows : row.actions \in NoOps
                        /\ \A i \in adopted : plan.rows[i].kind \in AdoptableKinds

AdmittedIsHarmless == \A b \in applied : IsHarmless(builds[b].plan)

\* A page with a form hides nothing of its plan: when a summary is shown its
\* counts are those of every entry the apply would act on, the calm framing of
\* an adoption is only put on one, a plan with the green line destroys
\* nothing, and what is said to create is what waits for the re-bake.
NothingHidden ==
  \A b \in {view[1] : view \in seen} :
    LET plan == builds[b].plan
        s == Summary(plan)
        Touches(row) == row.actions \notin NoOps \/ row.importing # "null"
    IN Summarizable(plan) =>
         /\ AllAccountedSafe(s)
         /\ s["create"] + s["update"] + s["import"] = CountRows(plan, Touches)
         /\ PlanHasCreate(plan) <=> s["create"] + s["import"] > 0
         /\ AdoptOnly(s) => /\ s["import"] = 1
                            /\ PlanHasImport(plan)
                            /\ \A row \in RowsOf(plan) : row.actions \in NoOps

\* Merging cannot be undone, so what is merged before it is applied must be
\* something the worker will take: of the sound artifacts that were merged, once
\* the tree of the head is baked in, it refuses those only whose declarations
\* its pattern does not find and those main's pin has left behind.
AllFound(plan) == \A row \in RowsOf(plan) : row.found

MergedIsAppliable ==
  \A b \in Builds :
    /\ decided[b] = "waiting_merged"
    /\ builds[b].fault = "none"
    /\ baked = builds[b].head
    /\ pin = builds[b].pin
    /\ AllFound(builds[b].plan)
    => WorkerAdmits(b)

\* What is being approved is what an operator was shown: the very build, and
\* beside it the source it was planned from or none.
SawWhatApplies ==
  /\ posted # 0 => \E view \in seen : view[1] = posted
  /\ \A view \in seen : view[2] \in {0, builds[view[1]].head}

\* A page that offers the form offers one that works: if nothing changes the
\* POST of its own form is admitted, and finds a decision it can go on from or
\* a pull request that is ready, except for the required checks.
OfferIsTakeable ==
  LET b == Latest
      own == [origin |-> "null", site |-> "same-origin"]
  IN Offers(b, TRUE, TRUE) /\ b \in tokens =>
       /\ Admits(b, own)
       /\ \/ Fresh(b)
          \/ decided[b] \in {"waiting_pending", "waiting_merged", "applied_unmerged"}

\* docs/plans/2026-05-31-infra-iac-phase-c6-head-config-delivery.md has the create
\* of a merged head pass the worker's gate after the merge and the re-bake, once
\* the baked tree is proven to be that of the head.
RebakedIsAdmitted ==
  \A b \in Builds :
    /\ decided[b] = "waiting_merged"
    /\ builds[b].fault = "none"
    /\ baked = builds[b].head
    => WorkerAdmits(b)

\* docs/plans/2026-06-30-iac-approval-pr-state-advisory.md promises that the
\* form of a merged plan that waits for its re-bake is still shown.
WaitingIsOffered ==
  \A b \in Builds :
    decided[b] = "waiting_merged" /\ brakes = {} => Offers(Latest, TRUE, TRUE)

=============================================================================
