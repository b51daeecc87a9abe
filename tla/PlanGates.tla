------------------------------- MODULE PlanGates -------------------------------
(***************************************************************************)
(* What the three readers of one plan make of it: the denylist             *)
(* (driftscribe_lib/iac_plan_denylist.py) decides whether it may ever be   *)
(* applied, the classifier and the summary say what it is and show it on   *)
(* the approval page, and the apply worker's resource-set guard            *)
(* (workers/tofu_apply/tofu_runner.py) whether the configuration baked     *)
(* into the worker can reproduce it.  The three read the same JSON         *)
(* independently, and the lane is only sound if they agree.                *)
(*                                                                         *)
(* A plan is its resource_changes list (listed = FALSE: not a list), a row *)
(* what a reader can tell of one entry.  Names are abstracted to what the  *)
(* rules tell apart: the control plane's own, one a Google service manages *)
(* and a plain one; "none" is a side that does not carry the identity.     *)
(***************************************************************************)
EXTENDS Naturals, Sequences, FiniteSets

Names == {"none", "own", "managed", "plain"}
Kinds == {"service", "account", "bucket", "object", "topic", "secret",
          "version", "kms", "wif", "iam", "other"}
Addresses == {"none", "plain", "indexed", "module"}

\* "odd" is a list of actions outside OpenTofu's vocabulary that contains
\* "create"; "malformed" is no list of strings at all.
NoOps == {"no-op", "read"}
KnownActions == NoOps \cup {"create", "update", "delete", "forget", "replace"}
Actions == KnownActions \cup {"odd", "malformed"}

\* known: the configuration of main already declares the resource.
\* found: the worker's pattern finds the declaration, in the tree that has it:
\* it starts its line and its labels are quoted.
Rows == [kind : Kinds, data : BOOLEAN, address : Addresses, actions : Actions,
         importing : {"null", "object", "other"}, before : Names, after : Names,
         known : BOOLEAN, found : BOOLEAN]

Plans(rows, n) ==
  {[listed |-> TRUE, rows |-> s] : s \in UNION {[1..k -> rows] : k \in 0..n}}
    \cup {[listed |-> FALSE, rows |-> <<>>]}

RowsOf(plan) == {plan.rows[i] : i \in DOMAIN plan.rows}
CountRows(plan, P(_)) == Cardinality({i \in DOMAIN plan.rows : P(plan.rows[i])})

-----------------------------------------------------------------------------
(* Reading one entry. *)

Malformed(row) == row.actions = "malformed"
IsMutation(row) == row.actions \notin NoOps
Importing(row) == row.importing # "null"

\* The names of the two sides that an identity rule compares.
SidesOf(row) == {row.before, row.after}
Nameless(row) == SidesOf(row) = {"none"}

-----------------------------------------------------------------------------
(* The denylist.  One predicate per rule; an entry offends if it breaks    *)
(* any of them.                                                            *)

AdoptableKinds == {"service", "bucket", "topic"}

\* An import may change nothing and adopts only an allowed type.
ImportOffends(row) ==
  /\ Importing(row)
  /\ \/ row.importing = "other"
     \/ row.actions # "no-op"
     \/ row.kind \notin AdoptableKinds

\* Whatever it is about, no entry deletes, replaces or forgets, and none does
\* something nobody audited.
FloorOffends(row) == row.actions \in {"delete", "forget", "replace", "odd"}

ControlPlaneService(row) ==
  row.kind = "service" /\ (Nameless(row) \/ "own" \in SidesOf(row))

ControlPlaneAccount(row) ==
  row.kind = "account" /\ (Nameless(row) \/ "own" \in SidesOf(row))

\* The bucket, or an object written into it.
ControlPlaneBucket(row) ==
  row.kind \in {"bucket", "object"} /\ (Nameless(row) \/ "own" \in SidesOf(row))

ServiceManagedBucket(row) == row.kind = "bucket" /\ "managed" \in SidesOf(row)

ServiceManagedTopic(row) ==
  row.kind = "topic" /\ (Nameless(row) \/ "managed" \in SidesOf(row))

ControlPlaneSecret(row) ==
  row.kind \in {"secret", "version"} /\ (Nameless(row) \/ "own" \in SidesOf(row))

ControlPlaneKey(row) ==
  row.kind = "kms" /\ (Nameless(row) \/ "own" \in SidesOf(row))

IdentityFederation(row) == row.kind = "wif"
AnyIam(row) == row.kind \in {"iam", "account", "wif"}

\* The identity rules read an entry that mutates or imports: a data source on
\* a control-plane name is a legitimate read.
IdentityOffends(row) ==
  /\ IsMutation(row) \/ Importing(row)
  /\ \/ ControlPlaneService(row)
     \/ ControlPlaneAccount(row)
     \/ ControlPlaneBucket(row)
     \/ ServiceManagedBucket(row)
     \/ ServiceManagedTopic(row)
     \/ ControlPlaneSecret(row)
     \/ ControlPlaneKey(row)
     \/ IdentityFederation(row)
     \/ AnyIam(row)

\* An entry whose actions are outside the vocabulary is reported and left: its
\* identity is not read.  A malformed one is not even counted as an import.
Offends(row) ==
  \/ Malformed(row)
  \/ ImportOffends(row)
  \/ FloorOffends(row)
  \/ row.actions \in KnownActions /\ IdentityOffends(row)

CountsAsImport(row) == ~Malformed(row) /\ Importing(row)
CountsAsOther(row) == ~Malformed(row) /\ ~Importing(row) /\ IsMutation(row)

\* Mutant: the plan-wide rules are not applied.
DeniedByRow(plan) == ~plan.listed \/ \E row \in RowsOf(plan) : Offends(row)

\* One adoption per plan, and nothing beside it.
Denied(plan) ==
  \/ ~plan.listed
  \/ \E row \in RowsOf(plan) : Offends(row)
  \/ CountRows(plan, CountsAsImport) > 1
  \/ /\ CountRows(plan, CountsAsImport) > 0
     /\ CountRows(plan, CountsAsOther) > 0

-----------------------------------------------------------------------------
(* The classifier: does the apply need the configuration of the head?      *)

\* Mutant: an import is no create.
CreateByActions(plan) ==
  \/ ~plan.listed
  \/ \E row \in RowsOf(plan) :
       Malformed(row) \/ row.actions \in {"create", "replace", "odd"}

\* Fails closed: an entry that cannot be read counts as a create.
PlanHasCreate(plan) ==
  \/ ~plan.listed
  \/ \E row \in RowsOf(plan) :
       \/ Malformed(row)
       \/ Importing(row)
       \/ row.actions \in {"create", "replace", "odd"}

\* Chooses only the page's words, and does not fail closed.
PlanHasImport(plan) == \E row \in RowsOf(plan) : Importing(row)

-----------------------------------------------------------------------------
(* The summary the approval page shows.                                    *)

\* An entry that cannot be read in full, or a data source that is not plainly
\* read, and there is no summary at all: it is never partial.
Unreadable(row) ==
  \/ row.address = "none"
  \/ Malformed(row)
  \/ row.importing = "other"
  \/ row.data /\ (IsMutation(row) \/ Importing(row))

Verb(row) ==
  IF row.actions \in NoOps
  THEN IF Importing(row) THEN "import" ELSE "none"
  ELSE CASE row.actions = "replace" -> "replace"
         [] row.actions = "delete"  -> "destroy"
         [] row.actions = "create"  -> "create"
         [] row.actions = "update"  -> "update"
         [] row.actions = "forget"  -> "forget"
         [] OTHER                   -> "change"

Verbs == {"create", "update", "destroy", "replace", "import", "forget", "change"}

\* The counts are those of the whole plan; only the entries are cut off at 40.
\* An omitted list is an empty plan here, where the denylist refuses it.
Summarizable(plan) ==
  \A row \in RowsOf(plan) : ~Unreadable(row)

CountVerb(plan, verb) ==
  Cardinality({i \in DOMAIN plan.rows : Verb(plan.rows[i]) = verb})

Summary(plan) == [verb \in Verbs |-> CountVerb(plan, verb)]

\* The green line, and the calm framing of an adoption.
AllAccountedSafe(s) ==
  \A verb \in {"destroy", "replace", "forget", "change"} : s[verb] = 0

AdoptOnly(s) == s["import"] > 0 /\ \A verb \in Verbs \ {"import"} : s[verb] = 0

-----------------------------------------------------------------------------
(* The worker's resource-set guard.                                        *)

\* The declarations the worker's pattern finds in its baked tree: those of main,
\* or, when the tree was proven to be the head's, those of the head.  A resource
\* in a module is in neither, and an index is stripped.
DeclaredIn(row, proved) ==
  row.address # "module" /\ row.found /\ (row.known \/ proved)

ImportRefused(row, proved) ==
  \/ row.address = "none"
  \/ row.actions # "no-op"
  \/ row.address = "module"
  \/ row.address = "indexed"
  \/ ~proved
  \/ ~DeclaredIn(row, proved)

ChangeRefused(row, proved) ==
  \/ row.address = "none"
  \/ row.address = "module"
  \/ row.actions = "replace"
  \/ row.actions \in {"create", "odd"} /\ ~proved
  \/ ~DeclaredIn(row, proved)

RowRefused(row, proved) ==
  \/ Malformed(row)
  \/ Importing(row) /\ ImportRefused(row, proved)
  \/ ~Importing(row) /\ IsMutation(row) /\ ChangeRefused(row, proved)

\* proved stands for both flags: the worker raises them together, and only
\* after it has proven its tree to be the one of the approved head.
GuardRefuses(plan, proved) ==
  ~plan.listed \/ \E row \in RowsOf(plan) : RowRefused(row, proved)

=============================================================================
