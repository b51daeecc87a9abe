------------------------------ MODULE StaticGate ------------------------------
(***************************************************************************)
(* The static gate (tools/iac_static_gate.py) that every change to iac/    *)
(* passes before it is planned, and what OpenTofu plans for such a change. *)
(* The editor worker runs the same gate in agent mode before it opens a    *)
(* pull request.                                                           *)
(*                                                                         *)
(* A change is a sequence of changed files.  A file has a class of path, a *)
(* class of text, and at most one construct of each sort the gate looks    *)
(* for; a resource is named by a model of its address.                     *)
(***************************************************************************)
EXTENDS PlanGates, SequencesExt

CONSTANTS Labels,    \* local names of resources
          NoBlock    \* a file without the construct

Paths == {"outside", "foundation", "lockfile", "tf", "doc", "banned"}
Texts == {"gone", "unparsable", "parsed"}
Providers == {"none", "builtin", "google", "spoofed", "foreign"}
\* inline: parsed like any other, but something precedes it on its line.
Forms == {"plain", "counted", "inline", "command", "nested", "dynamic",
          "secretData"}

\* known: main declares the resource already.
Resources == [label : Labels, kind : Kinds, name : Names \ {"none"},
              form : Forms, known : BOOLEAN]

\* to: the label it names, or what the gate cannot resolve.
Imports == [to : Labels \cup {"unparsable", "indexed"}, each : BOOLEAN,
            id : {"literal", "misshaped", "expression", "identity"}]

Files == [path : Paths, text : Texts, provider : Providers, module : BOOLEAN,
          resource : Resources \cup {NoBlock},
          data : {"none", "plain", "foreign"},
          import : Imports \cup {NoBlock}]

-----------------------------------------------------------------------------
(* The gate.                                                               *)

\* A path outside iac/ is out of scope for an operator and forbidden to an
\* agent, and so are the files that set authority and those that OpenTofu
\* loads besides plain .tf files.
PathOffends(mode, f) ==
  mode = "agent" /\ f.path \in {"outside", "foundation", "lockfile", "banned"}

\* The files whose text is read: native syntax under iac/, not deleted.
IsRead(f) == f.path \in {"foundation", "tf"} /\ f.text # "gone"
IsParsed(f) == IsRead(f) /\ f.text = "parsed"

ProviderOffends(f) == f.provider \in {"spoofed", "foreign"}

ModuleOffends(f) == f.module

\* A resource type that exists to run commands, a provisioner or connection at
\* any depth, or a dynamic block that could hide one.
ExecutionOffends(f) ==
  f.resource # NoBlock /\ f.resource.form \in {"command", "nested", "dynamic"}

SecretOffends(mode, f) ==
  /\ mode = "agent"
  /\ f.resource # NoBlock
  /\ \/ f.resource.kind \in {"secret", "version"}
     \/ f.resource.form = "secretData"

DataOffends(f) == f.data = "foreign"

\* The resource blocks of the files that could be parsed; a later file wins.
DeclaredForms(change, label) ==
  {f.resource.form : f \in {g \in ToSet(change) : /\ IsParsed(g)
                                                  /\ g.resource # NoBlock
                                                  /\ g.resource.label = label}}

DeclaredKinds(change, label) ==
  {f.resource.kind : f \in {g \in ToSet(change) : /\ IsParsed(g)
                                                  /\ g.resource # NoBlock
                                                  /\ g.resource.label = label}}

\* An import must be analyzable, of a plain address the same change declares
\* without count or for_each, of an adoptable type, with a literal id.
ImportBlockOffends(change, import) ==
  \/ import.each
  \/ import.to \in {"unparsable", "indexed"}
  \/ /\ import.to \in Labels
     /\ \/ DeclaredKinds(change, import.to) = {}
        \/ ~(DeclaredKinds(change, import.to) \subseteq AdoptableKinds)
        \/ "counted" \in DeclaredForms(change, import.to)
  \/ import.id # "literal"

ImportFiles(change) ==
  {i \in DOMAIN change : IsParsed(change[i]) /\ change[i].import # NoBlock}

ImportsOffend(mode, change) ==
  /\ mode = "agent"
  /\ \/ Cardinality(ImportFiles(change)) > 1
     \/ \E i \in ImportFiles(change) :
          ImportBlockOffends(change, change[i].import)

\* Mutant: the ban on modules is an agent's ban on remote ones only.
ContentWithModules(mode, f) ==
  IsRead(f) /\ \/ f.text = "unparsable"
               \/ ProviderOffends(f)
               \/ ExecutionOffends(f)
               \/ SecretOffends(mode, f)
               \/ DataOffends(f)

ContentOffends(mode, f) ==
  IsRead(f) /\ \/ f.text = "unparsable"
               \/ ProviderOffends(f)
               \/ ModuleOffends(f)
               \/ ExecutionOffends(f)
               \/ SecretOffends(mode, f)
               \/ DataOffends(f)

GateRefuses(mode, change) ==
  \/ \E f \in ToSet(change) : PathOffends(mode, f) \/ ContentOffends(mode, f)
  \/ ImportsOffend(mode, change)

-----------------------------------------------------------------------------
(* What OpenTofu plans for a change: not this repository's code.  A file    *)
(* that is not loaded contributes nothing.                                  *)

IsLoaded(f) == f.path \in {"foundation", "tf"}

ImportedBy(change, label) ==
  \E i \in ImportFiles(change) : change[i].import.to = label

PlannedRow(change, f, drift) ==
  LET r == f.resource
      imported == ImportedBy(change, r.label)
      actions == IF f.text = "gone" THEN "delete"
                 ELSE IF imported THEN IF drift THEN "update" ELSE "no-op"
                 ELSE IF r.known THEN "update" ELSE "create"
  IN [kind |-> r.kind, data |-> FALSE, actions |-> actions,
      address |-> IF f.module THEN "module"
                  ELSE IF r.form = "counted" THEN "indexed" ELSE "plain",
      importing |-> IF imported THEN "object" ELSE "null",
      before |-> IF actions = "create" THEN "none" ELSE r.name,
      after |-> IF actions = "delete" THEN "none" ELSE r.name,
      known |-> r.known, found |-> r.form # "inline"]

\* A resource of main that somebody changed by hand is planned back.
DriftRow == [kind |-> "other", data |-> FALSE, actions |-> "update",
             address |-> "plain", importing |-> "null", before |-> "plain",
             after |-> "plain", known |-> TRUE, found |-> TRUE]

PlanOf(change, drift) ==
  LET planned == SetToSeq({i \in DOMAIN change : /\ IsLoaded(change[i])
                                                 /\ change[i].resource # NoBlock})
  IN [listed |-> TRUE,
      rows |-> [k \in DOMAIN planned |->
                  PlannedRow(change, change[planned[k]], drift)]
               \o (IF drift THEN <<DriftRow>> ELSE <<>>)]

=============================================================================
