--------------------------- MODULE IacReviewProofs ---------------------------
(***************************************************************************)
(* Proofs about the gates of PlanGates and StaticGate, for every plan and  *)
(* every change, and about IacReview, for any changes, faults, brakes and  *)
(* bounds.                                                                 *)
(***************************************************************************)
EXTENDS IacReview, FiniteSetTheorems, TLAPS

-----------------------------------------------------------------------------
(* Finite sets                                                             *)

LEMMA DomainIsFinite ==
  ASSUME NEW S, NEW s \in Seq(S)
  PROVE  /\ DOMAIN s = 1 .. Len(s) /\ Len(s) \in Nat
         /\ \A T \in SUBSET DOMAIN s : IsFiniteSet(T) /\ Cardinality(T) \in Nat
<1>1. DOMAIN s = 1 .. Len(s) /\ Len(s) \in Nat
  OBVIOUS
<1>2. IsFiniteSet(DOMAIN s)
  BY <1>1, FS_Interval
<1> QED
  BY <1>1, <1>2, FS_Subset, FS_CardinalityType

LEMMA SetToSeqType ==
  ASSUME NEW S, IsFiniteSet(S)
  PROVE  SetToSeq(S) \in [1 .. Cardinality(S) -> S] /\ Cardinality(S) \in Nat
<1>1. Cardinality(S) \in Nat /\ ExistsBijection(1 .. Cardinality(S), S)
  BY FS_CardinalityType
<1>2. \E f \in [1 .. Cardinality(S) -> S] : IsInjective(f)
  BY <1>1 DEF ExistsBijection, Bijection, Injection
<1> QED
  BY <1>1, <1>2 DEF SetToSeq

\* A finite set is empty exactly if it counts none.
LEMMA NoneCounted ==
  ASSUME NEW S, IsFiniteSet(S), ~(Cardinality(S) > 0)
  PROVE  S = {}
<1>1. Cardinality(S) = 0
  BY FS_CardinalityType
<1> QED
  BY <1>1, FS_EmptySet

\* Every entry of a concatenation is one of its two halves.
LEMMA ConcatEntries ==
  ASSUME NEW S, NEW s \in Seq(S), NEW t \in Seq(S), NEW k \in DOMAIN (s \o t)
  PROVE  \/ k \in DOMAIN s /\ (s \o t)[k] = s[k]
         \/ k - Len(s) \in DOMAIN t /\ (s \o t)[k] = t[k - Len(s)]
<1>1. k \in 1 .. Len(s) + Len(t) /\ Len(s) \in Nat /\ Len(t) \in Nat
  OBVIOUS
<1>2. CASE k <= Len(s)
  BY <1>1, <1>2
<1>3. CASE k > Len(s)
  BY <1>1, <1>3
<1> QED
  BY <1>1, <1>2, <1>3

-----------------------------------------------------------------------------
(* What the denylist lets pass                                             *)

LEMMA RowsAreTyped ==
  ASSUME NEW plan, plan.rows \in Seq(Rows)
  PROVE  RowsOf(plan) \subseteq Rows
BY DEF RowsOf

\* An entry that breaks no rule creates, updates or does nothing, and touches
\* nothing of the control plane.
LEMMA SoundRow ==
  ASSUME NEW row \in Rows, ~Offends(row)
  PROVE  /\ row.actions \in NoOps \cup {"create", "update"}
         /\ row.actions \notin NoOps \/ row.importing # "null" =>
              /\ row.kind \notin {"iam", "account", "wif"}
              /\ "own" \in {row.before, row.after} => row.kind \in {"topic", "other"}
         /\ row.importing # "null" =>
              row.actions \in NoOps /\ row.kind \in AdoptableKinds
         /\ ~Malformed(row)
<1>1. /\ row.actions \in NoOps \cup {"create", "update"}
      /\ ~Malformed(row)
  BY DEF Offends, FloorOffends, Rows, Actions, KnownActions, Malformed
<1>2. row.importing # "null" => row.actions \in NoOps /\ row.kind \in AdoptableKinds
  BY DEF Offends, ImportOffends, Importing, NoOps
<1>3. row.actions \in KnownActions
  BY <1>1 DEF KnownActions
<1>4. ASSUME row.actions \notin NoOps \/ row.importing # "null"
      PROVE  /\ row.kind \notin {"iam", "account", "wif"}
             /\ "own" \in {row.before, row.after} => row.kind \in {"topic", "other"}
  <2>1. /\ ~ControlPlaneService(row) /\ ~ControlPlaneAccount(row)
        /\ ~ControlPlaneBucket(row) /\ ~ControlPlaneSecret(row)
        /\ ~ControlPlaneKey(row) /\ ~AnyIam(row)
    BY <1>3, <1>4 DEF Offends, IdentityOffends, IsMutation, Importing
  <2>2. row.kind \notin {"iam", "account", "wif"}
    BY <2>1 DEF AnyIam
  <2>3. ASSUME "own" \in {row.before, row.after}
        PROVE  row.kind \in {"topic", "other"}
    BY <2>1, <2>2, <2>3
    DEF ControlPlaneService, ControlPlaneBucket, ControlPlaneSecret,
        ControlPlaneKey, SidesOf, Rows, Kinds
  <2> QED
    BY <2>2, <2>3
<1> QED
  BY <1>1, <1>2, <1>4

\* A plan the denylist does not deny is harmless: of any number of entries,
\* none deletes, replaces, forgets or touches the control plane or IAM, and
\* an adoption comes alone and changes nothing.
THEOREM UndeniedIsHarmless ==
  ASSUME NEW plan, plan.rows \in Seq(Rows), ~Denied(plan)
  PROVE  IsHarmless(plan)
<1> DEFINE adopted == {i \in DOMAIN plan.rows : plan.rows[i].importing # "null"}
           counted == {i \in DOMAIN plan.rows : CountsAsImport(plan.rows[i])}
           others == {i \in DOMAIN plan.rows : CountsAsOther(plan.rows[i])}
<1>1. \A i \in DOMAIN plan.rows : plan.rows[i] \in Rows /\ ~Offends(plan.rows[i])
  BY DEF Denied, RowsOf
<1>2. counted = adopted
  BY <1>1, SoundRow DEF CountsAsImport, Importing
<1>3. /\ ~(Cardinality(counted) > 1)
      /\ Cardinality(counted) > 0 => ~(Cardinality(others) > 0)
  BY DEF Denied, CountRows
<1>4. /\ IsFiniteSet(counted) /\ Cardinality(counted) \in Nat
      /\ IsFiniteSet(others)
  BY DomainIsFinite
<1>5. Cardinality(adopted) <= 1
  <2> HIDE DEF adopted, counted, others
  <2> QED
    BY <1>2, <1>3, <1>4
<1>6. ASSUME adopted # {}
      PROVE  /\ \A row \in RowsOf(plan) : row.actions \in NoOps
             /\ \A i \in adopted : plan.rows[i].kind \in AdoptableKinds
  <2>1. Cardinality(counted) > 0
    BY <1>2, <1>4, <1>6, NoneCounted
  <2>2. others = {}
    BY <1>3, <1>4, <2>1, NoneCounted
  <2>3. ASSUME NEW i \in DOMAIN plan.rows PROVE plan.rows[i].actions \in NoOps
    <3>1. ~CountsAsOther(plan.rows[i])
      BY <2>2
    <3> QED
      BY <1>1, <3>1, SoundRow DEF CountsAsOther, Importing, IsMutation
  <2>4. \A i \in adopted : plan.rows[i].kind \in AdoptableKinds
    BY <1>1, SoundRow
  <2> QED
    BY <2>3, <2>4 DEF RowsOf
<1>7. \A row \in RowsOf(plan) : row \in Rows /\ ~Offends(row)
  BY <1>1 DEF RowsOf
<1> HIDE DEF counted, others
<1> QED
  BY <1>5, <1>6, <1>7, SoundRow DEF IsHarmless

-----------------------------------------------------------------------------
(* What the summary says of a plan that is not denied                      *)

\* Disjoint sets count what their union counts.
LEMMA TwoCounted ==
  ASSUME NEW S, NEW T, IsFiniteSet(S), IsFiniteSet(T), S \cap T = {}
  PROVE  /\ IsFiniteSet(S \cup T)
         /\ Cardinality(S \cup T) = Cardinality(S) + Cardinality(T)
<1>1. Cardinality(S) \in Nat /\ Cardinality(T) \in Nat
  BY FS_CardinalityType
<1>2. Cardinality(S \cap T) = 0
  BY FS_EmptySet
<1>3. IsFiniteSet(S \cup T)
  BY FS_Union
<1>4. Cardinality(S \cup T) = Cardinality(S) + Cardinality(T) - Cardinality(S \cap T)
  BY FS_Union
<1>5. ASSUME NEW m \in Nat, NEW n \in Nat, NEW u, NEW i, u = m + n - i, i = 0
      PROVE  u = m + n
  BY <1>5
<1> QED
  BY <1>1, <1>2, <1>3, <1>4, <1>5

\* So do three.
LEMMA ThreeCounted ==
  ASSUME NEW R, NEW S, NEW T, IsFiniteSet(R), IsFiniteSet(S), IsFiniteSet(T),
         R \cap S = {}, R \cap T = {}, S \cap T = {}
  PROVE  Cardinality(R) + Cardinality(S) + Cardinality(T) =
           Cardinality(R \cup S \cup T)
<1>1. (R \cup S) \cap T = {}
  OBVIOUS
<1>2. /\ IsFiniteSet(R \cup S)
      /\ Cardinality(R \cup S) = Cardinality(R) + Cardinality(S)
  BY TwoCounted
<1>3. Cardinality((R \cup S) \cup T) = Cardinality(R \cup S) + Cardinality(T)
  BY <1>1, <1>2, TwoCounted
<1> QED
  BY <1>2, <1>3

\* The summary's word for an entry that breaks no rule.
LEMMA SoundVerb ==
  ASSUME NEW row \in Rows, ~Offends(row)
  PROVE  /\ Verb(row) \in {"none", "create", "update", "import"}
         /\ Verb(row) = "none" <=> row.actions \in NoOps /\ row.importing = "null"
         /\ Verb(row) = "import" <=> row.importing # "null"
         /\ Verb(row) = "create" <=> row.actions = "create"
         /\ ~Malformed(row) /\ row.actions \notin {"replace", "odd"}
<1>1. /\ row.actions \in NoOps \cup {"create", "update"} /\ ~Malformed(row)
      /\ row.importing # "null" => row.actions \in NoOps
  BY SoundRow
<1>2. CASE row.actions \in NoOps
  BY <1>1, <1>2 DEF Verb, Importing, NoOps
<1>3. CASE row.actions \notin NoOps
  BY <1>1, <1>3 DEF Verb, Importing, NoOps
<1> QED
  BY <1>2, <1>3

\* The page's summary of a plan that is not denied leaves out nothing that the
\* apply would act on, and uses no word for what it does not do.
LEMMA SummaryIsComplete ==
  ASSUME NEW plan, plan.rows \in Seq(Rows), ~Denied(plan),
         NEW s, s = Summary(plan)
  PROVE  /\ AllAccountedSafe(s)
         /\ s["create"] + s["update"] + s["import"] =
              Cardinality({i \in DOMAIN plan.rows :
                             \/ plan.rows[i].actions \notin NoOps
                             \/ plan.rows[i].importing # "null"})
         /\ PlanHasCreate(plan) <=> s["create"] + s["import"] > 0
         /\ AdoptOnly(s) => /\ s["import"] = 1
                            /\ PlanHasImport(plan)
                            /\ \A row \in RowsOf(plan) : row.actions \in NoOps
<1> DEFINE Of(verb) == {i \in DOMAIN plan.rows : Verb(plan.rows[i]) = verb}
           touched == {i \in DOMAIN plan.rows : \/ plan.rows[i].actions \notin NoOps
                                               \/ plan.rows[i].importing # "null"}
<1>1. \A i \in DOMAIN plan.rows :
        /\ plan.rows[i] \in Rows /\ ~Offends(plan.rows[i])
        /\ plan.rows[i] \in RowsOf(plan)
  BY DEF Denied, RowsOf
<1>2. \A i \in DOMAIN plan.rows :
        LET row == plan.rows[i]
        IN /\ Verb(row) \in {"none", "create", "update", "import"}
           /\ Verb(row) = "none" <=> row.actions \in NoOps /\ row.importing = "null"
           /\ Verb(row) = "import" <=> row.importing # "null"
           /\ Verb(row) = "create" <=> row.actions = "create"
           /\ ~Malformed(row) /\ row.actions \notin {"replace", "odd"}
  BY <1>1, SoundVerb
<1>3. \A verb \in Verbs : s[verb] = Cardinality(Of(verb))
  BY DEF Summary, CountVerb
<1>4. \A T \in SUBSET DOMAIN plan.rows : IsFiniteSet(T) /\ Cardinality(T) \in Nat
  BY DomainIsFinite
<1>5. \A verb : IsFiniteSet(Of(verb)) /\ Cardinality(Of(verb)) \in Nat
  BY <1>4
<1>6. AllAccountedSafe(s)
  <2>1. ASSUME NEW verb \in {"destroy", "replace", "forget", "change"}
        PROVE  s[verb] = 0
    <3>1. Of(verb) = {}
      BY <1>2, <2>1
    <3>2. s[verb] = Cardinality(Of(verb))
      BY <1>3, <2>1 DEF Verbs
    <3> QED
      BY <3>1, <3>2, FS_EmptySet
  <2> QED
    BY <2>1 DEF AllAccountedSafe
<1>7. /\ s["create"] = Cardinality(Of("create"))
      /\ s["update"] = Cardinality(Of("update"))
      /\ s["import"] = Cardinality(Of("import"))
  BY <1>3 DEF Verbs
<1>8. s["create"] + s["update"] + s["import"] = Cardinality(touched)
  <2>1. touched = Of("create") \cup Of("update") \cup Of("import")
    BY <1>2
  <2>2. /\ Of("create") \cap Of("update") = {} /\ Of("create") \cap Of("import") = {}
        /\ Of("update") \cap Of("import") = {}
    OBVIOUS
  <2> HIDE DEF Of, touched
  <2> QED
    BY <1>5, <1>7, <2>1, <2>2, ThreeCounted
<1>9. \A verb : Cardinality(Of(verb)) > 0 <=> Of(verb) # {}
  <2> SUFFICES ASSUME NEW verb
               PROVE  Cardinality(Of(verb)) > 0 <=> Of(verb) # {}
    OBVIOUS
  <2>1. Cardinality(Of(verb)) = 0 <=> Of(verb) = {}
    BY <1>5, FS_EmptySet
  <2> HIDE DEF Of
  <2> QED
    BY <1>5, <2>1
<1>10. PlanHasCreate(plan) <=> s["create"] + s["import"] > 0
  <2>1. s["create"] + s["import"] > 0 <=> Of("create") # {} \/ Of("import") # {}
    <3> HIDE DEF Of
    <3> QED
      BY <1>5, <1>7, <1>9
  <2>2. plan.listed
    BY DEF Denied
  <2>3. PlanHasCreate(plan) <=>
          \E i \in DOMAIN plan.rows : \/ plan.rows[i].importing # "null"
                                      \/ plan.rows[i].actions = "create"
    BY <1>2, <2>2 DEF PlanHasCreate, RowsOf, Importing
  <2> QED
    BY <1>2, <2>1, <2>3
<1>11. ASSUME AdoptOnly(s)
       PROVE  /\ s["import"] = 1 /\ PlanHasImport(plan)
              /\ \A row \in RowsOf(plan) : row.actions \in NoOps
  <2>1. Of("import") # {} /\ Cardinality(Of("import")) > 0
    BY <1>7, <1>9, <1>11 DEF AdoptOnly
  <2>2. Of("create") = {} /\ Of("update") = {}
    <3>1. s["create"] = 0 /\ s["update"] = 0
      BY <1>11 DEF AdoptOnly, Verbs
    <3> HIDE DEF Of
    <3> QED
      BY <1>5, <1>7, <1>9, <3>1
  <2>3. Of("import") = {i \in DOMAIN plan.rows : CountsAsImport(plan.rows[i])}
    BY <1>2 DEF CountsAsImport, Importing
  <2>4. ~(Cardinality(Of("import")) > 1)
    BY <2>3 DEF Denied, CountRows
  <2>5. s["import"] = 1
    <3> HIDE DEF Of
    <3> QED
      BY <1>5, <1>7, <2>1, <2>4
  <2>6. PlanHasImport(plan)
    BY <1>1, <1>2, <2>1 DEF PlanHasImport, Importing
  <2>7. \A i \in DOMAIN plan.rows : plan.rows[i].actions \in NoOps
    <3>1. \A i \in DOMAIN plan.rows : Verb(plan.rows[i]) \in {"none", "import"}
      BY <1>2, <2>2
    <3> QED
      BY <1>1, <1>2, <3>1, SoundRow
  <2> QED
    BY <2>5, <2>6, <2>7 DEF RowsOf
<1> QED
  BY <1>6, <1>8, <1>10, <1>11

-----------------------------------------------------------------------------
(* What a gated change is planned to                                       *)

\* The files of a change that are planned.
Loaded(change) == {i \in DOMAIN change : /\ IsLoaded(change[i])
                                         /\ change[i].resource # NoBlock}

LEMMA PlannedRowType ==
  ASSUME NEW change, NEW f \in Files, f.resource # NoBlock, NEW d \in BOOLEAN
  PROVE  PlannedRow(change, f, d) \in Rows
<1> DEFINE r == f.resource
           actions == IF f.text = "gone" THEN "delete"
                      ELSE IF ImportedBy(change, r.label)
                           THEN IF d THEN "update" ELSE "no-op"
                      ELSE IF r.known THEN "update" ELSE "create"
           address == IF f.module THEN "module"
                      ELSE IF r.form = "counted" THEN "indexed" ELSE "plain"
           importing == IF ImportedBy(change, r.label) THEN "object" ELSE "null"
<1>1. r \in Resources
  BY DEF Files
<1>2. actions \in Actions
  BY DEF Actions, KnownActions, NoOps
<1>3. address \in Addresses
  BY DEF Addresses
<1>4. importing \in {"null", "object", "other"}
  OBVIOUS
<1>5. r.kind \in Kinds /\ r.name \in Names /\ r.known \in BOOLEAN
  BY <1>1 DEF Resources
<1>6. PlannedRow(change, f, d) =
        [kind |-> r.kind, data |-> FALSE, actions |-> actions,
         address |-> address, importing |-> importing,
         before |-> IF actions = "create" THEN "none" ELSE r.name,
         after |-> IF actions = "delete" THEN "none" ELSE r.name,
         known |-> r.known, found |-> r.form # "inline"]
  BY DEF PlannedRow
<1>7. "none" \in Names
  BY DEF Names
<1>8. (r.form # "inline") \in BOOLEAN
  OBVIOUS
<1> HIDE DEF actions, address, importing, r
<1> QED
  BY <1>2, <1>3, <1>4, <1>5, <1>6, <1>7, <1>8 DEF Rows

\* The entries of a plan are those of the loaded files and the drift.
LEMMA PlanRows ==
  ASSUME NEW change \in Seq(Files), NEW d \in BOOLEAN
  PROVE  /\ PlanOf(change, d).listed
         /\ PlanOf(change, d).rows \in Seq(Rows)
         /\ \A row \in RowsOf(PlanOf(change, d)) :
              \/ row = DriftRow
              \/ \E i \in Loaded(change) :
                   row = PlannedRow(change, change[i], d)
<1> DEFINE L == Loaded(change)
           planned == SetToSeq(L)
           fromFiles == [k \in DOMAIN planned |->
                           PlannedRow(change, change[planned[k]], d)]
           fromDrift == IF d THEN <<DriftRow>> ELSE <<>>
           rows == fromFiles \o fromDrift
<1>1. IsFiniteSet(L)
  BY DomainIsFinite DEF Loaded
<1>2. planned \in [1 .. Cardinality(L) -> L] /\ Cardinality(L) \in Nat
  BY <1>1, SetToSeqType
<1>3. \A i \in L : PlannedRow(change, change[i], d) \in Rows
  BY PlannedRowType DEF Loaded
<1>4. /\ DOMAIN planned = 1 .. Cardinality(L)
      /\ \A k \in DOMAIN planned : planned[k] \in L
  BY <1>2
<1>5. fromFiles \in Seq(Rows) /\ DOMAIN fromFiles = 1 .. Cardinality(L)
  <2> HIDE DEF L, planned
  <2> QED
    BY <1>2, <1>3, <1>4
<1>6. fromDrift \in Seq(Rows) /\ \A k \in DOMAIN fromDrift : fromDrift[k] = DriftRow
  <2>1. DriftRow \in Rows
    BY DEF DriftRow, Rows, Kinds, Actions, KnownActions, Addresses, Names
  <2> QED
    BY <2>1
<1>7. PlanOf(change, d) = [listed |-> TRUE, rows |-> rows]
  BY DEF PlanOf, Loaded
<1>8. \A k \in DOMAIN fromFiles : \E i \in L :
        fromFiles[k] = PlannedRow(change, change[i], d)
  BY <1>4
<1> HIDE DEF L, fromFiles, fromDrift
<1>9. rows \in Seq(Rows)
  BY <1>5, <1>6
<1>10. \A k \in DOMAIN rows :
         \/ rows[k] = DriftRow
         \/ \E i \in L : rows[k] = PlannedRow(change, change[i], d)
  <2> SUFFICES ASSUME NEW k \in DOMAIN rows
               PROVE  \/ rows[k] = DriftRow
                      \/ \E i \in L : rows[k] = PlannedRow(change, change[i], d)
    OBVIOUS
  <2>1. CASE k \in DOMAIN fromFiles /\ rows[k] = fromFiles[k]
    BY <1>8, <2>1
  <2>2. CASE \E j \in DOMAIN fromDrift : rows[k] = fromDrift[j]
    BY <1>6, <2>2
  <2> QED
    BY <1>5, <1>6, <2>1, <2>2, ConcatEntries
<1> HIDE DEF rows
<1> QED
  BY <1>7, <1>9, <1>10 DEF RowsOf, L

\* A file that passes the agent's gate is read if it is planned and not
\* deleted, and is no module then.
LEMMA GatedFile ==
  ASSUME NEW change \in Seq(Files), ~GateRefuses("agent", change),
         NEW i \in Loaded(change), change[i].text # "gone"
  PROVE  /\ change[i] \in Files /\ IsParsed(change[i])
         /\ ~change[i].module
         /\ change[i].resource \in Resources
         /\ ImportedBy(change, change[i].resource.label) =>
              change[i].resource.form # "counted"
<1> DEFINE f == change[i]
<1>1. i \in DOMAIN change /\ f \in Files /\ f \in ToSet(change)
      /\ IsLoaded(f) /\ f.resource # NoBlock
  BY DEF Loaded, ToSet
<1>2. ~ContentOffends("agent", f)
  BY <1>1 DEF GateRefuses
<1>3. IsRead(f)
  BY <1>1 DEF IsLoaded, IsRead
<1>4. f.text = "parsed" /\ ~f.module
  BY <1>1, <1>2, <1>3 DEF ContentOffends, ModuleOffends, Files, Texts
<1>5. f.resource \in Resources /\ f.resource.label \in Labels
  BY <1>1 DEF Files, Resources
<1>6. ASSUME ImportedBy(change, f.resource.label), f.resource.form = "counted"
      PROVE  FALSE
  <2>1. PICK j \in ImportFiles(change) : change[j].import.to = f.resource.label
    BY <1>6 DEF ImportedBy
  <2>2. ~ImportBlockOffends(change, change[j].import)
    BY DEF GateRefuses, ImportsOffend
  <2>3. "counted" \notin DeclaredForms(change, f.resource.label)
    BY <1>5, <2>1, <2>2 DEF ImportBlockOffends
  <2>4. "counted" \in DeclaredForms(change, f.resource.label)
    BY <1>1, <1>3, <1>4, <1>6 DEF DeclaredForms, IsParsed
  <2> QED
    BY <2>3, <2>4
<1> QED
  BY <1>1, <1>3, <1>4, <1>5, <1>6 DEF IsParsed

\* What the agent's gate and the denylist let pass, the worker's resource-set
\* guard does not refuse once it has proven its tree to be the head's, if its
\* pattern finds every declaration: for a change of any number of files, with
\* drift or without.
THEOREM GatedPlansPassTheGuard ==
  ASSUME NEW change \in Seq(Files), NEW d \in BOOLEAN,
         ~GateRefuses("agent", change), ~Denied(PlanOf(change, d)),
         AllFound(PlanOf(change, d))
  PROVE  ~GuardRefuses(PlanOf(change, d), TRUE)
<1> DEFINE plan == PlanOf(change, d)
<1>1. plan.listed /\ plan.rows \in Seq(Rows)
  BY PlanRows
<1>2. ASSUME NEW row \in RowsOf(plan)
      PROVE  ~RowRefused(row, TRUE)
  <2>1. row \in Rows /\ ~Offends(row) /\ row.found
    BY <1>1, RowsAreTyped DEF Denied, AllFound
  <2>2. /\ row.actions \in NoOps \cup {"create", "update"} /\ ~Malformed(row)
        /\ row.importing # "null" => row.actions = "no-op"
    <3>1. row.importing # "null" => ~ImportOffends(row)
      BY <2>1 DEF Offends
    <3> QED
      BY <2>1, <3>1, SoundRow DEF ImportOffends, Importing
  <2>3. CASE row = DriftRow
    BY <2>1, <2>2, <2>3 DEF DriftRow, RowRefused, Importing, ChangeRefused, DeclaredIn
  <2>4. ASSUME NEW i \in Loaded(change), row = PlannedRow(change, change[i], d)
        PROVE  ~RowRefused(row, TRUE)
    <3>1. change[i].text # "gone"
      <4>1. change[i].text = "gone" => row.actions = "delete"
        BY <2>4 DEF PlannedRow
      <4> QED
        BY <2>2, <4>1 DEF NoOps
    <3>2. /\ ~change[i].module
          /\ ImportedBy(change, change[i].resource.label) =>
               change[i].resource.form # "counted"
      BY <3>1, GatedFile
    <3>3. /\ row.address \notin {"none", "module"}
          /\ row.importing # "null" => row.address = "plain"
      BY <2>4, <3>2 DEF PlannedRow
    <3> QED
      BY <2>1, <2>2, <3>3 DEF RowRefused, ImportRefused, ChangeRefused, DeclaredIn,
         Importing, IsMutation, NoOps
  <2> QED
    BY <2>3, <2>4, PlanRows
<1> QED
  BY <1>1, <1>2 DEF GuardRefuses

-----------------------------------------------------------------------------
(* The inductive invariant of IacReview                                    *)

Artifacts == [head : Nat, fault : Faults, pin : Nat,
              plan : {PlanOf(c, d) : c \in Changes, d \in BOOLEAN}]

Shape ==
  /\ content \in Seq(Changes)
  /\ pr \in [state : PullStates, head : DOMAIN content]
  /\ builds \in Seq(Artifacts) /\ Len(builds) <= MaxBuilds
  /\ run \in [build : 0 .. Len(builds), checked : BOOLEAN]
  /\ run.checked => run.build # 0
  /\ comments \in Seq(Nat)
  /\ decided \in [Builds -> Decisions]
  /\ tokens \subseteq DOMAIN builds
  /\ seen \subseteq (DOMAIN builds) \X (0 .. MaxHeads)
  /\ source \in 0 .. Len(content)
  /\ posted \in 0 .. Len(builds)
  /\ applied \subseteq DOMAIN builds

\* Every comment names a build.
CommentsName == \A i \in DOMAIN comments : comments[i] \in DOMAIN builds

\* A build is the plan of a change that passed the agent's gate.
BuiltGated ==
  \A b \in DOMAIN builds :
    /\ builds[b].head \in DOMAIN content
    /\ ~GateRefuses("agent", content[builds[b].head])
    /\ \E d \in BOOLEAN : builds[b].plan = PlanOf(content[builds[b].head], d)

\* A form's token, and a POST, stand for a page somebody was shown.
TokensAreSeen == \A b \in tokens : \E view \in seen : view[1] = b

\* What was shown, is posted, waits or is applied is not denied, and what waits
\* creates.
PastTheGates ==
  /\ \A view \in seen : ~DenylistViolated(view[1])
  /\ posted # 0 => ~DenylistViolated(posted)
  /\ \A b \in Builds : decided[b] \in {"waiting_pending", "waiting_merged"} =>
       b \in DOMAIN builds /\ HasCreate(b) /\ ~DenylistViolated(b)
  /\ \A b \in applied : ~Denied(builds[b].plan)

\* Pins only move on, a tree is baked in only when it is merged, and nothing is
\* built any more then: no build has a later pin than the worker that holds it.
PinsInOrder ==
  /\ pin \in DOMAIN Versions
  /\ bakedPin \in 1 .. pin
  /\ baked \in 0 .. Len(content)
  /\ \A b \in DOMAIN builds : builds[b].pin \in 1 .. pin
  /\ baked # 0 => /\ pr.state = "merged"
                  /\ \A b \in DOMAIN builds : builds[b].pin <= bakedPin

IInv == /\ Shape
        /\ CommentsName
        /\ BuiltGated
        /\ TokensAreSeen
        /\ SawWhatApplies
        /\ PastTheGates
        /\ PinsInOrder

-----------------------------------------------------------------------------
(* Steps that add no head and no build                                     *)

LEMMA LatestIsBuilt ==
  ASSUME CommentsName, Latest # 0
  PROVE  Latest \in DOMAIN builds
<1> DEFINE parsed == {i \in DOMAIN comments : Parses(comments[i])}
           newest == CHOOSE i \in parsed : \A j \in parsed : j <= i
<1>1. \E i \in parsed : \A j \in parsed : j <= i
  BY DEF Latest
<1>2. newest \in parsed
  BY <1>1
<1> QED
  BY <1>1, <1>2 DEF Latest, CommentsName

LEMMA InitInv ==
  ASSUME Init
  PROVE  IInv
<1>1. PICK c \in Changes : content = <<c>>
  BY DEF Init
<1>2. content \in Seq(Changes) /\ DOMAIN content = {1} /\ Len(content) = 1
  BY <1>1
<1>3. Shape
  <2>1. pr \in [state : PullStates, head : DOMAIN content]
    BY <1>2 DEF Init, PullStates
  <2>2. /\ builds \in Seq(Artifacts) /\ Len(builds) = 0 /\ 0 <= MaxBuilds
        /\ comments \in Seq(Nat)
    BY BoundAssumption DEF Init
  <2>3. /\ run \in [build : {0}, checked : BOOLEAN] /\ ~run.checked
        /\ decided \in [Builds -> Decisions]
        /\ tokens = {} /\ seen = {} /\ applied = {}
        /\ source = 0 /\ posted = 0
    BY DEF Init, Decisions
  <2> QED
    BY <1>2, <2>1, <2>2, <2>3 DEF Shape
<1>4. DOMAIN builds = {} /\ DOMAIN comments = {}
  BY DEF Init
<1>5. CommentsName /\ BuiltGated /\ TokensAreSeen /\ SawWhatApplies
  BY <1>4 DEF Init, CommentsName, BuiltGated, TokensAreSeen, SawWhatApplies
<1>6. PastTheGates
  BY DEF Init, PastTheGates
<1>7. PinsInOrder
  <2>1. 1 \in DOMAIN Versions
    BY PinAssumption
  <2> QED
    BY <1>2, <1>4, <2>1 DEF Init, PinsInOrder
<1> QED
  BY <1>3, <1>5, <1>6, <1>7 DEF IInv

-----------------------------------------------------------------------------
(* Heads, builds and comments                                              *)

\* No step changes a head or a build that is there.
LEMMA HistoryStands ==
  ASSUME IInv, [Next]_vars
  PROVE  /\ \A h \in DOMAIN content : h \in DOMAIN content' /\ content'[h] = content[h]
         /\ \A b \in DOMAIN builds : b \in DOMAIN builds' /\ builds'[b] = builds[b]
         /\ content' \in Seq(Changes) /\ Len(content') >= Len(content)
         /\ Len(builds') >= Len(builds)
<1>0. content \in Seq(Changes) /\ builds \in Seq(Artifacts)
  BY DEF IInv, Shape
<1>1. CASE UNCHANGED <<content, builds>>
  BY <1>0, <1>1
<1>2. ASSUME NEW c \in Changes, Push(c)
      PROVE  content' = Append(content, c) /\ builds' = builds
  BY <1>2 DEF Push, builder
<1>3. ASSUME NEW f \in Faults, NEW drift \in BOOLEAN, Build(f, drift)
      PROVE  content' = content /\ \E x : builds' = Append(builds, x)
  BY <1>3 DEF Build, world
<1>4. \/ UNCHANGED <<content, builds>>
      \/ \E c \in Changes : Push(c)
      \/ \E f \in Faults, drift \in BOOLEAN : Build(f, drift)
  BY DEF Next, Move, Rebake, Bump, SetBrakes, Recheck, Comment, Get,
         ShowSource, Expire, Submit, MergeFirst, ApplyFirst, Resume, MergeOnly,
         TurnedAway, vars, world, builder
<1>5. ASSUME NEW c \in Changes, Push(c)
      PROVE  /\ \A h \in DOMAIN content :
                  h \in DOMAIN content' /\ content'[h] = content[h]
             /\ content' \in Seq(Changes) /\ Len(content') >= Len(content)
  BY <1>0, <1>2, <1>5
<1>6. ASSUME NEW f \in Faults, NEW drift \in BOOLEAN, Build(f, drift)
      PROVE  /\ \A b \in DOMAIN builds :
                  b \in DOMAIN builds' /\ builds'[b] = builds[b]
             /\ Len(builds') >= Len(builds)
  BY <1>0, <1>3, <1>6
<1> QED
  BY <1>0, <1>1, <1>2, <1>3, <1>4, <1>5, <1>6

LEMMA BuiltStep ==
  ASSUME IInv, [Next]_vars
  PROVE  BuiltGated'
<1>1. CASE builds' = builds
  BY <1>1, HistoryStands DEF IInv, BuiltGated
<1>2. ASSUME NEW f \in Faults, NEW drift \in BOOLEAN, Build(f, drift) PROVE BuiltGated'
  <2> DEFINE x == [head |-> pr.head, fault |-> f, pin |-> pin,
                   plan |-> PlanOf(content[pr.head], drift)]
  <2>1. /\ builds \in Seq(Artifacts) /\ builds' = Append(builds, x)
        /\ content' = content /\ ~GateRefuses("agent", content[pr.head])
        /\ pr.head \in DOMAIN content
    BY <1>2 DEF Build, IInv, Shape, world
  <2>2. \A b \in DOMAIN builds' :
          \/ builds'[b] = x
          \/ b \in DOMAIN builds /\ builds'[b] = builds[b]
    <3> HIDE DEF x
    <3> QED
      BY <2>1
  <2> QED
    BY <2>1, <2>2 DEF IInv, BuiltGated
<1>3. builds' = builds \/ \E f \in Faults, drift \in BOOLEAN : Build(f, drift)
  BY DEF Next, Push, Move, Rebake, Bump, SetBrakes, Recheck, Comment,
         Get, ShowSource, Expire, Submit, MergeFirst, ApplyFirst, Resume,
         MergeOnly, TurnedAway, vars, world, builder
<1> QED
  BY <1>1, <1>2, <1>3

LEMMA CommentStep ==
  ASSUME IInv, [Next]_vars
  PROVE  CommentsName' /\ comments' \in Seq(Nat)
<1>0. comments \in Seq(Nat) /\ CommentsName
  BY DEF IInv, Shape
<1>1. CASE comments' = comments
  BY <1>0, <1>1, HistoryStands DEF CommentsName
<1>2. CASE Comment
  <2>1. run.build \in DOMAIN builds /\ run.build \in Nat
    BY <1>2 DEF Comment, IInv, Shape
  <2>2. comments' = Append(comments, run.build) /\ builds' = builds
    BY <1>2 DEF Comment
  <2> QED
    BY <1>0, <2>1, <2>2 DEF CommentsName
<1>3. comments' = comments \/ Comment
  BY DEF Next, Push, Move, Rebake, Bump, SetBrakes, Build, Recheck,
         Get, ShowSource, Expire, Submit, MergeFirst, ApplyFirst, Resume,
         MergeOnly, TurnedAway, vars, world, builder
<1> QED
  BY <1>1, <1>2, <1>3

-----------------------------------------------------------------------------
(* The desk                                                                *)

\* What the desk keeps.
DeskShape ==
  /\ decided \in [Builds -> Decisions]
  /\ tokens \subseteq DOMAIN builds
  /\ seen \subseteq (DOMAIN builds) \X (0 .. MaxHeads)
  /\ source \in 0 .. Len(content)
  /\ posted \in 0 .. Len(builds)
  /\ applied \subseteq DOMAIN builds

DeskInv == DeskShape /\ TokensAreSeen /\ SawWhatApplies /\ PastTheGates

LEMMA BuildsAreCounted ==
  ASSUME IInv
  PROVE  /\ DOMAIN builds = 1 .. Len(builds) /\ Len(builds) \in Nat
         /\ DOMAIN builds \subseteq Builds
         /\ DOMAIN content = 1 .. Len(content) /\ Len(content) \in Nat
<1>1. /\ builds \in Seq(Artifacts) /\ Len(builds) <= MaxBuilds
      /\ content \in Seq(Changes)
  BY DEF IInv, Shape
<1>2. /\ DOMAIN builds = 1 .. Len(builds) /\ Len(builds) \in Nat
      /\ DOMAIN content = 1 .. Len(content) /\ Len(content) \in Nat
  BY <1>1
<1> QED
  BY <1>1, <1>2, BoundAssumption DEF Builds

\* The steps of the world and of the builder leave the desk in order.
LEMMA DeskStands ==
  ASSUME IInv, [Next]_vars, UNCHANGED desk
  PROVE  DeskInv'
<1>1. /\ \A b \in DOMAIN builds : b \in DOMAIN builds' /\ builds'[b] = builds[b]
      /\ Len(content') >= Len(content) /\ Len(builds') >= Len(builds)
      /\ Len(content') \in Nat /\ Len(builds') \in Nat
      /\ Len(content) \in Nat /\ Len(builds) \in Nat
  <2>1. content' \in Seq(Changes)
    BY HistoryStands
  <2>2. \/ builds' = builds
        \/ \E f \in Faults, drift \in BOOLEAN : \E x : Build(f, drift) /\ builds' = Append(builds, x)
    BY DEF Next, Push, Move, Rebake, Bump, SetBrakes, Build, Recheck,
       Comment, Get, ShowSource, Expire, Submit, MergeFirst, ApplyFirst, Resume,
       MergeOnly, TurnedAway, vars, world, builder
  <2>3. builds \in Seq(Artifacts)
    BY DEF IInv, Shape
  <2>4. Len(builds') \in Nat
    BY <2>2, <2>3
  <2> QED
    BY <2>1, <2>4, HistoryStands, BuildsAreCounted
<1>2. UNCHANGED <<decided, tokens, source, seen, posted, applied>>
  BY DEF desk
<1>3. /\ decided \in [Builds -> Decisions]
      /\ tokens \subseteq DOMAIN builds
      /\ seen \subseteq (DOMAIN builds) \X (0 .. MaxHeads)
      /\ source \in 0 .. Len(content)
      /\ posted \in 0 .. Len(builds)
      /\ applied \subseteq DOMAIN builds
  BY DEF IInv, Shape
<1>4. DeskShape'
  <2>1. DOMAIN builds \subseteq DOMAIN builds'
    BY <1>1
  <2>2. source \in 0 .. Len(content') /\ posted \in 0 .. Len(builds')
    BY <1>1, <1>3
  <2> QED
    BY <1>2, <1>3, <2>1, <2>2 DEF DeskShape
<1>5. TokensAreSeen'
  BY <1>2 DEF IInv, TokensAreSeen
<1>6. SawWhatApplies'
  <2>1. \A view \in seen : view[1] \in DOMAIN builds
    BY <1>3
  <2> QED
    BY <1>1, <1>2, <2>1 DEF IInv, SawWhatApplies
<1>7. PastTheGates'
  <2>1. posted # 0 => posted \in DOMAIN builds
    BY <1>3, BuildsAreCounted
  <2>2. \A b \in DOMAIN builds : /\ HasCreate(b)' <=> HasCreate(b)
                                 /\ DenylistViolated(b)' <=> DenylistViolated(b)
    BY <1>1 DEF HasCreate, DenylistViolated
  <2> QED
    BY <1>1, <1>2, <1>3, <2>1, <2>2 DEF IInv, PastTheGates
<1> QED
  BY <1>4, <1>5, <1>6, <1>7 DEF DeskInv

LEMMA SourceFacts ==
  ASSUME IInv, NEW b \in DOMAIN builds, NEW shown, NEW force \in BOOLEAN,
         ResolveSource(builds[b].head, shown, force)
  PROVE  /\ shown \in {0, builds[b].head}
         /\ source' \in 0 .. Len(content)
<1>1. builds[b].head \in 0 .. Len(content) /\ source \in 0 .. Len(content)
  BY BuildsAreCounted DEF IInv, BuiltGated, Shape
<1> QED
  BY <1>1 DEF ResolveSource, CacheHits

LEMMA GetDesk ==
  ASSUME IInv, NEW known \in BOOLEAN, NEW answered \in BOOLEAN,
         NEW shown \in 0 .. MaxHeads, Get(known, answered, shown)
  PROVE  DeskInv'
<1> DEFINE b == Latest
<1>1. /\ UNCHANGED <<world, builder, decided, posted, applied>>
      /\ tokens' = tokens \cup {b} /\ seen' = seen \cup {<<b, shown>>}
      /\ b # 0
  BY DEF Get, Offers
<1>2. b \in DOMAIN builds
  BY <1>1, LatestIsBuilt DEF IInv
<1>3. shown \in {0, builds[b].head} /\ source' \in 0 .. Len(content)
  BY <1>2, SourceFacts DEF Get
<1>4. UNCHANGED <<builds, content>>
  BY <1>1 DEF world, builder
<1> HIDE DEF b
<1>5. DeskShape'
  BY <1>1, <1>2, <1>3, <1>4 DEF IInv, Shape, DeskShape
<1>6. TokensAreSeen'
  <2>1. <<b, shown>> \in seen' /\ <<b, shown>>[1] = b
    BY <1>1
  <2>2. \A x \in tokens : \E view \in seen' : view[1] = x
    BY <1>1 DEF IInv, TokensAreSeen
  <2>3. \A x \in tokens' : \E view \in seen' : view[1] = x
    BY <1>1, <2>1, <2>2
  <2> QED
    BY <2>3 DEF TokensAreSeen
<1>7. SawWhatApplies'
  BY <1>1, <1>3, <1>4 DEF IInv, SawWhatApplies
<1>8. PastTheGates'
  <2>1. ~DenylistViolated(b)
    BY DEF Get, Offers, ArtifactSound, b
  <2>2. \A view \in seen' : ~DenylistViolated(view[1])
    BY <1>1, <2>1 DEF IInv, PastTheGates
  <2> QED
    BY <1>1, <1>4, <2>2 DEF IInv, PastTheGates, DenylistViolated, HasCreate
<1> QED
  BY <1>5, <1>6, <1>7, <1>8 DEF DeskInv

LEMMA PageDesk ==
  ASSUME IInv,
         \/ \E force \in BOOLEAN : ShowSource(force)
         \/ \E b \in Builds : Expire(b)
  PROVE  DeskInv'
<1>1. /\ UNCHANGED <<builds, content, decided, seen, posted, applied>>
      /\ tokens' \subseteq tokens
  BY DEF ShowSource, Expire, world, builder
<1>2. source' \in 0 .. Len(content)
  <2>1. ASSUME NEW force \in BOOLEAN, ShowSource(force)
        PROVE  source' \in 0 .. Len(content)
    <3>1. PICK shown \in 0 .. MaxHeads :
            ResolveSource(builds[Latest].head, shown, force)
      BY <2>1 DEF ShowSource
    <3>2. Latest \in DOMAIN builds
      BY <2>1, LatestIsBuilt DEF IInv, ShowSource
    <3> QED
      BY <3>1, <3>2, SourceFacts
  <2>2. ASSUME NEW b \in Builds, Expire(b) PROVE source' \in 0 .. Len(content)
    BY <2>2 DEF Expire, IInv, Shape
  <2> QED
    BY <2>1, <2>2
<1>3. DeskShape'
  BY <1>1, <1>2 DEF IInv, Shape, DeskShape
<1>4. TokensAreSeen' /\ SawWhatApplies'
  BY <1>1 DEF IInv, TokensAreSeen, SawWhatApplies
<1>5. PastTheGates'
  BY <1>1 DEF IInv, PastTheGates, DenylistViolated, HasCreate
<1> QED
  BY <1>3, <1>4, <1>5 DEF DeskInv

LEMMA SubmitDesk ==
  ASSUME IInv, NEW b \in Builds, NEW o \in Origins, Submit(b, o)
  PROVE  DeskInv'
<1>1. /\ UNCHANGED <<builds, content, decided, tokens, source, seen, applied>>
      /\ posted' = b /\ b = Latest /\ b \in tokens /\ ~DenylistViolated(b)
  BY DEF Submit, Admits, Pins, ArtifactSound, world, builder
<1>2. b \in 0 .. Len(builds)
  BY <1>1, BuildsAreCounted DEF IInv, Shape
<1>3. DeskShape'
  BY <1>1, <1>2 DEF IInv, Shape, DeskShape
<1>4. TokensAreSeen' /\ SawWhatApplies'
  BY <1>1 DEF IInv, TokensAreSeen, SawWhatApplies
<1>5. PastTheGates'
  BY <1>1 DEF IInv, PastTheGates, DenylistViolated, HasCreate
<1> QED
  BY <1>3, <1>4, <1>5 DEF DeskInv

\* The effect of a POST: it records a decision, and may have applied.
LEMMA EffectDesk ==
  ASSUME IInv, posted # 0, posted' = 0,
         UNCHANGED <<builds, content, tokens, source, seen>>,
         \/ decided' = decided
         \/ \E d \in Decisions :
              /\ decided' = [decided EXCEPT ![posted] = d]
              /\ d \in {"waiting_pending", "waiting_merged"} => HasCreate(posted),
         \/ applied' = applied
         \/ applied' = applied \cup {posted} /\ ~Denied(builds[posted].plan)
  PROVE  DeskInv'
<1>1. posted \in DOMAIN builds /\ posted \in Builds
  BY BuildsAreCounted DEF IInv, Shape
<1>2. decided \in [Builds -> Decisions] /\ decided' \in [Builds -> Decisions]
  BY <1>1 DEF IInv, Shape
<1>3. DeskShape'
  BY <1>1, <1>2 DEF IInv, Shape, DeskShape
<1>4. TokensAreSeen' /\ SawWhatApplies'
  BY DEF IInv, TokensAreSeen, SawWhatApplies
<1>5. \A b \in Builds : decided'[b] \in {"waiting_pending", "waiting_merged"} =>
        b \in DOMAIN builds /\ HasCreate(b) /\ ~DenylistViolated(b)
  BY <1>1, <1>2 DEF IInv, PastTheGates
<1>6. \A b \in applied' : ~Denied(builds[b].plan)
  BY DEF IInv, PastTheGates
<1>7. \A view \in seen' : ~DenylistViolated(view[1])
  BY DEF IInv, PastTheGates
<1>8. PastTheGates'
  BY <1>5, <1>6, <1>7 DEF PastTheGates, DenylistViolated, HasCreate
<1> QED
  BY <1>3, <1>4, <1>8 DEF DeskInv

LEMMA PostDesk ==
  ASSUME IInv, MergeFirst \/ ApplyFirst \/ Resume \/ MergeOnly \/ TurnedAway
  PROVE  DeskInv'
<1>1. posted # 0 /\ posted' = 0 /\ UNCHANGED <<builds, content, tokens, source, seen>>
  BY DEF MergeFirst, ApplyFirst, Resume, MergeOnly, TurnedAway, Done, world, builder
<1>2. posted \in Builds
  BY <1>1, BuildsAreCounted DEF IInv, Shape
<1>3. \/ decided' = decided
      \/ \E d \in Decisions :
           /\ decided' = [decided EXCEPT ![posted] = d]
           /\ d \in {"waiting_pending", "waiting_merged"} => HasCreate(posted)
  <2>1. CASE MergeFirst
    <3>1. HasCreate(posted)
      BY <1>2, <2>1 DEF MergeFirst, IInv, PastTheGates
    <3> QED
      BY <2>1, <3>1 DEF MergeFirst, Done, Decisions
  <2>2. CASE ApplyFirst \/ Resume \/ MergeOnly \/ TurnedAway
    BY <2>2 DEF ApplyFirst, Resume, MergeOnly, TurnedAway, Done, Decisions
  <2> QED
    BY <2>1, <2>2
<1>4. \/ applied' = applied
      \/ applied' = applied \cup {posted} /\ ~Denied(builds[posted].plan)
  BY DEF MergeFirst, ApplyFirst, Resume, MergeOnly, TurnedAway, WorkerAdmits
<1> QED
  BY <1>1, <1>3, <1>4, EffectDesk

LEMMA DeskStep ==
  ASSUME IInv, [Next]_vars
  PROVE  DeskInv'
<1>1. \/ UNCHANGED desk
      \/ \E known, answered \in BOOLEAN, h \in 0 .. MaxHeads : Get(known, answered, h)
      \/ \E force \in BOOLEAN : ShowSource(force)
      \/ \E b \in Builds : Expire(b)
      \/ \E b \in Builds, o \in Origins : Submit(b, o)
      \/ MergeFirst \/ ApplyFirst \/ Resume \/ MergeOnly \/ TurnedAway
  BY DEF Next, Push, Move, Rebake, Bump, SetBrakes, Build, Recheck,
         Comment, vars
<1> QED
  BY <1>1, DeskStands, GetDesk, PageDesk, SubmitDesk, PostDesk

-----------------------------------------------------------------------------
(* The pull request and the builder                                        *)

LEMMA PullStep ==
  ASSUME IInv, [Next]_vars
  PROVE  pr' \in [state : PullStates, head : DOMAIN content']
<1>1. /\ pr \in [state : PullStates, head : DOMAIN content]
      /\ DOMAIN content \subseteq DOMAIN content'
  BY HistoryStands DEF IInv, Shape
<1>3. ASSUME NEW c \in Changes, Push(c)
      PROVE  pr' \in [state : PullStates, head : DOMAIN content']
  <2>1. Len(content) + 1 \in DOMAIN content'
    BY <1>3 DEF Push, IInv, Shape
  <2> QED
    BY <1>1, <1>3, <2>1 DEF Push
<1>4. ASSUME NEW s \in PullStates, pr' = [pr EXCEPT !.state = s]
      PROVE  pr' \in [state : PullStates, head : DOMAIN content']
  BY <1>1, <1>4
<1>5. ASSUME pr' = pr
      PROVE  pr' \in [state : PullStates, head : DOMAIN content']
  <2>1. pr.state \in PullStates /\ pr.head \in DOMAIN content'
    BY <1>1
  <2>2. pr = [state |-> pr.state, head |-> pr.head]
    BY <1>1
  <2> QED
    BY <1>5, <2>1, <2>2
<1>6. \/ pr' = pr
      \/ \E s \in PullStates : pr' = [pr EXCEPT !.state = s]
      \/ \E c \in Changes : Push(c)
  BY DEF Next, Move, Rebake, Bump, SetBrakes, Build, Recheck, Comment,
         Get, ShowSource, Expire, Submit, MergeFirst, ApplyFirst, Resume,
         MergeOnly, TurnedAway, vars, world, PullStates
<1> QED
  BY <1>3, <1>4, <1>5, <1>6

LEMMA BuilderStep ==
  ASSUME IInv, [Next]_vars
  PROVE  /\ builds' \in Seq(Artifacts) /\ Len(builds') <= MaxBuilds
         /\ run' \in [build : 0 .. Len(builds'), checked : BOOLEAN]
         /\ run'.checked => run'.build # 0
<1>1. /\ builds \in Seq(Artifacts) /\ Len(builds) <= MaxBuilds
      /\ run \in [build : 0 .. Len(builds), checked : BOOLEAN]
      /\ run.checked => run.build # 0
      /\ Len(builds) \in Nat /\ MaxBuilds \in Nat
  BY BuildsAreCounted, BoundAssumption DEF IInv, Shape
<1>2. ASSUME NEW f \in Faults, NEW drift \in BOOLEAN, Build(f, drift)
      PROVE  /\ builds' \in Seq(Artifacts) /\ Len(builds') <= MaxBuilds
             /\ run' \in [build : 0 .. Len(builds'), checked : BOOLEAN]
             /\ run'.checked => run'.build # 0
  <2> DEFINE x == [head |-> pr.head, fault |-> f, pin |-> pin,
                   plan |-> PlanOf(content[pr.head], drift)]
  <2>1. /\ pr.head \in DOMAIN content
        /\ content \in Seq(Changes)
    BY DEF IInv, Shape
  <2>2. pr.head \in Nat /\ content[pr.head] \in Changes
    BY <2>1
  <2>7. pin \in Nat
    BY PinAssumption DEF IInv, PinsInOrder
  <2>3. x \in Artifacts
    BY <2>1, <2>2, <2>7 DEF Artifacts
  <2>4. builds' = Append(builds, x) /\ Len(builds) < MaxBuilds
    BY <1>2 DEF Build
  <2> HIDE DEF x
  <2>5. builds' \in Seq(Artifacts) /\ Len(builds') = Len(builds) + 1
    BY <1>1, <2>3, <2>4
  <2>6. run' = [build |-> Len(builds) + 1, checked |-> FALSE]
    BY <1>2 DEF Build
  <2> QED
    BY <1>1, <2>4, <2>5, <2>6
<1>3. CASE Recheck
  <2>1. builds' = builds /\ run.build # 0 /\ run.build \in 0 .. Len(builds)
    BY <1>1, <1>3 DEF Recheck
  <2>2. \/ run' = [run EXCEPT !.checked = TRUE]
        \/ run' = [build |-> 0, checked |-> FALSE]
    BY <1>3 DEF Recheck
  <2>3. CASE run' = [run EXCEPT !.checked = TRUE]
    <3>1. run' = [build |-> run.build, checked |-> TRUE]
      BY <1>1, <2>3
    <3> QED
      BY <1>1, <2>1, <3>1
  <2>4. CASE run' = [build |-> 0, checked |-> FALSE]
    BY <1>1, <2>1, <2>4
  <2> QED
    BY <2>2, <2>3, <2>4
<1>4. CASE Comment
  BY <1>1, <1>4 DEF Comment
<1>5. CASE UNCHANGED <<builds, run>>
  BY <1>1, <1>5
<1>6. \/ UNCHANGED <<builds, run>> \/ Recheck \/ Comment
      \/ \E f \in Faults, drift \in BOOLEAN : Build(f, drift)
  BY DEF Next, Push, Move, Rebake, Bump, SetBrakes, Get, ShowSource,
         Expire, Submit, MergeFirst, ApplyFirst, Resume, MergeOnly, TurnedAway,
         vars, builder
<1> QED
  BY <1>2, <1>3, <1>4, <1>5, <1>6

\* A tree is baked in after the merge, with main's pin of that moment, and a
\* merged pull request is not built again.
LEMMA PinStep ==
  ASSUME IInv, [Next]_vars
  PROVE  PinsInOrder'
<1>1. /\ pin \in DOMAIN Versions /\ bakedPin \in 1 .. pin /\ pin \in Nat
      /\ baked \in 0 .. Len(content) /\ Len(content) \in Nat
      /\ \A b \in DOMAIN builds : builds[b].pin \in 1 .. pin
      /\ baked # 0 => /\ pr.state = "merged"
                      /\ \A b \in DOMAIN builds : builds[b].pin <= bakedPin
  BY BuildsAreCounted, PinAssumption DEF IInv, PinsInOrder
<1>2. Len(content') >= Len(content) /\ Len(content') \in Nat
  BY HistoryStands
<1>3. CASE Rebake
  <2>1. /\ UNCHANGED <<builds, content, pin, pr>> /\ bakedPin' = pin
        /\ baked' \in IF pr.state = "merged" THEN {pr.head, 0} ELSE {0}
    BY <1>3 DEF Rebake, builder
  <2>2. pr.head \in 0 .. Len(content)
    BY BuildsAreCounted DEF IInv, Shape
  <2>3. bakedPin' \in 1 .. pin' /\ baked' \in 0 .. Len(content')
    BY <1>1, <2>1, <2>2
  <2>4. \A b \in DOMAIN builds : builds[b].pin <= pin
    BY <1>1
  <2> QED
    BY <1>1, <2>1, <2>3, <2>4 DEF PinsInOrder
<1>4. CASE Bump
  <2>1. /\ UNCHANGED <<builds, content, baked, bakedPin, pr>>
        /\ pin' = pin + 1 /\ pin < Len(Versions)
    BY <1>4 DEF Bump, builder
  <2>2. pin' \in DOMAIN Versions
    BY <1>1, <2>1, PinAssumption
  <2>3. bakedPin \in 1 .. pin' /\ \A b \in DOMAIN builds : builds[b].pin \in 1 .. pin'
    BY <1>1, <2>1
  <2> QED
    BY <1>1, <2>1, <2>2, <2>3 DEF PinsInOrder
<1>5. ASSUME NEW f \in Faults, NEW drift \in BOOLEAN, Build(f, drift)
      PROVE  PinsInOrder'
  <2> DEFINE x == [head |-> pr.head, fault |-> f, pin |-> pin,
                   plan |-> PlanOf(content[pr.head], drift)]
  <2>1. /\ builds \in Seq(Artifacts) /\ builds' = Append(builds, x)
        /\ UNCHANGED <<content, baked, bakedPin, pin>> /\ pr.state = "open"
    BY <1>5 DEF Build, IInv, Shape, world
  <2>2. baked = 0
    BY <1>1, <2>1
  <2>3. x.pin = pin
    OBVIOUS
  <2>4. \A b \in DOMAIN builds' :
          \/ builds'[b] = x
          \/ b \in DOMAIN builds /\ builds'[b] = builds[b]
    <3> HIDE DEF x
    <3> QED
      BY <2>1
  <2> HIDE DEF x
  <2>5. \A b \in DOMAIN builds' : builds'[b].pin \in 1 .. pin
    BY <1>1, <2>3, <2>4
  <2> QED
    BY <1>1, <2>1, <2>2, <2>5 DEF PinsInOrder
<1>6. CASE /\ UNCHANGED <<builds, baked, bakedPin, pin>>
           /\ pr.state = "merged" => pr'.state = "merged"
  BY <1>1, <1>2, <1>6 DEF PinsInOrder
<1>7. \/ Rebake \/ Bump
      \/ \E f \in Faults, drift \in BOOLEAN : Build(f, drift)
      \/ UNCHANGED <<builds, baked, bakedPin, pin>>
  BY DEF Next, Push, Move, SetBrakes, Recheck, Comment, Get, ShowSource, Expire,
         Submit, MergeFirst, ApplyFirst, Resume, MergeOnly, TurnedAway, vars,
         world, builder
<1>8. pr.state = "merged" => pr'.state = "merged"
  <2>1. \/ pr.state # "merged"
        \/ pr' = pr
        \/ pr' = [pr EXCEPT !.state = "merged"]
    BY DEF Next, Push, Move, Rebake, Bump, SetBrakes, Build, Recheck, Comment, Get,
           ShowSource, Expire, Submit, MergeFirst, ApplyFirst, Resume, MergeOnly,
           TurnedAway, vars, world
  <2>2. pr \in [state : PullStates, head : DOMAIN content]
    BY DEF IInv, Shape
  <2> QED
    BY <2>1, <2>2
<1> QED
  BY <1>3, <1>4, <1>5, <1>6, <1>7, <1>8

LEMMA InvStep ==
  ASSUME IInv, [Next]_vars
  PROVE  IInv'
<1>1. content' \in Seq(Changes)
  BY HistoryStands
<1>2. Shape'
  BY <1>1, DeskStep, PullStep, BuilderStep, CommentStep
  DEF Shape, DeskInv, DeskShape
<1> QED
  BY <1>2, DeskStep, BuiltStep, CommentStep, PinStep DEF IInv, DeskInv

LEMMA Invariance == Spec => []IInv
<1>1. Init => IInv
  BY InitInv
<1>2. IInv /\ [Next]_vars => IInv'
  BY InvStep
<1> QED
  BY <1>1, <1>2, PTL DEF Spec

-----------------------------------------------------------------------------
(* Theorems                                                                *)

\* Every build is the plan of one of the changes, typed entry by entry.
LEMMA BuiltPlan ==
  ASSUME IInv, NEW b \in DOMAIN builds
  PROVE  /\ builds[b].plan.rows \in Seq(Rows)
         /\ \E c \in Seq(Files), d \in BOOLEAN :
              builds[b].plan = PlanOf(c, d) /\ ~GateRefuses("agent", c)
<1>1. PICK d \in BOOLEAN :
        /\ builds[b].plan = PlanOf(content[builds[b].head], d)
        /\ ~GateRefuses("agent", content[builds[b].head])
        /\ builds[b].head \in DOMAIN content
  BY DEF IInv, BuiltGated
<1>2. content[builds[b].head] \in Seq(Files)
  BY <1>1, ChangeAssumption DEF IInv, Shape
<1> QED
  BY <1>1, <1>2, PlanRows

\* The state of the review keeps its shape: heads, builds, comments, tokens
\* and decisions refer to what is there.
THEOREM TypeCorrect == Spec => []TypeOK
<1>1. ASSUME IInv PROVE TypeOK
  <2>1. Shape /\ CommentsName /\ PinsInOrder
    BY <1>1 DEF IInv
  <2>2. DOMAIN builds = 1 .. Len(builds) /\ DOMAIN content = 1 .. Len(content)
        /\ DOMAIN builds \subseteq Builds /\ Len(builds) <= MaxBuilds
        /\ Len(builds) \in Nat
    BY <1>1, BuildsAreCounted DEF IInv, Shape
  <2>3. posted \in 0 .. MaxBuilds
    BY <2>1, <2>2, BoundAssumption DEF Shape
  <2> QED
    BY <2>1, <2>2, <2>3 DEF TypeOK, Shape, CommentsName, PinsInOrder
<1>2. IInv => TypeOK
  BY <1>1
<1> QED
  BY <1>2, Invariance, PTL

\* The sentence the approval page prints beside every plan is true of
\* whatever the worker has applied, for any changes, faults and hand-made
\* drift.
THEOREM AppliedIsHarmless == Spec => []AdmittedIsHarmless
<1>1. ASSUME IInv PROVE AdmittedIsHarmless
  <2>1. ASSUME NEW b \in applied PROVE IsHarmless(builds[b].plan)
    <3>1. b \in DOMAIN builds /\ ~Denied(builds[b].plan)
      BY <1>1, <2>1 DEF IInv, Shape, PastTheGates
    <3> QED
      BY <1>1, <3>1, BuiltPlan, UndeniedIsHarmless
  <2> QED
    BY <2>1 DEF AdmittedIsHarmless
<1>2. IInv => AdmittedIsHarmless
  BY <1>1
<1> QED
  BY <1>2, Invariance, PTL

\* Once the tree of a merged head is baked in, the worker refuses no sound
\* artifact that was merged before its apply, unless the OpenTofu pin of main has
\* moved since it was planned or the worker's pattern misses a declaration.
THEOREM MergingIsSafe == Spec => []MergedIsAppliable
<1>1. ASSUME IInv PROVE MergedIsAppliable
  <2>1. ASSUME NEW b \in Builds, decided[b] = "waiting_merged",
               builds[b].fault = "none", baked = builds[b].head,
               pin = builds[b].pin, AllFound(builds[b].plan)
        PROVE  WorkerAdmits(b)
    <3>1. b \in DOMAIN builds /\ HasCreate(b) /\ ~Denied(builds[b].plan)
      BY <1>1, <2>1 DEF IInv, PastTheGates, DenylistViolated
    <3>2. ~GuardRefuses(builds[b].plan, TRUE)
      BY <1>1, <2>1, <3>1, BuiltPlan, GatedPlansPassTheGuard
    <3>3. ArtifactsVerified(b) /\ TreeProven(b)
      BY <2>1 DEF ArtifactsVerified, Fetched, WellFormed, TreeProven,
         SidecarSound, BakedIs
    <3>4. SameTofu(b)
      <4>1. baked # 0
        BY <1>1, <2>1, <3>1, BuildsAreCounted DEF IInv, BuiltGated
      <4>2. bakedPin \in 1 .. pin /\ pin \in Nat /\ builds[b].pin <= bakedPin
        BY <1>1, <3>1, <4>1, PinAssumption DEF IInv, PinsInOrder
      <4>3. bakedPin = pin
        BY <2>1, <4>2
      <4> QED
        BY <2>1, <4>3 DEF SameTofu
    <3> QED
      BY <3>1, <3>2, <3>3, <3>4 DEF WorkerAdmits, HasCreate
  <2> QED
    BY <2>1 DEF MergedIsAppliable
<1>2. IInv => MergedIsAppliable
  BY <1>1
<1> QED
  BY <1>2, Invariance, PTL

\* What is being approved was on a page somebody was shown, and beside it the
\* source it was planned from or none, whatever is pushed, built and cached
\* meanwhile.
THEOREM ApprovedWasSeen == Spec => []SawWhatApplies
<1>1. IInv => SawWhatApplies
  BY DEF IInv
<1> QED
  BY <1>1, Invariance, PTL

\* The summary of a page that offered its form leaves out nothing of the plan that
\* an apply would act on, whatever artifacts are altered and lost meanwhile.
THEOREM SummariesHideNothing == Spec => []NothingHidden
<1>1. ASSUME IInv PROVE NothingHidden
  <2>1. ASSUME NEW view \in seen
        PROVE  builds[view[1]].plan.rows \in Seq(Rows) /\ ~Denied(builds[view[1]].plan)
    BY <1>1, <2>1, BuiltPlan DEF IInv, Shape, PastTheGates, DenylistViolated
  <2> QED
    BY <2>1, SummaryIsComplete DEF NothingHidden, CountRows
<1>2. IInv => NothingHidden
  BY <1>1
<1> QED
  BY <1>2, Invariance, PTL

\* The form of a page, posted at once, is admitted, and finds a decision it can
\* go on from or a pull request that is ready: the ladders of iac_approval_get
\* and iac_approval_post agree.
THEOREM OffersAreTakeable == Spec => []OfferIsTakeable
<1>1. ASSUME IInv PROVE OfferIsTakeable
  <2> DEFINE b == Latest
  <2>1. ASSUME Offers(b, TRUE, TRUE), b \in tokens
        PROVE  /\ Admits(b, [origin |-> "null", site |-> "same-origin"])
               /\ \/ Fresh(b)
                  \/ decided[b] \in {"waiting_pending", "waiting_merged",
                                     "applied_unmerged"}
    <3>1. /\ b # 0 /\ ArtifactSound(b) /\ brakes = {} /\ DecisionAllows(b, TRUE)
      BY <2>1 DEF Offers
    <3>2. b \in Builds /\ decided[b] \in Decisions
      BY <1>1, <2>1, BuildsAreCounted DEF IInv, Shape
    <3>3. Admits(b, [origin |-> "null", site |-> "same-origin"])
      BY <2>1, <3>1 DEF Admits, SameOrigin, Pins
    <3>4. \/ Fresh(b)
          \/ decided[b] \in {"waiting_pending", "waiting_merged", "applied_unmerged"}
      BY <3>1, <3>2 DEF DecisionAllows, FreshBlocked, Fresh, Decisions
    <3> QED
      BY <3>3, <3>4
  <2> QED
    BY <2>1 DEF OfferIsTakeable
<1>2. IInv => OfferIsTakeable
  BY <1>1
<1> QED
  BY <1>2, Invariance, PTL

=============================================================================
