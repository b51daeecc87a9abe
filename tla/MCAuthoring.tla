------------------------------ MODULE MCAuthoring ------------------------------
(***************************************************************************)
(* The instance of Authoring: two turns, two paths, and files the gates    *)
(* tell apart.                                                             *)
(***************************************************************************)
EXTENDS Authoring

MCBlank == [path |-> "tf", text |-> "parsed", provider |-> "none",
            module |-> FALSE, resource |-> NoBlock, data |-> "none",
            import |-> NoBlock]

MCLabel == CHOOSE l \in Labels : TRUE

MCResource(kind, name) ==
  [label |-> MCLabel, kind |-> kind, name |-> name, form |-> "plain", known |-> FALSE]

\* A bucket of the operator's and one that Google manages.
MCAdoptions == {MCResource("bucket", "plain"), MCResource("bucket", "managed")}

\* A file that is fine, one that runs a module, and a well-formed import.
MCContents == {MCBlank, [MCBlank EXCEPT !.module = TRUE],
               Rendered(MCResource("bucket", "plain"))}

MCAlike == Permutations(Runs) \cup Permutations(Slots)

=============================================================================
