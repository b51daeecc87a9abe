----------------------------- MODULE MCIacReview -----------------------------
(***************************************************************************)
(* Instances of IacReview.  MCEveryFile has every construct the gates look *)
(* for, one file or two, for a pull request nobody else touches; MCFew has *)
(* a handful of changes for a world that moves.                            *)
(***************************************************************************)
EXTENDS IacReview

MCBlank == [path |-> "tf", text |-> "parsed", provider |-> "none",
            module |-> FALSE, resource |-> NoBlock, data |-> "none",
            import |-> NoBlock]

MCResource(l, kind, name, form, known) ==
  [label |-> l, kind |-> kind, name |-> name, form |-> form, known |-> known]

MCHolding(r) == [MCBlank EXCEPT !.resource = r]
MCAdopting(r) ==
  [MCHolding(r) EXCEPT !.import = [to |-> r.label, each |-> FALSE, id |-> "literal"]]

\* Every kind and name, plain or counted, known to main or not.
MCResources(l) ==
  {MCResource(l, k, n, f, known) : k \in Kinds, n \in Names \ {"none"},
                                   f \in {"plain", "counted"}, known \in BOOLEAN}

\* A file that creates, changes, deletes or adopts a resource.
MCPlainFiles(l) ==
  UNION {{MCHolding(r), MCAdopting(r), [MCHolding(r) EXCEPT !.text = "gone"]} :
         r \in MCResources(l)}

MCBucket(l) == MCResource(l, "bucket", "plain", "plain", FALSE)

\* One thing wrong with a file that is otherwise a plain bucket.
MCOddFiles(l) ==
  LET f == MCHolding(MCBucket(l))
      i == MCAdopting(MCBucket(l))
  IN {[f EXCEPT !.path = p] : p \in Paths}
     \cup {[f EXCEPT !.text = "unparsable"], [f EXCEPT !.module = TRUE]}
     \cup {[f EXCEPT !.provider = p] : p \in Providers}
     \cup {[f EXCEPT !.data = d] : d \in {"plain", "foreign"}}
     \cup {[f EXCEPT !.resource.form = x] : x \in Forms}
     \cup {[i EXCEPT !.import.to = t] : t \in {"unparsable", "indexed"}}
     \cup {[i EXCEPT !.import.id = d] : d \in {"misshaped", "expression", "identity"}}
     \cup {[i EXCEPT !.import.each = TRUE]}

MCOneFile(l) == {<<f>> : f \in MCPlainFiles(l) \cup MCOddFiles(l)}

\* Beside it: a bucket created, adopted, or deleted, or a topic changed.
MCTwoFiles(l, m) ==
  LET beside == {MCHolding(MCBucket(m)), MCAdopting(MCBucket(m)),
                 [MCHolding(MCBucket(m)) EXCEPT !.text = "gone"],
                 MCHolding(MCResource(m, "topic", "plain", "plain", TRUE))}
  IN {<<f, g>> : f \in MCPlainFiles(l) \cup MCOddFiles(l), g \in beside}

MCEveryFile == LET l == CHOOSE x \in Labels : TRUE
                   m == CHOOSE x \in Labels : x # l
               IN MCOneFile(l) \cup MCTwoFiles(l, m)

MCFew == LET l == CHOOSE x \in Labels : TRUE
         IN {<<MCAdopting(MCBucket(l))>>,
             <<MCHolding(MCResource(l, "topic", "plain", "plain", TRUE))>>}

MCOnePin == <<"1.12.0">>
MCTwoPins == <<"1.12.0", "1.13.0">>

MCNoFaults == {"none"}
MCFewFaults == {"none", "json_altered", "comment_malformed"}
MCNoBrakes == {}
MCBrakes == {{}, {"paused"}}

=============================================================================
