----------------------------- MODULE MCRelease -----------------------------
(***************************************************************************)
(* A small instance of Release: one source of each type, manifests of one  *)
(* or two of them, and artifacts that each fail in one way.                *)
(***************************************************************************)
EXTENDS Release, TLC

MCPersonOf == ("ann" :> 1) @@ ("ANN" :> 1) @@ ("bob" :> 2)

Sbom == [type |-> "sbom", control |-> "c1",
         banned |-> {[name |-> "log", version |-> AnyVersion],
                     [name |-> "zip", version |-> 1]}]
Provenance == [type |-> "provenance", control |-> "c1", builder |-> "ci"]
EvalGate == [type |-> "eval-gate", control |-> "c2",
             gate |-> [required |-> {"leak"}, maxFailures |-> 1]]
Drift == [type |-> "drift", control |-> "c2"]
Change == [type |-> "change-control", control |-> "c3"]

MCManifests == {<<>>, <<Change>>, <<Provenance>>, <<Sbom, EvalGate>>, <<EvalGate, Drift>>}
MCCrosswalk == <<[control |-> "x1", satisfiedBy |-> {"c2"}],
                 [control |-> "x2", satisfiedBy |-> {"c1", "c2"}],
                 [control |-> "x3", satisfiedBy |-> {}],
                 [control |-> "x1", satisfiedBy |-> {"c3"}]>>

Component(n, v) == [name |-> n, version |-> v]
Boms(b) == [image : {"tool"}, at : {0, b},
            components : {<<>>, <<Component("zip", 2)>>, <<Component("zip", 1)>>,
                          <<Component("tar", 1), Component("log", 2)>>}]
Statements(b) == [slsa : BOOLEAN, builder : {"ci", "me"}, subjects : {<<>>, <<"i", "j">>},
                  started : {1}, finished : {0, b}]
Case(suite, passed) == [suite |-> suite, passed |-> passed]
Runs(b) == [agent : {"a"}, version : {"v"}, at : IF b = 1 THEN {2} ELSE {1, 3},
            results : {<<Case("tone", TRUE)>>,
                       <<Case("leak", TRUE), Case("leak", FALSE)>>,
                       <<Case("leak", FALSE), Case("leak", FALSE)>>}]
App(n, s, b) == [name |-> n, sync |-> s, at |-> b]
Apps(b) == {<<>>, <<App("v", "Synced", b)>>, <<App("v", "OutOfSync", b)>>,
            <<App("w", "Unknown", b), App("v", "Synced", b)>>}
Review(l, s) == [login |-> l, state |-> s]
Oid(b) == <<"oid-1", "oid-2">>[b]
Changes(b) ==
    {[merged |-> TRUE, author |-> "ann", commit |-> Oid(b), at |-> b, reviews |-> r] :
        r \in {<<>>, <<Review("ANN", "APPROVED")>>,
               <<Review("bob", "APPROVED"), Review("bob", "COMMENTED"), Review("bob", "none")>>,
               <<Review("bob", "APPROVED"), Review("bob", "CHANGES_REQUESTED")>>,
               <<Review("bob", "CHANGES_REQUESTED"), Review(Nobody, "APPROVED")>>}}
    \cup LET good == [merged |-> TRUE, author |-> "ann", commit |-> Oid(b), at |-> b,
                      reviews |-> <<Review("bob", "APPROVED")>>]
         IN  {good, [good EXCEPT !.merged = FALSE], [good EXCEPT !.author = Nobody],
              [good EXCEPT !.commit = NoCommit], [good EXCEPT !.at = 0]}

MCArtifacts(type, b) == {Unreadable} \cup
    (CASE type = "sbom" -> Boms(b) [] type = "provenance" -> Statements(b)
       [] type = "eval-gate" -> Runs(b) [] type = "drift" -> Apps(b)
       [] type = "change-control" -> Changes(b))
=============================================================================
