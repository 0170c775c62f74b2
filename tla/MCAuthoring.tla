---------------------------- MODULE MCAuthoring ----------------------------
(***************************************************************************)
(* A small instance of Authoring: two controls, two policies and one in a  *)
(* directory below; a sound tree, and trees that each are off in one way.  *)
(***************************************************************************)
EXTENDS Authoring, TLC

RuleSet(ids, checks) == [ids |-> ids, checks |-> checks]
Rule(r, k) == RuleSet(<<r>>, <<k>>)
Need(c, R) == [control |-> c, rules |-> R]
Kyverno == [title |-> "kyverno", rules |-> <<Rule("r1", "k1"), Rule("r2", "k2")>>,
            requirements |-> {Need("c1", {"r1"}), Need("c2", {"r2"})}]
Storage == [title |-> "evidence-ledger", rules |-> <<Rule("r3", "append-only")>>,
            requirements |-> {Need("c2", {"r3"})}]
Sound == [catalogs |-> <<[id |-> "cat", controls |-> <<"c1", "c2">>]>>,
          imports |-> {[href |-> "cat", include |-> {"c1", "c2"}]},
          components |-> {Kyverno, Storage},
          mappings |-> <<[control |-> "c2", satisfiedBy |-> {"c1"}]>>,
          malformed |-> {}]
With(comp) == [Sound EXCEPT !.components = {comp}]
Asking(R) == [Kyverno EXCEPT !.requirements = {Need("c1", {"r1"}), Need("c2", R)}]
Ruled(rules) == [Kyverno EXCEPT !.rules = rules]
Mapping(c, by) == [control |-> c, satisfiedBy |-> by]

MCBundles ==
    {Sound,
     With(Kyverno),
     [Sound EXCEPT !.mappings = <<>>, !.malformed = {"crosswalks"}],
     [Sound EXCEPT !.imports = {[href |-> "cat", include |-> {"c1"}]}],
     [Sound EXCEPT !.components = {Asking({}), Storage}],
     With(Asking({})), With(Asking({"r9"})), With(Asking({"r2", "r9"})), With(Asking({"r1", "r2"})),
     With([Kyverno EXCEPT !.requirements = {Need("c1", {"r1"})}]),
     With(Ruled(<<Rule("r1", "k1"), RuleSet(<<"r2">>, <<>>)>>)),
     With(Ruled(<<RuleSet(<<>>, <<"k1">>), Rule("r1", "k2"), Rule("r1", "k1"), Rule("r2", "k2")>>)),
     With(Ruled(<<RuleSet(<<"r1", "r1">>, <<"k1">>), RuleSet(<<"r2">>, <<"k1", "k2">>)>>)),
     With(Ruled(<<RuleSet(<<"r1", "r2">>, <<"k1">>), Rule("r2", "k2")>>)),
     With(Ruled(<<Rule("r1", "k1"), Rule("r2", "sub/k")>>)),
     With([Kyverno EXCEPT !.requirements = @ \cup {Need("c9", {"r1"})}]),
     [Sound EXCEPT !.imports = {[href |-> "cat", include |-> {"c1", "c9"}]}],
     [Sound EXCEPT !.imports = {[href |-> "other", include |-> {"c1"}]}],
     [Sound EXCEPT !.catalogs = @ \o <<[id |-> "cat", controls |-> <<"c1">>]>>],
     [Sound EXCEPT !.catalogs = <<[id |-> "cat", controls |-> <<"c1", "c2", "c2">>]>>],
     [Sound EXCEPT !.mappings = <<Mapping("c1", {"c9"}), Mapping("c2", {})>>],
     [Sound EXCEPT !.mappings = <<Mapping("c9", {"c1"}), Mapping("c9", {"c2"})>>]}

Library(a, b) == ("k1" :> a) @@ ("k2" :> b) @@ ("sub/k" :> <<{"c2"}>>)
MCLibraries ==
    {Library(<<{"c1"}>>, <<{"c2"}>>),
     Library(<<{"c2"}, {"c1"}>>, <<{"c1", "c2"}>>),
     Library(<<{"c1"}>>, NoFile),
     Library(<<{}>>, <<{"c2"}>>)}
=============================================================================
