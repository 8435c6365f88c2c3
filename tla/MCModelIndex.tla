---------------------------- MODULE MCModelIndex ----------------------------
(* Instances of ModelIndex for TLC.                                        *)
EXTENDS ModelIndex, TLC

\* Two models in two files of two roots: `partner' is the base, `user' inherits
\* from it or is related to it.
TwoModels == {"partner", "user"}
TwoFields == {"name", "parent"}
OneMethod == {"write"}
TwoFiles == {"base.py", "sale.py"}
Root == "base.py" :> "odoo" @@ "sale.py" :> "addons"
Order == <<"sale.py", "base.py">>
\* Both models in one shard, or each in its own.
OneOrTwo == {[m \in TwoModels |-> 1], "partner" :> 1 @@ "user" :> 2}

Value == [kind |-> "value", to |-> "none"]
To(m) == [kind |-> "relational", to |-> m]
Related(path) == [kind |-> "related", to |-> path]
Class(name, inherits, fields, methods) ==
  [name |-> name, inherits |-> inherits, fields |-> fields, methods |-> methods]

\* The base; the base without its relation; the base and an extension of it that
\* calls super(), in one file; the base as an heir of the model that extends it.
InBase ==
  << <<Class("partner", <<>>, "name" :> Value @@ "parent" :> To("partner"), "write" :> FALSE)>>,
     <<Class("partner", <<>>, "name" :> Value, Nothing)>>,
     <<Class("partner", <<>>, "parent" :> To("user"), "write" :> FALSE),
       Class("none", <<"partner">>, "name" :> Value, "write" :> TRUE)>>,
     <<Class("partner", <<"user">>, "parent" :> To("partner"), Nothing)>> >>
\* An extension with an override, and an heir; an heir alone, related to its
\* parent's; a base and its own override; nothing; a field related to itself.
InSale ==
  << <<Class("none", <<"partner">>, "parent" :> To("user"), "write" :> TRUE),
       Class("user", <<"partner">>, Nothing, "write" :> FALSE)>>,
     <<Class("user", <<"partner">>, "name" :> Related(<<"parent", "parent">>), Nothing)>>,
     <<Class("user", <<"partner", "user">>, "name" :> Value, "write" :> FALSE),
       Class("none", <<"partner">>, Nothing, "write" :> FALSE)>>,
     <<Class("none", <<>>, Nothing, Nothing)>>,
     <<Class("user", <<>>, "name" :> Related(<<"name">>), Nothing)>> >>
TheClasses == UNION {UNION {{w[k] : k \in DOMAIN w} : w \in {v[i] : i \in DOMAIN v}} : v \in {InBase, InSale}}
InFiles == "base.py" :> InBase @@ "sale.py" :> InSale

=============================================================================
