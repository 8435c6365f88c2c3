--------------------------- MODULE MCModuleLoader ---------------------------
(* Instances of ModuleLoader for TLC.                                      *)
EXTENDS ModuleLoader

OneRoot == {"odoo"}
TwoRoots == {"odoo", "addons"}
Iterated == [r \in Roots |-> IF r = "odoo" THEN 1 ELSE 2]

\* One root: sale and stock need base, bridge both, and report needs bridge.
Odoo == {"base", "sale", "stock", "bridge", "report"}
OdooProvides == [r \in Roots |-> Odoo]
OdooDeclared ==
  [r \in Roots |-> [m \in Modules |->
     CASE m = "bridge" -> {"sale", "stock"} [] m = "report" -> {"bridge"} [] OTHER -> {}]]
OdooAuto == {"bridge"}

\* Two roots: bridge, an auto_install module of the first, needs a module of
\* the second, which needs sale and, there, one that no root has.
Names == {"base", "sale", "bridge", "stock", "barcode"}
SplitProvides ==
  [r \in Roots |-> IF r = "odoo" THEN {"base", "sale", "bridge"} ELSE {"sale", "stock"}]
SplitDeclared ==
  [r \in Roots |-> [m \in Modules |->
     CASE m = "bridge" -> {"sale", "stock"} [] m = "stock" -> {"sale"} [] OTHER -> {}]]
SplitMissing ==
  [r \in Roots |-> [m \in Modules |->
     CASE m = "bridge" -> {"sale", "stock"} [] m = "stock" -> {"sale", "barcode"} [] OTHER -> {}]]

NoFile == {}
OneFails == {f \in Files : f[2] = "sale" /\ f[3] = 1}

=============================================================================
