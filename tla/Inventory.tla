------------------------------ MODULE Inventory ------------------------------
(***************************************************************************)
(* The inventory file as inventory.Load sees it.  A raw inventory maps the  *)
(* names it lists to the fields that are set in their entry; a bmc.type     *)
(* that no driver knows counts as unset.  A file that cannot be read or     *)
(* parsed is an error, as one that lists no node is.                        *)
(***************************************************************************)
CONSTANT Node

Field == {"talos_endpoint", "kube_node_name", "bmc.host", "bmc.type"}

(* Entries that are complete, or lack one field. *)
RawSpec == {Field} \cup {Field \ {f} : f \in Field}
RawInventory == UNION {[D -> RawSpec] : D \in SUBSET Node}

(* Mutant: an entry may leave its node name out. *)
validateNodeUnnamed(spec) == {"talos_endpoint", "bmc.host", "bmc.type"} \subseteq spec

validateNode(spec) == Field \subseteq spec

Load(raw) ==
    /\ DOMAIN raw # {}
    /\ \A n \in DOMAIN raw : validateNode(raw[n])

=============================================================================
