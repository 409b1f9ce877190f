--------------------------- MODULE PrinterModels ---------------------------
(***************************************************************************)
(* The model table of src/models.c.  A row is keyed by its USB product id  *)
(* (all rows share vendor 0x03f0).  An endpoint or interface of -1 is one  *)
(* that nobody has verified on real hardware yet.                          *)
(*                                                                         *)
(* The transport code is generic in the table, and the table is made to    *)
(* grow, so the other modules take it as a CONSTANT: a run gives them      *)
(* hplp_models, or hplp_models with one row more.                          *)
(***************************************************************************)
EXTENDS Integers

CONSTANT Models   \* the table in use

NoModel == [protocol |-> "none", firmware_required |-> FALSE,
            printer_interface |-> -1, bulk_out_endpoint |-> -1,
            no_reattach |-> FALSE]

Xqx == [protocol |-> "XQX", firmware_required |-> TRUE,
        printer_interface |-> -1, bulk_out_endpoint |-> -1,
        no_reattach |-> FALSE]

P1102 == [protocol |-> "ZJS_Z2", firmware_required |-> FALSE,
          printer_interface |-> 0, bulk_out_endpoint |-> 1,
          no_reattach |-> TRUE]

hplp_models ==
    [product \in {"002a", "3e17", "3d17", "4817", "4917", "3f17"} |->
        IF product = "002a" THEN P1102 ELSE Xqx]

hplp_model_lookup(product) ==
    IF product \in DOMAIN Models THEN Models[product] ELSE NoModel

\* The transport profile the session and the discovery callback insist on.
ProfileVerified(product) ==
    /\ hplp_model_lookup(product).printer_interface >= 0
    /\ hplp_model_lookup(product).bulk_out_endpoint >= 0
=============================================================================
