---------------------------- MODULE IcbMaster ----------------------------
(* The bus master and its arbiter, src/rtl/acc/icb_master.v.  The register
   names the bus interface unit that owns the bus; it keeps it until it drops
   its request.  "rdy" towards a unit says only that it owns the bus:
   acc_icb_cmd_ready is an input of the module that nothing reads.           *)
VARIABLE state            \* "free", "omap", "weight" or "imap"

Init == state = "free"

\* Requests are looked at in this order when the bus is free.
Grant(omap_req, weight_req, imap_req) ==
  state' = CASE state = "free" /\ omap_req -> "omap"
             [] state = "free" /\ ~omap_req /\ weight_req -> "weight"
             [] state = "free" /\ ~omap_req /\ ~weight_req /\ imap_req -> "imap"
             [] state = "omap" /\ ~omap_req -> "free"
             [] state = "weight" /\ ~weight_req -> "free"
             [] state = "imap" /\ ~imap_req -> "free"
             [] OTHER -> state

Clock(omap_req, weight_req, imap_req) == Grant(omap_req, weight_req, imap_req)

rdy(unit) == state = unit

acc_icb_cmd_valid(omap_vld, weight_vld, imap_vld) ==
  \/ state = "omap" /\ omap_vld
  \/ state = "weight" /\ weight_vld
  \/ state = "imap" /\ imap_vld

acc_icb_cmd_read == state \in {"weight", "imap"}

acc_icb_rsp_ready == state # "free"

\* arb2<unit>_biu_vld: an answer goes to whoever owns the bus now.
answered(unit, rsp_valid) == state = unit /\ rsp_valid /\ acc_icb_rsp_ready
==========================================================================
