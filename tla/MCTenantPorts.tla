---------------------------- MODULE MCTenantPorts ----------------------------
(***************************************************************************)
(* TenantLifecycle for the properties of ports, in two modes: operations   *)
(* that interleave, and longer behaviours of operations that run one after *)
(* another.                                                                *)
(***************************************************************************)
EXTENDS MCTenantLifecycle

CONSTANT SerialRequests  \* operations issued in one serial behaviour

VARIABLE mode

(* One task at a time.                                                     *)
SerialNext ==
  \/ \E p \in Proc : /\ \A q \in Proc \ {p} : At(q, "idle")
                     /\ Resume(p) \/ \E a \in Addr : Start(p, a)
  \/ \E a \in Addr : ContainerExit(a)

PortsInit == MCInit /\ mode \in {"serial", "interleaved"}
PortsNext ==
  /\ UNCHANGED mode
  /\ \/ mode = "interleaved" /\ MCNext
     \/ /\ mode = "serial" /\ SerialNext
        /\ issued' = IF Issues THEN issued + 1 ELSE issued
        /\ issued' <= SerialRequests

PortsSpec == PortsInit /\ [][PortsNext]_<<vars, issued, mode>>

-----------------------------------------------------------------------------
(* Two tenants that connect at once may get one port; operations that run  *)
(* one after another never give a port out twice, nor one that is pooled.  *)
SerialPorts == mode = "serial" => PortsUnique
SerialPool == mode = "serial" => PoolUnowned
=============================================================================
