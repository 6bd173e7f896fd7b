---------------------------- MODULE NodeTableMap -----------------------------
(***************************************************************************)
(* NodeTable implements NetworkMap, as long as writes succeed: the slots   *)
(* and masks of the NVM are a map from node numbers to nodes, and the      *)
(* exporter's pass over the numbers reports it.                            *)
(***************************************************************************)
EXTENDS NodeTable

(* The node the NVM holds under number n.  While the importer runs, the    *)
(* masks are still on its stack.                                           *)
HeldMask(m) == IF stage = "import" THEN mask[m] ELSE maskFile[m]

HeldNode(n) ==
  IF n \notin HeldMask("STORAGE_EXIST")
    THEN NoNode
    ELSE [wakeup |-> InfoAt(n).wakeup, device |-> InfoAt(n).device,
          isVirtual |-> n \in HeldMask("BRIDGE_NODE"),
          routeSlaveSuc |-> n \in HeldMask("ROUTE_SLAVE_SUC"),
          appRouteLock |-> n \in HeldMask("APP_ROUTE_LOCK"),
          sucPendingUpdate |-> n \in HeldMask("SUC_PENDING_UPDATE"),
          pendingDiscovery |-> n \in HeldMask("PENDING_DISCOVERY"),
          lwr |-> IF n \in HeldMask("ROUTECACHE_EXIST") THEN RouteAt(n).lwr ELSE NoLine,
          nlwr |-> IF n \in HeldMask("ROUTECACHE_EXIST") THEN RouteAt(n).nlwr ELSE NoLine]

Map == INSTANCE NetworkMap WITH
  stage <- IF stage = "import" THEN "filling"
           ELSE IF Exported THEN "reported" ELSE "sealed",
  net <- [n \in NodeId |-> HeldNode(n)],
  report <- IF Exported THEN out ELSE [n \in NodeId |-> NoNode]

(* Every behaviour of the two table functions without write errors is a    *)
(* behaviour of the network map: each entry takes effect on its own node   *)
(* only and at once, storing the masks and reading the files in any other  *)
(* order or grouping shows no intermediate map, and the report is made.    *)
ImplementsNetworkMap == Map!Spec
==============================================================================
