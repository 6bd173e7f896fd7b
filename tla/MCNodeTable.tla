----------------------------- MODULE MCNodeTable -----------------------------
(* Instances of NodeTable for TLC.                                         *)
EXTENDS NodeTable

CONSTANTS d1, d2, r1, r2

MCNode(w, d, flag, a, b) ==
  [wakeup |-> w, device |-> d,
   isVirtual |-> flag, routeSlaveSuc |-> ~flag, appRouteLock |-> flag,
   sucPendingUpdate |-> flag, pendingDiscovery |-> ~flag,
   lwr |-> a, nlwr |-> b]

(* A plain node, one with both routes, one with each half of a route.      *)
MCNodes ==
  {MCNode("none", d1, FALSE, NoLine, NoLine),
   MCNode("250ms", d2, TRUE, r1, r2),
   MCNode("1000ms", d1, TRUE, r2, NoLine),
   MCNode("none", d2, FALSE, NoLine, r1)}

MCPlainNodes == {MCNode("none", d1, FALSE, NoLine, NoLine)}

MCFewNodes ==
  {MCNode("none", d1, FALSE, NoLine, NoLine),
   MCNode("250ms", d2, TRUE, r1, r2)}

MCDevice == {d1, d2}

(***************************************************************************)
(* Images read from a device rather than written by the importer: any node *)
(* may be in the two masks and any file may be missing, and every slot     *)
(* names the file and index it is at.                                      *)
(***************************************************************************)
MCSlotLine == (0 .. 2) \X (0 .. 2)

ImageInit ==
  /\ stage = "stored"
  /\ json = [k \in Key |-> NoNode]
  /\ mask = [m \in Mask |-> {}]
  /\ \E exist, routed \in SUBSET NodeId :
       maskFile = [m \in Mask |-> IF m = "STORAGE_EXIST" THEN exist
                                  ELSE IF m = "ROUTECACHE_EXIST" THEN routed ELSE {}]
  /\ maskKeys \in {Mask, Mask \ {"ROUTECACHE_EXIST"}, Mask \ {"STORAGE_EXIST"}}
  /\ infoFile = [f \in InfoFiles |-> [s \in InfoSlots |-> [wakeup |-> "250ms", device |-> d1]]]
  /\ infoKeys \in SUBSET InfoFiles
  /\ routeFile = [f \in RouteFiles |-> [s \in RouteSlots |->
                    [lwr |-> <<f, s>>, nlwr |-> <<f, s>>]]]
  /\ routeKeys \in SUBSET RouteFiles
  /\ importError = FALSE
  /\ exportError = FALSE
  /\ node_id = 1
  /\ route_cache_buf = [s \in RouteSlots |-> BlankRoute]
  /\ out = [n \in NodeId |-> NoNode]

ImageSpec == ImageInit /\ [][Next]_vars
MCLine == {r1, r2}
==============================================================================
