--------------------------- MODULE MCEmbeddedCore ---------------------------
(***************************************************************************)
(* EmbeddedCore with every source, three waypoints and no steering; and    *)
(* for the question about steering, with positions only.                   *)
(***************************************************************************)
EXTENDS EmbeddedCore

Carrying(sets) == UNION {[kinds -> UpdateResult] : kinds \in sets}

CoreFrames == Carrying({{"Imu"}, {"Landmark"}, {"Wheel", "Gnss"}})
RouteFrames == Carrying({{"Gnss"}})

ShortFresh == [k \in Source |-> 1]
=============================================================================
