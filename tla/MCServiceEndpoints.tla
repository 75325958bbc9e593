------------------------- MODULE MCServiceEndpoints -------------------------
(* Small instances of ServiceEndpoints: two IPv4 services so that one can  *)
(* be taken for the other, one endpoint of each, and few enough ids for    *)
(* the counter to stick at the last one.                                   *)
EXTENDS ServiceRefinement, TLC

CONSTANTS web, db, dual, e1, e2, e3, c1

MCKeysV4    == {web, db}
MCKeysV6    == {dual}
MCNoKeys    == {}
MCEndpoints == {e1, e2}
MCPool      == (web :> {e1}) @@ (db :> {e2}) @@ (dual :> {e1})
MCPoolV4    == (web :> {e1}) @@ (db :> {e2})
MCConns     == {c1}
MCNoConns   == {}
MCOneKey    == {web}
MCPairPool  == (web :> {e1, e2}) @@ (dual :> {e3})
MCAllEndpoints == {e1, e2, e3}
=============================================================================
