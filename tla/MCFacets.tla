------------------------------ MODULE MCFacets ------------------------------
(* Facets for TLC: a facet and its child.                                    *)
EXTENDS Facets, TLC

CONSTANTS outer, inner

Chain == (outer :> Root) @@ (inner :> outer)
=============================================================================
