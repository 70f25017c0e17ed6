------------------------------ MODULE MCRailcom -----------------------------
(***************************************************************************)
(* DccRailcom with two locomotives, whose packets alternate freely with    *)
(* ones that address none.                                                 *)
(***************************************************************************)
EXTENDS DccRailcom
=============================================================================
