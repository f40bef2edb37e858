---------------------------- MODULE MCRicRouting ----------------------------
(* Instances of RicRouting: the identifiers of the xApps' requests.         *)
EXTENDS RicRouting, TLC

CONSTANTS x1, x2

\* xApps of different RAN functions.
DifferentFunctions == (x1 :> {1}) @@ (x2 :> {2})

\* xApps of one RAN function: each numbers its requests from 1.
OneFunction == (x1 :> {1}) @@ (x2 :> {1})
=============================================================================
