---------------------------- MODULE ServiceNames ----------------------------
(***************************************************************************)
(* The names of services that the use cases which only read ask for.       *)
(***************************************************************************)
CONSTANTS
    Services,
    None    \* the empty name, of a request that names no service

ASSUME ServicesAssumption == None \notin Services

=============================================================================
