---------------------------- MODULE MCEventStream ----------------------------
(* Model values and filters for TLC.                                       *)
EXTENDS EventStream, TLC

CONSTANTS e1, e2

MCFilters == {Events, {e1}}
=============================================================================
