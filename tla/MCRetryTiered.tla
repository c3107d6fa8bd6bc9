---------------------------- MODULE MCRetryTiered ----------------------------
(***************************************************************************)
(* An instance of RetryTiered for TLC: two primary browsers and one        *)
(* extended engine.                                                        *)
(***************************************************************************)
EXTENDS RetryTiered

PrimaryRotation  == <<"chrome", "chrome-new">>
ExtendedRotation == <<"firefox">>

\* Errors the caller's action can end with: one per way the engine reacts.
AnyAction == {"Auth", "RateLimit", "Blocked", "Challenge", "Unavailable503",
              "Lost", "Other"}

\* Errors a switch can end with.
AnySwitch == {"Auth", "BackendUnavailable", "Challenge", "Lost", "Other"}

=============================================================================
