-------------------------- MODULE MCFailureTracker --------------------------
(***************************************************************************)
(* Instances of FailureTracker for TLC.                                    *)
(***************************************************************************)
EXTENDS FailureTracker

TwoPairs == {<<"a.com", "chrome-h">>, <<"b.com", "firefox">>}

=============================================================================
