--------------------------- MODULE MCSpiderBrowser ---------------------------
(***************************************************************************)
(* Instances of SpiderBrowser for TLC.                                     *)
(***************************************************************************)
EXTENDS SpiderBrowser

=============================================================================
