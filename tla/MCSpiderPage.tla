----------------------------- MODULE MCSpiderPage -----------------------------
(* An instance of SpiderPage for TLC: documents of every size, as content, as a
   challenge while they are small enough to be taken for one, as a loading page
   or a rate limit on both sides of their size limits. *)
EXTENDS SpiderPage

Documents ==
    [len : 1..5, text : {"plain"}] \cup [len : 1..4, text : {"challenge"}]
    \cup [len : {2, 3}, text : {"loading"}] \cup [len : {1, 4, 5}, text : {"limit"}]
    \cup {Empty}

=============================================================================
