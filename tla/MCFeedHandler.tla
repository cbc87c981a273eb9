--------------------------- MODULE MCFeedHandler ---------------------------
(* A small instance of FeedHandler for TLC.                                *)
EXTENDS FeedHandler
=============================================================================
