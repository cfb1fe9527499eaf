------------------------------ MODULE MCFeeds ------------------------------
(***************************************************************************)
(* Feeds for TLC: two trackers, and intervals that are good, negative and  *)
(* too long.                                                               *)
(***************************************************************************)
EXTENDS Feeds

MCIntervalos == {10, -1, MaxMinutos + 1}
=============================================================================
