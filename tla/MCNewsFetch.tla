----------------------------- MODULE MCNewsFetch -----------------------------
(* Small instances of NewsFetch for TLC.                                      *)
EXTENDS NewsFetch

CONSTANTS s1, s2, u1, u2
=============================================================================
