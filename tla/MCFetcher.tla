------------------------------ MODULE MCFetcher ------------------------------
(* An instance of Fetcher for TLC: two calls to a slow host and one to each      *)
(* of two others.                                                             *)
EXTENDS Fetcher, TLC

CONSTANTS c1, c2, c3, c4, news, api, push

MCHosts  == {news, api, push}
MCHostOf == c1 :> news @@ c2 :> news @@ c3 :> api @@ c4 :> push

(* Host news may never answer, the others do. *)
MCSlowNews == Spec /\ SlowHostFairness(news)

(* The calls to the other hosts all return although no exchange with news     *)
(* ever needs to end (HostIsolation of the slow host).                        *)
MCIsolation == HostIsolation(news)
=============================================================================
