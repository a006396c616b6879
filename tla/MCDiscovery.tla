---------------------------- MODULE MCDiscovery ----------------------------
(***************************************************************************)
(* Values for model checking Discovery.                                    *)
(***************************************************************************)
EXTENDS Discovery

TwoSeries == <<"BTC", "ETH">>
OneSeries == <<"BTC">>

AtStart == {0}

OneMaybe == {"ETH"}
Nobody == {}

=============================================================================
