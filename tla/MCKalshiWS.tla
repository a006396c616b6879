----------------------------- MODULE MCKalshiWS -----------------------------
(***************************************************************************)
(* Values for model checking KalshiWS.                                     *)
(***************************************************************************)
EXTENDS KalshiWS, TLC

CONSTANTS t1, t2

DeltaFrames == {"orderbook_delta"}
OneMarket   == {t1}

\* The tickers are interchangeable as long as InitActive is all or none of them.
TickerSymmetry == Permutations(Tickers)

=============================================================================
