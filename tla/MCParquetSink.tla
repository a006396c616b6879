--------------------------- MODULE MCParquetSink ---------------------------
(***************************************************************************)
(* Values for model checking ParquetSink.                                  *)
(***************************************************************************)
EXTENDS ParquetSink

CONSTANTS book, trade

BothKeys == {book, trade}

AllRowsFit  == {TRUE}
SomeRowsFit == {TRUE, FALSE}

=============================================================================
