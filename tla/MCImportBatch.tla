---------------------------- MODULE MCImportBatch ----------------------------
(* TLC instance of ImportBatch; the users, the imports and the book are    *)
(* model values of the configurations.                                     *)
EXTENDS ImportBatch
=============================================================================
