--------------------------- MODULE MCTableIterator ---------------------------
(* Four hashes: a blob with more than one object before it, in it and behind *)
(* it, and a gap.                                                           *)
EXTENDS TableIterator

FourHashes == 4
=============================================================================
