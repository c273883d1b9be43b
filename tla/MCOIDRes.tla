------------------------------ MODULE MCOIDRes ------------------------------
(* Two clients are enough for every race over one object: a reservation     *)
(* meets one other between its read and its write.  Their deltas may change  *)
(* anywhere in next() but between the write and the range that is kept.     *)
EXTENDS OIDRes

BeforeTheWrite == {"idle", "read", "create", "update"}
=============================================================================
