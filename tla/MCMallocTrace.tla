---------------------------- MODULE MCMallocTrace ----------------------------
(* Two threads for malloc and free, whose code is that of calloc and        *)
(* realloc too.                                                             *)
EXTENDS MallocTrace
==============================================================================
