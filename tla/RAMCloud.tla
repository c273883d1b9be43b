------------------------------ MODULE RAMCloud ------------------------------
(***************************************************************************)
(* The part of a RAMCloud table that the Python client library relies on:  *)
(* conditional reads, writes and deletes of versioned objects, under the   *)
(* reject rules that ramcloud.py fills in.                                 *)
(*                                                                         *)
(* The server itself is not in the repository.  What it does with reject   *)
(* rules is taken from how ramcloud.py builds them and decodes the status  *)
(* it gets back, and from the contract written in RejectRules.java.  One   *)
(* call is one atomic step of the server.                                  *)
(*                                                                         *)
(* An object is a record [ver, body].  ver is the version of the newest    *)
(* object that ever was under this key: it survives a delete, so a key     *)
(* that is written again carries on from it.  An absent object has the     *)
(* body NoBody.                                                            *)
(***************************************************************************)
EXTENDS Naturals

CONSTANT NoBody   \* the body of a key that holds no object

RejectRules(doesntExist, exists, gtGiven, given) ==
  [doesntExist |-> doesntExist, exists |-> exists, gtGiven |-> gtGiven, given |-> given]

RulesType == [doesntExist : BOOLEAN, exists : BOOLEAN, gtGiven : BOOLEAN, given : Nat]

Unconditional == RejectRules(FALSE, FALSE, FALSE, 0)
MustExist     == RejectRules(TRUE, FALSE, FALSE, 0)
MustNotExist  == RejectRules(FALSE, TRUE, FALSE, 0)

(* RejectRules.exactly(v). *)
Exactly(v) == RejectRules(TRUE, FALSE, TRUE, v)

(* RejectRules(version_gt_given=True, given_version=v): an absent object    *)
(* passes.                                                                  *)
NotNewerThan(v) == RejectRules(FALSE, FALSE, TRUE, v)

Exists(o) == o.body # NoBody

(* The status of a call under the rules rr on the object o, by the name of  *)
(* the exception that is meant for it.                                      *)
Status(rr, o) ==
  IF ~Exists(o) THEN IF rr.doesntExist THEN "NoObjectError" ELSE "ok"
  ELSE IF rr.exists THEN "ObjectExistsError"
  ELSE IF rr.gtGiven /\ o.ver > rr.given THEN "VersionError"
  ELSE "ok"

Accepts(rr, o) == Status(rr, o) = "ok"

(* The exception handle_error raises for a status.  For a version that does *)
(* not match it means to raise VersionError, and fails to build it from     *)
(* reject_rules, a name it does not know: no clause that expects a          *)
(* VersionError ever sees one.                                              *)
Err(st) == IF st = "VersionError" THEN "NameError" ELSE st

(* The object after an accepted call that writes body b, or that deletes    *)
(* (b is NoBody).  A delete of an absent object is accepted and does        *)
(* nothing, unless rr.doesntExist.                                          *)
Written(o, b) == [ver |-> o.ver + 1, body |-> b]
Deleted(o)    == [o EXCEPT !.body = NoBody]
Changed(o, b) == IF b = NoBody THEN Deleted(o) ELSE Written(o, b)
=============================================================================
