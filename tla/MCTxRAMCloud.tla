---------------------------- MODULE MCTxRAMCloud ----------------------------
(* Scripts for the runs of TxRAMCloud.                                      *)
EXTENDS TxRAMCloud, TLC

Symmetry == Permutations(Client) \cup Permutations(TxId)

Bit == {0, 1, 2}
Inc == [d \in Bit \cup {NoData} |-> IF d = NoData THEN 1 ELSE (d + 1) % 3]
Two == [d \in Bit \cup {NoData} |-> 2]

KO(kind, f, rule) == [kind |-> kind, f |-> f, rule |-> rule]

GetIf(k, rule) == [type |-> "read", ops |-> k :> KO("noop", Inc, rule)]
Get(k)         == GetIf(k, "any")
Put(k, rule)   == [type |-> "write", ops |-> k :> KO("write", Two, rule)]
Del(k, rule)   == [type |-> "delete", ops |-> k :> KO("delete", Two, rule)]
Tx(ops)        == [type |-> "commit", ops |-> ops]

(* Read an object and increment it, as stresstest_increment.py does.        *)
Increment(k) == <<Get(k), Tx(k :> KO("write", Inc, "same"))>>

(* Read two objects and update both, as stresstest_bank.py does.            *)
Transfer == <<Get(1), Get(2),
              Tx(1 :> KO("write", Inc, "same") @@ 2 :> KO("write", Inc, "same"))>>

(* Blind transactions.                                                      *)
Both == <<Tx(1 :> KO("write", Two, "any") @@ 2 :> KO("write", Inc, "any"))>>

Full == {[k \in Key |-> 0]}

Reader == <<Get(1), Get(2)>>

(* Read one object, and change both if it has not changed.                  *)
Mixin == <<Get(1), Tx(1 :> KO("write", Inc, "same") @@ 2 :> KO("write", Inc, "any"))>>

TransferScripts == {Transfer, Reader, Both}
ThreeScripts == {Mixin, Reader}

(* Every kind of operation except those that make an object disappear.      *)
Mixed == {<<Tx(1 :> KO("write", Two, "absent") @@ 2 :> KO("write", Inc, "exist"))>>,
          <<Tx(1 :> KO("noop", Two, "exist") @@ 2 :> KO("write", Inc, "any")), Put(1, "same")>>,
          <<Put(1, "any"), Put(2, "exist")>>,
          <<Put(2, "absent"), Get(2), Put(2, "notnewer")>>,
          Both}

MixedOrTransfer == Mixed \cup {Transfer}

(* Objects that come and go.                                                *)
Deletes == {<<Tx(1 :> KO("delete", Two, "any") @@ 2 :> KO("write", Inc, "any"))>>,
            <<Get(1), Tx(1 :> KO("delete", Two, "same") @@ 2 :> KO("noop", Inc, "any"))>>,
            <<Get(2), Del(2, "same"), Put(2, "exist")>>,
            <<Get(1), GetIf(1, "same"), GetIf(2, "notnewer")>>,
            <<Del(1, "exist"), Put(1, "any")>>,
            <<Tx(1 :> KO("write", Two, "any") @@ 2 :> KO("delete", Two, "exist"))>>}

(* A transaction over an object that need not exist, and a write under the  *)
(* version which that returned, against transactions on the same object.    *)
Noops == {<<Tx(1 :> KO("noop", Two, "any")), Put(1, "same")>>, Both}

Half == {[k \in Key |-> IF k = 2 THEN 0 ELSE NoData]}
HalfOrFull == Half \cup Full
=============================================================================
