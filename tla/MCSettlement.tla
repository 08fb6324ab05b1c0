----------------------------- MODULE MCSettlement -----------------------------
(***************************************************************************)
(* Settlement for TLC: a setup that is retained and one with a repeated    *)
(* acknowledgement, which is not; one holder of a package besides the two  *)
(* roles; the copies of alice and of the holder are damaged field by       *)
(* field, bob's is lost; two faults.                                       *)
(***************************************************************************)
EXTENDS Settlement

MCAcks == {<<"alice", "bob">>, <<"alice", "alice", "bob">>}

===============================================================================
