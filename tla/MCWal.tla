------------------------------- MODULE MCWal -------------------------------
EXTENDS Wal

(* A header of two units and payloads of zero and three units: a torn header, *)
(* a header without payload and a torn payload are all distinct. *)
MCSizes == {2, 5}
=============================================================================
