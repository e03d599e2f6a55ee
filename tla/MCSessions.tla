----------------------------- MODULE MCSessions -----------------------------
(* An instance of Sessions: two connections and a mail that arrives. *)
EXTENDS Sessions
=============================================================================
