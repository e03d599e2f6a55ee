--------------------------- MODULE MCEmailDelivery ---------------------------
(* An instance of EmailDelivery: a mail of two parts. *)
EXTENDS EmailDelivery

MCParts == [m \in Mails |-> 2]
=============================================================================
