----------------------------- MODULE MailChannel -----------------------------
(***************************************************************************)
(* What the mail worker promises to its users, without packets, nodes and  *)
(* files: a mail that was handed in may appear in the inbox of its         *)
(* recipient, more than once if it was taken out of there, and the sender  *)
(* may be told that it was delivered once it has been there.  What the     *)
(* sender knows of a mail may be spoiled, and then it may be told so of a  *)
(* mail that was not delivered.                                            *)
(***************************************************************************)
CONSTANT Mails

VARIABLES submitted, inbox, received, confirmed, spoiled

vars == <<submitted, inbox, received, confirmed, spoiled>>

Init == submitted = {} /\ inbox = {} /\ received = {} /\ confirmed = {} /\ spoiled = {}

\* The sender hands in a mail.
Submit(m) ==
  /\ m \notin submitted
  /\ submitted' = submitted \cup {m}
  /\ UNCHANGED <<inbox, received, confirmed, spoiled>>

\* It appears in the inbox.
Deliver(m) ==
  /\ m \in submitted \ inbox
  /\ inbox' = inbox \cup {m}
  /\ received' = received \cup {m}
  /\ UNCHANGED <<submitted, confirmed, spoiled>>

\* The recipient takes it out.
Remove(m) ==
  /\ m \in inbox
  /\ inbox' = inbox \ {m}
  /\ UNCHANGED <<submitted, received, confirmed, spoiled>>

\* The sender learns that it was delivered.
Confirm(m) ==
  /\ m \in (received \cup spoiled) \ confirmed
  /\ confirmed' = confirmed \cup {m}
  /\ UNCHANGED <<submitted, inbox, received, spoiled>>

\* What the sender knows of a mail that it has sent is spoiled.
Spoil(m) ==
  /\ m \in submitted
  /\ spoiled' = spoiled \cup {m}
  /\ UNCHANGED <<submitted, inbox, received, confirmed>>

Next ==
  \E m \in Mails : Submit(m) \/ Deliver(m) \/ Remove(m) \/ Confirm(m) \/ Spoil(m)

Spec == Init /\ [][Next]_vars
=============================================================================
