----------------------------- MODULE MCDHTStorage -----------------------------
(***************************************************************************)
(* Small instances of DHTStorage.  One mail with two delete hashes gives   *)
(* the index entries that a request may name: one that is there, one that  *)
(* is not, and both; a wrong authorisation; and a mail that is stored      *)
(* again with another delete hash.                                         *)
(***************************************************************************)
EXTENDS DHTStorage, TLC

CONSTANTS x1, e1, c1, d1, d2

\* The authorisations may be exchanged.
Symmetry == {d1 :> d2 @@ d2 :> d1}

\* No action reads the responses: states that differ in nothing else are one.
Store == <<files, summary, update_counter, now, history>>

\* Nor does one read the history, which is for the properties of mail records.
Files == <<files, summary, update_counter, now>>

\* Sizes small enough for the limit to be met.
MCSize ==
  [index |-> 1, entry |-> 1, deletion |-> 1, item |-> 1, email |-> 3, long |-> 4, cut |-> 2,
   stub |-> 2, short |-> 1, contact |-> 1]

=============================================================================
