----------------------------- MODULE MCStoreFile -----------------------------
(* The instance of StoreFile for TLC: bytes are quaternary digits, lengths  *)
(* and counts have two of them, and some strings need both.  One nickname  *)
(* has sixteen, which two digits cannot say.                               *)
EXTENDS StoreFile

MCIdentities ==
    {[public_key |-> <<2>>, secret_key |-> <<0, 3>>]}

\* Its length is written as 0.  Where no other contact, message or request follows,
\* its digits pass for a trust, a time and one message, otherwise for nothing.
LongName == <<1, 0, 2, 0, 1, 0, 0, 2, 1, 3, 3, 3, 3, 3, 3, 3>>

MCContacts ==
    {[public_key |-> <<0>>, nickname |-> <<2, 1, 0, 3, 2>>, trust |-> 3, last_seen |-> 15],
     [public_key |-> <<2>>, nickname |-> <<>>, trust |-> 0, last_seen |-> 0],
     [public_key |-> <<2>>, nickname |-> LongName, trust |-> 1, last_seen |-> 6]}

MCMessages ==
    {[peer |-> <<0>>, text |-> <<2, 2, 2, 2>>, outgoing |-> TRUE, timestamp |-> 7],
     [peer |-> <<2>>, text |-> <<>>, outgoing |-> FALSE, timestamp |-> 0]}

MCRequests == {[peer |-> <<0>>, greeting |-> <<0, 2>>, timestamp |-> 9]}
=============================================================================
