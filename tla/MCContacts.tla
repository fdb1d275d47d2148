----------------------------- MODULE MCContacts -----------------------------
(***************************************************************************)
(* Model values for Contacts: ann's address is a prefix of annie's (as     *)
(* ann@x.org is of ann@x.org.uk), and one message has both.                *)
(***************************************************************************)
EXTENDS Contacts

CONSTANTS ann, annie, n1, n2, k1, k2

MCAddresses == {ann, annie}
MCNames == {n1, n2}
MCKeys == {k1, k2}
MCWithin == {<<ann, ann>>, <<annie, annie>>, <<ann, annie>>}
MCMail == <<<<[address |-> annie, name |-> None], [address |-> ann, name |-> n1]>>>>
=============================================================================
