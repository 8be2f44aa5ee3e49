--------------------------- MODULE MCOutboxDelivery ---------------------------
(***************************************************************************)
(* Small instances of OutboxDelivery.                                      *)
(***************************************************************************)
EXTENDS OutboxDelivery

OneByOne == {{e} : e \in Events}

First == {1}
=============================================================================
