----------------------------- MODULE MCPending -----------------------------
(***************************************************************************)
(* PendingTransactions on three transactions: txA and txB exclude each     *)
(* other, txA expires first.                                               *)
(***************************************************************************)
EXTENDS PendingTransactions

CONSTANTS txA, txB, txC

Expirations == txA :> 2 @@ txB :> 3 @@ txC :> 3

Pairs == {{txA, txB}}
=============================================================================
