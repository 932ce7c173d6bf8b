------------------------------- MODULE MCRpc -------------------------------
(* Five calls, of all kinds, and three transaction ids. *)
EXTENDS Rpc, TLC

CONSTANTS c1, c2, c3, c4, c5

MCKind == (c1 :> "promise") @@ (c2 :> "promise") @@ (c3 :> "value")
            @@ (c4 :> "unknown") @@ (c5 :> "promise")
=============================================================================
