--------------------------- MODULE MCTelegramInbox ---------------------------
(***************************************************************************)
(* Instances of TelegramInbox for TLC.                                     *)
(***************************************************************************)
EXTENDS TelegramInbox, TLC

CONSTANTS p1, p2, b1

OneOfEach == (p1 :> NoBatch) @@ (p2 :> b1)
=============================================================================
