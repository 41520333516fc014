--------------------------- MODULE MCOauthSession ---------------------------
(***************************************************************************)
(* Instances of OauthSession for TLC.                                      *)
(***************************************************************************)
EXTENDS OauthSession, TLC

CONSTANTS f1, f2, i1, i2

MCFlow == {f1, f2}
MCInst == {i1, i2}
MCInstOf == f1 :> i1 @@ f2 :> i2

=============================================================================
