------------------------------- MODULE MCCodec -------------------------------
(***************************************************************************)
(* Codec has no parameters: TLC checks it as it is.                        *)
(***************************************************************************)
EXTENDS Codec
=============================================================================
