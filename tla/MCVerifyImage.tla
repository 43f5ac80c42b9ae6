---------------------------- MODULE MCVerifyImage ----------------------------
(* Small worlds for VerifyImage, taken from MCWriteImage.                    *)
EXTENDS VerifyImage, MCWriteImage
=============================================================================
