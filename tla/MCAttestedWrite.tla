--------------------------- MODULE MCAttestedWrite ---------------------------
(* Small worlds for AttestedWrite, taken from MCWriteImage.                  *)
EXTENDS AttestedWrite, MCWriteImage

\* the operator may change the verification mode between seal and write
ChangingOptions == {Option(m, TRUE, FALSE, TRUE, twin) : m \in {"none", "full"}}
\* or mistype the token, or drop the permission
ModeOptions == ChangingOptions \cup {Option("none", FALSE, FALSE, TRUE, twin),
                                     Option("none", TRUE, FALSE, TRUE, other)}
NoneOptions == {Option("none", TRUE, FALSE, TRUE, twin)}
=============================================================================
