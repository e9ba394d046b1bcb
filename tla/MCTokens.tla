------------------------------ MODULE MCTokens ------------------------------
EXTENDS Tokens, TLC
CONSTANTS gcp, id, installation
MCKindOf == gcp :> "gcp" @@ id :> "id" @@ installation :> "installation"
=============================================================================
