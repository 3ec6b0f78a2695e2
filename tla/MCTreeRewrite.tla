--------------------------- MODULE MCTreeRewrite ----------------------------
\* TreeRewrite with one token.
EXTENDS TreeRewrite
=============================================================================
