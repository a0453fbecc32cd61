--------------------------- MODULE MCSourceBinding ---------------------------
EXTENDS SourceBinding
=============================================================================
