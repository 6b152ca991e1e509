-------------------------- MODULE MCPictureOrderCount --------------------------
EXTENDS PictureOrderCount

\* Offsets of init_poc for one B picture between references.
NonRefOffset == -2
=============================================================================
