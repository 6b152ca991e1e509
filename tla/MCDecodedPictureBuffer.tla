----------------------- MODULE MCDecodedPictureBuffer -----------------------
EXTENDS RefPicLists
=============================================================================
