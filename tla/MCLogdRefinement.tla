-------------------------- MODULE MCLogdRefinement --------------------------
EXTENDS MCLogd, LogdRefinement
=============================================================================
