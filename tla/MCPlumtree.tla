----------------------------- MODULE MCPlumtree -----------------------------
EXTENDS Plumtree
=============================================================================
