------------------------------- MODULE MCRfm69 -------------------------------
EXTENDS Rfm69
=============================================================================
