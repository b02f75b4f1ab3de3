-------------------------------- MODULE MCHub --------------------------------
EXTENDS Hub
=============================================================================
