----------------------------- MODULE MCDiscovery -----------------------------
EXTENDS Discovery
==============================================================================
