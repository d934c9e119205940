------------------------- MODULE MCPersistentNodes -------------------------
EXTENDS PersistentNodes
=============================================================================
