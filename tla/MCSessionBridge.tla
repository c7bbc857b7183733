--------------------------- MODULE MCSessionBridge ---------------------------
EXTENDS SessionBridge
MCWorlds == {"generated", "named"}
=============================================================================
