---------------------------- MODULE MCUserSession -----------------------------
EXTENDS UserSession

===============================================================================
