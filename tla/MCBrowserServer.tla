-------------------------- MODULE MCBrowserServer --------------------------
EXTENDS BrowserServer, TLC
CONSTANTS lane, tool
MCCallers == {lane, tool}
=============================================================================
