--------------------------- MODULE MCBrowserSession ---------------------------
EXTENDS BrowserSession
=============================================================================
