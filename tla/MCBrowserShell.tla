-------------------------- MODULE MCBrowserShell --------------------------
(* A small instance of BrowserShell for TLC, on the engine instance of     *)
(* MCBrowserEngine.                                                        *)
EXTENDS BrowserShell, MCBrowserEngine

MCAboutHelp == u2
=============================================================================
