--------------------------- MODULE MCBrowserAlarm ---------------------------
(* BrowserAlarm for TLC.                                                     *)
EXTENDS BrowserAlarm
=============================================================================
