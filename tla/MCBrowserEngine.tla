------------------------- MODULE MCBrowserEngine --------------------------
(* A small instance of BrowserEngine for TLC.                              *)
EXTENDS BrowserEngine

CONSTANTS u1, u2

MCUrls == {u1, u2}
MCSecureUrls == {u2}
(* TLC's integers stop at 2^31 - 1; any value above HistoryCap gives the   *)
(* same comparisons as UINT32_MAX, which is only compared with indices.    *)
MCU32Max == 2147483647
=============================================================================
