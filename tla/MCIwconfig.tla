----------------------------- MODULE MCIwconfig -----------------------------
EXTENDS Iwconfig

(* Words for every branch of the loop: each keyword, a mode name and a    *)
(* word no setter accepts as a mode or a txpower, "off", a channel in the  *)
(* 2.4 GHz band and one (negative) whose frequency fits in an int.         *)
MCTokens == {"essid", "mode", "channel", "txpower", "key", "commit",
             "off", "managed", "x", "6", "-60"}

MCNumericValue == ("6" :> 6) @@ ("-60" :> -60)
=============================================================================
