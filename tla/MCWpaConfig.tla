----------------------------- MODULE MCWpaConfig ----------------------------
EXTENDS WpaConfig

(* Lines for every branch of the loop: a block's opening and closing     *)
(* lines, settings with and without quotes (one with a '#'), one with a  *)
(* tab before the key, a space after it and a negative number, a          *)
(* key_mgmt name, a comment, a line sscanf rejects    *)
(* and a global ap_scan.                                                   *)
MCLines ==
    { <<"network={">>,
      <<"}">>,
      <<"ssid", "=", "a">>,
      <<"ssid", "=", Quote, "b", Quote>>,
      <<TabChar, "priority", " ", "=", "-", "2">>,
      <<"psk", "=", Quote, "a", "#", "a", Quote>>,
      <<"key_mgmt", "=", "SAE">>,
      <<"#", "ssid", "=", "b">>,
      <<"a">>,
      <<"ap_scan", "=", "0">> }
=============================================================================
