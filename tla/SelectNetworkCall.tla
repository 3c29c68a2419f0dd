------------------------- MODULE SelectNetworkCall -------------------------
(***************************************************************************)
(* One call of select_network (src/userspace/wpa_supplicant/main.c) on any *)
(* profile list and scan-result list of bounded length, compared with the  *)
(* reference definitions of SelectNetwork.                                 *)
(***************************************************************************)
EXTENDS SelectNetwork

CONSTANTS Ssids,        \* the SSIDs profiles and scan results may carry
          Priorities,   \* priority values: atoi of the config file's text
          Signals,      \* signal levels in dBm
          MaxList       \* the longest list of either kind

ASSUME CallAssumption ==
    /\ Priorities \subseteq Int /\ Signals \subseteq Int
    /\ MaxList \in Nat

VARIABLES nets, bss, result

vars == <<nets, bss, result>>

Profiles == [ssid : Ssids, priority : Priorities, disabled : BOOLEAN]
ScanResults == [ssid : Ssids, signal : Signals]

(* The value of result before the call returns.                            *)
Unset == -1

Init ==
    /\ nets \in BoundedSeq(Profiles, MaxList)
    /\ bss \in BoundedSeq(ScanResults, MaxList)
    /\ result = Unset

Call ==
    /\ result = Unset
    /\ result' = SelectNetwork(nets, bss)
    /\ UNCHANGED <<nets, bss>>

Spec == Init /\ [][Call]_vars

-----------------------------------------------------------------------------
(* When select_network returns a profile, it is an enabled profile seen   *)
(* in the scan, and no other such profile has a higher priority, or the   *)
(* same priority and a stronger signal.                                    *)
SelectsBest ==
    result \notin {Unset, NoNetwork} =>
        /\ result \in Candidates(nets, bss)
        /\ \A c \in Candidates(nets, bss) : AtLeastAsGood(nets, bss, result, c)

=============================================================================
