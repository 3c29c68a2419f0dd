------------------------- MODULE WpaSupplicantProofs -------------------------
(***************************************************************************)
(* Proofs about the wpa_supplicant daemon model.                           *)
(***************************************************************************)
EXTENDS WpaSupplicant, TLAPS

-----------------------------------------------------------------------------
(* Type correctness.  TypeOK alone is not inductive: the SCANNING case of  *)
(* event_handler stores select_network's result in current_network, and   *)
(* what select_network returns on an arbitrary result list is a fold over *)
(* it, out of reach without induction.  But get_scan_results never fills   *)
(* the list (it frees it and ignores the buffer the ioctl filled), so the  *)
(* list the fold runs over is always empty, select_network returns NULL,   *)
(* connect_to_network is never called, and the state machine never leaves *)
(* DISCONNECTED and SCANNING.  NoConnection says so; with it TypeOK is     *)
(* inductive.                                                              *)

(* The daemon never holds a scan result, never has a current network and  *)
(* never gets past scanning: the consequence of get_scan_results leaving  *)
(* the result list empty.                                                  *)
NoConnection ==
    /\ scanResults = << >>
    /\ currentNetwork = NoNetwork
    /\ state \in {"DISCONNECTED", "SCANNING"}

WpaIInv == TypeOK /\ NoConnection

(* A configured profile list is a sequence.                                *)
LEMMA ProfileListLen ==
    ASSUME NEW nets \in BoundedSeq(Profiles, MaxNetworks)
    PROVE  nets \in Seq(Profiles) /\ Len(nets) \in 0 .. MaxNetworks
<1>1. PICK m \in 0 .. MaxNetworks : nets \in [1 .. m -> Profiles]
    BY DEF BoundedSeq, SeqOf
<1>2. nets \in Seq(Profiles) /\ Len(nets) = m
    BY <1>1, WpaAssumption
<1>3. QED
    BY <1>1, <1>2

(* select_network over an empty result list returns NULL: the nested      *)
(* loops run no iteration and best keeps its initial value.                *)
LEMMA EmptySelect ==
    ASSUME NEW nets \in Seq(Profiles)
    PROVE  SelectNetwork(nets, << >>) = NoNetwork
<1>1. DOMAIN LoopPairs(nets, << >>) = {}
    BY DEF LoopPairs
<1>2. FoldLeft(LAMBDA acc, p : SelectStep(nets, << >>, acc, p),
               SelectInit, LoopPairs(nets, << >>)) = SelectInit
    BY <1>1 DEF FoldLeft, MapThenFoldSet
<1>3. SelectNetwork(nets, << >>) = SelectInit.best
    BY <1>2, Zenon DEF SelectNetwork
<1>4. QED
    BY <1>3 DEF SelectInit, NoNetwork

LEMMA InitWpaIInv == Init => WpaIInv
<1> SUFFICES ASSUME Init PROVE WpaIInv
    OBVIOUS
<1>1. << >> \in BoundedSeq(Profiles, MaxNetworks)
    BY WpaAssumption DEF BoundedSeq, SeqOf
<1>2. QED
    BY <1>1, WpaAssumption
       DEF Init, WpaIInv, TypeOK, NoConnection, WpaState, MainPcs, ThreadPcs,
           NoNetwork

(* Every step keeps WpaIInv: one case per action of Next.  Only the steps *)
(* of event_handler can touch the state, and only through SCANNING can it *)
(* reach the result list and current_network.                              *)
LEMMA NextWpaIInv == WpaIInv /\ [Next]_vars => WpaIInv'
<1> SUFFICES ASSUME WpaIInv, [Next]_vars
             PROVE  WpaIInv'
    OBVIOUS
<1> USE DEF WpaIInv, TypeOK, NoConnection
<1>1. CASE MainStart
    BY <1>1 DEF MainStart, MainPcs
<1>2. CASE MainConfig
    BY <1>2 DEF MainConfig, MainPcs
<1>3. CASE MainSocket
    BY <1>3 DEF MainSocket, MainPcs
<1>4. CASE MainSpawnEvent
    BY <1>4 DEF MainSpawnEvent, MainPcs, ThreadPcs
<1>5. CASE MainSpawnScan
    BY <1>5 DEF MainSpawnScan, MainPcs, ThreadPcs
<1>6. CASE MainJoin
    <2>1. << >> \in BoundedSeq(Profiles, MaxNetworks)
        BY WpaAssumption DEF BoundedSeq, SeqOf
    <2>2. QED
        BY <1>6, <2>1 DEF MainJoin, MainPcs
<1>7. CASE Signal
    BY <1>7 DEF Signal, MainPcs
<1>8. CASE EvCheck
    BY <1>8 DEF EvCheck, ThreadPcs
<1>9. CASE EvBody
    <2>1. /\ evPc' = "check"
          /\ UNCHANGED <<running, autoConnect, networks, mainPc, scPc>>
        BY <1>9, Zenon DEF EvBody
    <2>2. evPc' \in ThreadPcs
        BY <2>1 DEF ThreadPcs
    <2>3. CASE state = "DISCONNECTED"
        <3>1. \/ TriggerScan
              \/ UNCHANGED <<state, scanResults, currentNetwork>>
            BY <1>9, <2>3, Zenon DEF EvBody
        <3>2. QED
            BY <3>1, <2>1, <2>2 DEF TriggerScan, WpaState
    <2>4. CASE state = "SCANNING"
        <3>1. ScanningStep
            BY <1>9, <2>4, Zenon DEF EvBody
        <3>2. PICK r \in ScanOutcome :
                 LET results == GetScanResults(r)
                     net     == SelectNetwork(networks, results)
                 IN  IF r \in {"nomem", "error"}
                     THEN UNCHANGED <<state, scanResults, currentNetwork>>
                     ELSE IF net # NoNetwork
                          THEN /\ ConnectToNetwork(net)
                               /\ scanResults' = results
                          ELSE /\ state' = "DISCONNECTED"
                               /\ scanResults' = results
                               /\ UNCHANGED currentNetwork
            BY <3>1 DEF ScanningStep
        <3>3. GetScanResults(r) = << >>
            BY DEF GetScanResults
        <3>4. SelectNetwork(networks, GetScanResults(r)) = NoNetwork
            BY <3>3, ProfileListLen, EmptySelect
        <3>5. /\ state' \in {"DISCONNECTED", "SCANNING"}
              /\ scanResults' = << >>
              /\ currentNetwork' = currentNetwork
            BY <3>2, <3>3, <3>4, <2>4
        <3>6. QED
            BY <3>5, <2>1, <2>2 DEF WpaState
    <2>5. QED
        BY <2>3, <2>4
<1>10. CASE ScCheck
    BY <1>10 DEF ScCheck, ThreadPcs
<1>11. CASE ScBody
    <2>1. /\ scPc' = "check"
          /\ UNCHANGED <<running, autoConnect, networks, mainPc, evPc>>
          /\ \/ TriggerScan
             \/ UNCHANGED <<state, scanResults, currentNetwork>>
        BY <1>11, Zenon DEF ScBody
    <2>2. QED
        BY <2>1 DEF TriggerScan, WpaState, ThreadPcs
<1>12. CASE UNCHANGED vars
    BY <1>12 DEF vars
<1>13. QED
    BY <1>1, <1>2, <1>3, <1>4, <1>5, <1>6, <1>7, <1>8, <1>9, <1>10,
       <1>11, <1>12 DEF Next

(* For every SSID set, priority set and configuration size, the variables *)
(* of the daemon keep their types; in particular current_network is NULL  *)
(* or a position in the profile list.                                      *)
THEOREM WpaTypeCorrect == Spec => []TypeOK
BY InitWpaIInv, NextWpaIInv, PTL DEF Spec, WpaIInv

(* For every configuration, the daemon never associates: get_scan_results *)
(* leaves the result list empty, so select_network finds no network and   *)
(* the state machine cycles between DISCONNECTED and SCANNING.             *)
THEOREM NeverAssociates == Spec => []NoConnection
BY InitWpaIInv, NextWpaIInv, PTL DEF Spec, WpaIInv
=============================================================================
