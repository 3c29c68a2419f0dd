--------------------------- MODULE WpaSupplicant ---------------------------
(***************************************************************************)
(* The daemon of src/userspace/wpa_supplicant/main.c: the main thread,     *)
(* which parses the options and the configuration, opens the socket,      *)
(* starts the event thread and the scan thread and joins them; the two    *)
(* threads, whose loop bodies run under wpa_s->mutex; and the SIGINT /    *)
(* SIGTERM handler, which clears wpa_s->running without the mutex.        *)
(*                                                                         *)
(* A loop body runs under the mutex and touches nothing the other thread  *)
(* reads outside it, so each body is one atomic step; the test of         *)
(* `running' at the head of each loop is a step of its own, since the     *)
(* signal handler may clear the flag between the test and the body.       *)
(* The ioctl calls are the environment: each outcome the code tells apart *)
(* is a nondeterministic choice.                                          *)
(***************************************************************************)
EXTENDS Integers, Sequences, SequencesExt, SelectNetwork

CONSTANTS Ssids,        \* SSIDs a network block of the configuration may name
          Priorities,   \* priority values a network block may give
          MaxNetworks   \* the most network blocks a configuration holds

ASSUME WpaAssumption ==
    /\ Priorities \subseteq Int
    /\ MaxNetworks \in Nat

VARIABLES
    running,          \* wpa_s.running
    state,            \* wpa_s.state
    autoConnect,      \* wpa_s.auto_connect (ap_scan of the configuration)
    networks,         \* the profile list wpa_s.networks, head first
    scanResults,      \* the result list wpa_s.scan_results, head first
    currentNetwork,   \* wpa_s.current_network, a position or NoNetwork
    mainPc,           \* where the main thread is
    evPc,             \* where the event thread is ("none": not created)
    scPc              \* where the scan thread is

vars == <<running, state, autoConnect, networks, scanResults, currentNetwork,
          mainPc, evPc, scPc>>

WpaState == {"DISCONNECTED", "SCANNING", "AUTHENTICATING", "ASSOCIATING",
             "ASSOCIATED", "4WAY_HANDSHAKE", "GROUP_HANDSHAKE", "COMPLETED"}

Profiles == [ssid : Ssids, priority : Priorities, disabled : BOOLEAN]

(* A scan result: the SSID and a signal level.  The code never builds one. *)
ScanResult == [ssid : Ssids, signal : Int]

MainPcs == {"start", "handlers", "parsed", "socket", "spawned", "join",
            "done", "exit", "killed"}

ThreadPcs == {"none", "check", "body", "done"}

(* The process runs: main has not returned and no signal killed it.        *)
Live == mainPc \notin {"done", "exit", "killed"}

-----------------------------------------------------------------------------
(* Helpers, one per C function the loop bodies call.                       *)

(* trigger_scan: the state is set to SCANNING before the ioctl, whose      *)
(* failure only makes the (ignored) return value -1.                       *)
TriggerScan ==
    /\ state' = "SCANNING"
    /\ UNCHANGED <<scanResults, currentNetwork>>

(* connect_to_network: current_network and ASSOCIATING are set before the *)
(* SIOCSIWESSID ioctl, whose failure only makes the return value -1.       *)
ConnectToNetwork(net) ==
    /\ currentNetwork' = net
    /\ state' = "ASSOCIATING"
    /\ UNCHANGED scanResults

(* get_scan_results: "nomem" and "error" return -1; "eagain" returns 0     *)
(* with the list untouched; "ok" frees the list and returns 0 without     *)
(* reading the buffer the ioctl filled.                                    *)
GetScanResults(r) == IF r = "ok" THEN <<>> ELSE scanResults

ScanOutcome == {"nomem", "error", "eagain", "ok"}

(* The SCANNING case of event_handler.                                     *)
ScanningStep ==
    \E r \in ScanOutcome :
        LET results == GetScanResults(r)
            net     == SelectNetwork(networks, results)
        IN  IF r \in {"nomem", "error"}
            THEN UNCHANGED <<state, scanResults, currentNetwork>>
            ELSE IF net # NoNetwork
                 THEN /\ ConnectToNetwork(net)
                      /\ scanResults' = results
                 ELSE /\ state' = "DISCONNECTED"
                      /\ scanResults' = results
                      /\ UNCHANGED currentNetwork

(* The ASSOCIATING and 4WAY_HANDSHAKE cases of event_handler.              *)
Advance(s) ==
    CASE s = "ASSOCIATING"    -> "4WAY_HANDSHAKE"
      [] s = "4WAY_HANDSHAKE" -> "COMPLETED"
      [] OTHER                -> s

-----------------------------------------------------------------------------
Init ==
    /\ running = 1
    /\ state = "DISCONNECTED"
    /\ autoConnect = 1
    /\ networks = <<>>
    /\ scanResults = <<>>
    /\ currentNetwork = NoNetwork
    /\ mainPc = "start"
    /\ evPc = "none"
    /\ scPc = "none"

(* main, lines up to the signal() calls: getopt returns from main on -h   *)
(* or an unknown option; otherwise the handlers are installed.            *)
MainStart ==
    /\ mainPc = "start"
    /\ mainPc' \in {"handlers", "exit"}
    /\ UNCHANGED <<running, state, autoConnect, networks, scanResults,
                   currentNetwork, evPc, scPc>>

(* main: daemon() and parse_config_file, either of which may fail and      *)
(* return from main; the configuration gives the profile list (each      *)
(* block is pushed at the head) and ap_scan.                               *)
MainConfig ==
    /\ mainPc = "handlers"
    /\ \/ /\ mainPc' = "exit"
          /\ UNCHANGED <<autoConnect, networks>>
       \/ /\ mainPc' = "parsed"
          /\ networks' \in BoundedSeq(Profiles, MaxNetworks)
          /\ autoConnect' \in {0, 1}
    /\ UNCHANGED <<running, state, scanResults, currentNetwork, evPc, scPc>>

(* main: init_wireless_socket; a failed socket() returns from main.        *)
MainSocket ==
    /\ mainPc = "parsed"
    /\ mainPc' \in {"socket", "exit"}
    /\ UNCHANGED <<running, state, autoConnect, networks, scanResults,
                   currentNetwork, evPc, scPc>>

(* main: pthread_create of the event thread.                               *)
MainSpawnEvent ==
    /\ mainPc = "socket"
    /\ \/ /\ mainPc' = "spawned"
          /\ evPc' = "check"
       \/ /\ mainPc' = "exit"
          /\ UNCHANGED evPc
    /\ UNCHANGED <<running, state, autoConnect, networks, scanResults,
                   currentNetwork, scPc>>

(* main: pthread_create of the scan thread; on failure main returns while *)
(* the event thread runs, and the process ends with it.                   *)
MainSpawnScan ==
    /\ mainPc = "spawned"
    /\ \/ /\ mainPc' = "join"
          /\ scPc' = "check"
       \/ /\ mainPc' = "exit"
          /\ UNCHANGED scPc
    /\ UNCHANGED <<running, state, autoConnect, networks, scanResults,
                   currentNetwork, evPc>>

(* main: both pthread_join calls return, then the lists are freed.         *)
MainJoin ==
    /\ mainPc = "join"
    /\ evPc = "done"
    /\ scPc = "done"
    /\ mainPc' = "done"
    /\ networks' = <<>>
    /\ scanResults' = <<>>
    /\ UNCHANGED <<running, state, autoConnect, currentNetwork, evPc, scPc>>

(* Mutant of Signal: the handler decrements the flag instead of clearing  *)
(* it, once per signal.                                                    *)
SignalDecrement ==
    /\ Live
    /\ IF mainPc = "start"
       THEN /\ mainPc' = "killed"
            /\ UNCHANGED running
       ELSE /\ running' = running - 1
            /\ UNCHANGED mainPc
    /\ UNCHANGED <<state, autoConnect, networks, scanResults, currentNetwork,
                   evPc, scPc>>

(* signal_handler on SIGINT or SIGTERM; before signal() installs it the   *)
(* default action ends the process.                                        *)
Signal ==
    /\ Live
    /\ running = 1
    /\ IF mainPc = "start"
       THEN /\ mainPc' = "killed"
            /\ UNCHANGED running
       ELSE /\ running' = 0
            /\ UNCHANGED mainPc
    /\ UNCHANGED <<state, autoConnect, networks, scanResults, currentNetwork,
                   evPc, scPc>>

(* Mutant of EvCheck: the flag is read once, before the loop.              *)
EvCheckHoisted ==
    /\ Live
    /\ evPc = "check"
    /\ evPc' = "body"
    /\ UNCHANGED <<running, state, autoConnect, networks, scanResults,
                   currentNetwork, mainPc, scPc>>

(* event_handler: the test of wpa_s->running at the head of the loop.      *)
EvCheck ==
    /\ Live
    /\ evPc = "check"
    /\ evPc' = IF running # 0 THEN "body" ELSE "done"
    /\ UNCHANGED <<running, state, autoConnect, networks, scanResults,
                   currentNetwork, mainPc, scPc>>

(* event_handler: sleep(1), then the switch on the state under the mutex. *)
EvBody ==
    /\ Live
    /\ evPc = "body"
    /\ evPc' = "check"
    /\ IF state = "DISCONNECTED"
       THEN IF autoConnect # 0
            THEN TriggerScan
            ELSE UNCHANGED <<state, scanResults, currentNetwork>>
       ELSE IF state = "SCANNING"
            THEN ScanningStep
            ELSE /\ state' = Advance(state)
                 /\ UNCHANGED <<scanResults, currentNetwork>>
    /\ UNCHANGED <<running, autoConnect, networks, mainPc, scPc>>

(* scan_handler: the test of wpa_s->running at the head of the loop.       *)
ScCheck ==
    /\ Live
    /\ scPc = "check"
    /\ scPc' = IF running # 0 THEN "body" ELSE "done"
    /\ UNCHANGED <<running, state, autoConnect, networks, scanResults,
                   currentNetwork, mainPc, evPc>>

(* scan_handler: sleep(scan_interval), then a scan when DISCONNECTED.      *)
ScBody ==
    /\ Live
    /\ scPc = "body"
    /\ scPc' = "check"
    /\ IF state = "DISCONNECTED"
       THEN TriggerScan
       ELSE UNCHANGED <<state, scanResults, currentNetwork>>
    /\ UNCHANGED <<running, autoConnect, networks, mainPc, evPc>>

Next ==
    \/ MainStart \/ MainConfig \/ MainSocket \/ MainSpawnEvent
    \/ MainSpawnScan \/ MainJoin
    \/ Signal
    \/ EvCheck \/ EvBody
    \/ ScCheck \/ ScBody

(* The threads are scheduled and their sleeps end: every step of main and *)
(* of the two threads that stays enabled is taken.  Signals are the       *)
(* environment and need not come.                                          *)
Fairness ==
    /\ WF_vars(MainStart) /\ WF_vars(MainConfig) /\ WF_vars(MainSocket)
    /\ WF_vars(MainSpawnEvent) /\ WF_vars(MainSpawnScan) /\ WF_vars(MainJoin)
    /\ WF_vars(EvCheck) /\ WF_vars(EvBody)
    /\ WF_vars(ScCheck) /\ WF_vars(ScBody)

Spec == Init /\ [][Next]_vars /\ Fairness

-----------------------------------------------------------------------------
(* Type correctness.                                                       *)
TypeOK ==
    /\ running \in {0, 1}
    /\ state \in WpaState
    /\ autoConnect \in {0, 1}
    /\ networks \in BoundedSeq(Profiles, MaxNetworks)
    /\ scanResults \in Seq(ScanResult)
    /\ currentNetwork \in 0 .. MaxNetworks
    /\ mainPc \in MainPcs
    /\ evPc \in ThreadPcs
    /\ scPc \in ThreadPcs

(* A SIGINT or SIGTERM once the handlers are installed brings the daemon  *)
(* down: both threads see the cleared flag and main returns.               *)
ShutdownCompletes == running = 0 ~> ~Live

(* With ap_scan on and an enabled network configured, the daemon, left    *)
(* running, gets past scanning and associates.                             *)
Connectable ==
    /\ mainPc = "join"
    /\ autoConnect # 0
    /\ \E i \in 1 .. Len(networks) : ~networks[i].disabled

EventuallyAssociates ==
    Connectable ~> (state = "ASSOCIATING" \/ running = 0 \/ ~Live)
=============================================================================
