------------------------------ MODULE Iwconfig ------------------------------
(***************************************************************************)
(* main of src/userspace/wpa_supplicant/iwconfig.c: with an interface and  *)
(* settings on the command line, the loop that applies them one ioctl at a *)
(* time, each set_* helper, and the error paths that close the socket and  *)
(* return 1.  The driver's settings are the variable driver; each ioctl   *)
(* may fail, which is the environment's choice.  The print paths (argc of  *)
(* 1 or 2) only read the driver and are one step each.                     *)
(*                                                                         *)
(* argv is argv[1 .. argc-1] of the C code, so C's argv[i] is argv[i] and  *)
(* argc is Len(argv) + 1.  Tokens are strings; the numeric ones carry      *)
(* their value in the constant NumericValue (what atoi and strtol return   *)
(* for them); every other token starts with a letter.                      *)
(***************************************************************************)
EXTENDS Integers, Sequences, SequencesExt, TLC

CONSTANTS
    Tokens,         \* the words that may appear as arguments
    NumericValue,   \* the value of each all-digit token in Tokens
    MaxArgs,        \* the most settings words after the interface name
    Orig            \* a driver setting as it was before iwconfig ran

ASSUME IwAssumption ==
    /\ MaxArgs \in Nat
    /\ NumericValue \in [DOMAIN NumericValue -> Int]
    /\ DOMAIN NumericValue \subseteq Tokens

VARIABLES argv, pc, i, sockOpen, exitCode, driver

vars == <<argv, pc, i, sockOpen, exitCode, driver>>

argc == Len(argv) + 1

(* atoi and strtol(.., 10): the leading number, 0 when there is none.      *)
Atoi(t) == IF t \in DOMAIN NumericValue THEN NumericValue[t] ELSE 0

(* strtol's *endptr == '\0': the whole token is a number.                  *)
IsNumber(t) == t \in DOMAIN NumericValue

(* The INT range of wrq.u.freq.m, in MHz: (int)freq is defined only for   *)
(* |freq| <= 2147483647 Hz, and the frequencies here are whole MHz.        *)
IntMaxMHz == 2147

(* set_channel's frequency in MHz: 2.407 GHz + 5 MHz per channel up to    *)
(* channel 14, 5 GHz + 5 MHz per channel above it.                         *)
ChannelMHz(c) == IF c <= 14 THEN 2407 + 5 * c ELSE 5000 + 5 * c

(* What each setter sends to the driver for an argument: the empty set    *)
(* when it rejects the argument before the ioctl.  Modes and the mode      *)
(* names are lower case here (strcasecmp ignores case).                    *)
EssidArg(t) == IF t \in {"off", "any"} THEN {[on |-> FALSE, name |-> ""]}
                                       ELSE {[on |-> TRUE, name |-> t]}

ModeNames == ("managed" :> "INFRA") @@ ("station" :> "INFRA")
             @@ ("ad-hoc" :> "ADHOC") @@ ("adhoc" :> "ADHOC")
             @@ ("master" :> "MASTER") @@ ("ap" :> "MASTER")
             @@ ("monitor" :> "MONITOR") @@ ("repeater" :> "REPEAT")
             @@ ("auto" :> "AUTO")

ModeArg(t) == IF t \in DOMAIN ModeNames THEN {ModeNames[t]} ELSE {}

(* (int)freq out of the int range is undefined; x86-64 (cvttsd2si) gives  *)
(* INT_MIN, AArch64 (fcvtzs) saturates to INT_MAX or INT_MIN.              *)
ChannelArg(t) ==
    LET mhz == ChannelMHz(Atoi(t))
    IN  IF mhz \in -IntMaxMHz .. IntMaxMHz
        THEN {[m |-> "exact", mhz |-> mhz]}
        ELSE {[m |-> "INT_MIN", mhz |-> 0], [m |-> "INT_MAX", mhz |-> 0]}

TxpowerArg(t) ==
    CASE t = "off"     -> {[disabled |-> TRUE, fixed |-> FALSE, dbm |-> 0]}
      [] t = "auto"    -> {[disabled |-> FALSE, fixed |-> FALSE, dbm |-> 0]}
      [] IsNumber(t)   -> {[disabled |-> FALSE, fixed |-> TRUE, dbm |-> Atoi(t)]}
      [] OTHER         -> {}

KeyArg(t) == IF t = "off" THEN {[enabled |-> FALSE, key |-> ""]}
                          ELSE {[enabled |-> TRUE, key |-> t]}

(* The keywords that take an argument, with the setter and the driver     *)
(* setting each one changes.                                               *)
Setters == {"essid", "mode", "channel", "txpower", "key"}

ArgOf(kw, t) ==
    CASE kw = "essid"   -> EssidArg(t)
      [] kw = "mode"    -> ModeArg(t)
      [] kw = "channel" -> ChannelArg(t)
      [] kw = "txpower" -> TxpowerArg(t)
      [] kw = "key"     -> KeyArg(t)

-----------------------------------------------------------------------------
Init ==
    /\ argv \in {<< >>} \cup
                {<<"wlan0">> \o s : s \in BoundedSeq(Tokens, MaxArgs)}
    /\ pc = "start"
    /\ i = 0
    /\ sockOpen = FALSE
    /\ exitCode = -1
    /\ driver = [s \in Setters |-> Orig]

(* close(sock); return code;                                               *)
Exit(code) ==
    /\ pc' = "done"
    /\ sockOpen' = FALSE
    /\ exitCode' = code
    /\ UNCHANGED <<argv, i, driver>>

(* socket(AF_INET, SOCK_DGRAM, 0), which may fail.                          *)
OpenSocket ==
    /\ pc = "start"
    /\ \/ /\ pc' = "done" /\ exitCode' = 1
          /\ UNCHANGED <<argv, i, sockOpen, driver>>
       \/ /\ pc' = IF argc <= 2 THEN "show" ELSE "loop"
          /\ sockOpen' = TRUE
          /\ i' = 2
          /\ UNCHANGED <<argv, exitCode, driver>>

(* argc == 1: list the wireless interfaces (if_nameindex may fail);        *)
(* argc == 2: print one interface.  Both only read the driver.             *)
Show ==
    /\ pc = "show"
    /\ \/ argc = 1 /\ Exit(1)
       \/ Exit(0)

(* The branch of one keyword that takes an argument: a missing argument,  *)
(* an argument the setter rejects, and a failed ioctl each close and       *)
(* return 1; otherwise the setting is made and i += 2.                     *)
SetArg(kw) ==
    /\ pc = "loop"
    /\ i < argc
    /\ argv[i] = kw
    /\ \/ i + 1 >= argc /\ Exit(1)
       \/ /\ i + 1 < argc
          /\ ArgOf(kw, argv[i + 1]) = {}
          /\ Exit(1)
       \/ /\ i + 1 < argc
          /\ ArgOf(kw, argv[i + 1]) # {}
          /\ Exit(1)
       \/ /\ i + 1 < argc
          /\ \E v \in ArgOf(kw, argv[i + 1]) :
                driver' = [driver EXCEPT ![kw] = v]
          /\ i' = i + 2
          /\ UNCHANGED <<argv, pc, sockOpen, exitCode>>

(* Mutant of Commit: "commit" is taken as a keyword with an argument.    *)
CommitSkipsNext ==
    /\ pc = "loop"
    /\ i < argc
    /\ argv[i] = "commit"
    /\ i' = i + 2
    /\ UNCHANGED <<argv, pc, sockOpen, exitCode, driver>>

Commit ==
    /\ pc = "loop"
    /\ i < argc
    /\ argv[i] = "commit"
    /\ i' = i + 1
    /\ UNCHANGED <<argv, pc, sockOpen, exitCode, driver>>

Unknown ==
    /\ pc = "loop"
    /\ i < argc
    /\ argv[i] \notin Setters \cup {"commit"}
    /\ Exit(1)

LoopDone ==
    /\ pc = "loop"
    /\ i >= argc
    /\ Exit(0)

Next ==
    \/ OpenSocket
    \/ Show
    \/ \E kw \in Setters : SetArg(kw)
    \/ Commit
    \/ Unknown
    \/ LoopDone

Spec == Init /\ [][Next]_vars

-----------------------------------------------------------------------------
(* The reference: the positions of argv that are read as keywords.  The   *)
(* first is argv[2]; "commit" is one word, every other keyword takes the  *)
(* word after it.                                                          *)
KeywordPositions ==
    LET After(p) == IF argv[p] = "commit" THEN p + 1 ELSE p + 2
        P[n \in 0 .. argc] == IF n = 0 THEN 2
                              ELSE IF P[n - 1] >= argc THEN P[n - 1]
                              ELSE After(P[n - 1])
    IN  {P[n] : n \in 0 .. argc} \cap 2 .. argc - 1

(* The setting each keyword before position stop asked for last: the      *)
(* values its setter may send, or {Orig} when it was not asked for.        *)
RequestedBefore(kw, stop) ==
    LET ps == {p \in KeywordPositions : p < stop /\ p + 1 < argc /\ argv[p] = kw}
    IN  IF ps = {} THEN {Orig} ELSE ArgOf(kw, argv[Max(ps) + 1])

(* When iwconfig has exited, every setting is the one its keyword asked    *)
(* for last before the argument the loop stopped at (all of them on exit   *)
(* 0), and no argument from that one on has been applied: the settings     *)
(* loop of main stops at the first failure without undoing or skipping    *)
(* anything, and never takes a value word for a keyword.                  *)
LastRequestApplied ==
    pc = "done" => \A kw \in Setters : driver[kw] \in RequestedBefore(kw, i)

-----------------------------------------------------------------------------
(* print_interface_info, the one-interface display of `iwconfig wlan0`,    *)
(* decoding what each SIOCGIW* ioctl returns.  The driver is taken to      *)
(* return what the matching SIOCSIW* ioctl stored.                         *)

(* Mutant of ShownEssid: essid.flags is not looked at.                     *)
ShownEssidNoFlag(v) == v.name

(* ESSID: the name when essid.flags is set, off/any otherwise.             *)
ShownEssid(v) == IF v.on THEN v.name ELSE "off/any"

(* Mode: the switch over IW_MODE_*.                                        *)
ModeTitle == ("AUTO" :> "Auto") @@ ("ADHOC" :> "Ad-Hoc")
             @@ ("INFRA" :> "Managed") @@ ("MASTER" :> "Master")
             @@ ("REPEAT" :> "Repeater") @@ ("SECOND" :> "Secondary")
             @@ ("MONITOR" :> "Monitor")

ShownMode(code) == IF code \in DOMAIN ModeTitle THEN ModeTitle[code]
                                                ELSE "Unknown"

(* (int) of a double truncates towards zero.                               *)
TruncDiv5(x) == IF x >= 0 THEN x \div 5 ELSE -((-x) \div 5)

(* The "(Channel N)" printed after the frequency, as a set with at most   *)
(* one element: 2.4-2.5 GHz gives (f - 2.407 GHz) / 5 MHz when it is in   *)
(* 1..14, 5-6 GHz gives (f - 5 GHz) / 5 MHz.  freq.m of INT_MIN or        *)
(* INT_MAX Hz is in neither band.                                          *)
ChannelOfMHz(mhz) ==
    IF 2400 <= mhz /\ mhz <= 2500
    THEN {c \in {TruncDiv5(mhz - 2407)} : c \in 1 .. 14}
    ELSE IF 5000 <= mhz /\ mhz <= 6000 THEN {TruncDiv5(mhz - 5000)}
    ELSE {}

ShownChannel(v) == IF v.m = "exact" THEN ChannelOfMHz(v.mhz) ELSE {}

(* Tx-Power: off when disabled, else the value in dBm (set_txpower always  *)
(* sends IW_TXPOW_DBM, so the mW conversion is not reached).               *)
ShownTxpower(v) == IF v.disabled THEN "off" ELSE v.dbm

(* Encryption key: off when IW_ENCODE_DISABLED, else hidden.               *)
ShownKey(v) == IF v.enabled THEN "****" ELSE "off"

Shown(kw, v) ==
    CASE kw = "essid"   -> ShownEssid(v)
      [] kw = "mode"    -> ShownMode(v)
      [] kw = "txpower" -> ShownTxpower(v)
      [] kw = "key"     -> ShownKey(v)

(* The reference, iwconfig(8): what `iwconfig wlan0` shows after          *)
(* `iwconfig wlan0 kw t` succeeded.  "auto" leaves the power to the        *)
(* driver, so any value in dBm is right.                                   *)
ModeMeaning == ("managed" :> "Managed") @@ ("station" :> "Managed")
               @@ ("ad-hoc" :> "Ad-Hoc") @@ ("adhoc" :> "Ad-Hoc")
               @@ ("master" :> "Master") @@ ("ap" :> "Master")
               @@ ("monitor" :> "Monitor") @@ ("repeater" :> "Repeater")
               @@ ("auto" :> "Auto")

Asked(kw, t) ==
    CASE kw = "essid"   -> IF t \in {"off", "any"} THEN {"off/any"} ELSE {t}
      [] kw = "mode"    -> IF t \in DOMAIN ModeMeaning THEN {ModeMeaning[t]}
                                                      ELSE {}
      [] kw = "txpower" -> CASE t = "off"   -> {"off"}
                             [] t = "auto"  -> Int
                             [] OTHER       -> {Atoi(t)}
      [] kw = "key"     -> IF t = "off" THEN {"off"} ELSE {"****"}

(* The word after the last occurrence of keyword kw read by the loop.     *)
LastAsked(kw) ==
    LET ps == {p \in KeywordPositions : p + 1 < argc /\ argv[p] = kw}
    IN  argv[Max(ps) + 1]

(* After iwconfig exits 0, `iwconfig wlan0` shows every setting it changed *)
(* as the last word given for it asked: set_essid, set_mode, set_txpower   *)
(* and set_key encode each word the way print_interface_info decodes it   *)
(* (essid flags, the IW_MODE_* codes, the dBm flag, IW_ENCODE_DISABLED).   *)
SettingsShownAsSet ==
    pc = "done" /\ exitCode = 0 =>
        \A kw \in Setters \ {"channel"} :
            driver[kw] # Orig => Shown(kw, driver[kw]) \in Asked(kw, LastAsked(kw))

(* After `iwconfig wlan0 channel N` succeeded, `iwconfig wlan0` shows     *)
(* "(Channel N)": set_channel stores a frequency print_interface_info      *)
(* decodes back to N.                                                      *)
ChannelShownAsSet ==
    \/ driver["channel"] = Orig
    \/ \E t \in Tokens : /\ driver["channel"] \in ArgOf("channel", t)
                        /\ ShownChannel(driver["channel"]) = {Atoi(t)}
=============================================================================
