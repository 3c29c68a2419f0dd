------------------------- MODULE BrowserShellProofs -------------------------
(***************************************************************************)
(* Proofs about BrowserShell for every value of the constants: a failed   *)
(* start of the shell leaves nothing allocated, and the engine keeps its  *)
(* guarantees when the shell drives it.                                   *)
(***************************************************************************)
EXTENDS BrowserShell, BrowserEngineProofs, SequenceTheorems, TLAPS

-----------------------------------------------------------------------------
(* Until a signal handler runs, main's position fixes the heap: nothing   *)
(* before browser_engine_create, the engine's objects from init_browser_   *)
(* engine on, the window from init_browser_ui on, and each failure path   *)
(* frees them in the order main calls the destroy functions.  Handlers    *)
(* never return, so once one has started main takes no further step, and *)
(* in particular never returns.                                            *)
HeapMatchesPc ==
    /\ pc \in {"signals", "parse", "engine", "exited", "killed"} =>
          \A o \in Objs : heap[o] = "none"
    /\ pc \in {"ui", "ui_failed"} =>
          (\A o \in EngineObjs : heap[o] = "live") /\ heap["window"] = "none"
    /\ pc = "ui_return" =>
          (\A o \in EngineObjs : heap[o] = "freed") /\ heap["window"] = "none"
    /\ pc \in {"tab", "tab_failed", "navigate", "loop"} =>
          \A o \in Objs : heap[o] = "live"
    /\ pc = "tab_destroy_engine" =>
          (\A o \in EngineObjs : heap[o] = "live") /\ heap["window"] = "freed"
    /\ pc = "tab_return" => \A o \in Objs : heap[o] = "freed"
    /\ pc = "returned" => \A o \in Objs : heap[o] # "live"

HandlerRec == [sig : Signals, at : {"window", "engine", "exit"}]

HeapStates == {"none", "live", "freed"}

ShellIInv ==
    /\ heap \in [Objs -> HeapStates]
    /\ handling \in Seq(HandlerRec)
    /\ pc = "returned" => handling = << >>
    /\ handling = << >> => HeapMatchesPc

-----------------------------------------------------------------------------
(* The engine's objects are the seven that browser_engine_destroy frees,  *)
(* the window is not one of them, and a partial init made some of them.   *)
LEMMA EngineObjects ==
    /\ EngineObjs = DestroyFrees
    /\ "window" \notin EngineObjs
    /\ \A n \in 0 .. Len(EngineOrder) - 1 : Made(n) \subseteq EngineObjs
  BY DEF EngineObjs, EngineOrder, DestroyFrees, Made, Range

(* The shell starts before signal(), with nothing allocated.              *)
LEMMA InitShellIInv == ShellInit => ShellIInv
  BY DEF ShellInit, ShellIInv, HeapMatchesPc, HeapStates

(* A step of main, taken with no handler running, that leaves the handler *)
(* stack alone keeps the invariant when it keeps HeapMatchesPc.            *)
LEMMA MainStep ==
    ASSUME ShellIInv, handling = << >>, handling' = handling, HeapMatchesPc',
           heap' \in [Objs -> HeapStates]
    PROVE  ShellIInv'
  BY DEF ShellIInv

(* Every step of the shell keeps the invariant.                            *)
LEMMA NextShellIInv == ShellIInv /\ [ShellNext]_allVars => ShellIInv'
<1> SUFFICES ASSUME ShellIInv, [ShellNext]_allVars PROVE ShellIInv'
  OBVIOUS
<1> USE DEF MainRuns
<1>1. CASE InstallHandlers
  BY <1>1, MainStep DEF InstallHandlers, ShellIInv, HeapMatchesPc
<1>2. CASE ParseArgument \/ ParseDone
  <2>1. /\ pc = "parse" /\ pc' \in {"parse", "exited", "engine"}
        /\ heap' = heap /\ handling = << >> /\ handling' = handling
    BY <1>2 DEF ParseArgument, ParseDone
  <2>2. QED
    BY <2>1, MainStep DEF ShellIInv, HeapMatchesPc
<1>3. CASE InitBrowserEngine
  <2>1. handling = << >> /\ handling' = handling /\ pc = "engine"
    BY <1>3 DEF InitBrowserEngine
  <2>2. \A o \in Objs : heap[o] = "none"
    BY <2>1 DEF ShellIInv, HeapMatchesPc
  <2> USE <2>1
  <2>3. CASE /\ heap' = [o \in Objs |-> IF o \in EngineObjs THEN "live" ELSE heap[o]]
             /\ pc' = "ui"
    <3>1. \A o \in EngineObjs : heap'[o] = "live"
      BY <2>3 DEF Objs
    <3>2. heap'["window"] = "none"
      BY <2>2, <2>3, EngineObjects DEF Objs
    <3>3. heap' \in [Objs -> HeapStates]
      BY <2>2, <2>3 DEF HeapStates
    <3>4. QED
      BY <2>3, <3>1, <3>2, <3>3, MainStep DEF HeapMatchesPc
  <2>4. CASE \E n \in 0 .. Len(EngineOrder) - 2 :
               LET freedBy == IF n < 2 THEN Made(n) ELSE Made(n) \cap DestroyFrees
               IN  /\ heap' = [o \in Objs |-> IF o \in freedBy THEN "freed"
                                              ELSE IF o \in Made(n) THEN "live" ELSE heap[o]]
                   /\ pc' = "returned"
    <3>1. PICK n \in 0 .. Len(EngineOrder) - 2 :
               LET freedBy == IF n < 2 THEN Made(n) ELSE Made(n) \cap DestroyFrees
               IN  /\ heap' = [o \in Objs |-> IF o \in freedBy THEN "freed"
                                              ELSE IF o \in Made(n) THEN "live" ELSE heap[o]]
                   /\ pc' = "returned"
      BY <2>4
    <3>2. Made(n) \subseteq DestroyFrees
      BY EngineObjects
    <3>3. \A o \in Objs : heap'[o] # "live"
      BY <3>1, <3>2, <2>2
    <3>4. pc' = "returned"
      BY <3>1
    <3>5. heap' \in [Objs -> HeapStates]
      BY <3>1, <2>2 DEF HeapStates
    <3>6. QED
      BY <3>3, <3>4, <3>5, MainStep DEF HeapMatchesPc
  <2>5. QED
    BY <1>3, <2>3, <2>4 DEF InitBrowserEngine
<1>4. CASE InitBrowserUi
  BY <1>4, MainStep, EngineObjects
     DEF InitBrowserUi, ShellIInv, HeapMatchesPc, Objs, HeapStates
<1>5. CASE UiFailedDestroyEngine
  BY <1>5, MainStep, EngineObjects
     DEF UiFailedDestroyEngine, DestroyEngine, ShellIInv, HeapMatchesPc, Objs,
         HeapStates
<1>6. CASE CreateInitialTab
  BY <1>6, MainStep DEF CreateInitialTab, ShellIInv, HeapMatchesPc
<1>7. CASE TabFailedDestroyWindow
  BY <1>7, MainStep, EngineObjects
     DEF TabFailedDestroyWindow, DestroyWindow, Free, ShellIInv, HeapMatchesPc, Objs,
         HeapStates
<1>8. CASE TabFailedDestroyEngine
  BY <1>8, MainStep, EngineObjects
     DEF TabFailedDestroyEngine, DestroyEngine, ShellIInv, HeapMatchesPc, Objs,
         HeapStates
<1>9. CASE ReturnFailure
  BY <1>9, MainStep, EngineObjects DEF ReturnFailure, ShellIInv, HeapMatchesPc, Objs
<1>10. CASE StartEventLoop
  BY <1>10, MainStep DEF StartEventLoop, ShellIInv, HeapMatchesPc
<1>11. CASE FinishNavigate
  BY <1>11 DEF FinishNavigate, ShellIInv, HeapMatchesPc
<1>12. CASE \E key \in Keys, m \in 0 .. 3 : KeyboardShortcut(key, m)
  BY <1>12, MainStep DEF KeyboardShortcut, ShellIInv, HeapMatchesPc
<1>13. CASE \E sig \in Signals : Deliver(sig)
  <2>1. PICK sig \in Signals : Deliver(sig)
    BY <1>13
  <2>2. CASE pc = "signals"
    BY <2>1, <2>2 DEF Deliver, ShellIInv, HeapMatchesPc
  <2>3. CASE pc # "signals"
    <3>1. handling' = Append(handling, [sig |-> sig, at |-> "window"]) /\ pc' = pc
      BY <2>1, <2>3 DEF Deliver
    <3>2. handling' \in Seq(HandlerRec) /\ handling' # << >>
      BY <3>1 DEF ShellIInv, HandlerRec
    <3>3. pc' # "returned"
      BY <2>1, <3>1 DEF Deliver, Terminal
    <3>4. heap' = heap
      BY <2>1 DEF Deliver
    <3>5. QED
      BY <3>2, <3>3, <3>4 DEF ShellIInv
  <2>4. QED
    BY <2>2, <2>3
<1>14. CASE Handler
  <2>1. handling # << >> /\ pc # "returned"
    BY <1>14 DEF Handler, HandlerWindow, HandlerEngine, HandlerExit, ShellIInv
  <2>2. CASE HandlerWindow \/ HandlerEngine
    <3>1. PICK at \in {"engine", "exit"} :
             handling' = [handling EXCEPT ![Len(handling)].at = at] /\ pc' = pc
      BY <2>2 DEF HandlerWindow, HandlerEngine, SetTop
    <3>2. handling' \in Seq(HandlerRec) /\ handling' # << >>
      <4> DEFINE h == handling[Len(handling)]
      <4>1. Len(handling) \in 1 .. Len(handling) /\ h \in HandlerRec
        BY <2>1, EmptySeq DEF ShellIInv
      <4>2. [h EXCEPT !.at = at] \in HandlerRec
        BY <4>1 DEF HandlerRec
      <4>3. handling' = [handling EXCEPT ![Len(handling)] = [h EXCEPT !.at = at]]
        BY <3>1
      <4>4. QED
        BY <4>1, <4>2, <4>3, ExceptSeq, EmptySeq DEF ShellIInv
    <3>3. heap' \in [Objs -> HeapStates]
      BY <2>2 DEF HandlerWindow, HandlerEngine, DestroyWindow, DestroyEngine, Free,
                  ShellIInv, HeapStates
    <3>4. QED
      BY <2>1, <3>1, <3>2, <3>3 DEF ShellIInv
  <2>3. CASE HandlerExit
    BY <2>1, <2>3 DEF HandlerExit, ShellIInv
  <2>4. QED
    BY <1>14, <2>2, <2>3 DEF Handler
<1>15. CASE UNCHANGED allVars
  BY <1>15 DEF allVars, shellVars, ShellIInv, HeapMatchesPc
<1>16. QED
  BY <1>1, <1>2, <1>3, <1>4, <1>5, <1>6, <1>7, <1>8, <1>9, <1>10, <1>11,
     <1>12, <1>13, <1>14, <1>15 DEF ShellNext

(* When main returns 1 after a failed start, whichever allocation or       *)
(* creation failed and whatever signals came before, no engine object and  *)
(* no window is still allocated (CleanFailedStart).                        *)
THEOREM FailedStartFreesAll == ShellSpec => []CleanFailedStart
<1>1. ShellIInv => CleanFailedStart
  BY DEF ShellIInv, HeapMatchesPc, CleanFailedStart
<1>2. QED
  BY InitShellIInv, NextShellIInv, <1>1, PTL DEF ShellSpec
-----------------------------------------------------------------------------
(* The engine inside the shell.  The shell calls the engine's operations   *)
(* from main and from handle_keyboard_shortcut, splits browser_navigate   *)
(* around html_parse (nav), and destroys the engine on its failure paths  *)
(* and in signal_handler.  EngineOK is the engine's inductive invariant    *)
(* IInv, with the shell's extra fault, a double free, allowed.             *)
EngineOK ==
    /\ tabs \in Seq(Tab)
    /\ Len(tabs) <= MaxTabs
    /\ activeTab \in Nat
    /\ fault \in Fault \cup {"double_free"}
    /\ ActiveIsLast
    /\ CountsInCap
    /\ fault = "none" => \A k \in 1 .. Len(tabs) : HistOK(tabs[k])

ShellPcs == {"signals", "parse", "engine", "ui", "ui_failed", "ui_return", "tab",
             "tab_failed", "tab_destroy_engine", "tab_return", "navigate", "loop"}
            \cup Terminal

(* The points of main after parse_arguments has returned.                  *)
AfterParse == {"engine", "ui", "ui_failed", "ui_return", "tab", "tab_failed",
               "tab_destroy_engine", "tab_return", "navigate", "loop", "returned"}

(* The points of main before browser_create_tab has made the first tab.    *)
BeforeTab == {"signals", "parse", "engine", "ui", "ui_failed", "ui_return", "tab",
              "tab_failed", "tab_destroy_engine", "tab_return", "returned"}

NavRec == [k : Nat, url : AnyUrl, stored : AnyUrl, o : LoadOutcome]

(* What the shell's own state says about the calls it makes: initial_url  *)
(* is set once parse_arguments returns, the table is empty until the       *)
(* initial tab is made and holds it when main navigates, and a pending    *)
(* browser_navigate belongs to the event loop and, if main may still      *)
(* finish it, names an existing tab.                                       *)
ShellDataOK ==
    /\ pc \in ShellPcs
    /\ mainWindow \in BOOLEAN /\ browserEngine \in BOOLEAN
    /\ delivered \subseteq Signals
    /\ initialUrl \in Urls \cup {AboutBlank, NULL}
    /\ pc \in AfterParse => initialUrl # NULL
    /\ nav \in Seq(NavRec) /\ Len(nav) <= 1
    /\ nav # << >> => pc \in {"loop", "exited"}
    /\ nav # << >> /\ handling = << >> => nav[1].k \in TabIndex
    /\ pc \in BeforeTab => tabs = << >>
    /\ pc = "navigate" /\ handling = << >> => Len(tabs) > 0

EngineInShell == EngineOK /\ ShellDataOK
-----------------------------------------------------------------------------
(* While the process lives, EngineOK is the engine's invariant IInv.       *)
LEMMA EngineOKIsIInv ==
    fault = "none" => (EngineOK <=> IInv)
  BY DEF EngineOK, IInv, TypeOK, Fault

(* EngineOK gives the two properties the engine run checks.               *)
LEMMA EngineOKProperties ==
    EngineOK => ActiveTabInRange /\ HistoryInBounds
<1> SUFFICES ASSUME EngineOK PROVE ActiveTabInRange /\ HistoryInBounds
  OBVIOUS
<1>1. Len(tabs) \in Nat
  BY LenProperties DEF EngineOK
<1>2. ActiveTabInRange
  BY <1>1 DEF EngineOK, ActiveIsLast, ActiveTabInRange
<1>3. HistoryInBounds
  BY <1>1 DEF EngineOK, CountsInCap, HistOK, HistoryInBounds, TabIndex
<1>4. QED
  BY <1>2, <1>3

(* browser_engine_destroy empties the table; a double free it commits     *)
(* only adds the fault.                                                    *)
LEMMA DestroyEngineOK ==
    ASSUME EngineOK, DestroyEngine
    PROVE  EngineOK' /\ tabs' = << >>
<1>1. tabs' = << >> /\ activeTab' = 0 /\ fault' \in {fault, "double_free"}
  BY DEF DestroyEngine
<1>2. QED
  BY <1>1, EmptySeq, ConstAssumption
     DEF EngineOK, ActiveIsLast, CountsInCap

(* browser_window_destroy leaves the table alone and may only add a       *)
(* double free.                                                            *)
LEMMA DestroyWindowOK ==
    ASSUME EngineOK, DestroyWindow
    PROVE  EngineOK' /\ tabs' = tabs
<1>1. tabs' = tabs /\ activeTab' = activeTab /\ fault' \in {fault, "double_free"}
  BY DEF DestroyWindow, Free
<1>2. QED
  BY <1>1 DEF EngineOK, ActiveIsLast, CountsInCap

(* browser_navigate as the shell calls it: it either completes at once,   *)
(* keeping the engine's invariant, or stops inside html_parse with the    *)
(* table untouched and the pending call recorded.                         *)
LEMMA StartNavigateOK ==
    ASSUME IInv, fault = "none", NEW k \in TabIndex, NEW url \in AnyUrl,
           NEW stored \in AnyUrl, StartNavigate(k, url, stored)
    PROVE  /\ EngineOK'
           /\ \/ nav' = << >>
              \/ /\ tabs' = tabs
                 /\ \E r \in NavRec : r.k = k /\ nav' = << r >>
<1>1. PICK o \in LoadOutcome :
        IF o \in {"parse_null", "parsed"}
        THEN /\ nav' = << [k |-> k, url |-> url, stored |-> stored, o |-> o] >>
             /\ UNCHANGED <<tabs, activeTab, fault>>
        ELSE /\ NavigateTo(k, url, stored, o)
             /\ nav' = << >>
             /\ UNCHANGED activeTab
  BY DEF StartNavigate
<1>2. CASE o \in {"parse_null", "parsed"}
  <2>1. nav' = << [k |-> k, url |-> url, stored |-> stored, o |-> o] >>
        /\ UNCHANGED <<tabs, activeTab, fault>>
    BY <1>1, <1>2
  <2>2. k \in Nat
    BY LenProperties DEF IInv, TypeOK, TabIndex
  <2>3. [k |-> k, url |-> url, stored |-> stored, o |-> o] \in NavRec
    BY <2>2 DEF NavRec
  <2>4. EngineOK'
    BY <2>1 DEF IInv, TypeOK, EngineOK, ActiveIsLast, CountsInCap, Fault
  <2>5. QED
    BY <2>1, <2>3, <2>4
<1>3. CASE o \notin {"parse_null", "parsed"}
  <2>1. NavigateTo(k, url, stored, o) /\ nav' = << >> /\ activeTab' = activeTab
    BY <1>1, <1>3
  <2>2. IInv'
    BY <2>1, NavigateToOK
  <2>3. QED
    BY <2>1, <2>2 DEF IInv, TypeOK, EngineOK, Fault
<1>4. QED
  BY <1>2, <1>3
(* A keyboard shortcut makes at most one engine call, on the active tab,  *)
(* which exists whenever browser_get_active_tab does not return NULL.     *)
LEMMA KeyboardOK ==
    ASSUME EngineInShell, NEW key, NEW m, KeyboardShortcut(key, m)
    PROVE  /\ EngineOK'
           /\ \/ nav' = << >>
              \/ /\ tabs' = tabs
                 /\ \E r \in NavRec : r.k \in TabIndex /\ nav' = << r >>
<1> DEFINE k == ActiveTabIndex
<1>1. fault = "none" /\ nav = << >> /\ IInv
  BY EngineOKIsIInv DEF KeyboardShortcut, MainRuns, EngineInShell
<1>2. Len(tabs) \in Nat /\ activeTab \in Nat
  BY LenProperties DEF EngineInShell, EngineOK
<1>3. k # NoTab => k \in TabIndex
  BY <1>2 DEF ActiveTabIndex, NoTab, TabIndex
<1>4. \/ CreateTab /\ nav' = nav
      \/ k \in TabIndex /\ CloseTab(tabs[k + 1].id) /\ nav' = nav
      \/ k \in TabIndex /\ StartReload(k)
      \/ k \in TabIndex /\ GoBack(k) /\ nav' = nav
      \/ k \in TabIndex /\ GoForward(k) /\ nav' = nav
      \/ k \in TabIndex /\ StartNavigate(k, AboutHelp, AboutHelp)
  BY <1>3, Zenon DEF KeyboardShortcut
(* The calls that complete at once.                                        *)
<1>5. ASSUME IInv', nav' = nav
      PROVE  EngineOK' /\ nav' = << >>
  BY <1>1, <1>5 DEF IInv, TypeOK, EngineOK, Fault
<1>6. CASE CreateTab /\ nav' = nav
  BY <1>1, <1>5, <1>6, CreateTabOK
<1>7. CASE k \in TabIndex /\ CloseTab(tabs[k + 1].id) /\ nav' = nav
  BY <1>1, <1>5, <1>7, CloseTabOK
<1>8. CASE k \in TabIndex /\ GoBack(k) /\ nav' = nav
  BY <1>1, <1>5, <1>8, GoBackOK
<1>9. CASE k \in TabIndex /\ GoForward(k) /\ nav' = nav
  BY <1>1, <1>5, <1>9, GoForwardOK
<1>10. CASE k \in TabIndex /\ StartReload(k)
  <2>1. PICK stored \in {tabs[k + 1].url, Garbled} :
          StartNavigate(k, tabs[k + 1].url, stored)
    BY <1>10 DEF StartReload
  <2>2. tabs[k + 1] \in Tab
    BY <1>1, <1>10, LenProperties DEF IInv, TypeOK, TabIndex
  <2>3. tabs[k + 1].url \in AnyUrl /\ stored \in AnyUrl
    BY <2>2, ConstAssumption DEF Tab, AnyUrl
  <2>4. QED
    BY <1>1, <1>10, <2>1, <2>3, StartNavigateOK
<1>11. CASE k \in TabIndex /\ StartNavigate(k, AboutHelp, AboutHelp)
  <2>1. AboutHelp \in AnyUrl
    BY ShellAssumption DEF AnyUrl
  <2>2. QED
    BY <1>1, <1>11, <2>1, StartNavigateOK
<1>12. QED
  BY <1>4, <1>6, <1>7, <1>8, <1>9, <1>10, <1>11
(* A step that leaves the engine and the pending call alone keeps         *)
(* EngineInShell when main's new position and initial_url fit the table, *)
(* and the handler stack, if it changes, does not become empty.           *)
LEMMA QuietStep ==
    ASSUME EngineInShell,
           vars' = vars, nav' = nav,
           mainWindow' \in BOOLEAN, browserEngine' \in BOOLEAN,
           delivered' \subseteq Signals,
           pc' \in ShellPcs,
           initialUrl' \in Urls \cup {AboutBlank, NULL},
           pc' \in AfterParse => initialUrl' # NULL,
           pc' \in BeforeTab => tabs = << >>,
           pc' = "navigate" /\ handling' = << >> => Len(tabs) > 0,
           nav # << >> => pc' \in {"loop", "exited"},
           handling' = handling \/ handling' # << >>
    PROVE  EngineInShell'
  BY DEF EngineInShell, EngineOK, ShellDataOK, vars, ActiveIsLast,
         CountsInCap, TabIndex

(* A handler step keeps the handler stack a non-empty stack of records.   *)
LEMMA SetTopOK ==
    ASSUME NEW at \in {"window", "engine", "exit"},
           handling \in Seq(HandlerRec), handling # << >>, SetTop(at)
    PROVE  handling' \in Seq(HandlerRec) /\ handling' # << >>
<1> DEFINE h == handling[Len(handling)]
<1>1. Len(handling) \in 1 .. Len(handling) /\ h \in HandlerRec
  BY EmptySeq
<1>2. [h EXCEPT !.at = at] \in HandlerRec
  BY <1>1 DEF HandlerRec
<1>3. handling' = [handling EXCEPT ![Len(handling)] = [h EXCEPT !.at = at]]
  BY DEF SetTop
<1>4. QED
  BY <1>1, <1>2, <1>3, ExceptSeq, EmptySeq

(* Every step of the shell keeps EngineInShell.                            *)
LEMMA NextEngineInShell ==
    ShellIInv /\ EngineInShell /\ [ShellNext]_allVars => EngineInShell'
<1> SUFFICES ASSUME ShellIInv, EngineInShell, [ShellNext]_allVars
             PROVE  EngineInShell'
  OBVIOUS
<1>0. /\ pc \in ShellPcs /\ delivered \subseteq Signals
      /\ mainWindow \in BOOLEAN /\ browserEngine \in BOOLEAN
      /\ initialUrl \in Urls \cup {AboutBlank, NULL}
      /\ pc \in AfterParse => initialUrl # NULL
      /\ pc \in BeforeTab => tabs = << >>
      /\ nav # << >> => pc \in {"loop", "exited"}
      /\ Len(tabs) \in Nat
      /\ EngineOK
  BY LenProperties DEF EngineInShell, ShellDataOK, EngineOK
<1>1. CASE InstallHandlers
  BY <1>0, <1>1, QuietStep DEF InstallHandlers, MainRuns, ShellPcs,
     AfterParse, BeforeTab
<1>2. CASE ParseArgument
  <2>1. /\ pc = "parse" /\ pc' \in {"parse", "exited"} /\ nav = << >>
        /\ initialUrl' \in Urls \cup {AboutBlank} \cup {initialUrl}
        /\ UNCHANGED <<vars, nav, mainWindow, browserEngine, handling, delivered>>
    BY <1>2 DEF ParseArgument, MainRuns
  <2>2. /\ vars' = vars /\ nav' = nav
        /\ mainWindow' \in BOOLEAN /\ browserEngine' \in BOOLEAN
        /\ delivered' \subseteq Signals
        /\ pc' \in ShellPcs
        /\ initialUrl' \in Urls \cup {AboutBlank, NULL}
        /\ pc' \in AfterParse => initialUrl' # NULL
        /\ pc' \in BeforeTab => tabs = << >>
        /\ pc' = "navigate" /\ handling' = << >> => Len(tabs) > 0
        /\ nav # << >> => pc' \in {"loop", "exited"}
        /\ handling' = handling \/ handling' # << >>
    BY <1>0, <2>1 DEF ShellPcs, Terminal, AfterParse, BeforeTab
  <2>3. QED
    BY <2>2, QuietStep
<1>3. CASE ParseDone
  <2>1. /\ pc = "parse" /\ pc' = "engine" /\ nav = << >>
        /\ initialUrl' \in Urls \cup {AboutBlank}
        /\ UNCHANGED <<vars, nav, mainWindow, browserEngine, handling, delivered>>
    BY <1>0, <1>3 DEF ParseDone, MainRuns
  <2>2. AboutBlank # NULL /\ NULL \notin Urls
    BY ConstAssumption
  <2>3. /\ initialUrl' \in Urls \cup {AboutBlank, NULL} /\ initialUrl' # NULL
        /\ pc' \in ShellPcs /\ pc' \notin {"navigate", "loop", "exited"}
        /\ tabs = << >>
    BY <1>0, <2>1, <2>2 DEF ShellPcs, Terminal, AfterParse, BeforeTab
  <2>4. QED
    BY <1>0, <2>1, <2>3, QuietStep
<1>4. CASE InitBrowserEngine
  <2>1. /\ pc = "engine" /\ pc' \in {"ui", "returned"} /\ nav = << >>
        /\ UNCHANGED <<vars, nav, mainWindow, handling, delivered, initialUrl>>
        /\ browserEngine' \in BOOLEAN
    BY <1>0, <1>4 DEF InitBrowserEngine, MainRuns
  <2>2. QED
    BY <1>0, <2>1, QuietStep DEF ShellPcs, Terminal, AfterParse, BeforeTab
<1>5. CASE InitBrowserUi
  <2>1. /\ pc = "ui" /\ pc' \in {"tab", "ui_failed"} /\ nav = << >>
        /\ UNCHANGED <<vars, nav, browserEngine, handling, delivered, initialUrl>>
        /\ mainWindow' \in BOOLEAN
    BY <1>0, <1>5 DEF InitBrowserUi, MainRuns
  <2>2. QED
    BY <1>0, <2>1, QuietStep DEF ShellPcs, Terminal, AfterParse, BeforeTab
(* The failure paths destroy the engine or the window with the table     *)
(* still empty, so it stays empty.                                         *)
<1>6. CASE UiFailedDestroyEngine \/ TabFailedDestroyEngine
  <2>1. /\ pc \in {"ui_failed", "tab_destroy_engine"}
        /\ pc' \in {"ui_return", "tab_return"} /\ nav = << >>
        /\ DestroyEngine
        /\ UNCHANGED <<nav, mainWindow, browserEngine, handling, delivered, initialUrl>>
    BY <1>6 DEF UiFailedDestroyEngine, TabFailedDestroyEngine, MainRuns
  <2>2. EngineOK' /\ tabs' = << >>
    BY <1>0, <2>1, DestroyEngineOK
  <2>3. QED
    BY <1>0, <2>1, <2>2 DEF EngineInShell, ShellDataOK, ShellPcs, Terminal,
       AfterParse, BeforeTab
<1>7. CASE TabFailedDestroyWindow
  <2>1. /\ pc = "tab_failed" /\ pc' = "tab_destroy_engine" /\ nav = << >>
        /\ DestroyWindow
        /\ UNCHANGED <<nav, mainWindow, browserEngine, handling, delivered, initialUrl>>
    BY <1>7 DEF TabFailedDestroyWindow, MainRuns
  <2>2. EngineOK' /\ tabs' = tabs
    BY <1>0, <2>1, DestroyWindowOK
  <2>3. QED
    BY <1>0, <2>1, <2>2 DEF EngineInShell, ShellDataOK, ShellPcs, Terminal,
       AfterParse, BeforeTab
<1>8. CASE ReturnFailure
  <2>1. /\ pc \in {"ui_return", "tab_return"} /\ pc' = "returned"
        /\ UNCHANGED <<vars, nav, mainWindow, browserEngine, handling, delivered,
                       initialUrl>>
    BY <1>8 DEF ReturnFailure, MainRuns
  <2>2. /\ vars' = vars /\ nav' = nav
        /\ mainWindow' \in BOOLEAN /\ browserEngine' \in BOOLEAN
        /\ delivered' \subseteq Signals
        /\ pc' \in ShellPcs
        /\ initialUrl' \in Urls \cup {AboutBlank, NULL}
        /\ pc' \in AfterParse => initialUrl' # NULL
        /\ pc' \in BeforeTab => tabs = << >>
        /\ pc' = "navigate" /\ handling' = << >> => Len(tabs) > 0
        /\ nav # << >> => pc' \in {"loop", "exited"}
        /\ handling' = handling \/ handling' # << >>
    BY <1>0, <2>1 DEF ShellPcs, Terminal, AfterParse, BeforeTab
  <2>3. QED
    BY <2>2, QuietStep
(* browser_create_tab on the empty table makes the tab main navigates in. *)
<1>9. CASE CreateInitialTab
  <2>1. /\ pc = "tab" /\ fault = "none" /\ nav = << >> /\ handling = << >>
        /\ UNCHANGED <<nav, mainWindow, browserEngine, handling, delivered, initialUrl>>
    BY <1>9 DEF CreateInitialTab, MainRuns
  <2>2. CASE CreateTab /\ pc' = "navigate"
    <3>1. IInv'
      BY <1>0, <2>1, <2>2, EngineOKIsIInv, CreateTabOK
    <3>2. EngineOK'
      BY <3>1 DEF IInv, TypeOK, EngineOK, Fault
    <3>3. Len(tabs') > 0
      BY <1>0, <2>2, AppendProperties DEF CreateTab, EngineOK
    <3>4. QED
      BY <1>0, <2>1, <2>2, <3>2, <3>3 DEF EngineInShell, ShellDataOK, ShellPcs,
         Terminal, AfterParse, BeforeTab
  <2>3. CASE pc' = "tab_failed" /\ UNCHANGED vars
    <3>1. /\ vars' = vars /\ nav' = nav
          /\ mainWindow' \in BOOLEAN /\ browserEngine' \in BOOLEAN
          /\ delivered' \subseteq Signals
          /\ pc' \in ShellPcs
          /\ initialUrl' \in Urls \cup {AboutBlank, NULL}
          /\ pc' \in AfterParse => initialUrl' # NULL
          /\ pc' \in BeforeTab => tabs = << >>
          /\ pc' = "navigate" /\ handling' = << >> => Len(tabs) > 0
          /\ nav # << >> => pc' \in {"loop", "exited"}
          /\ handling' = handling \/ handling' # << >>
      BY <1>0, <2>1, <2>3 DEF ShellPcs, Terminal, AfterParse, BeforeTab
    <3>2. QED
      BY <3>1, QuietStep
  <2>4. QED
    BY <1>9, <2>2, <2>3 DEF CreateInitialTab
(* main navigates in the initial tab, at C index 0, to a URL that is     *)
(* neither NULL nor about:blank, so one of Urls.                          *)
<1>10. CASE StartEventLoop
  <2>1. /\ pc = "navigate" /\ pc' = "loop" /\ fault = "none"
        /\ nav = << >> /\ handling = << >>
        /\ UNCHANGED <<mainWindow, browserEngine, handling, delivered, initialUrl>>
    BY <1>10 DEF StartEventLoop, MainRuns
  <2>2. Len(tabs) > 0 /\ initialUrl # NULL
    BY <2>1 DEF EngineInShell, ShellDataOK, AfterParse
  <2>3. CASE initialUrl = AboutBlank
    <3>1. UNCHANGED <<vars, nav>>
      BY <1>10, <2>3 DEF StartEventLoop
    <3>2. QED
      BY <1>0, <2>1, <3>1 DEF EngineInShell, EngineOK, ShellDataOK, vars,
         ActiveIsLast, CountsInCap, ShellPcs, Terminal, AfterParse, BeforeTab
  <2>4. CASE initialUrl # AboutBlank
    <3>1. StartNavigate(0, initialUrl, initialUrl)
      BY <1>10, <2>4 DEF StartEventLoop
    <3>2. initialUrl \in AnyUrl /\ 0 \in TabIndex /\ IInv
      BY <1>0, <2>1, <2>2, <2>4, EngineOKIsIInv DEF AnyUrl, TabIndex
    <3>3. /\ EngineOK'
          /\ \/ nav' = << >>
             \/ /\ tabs' = tabs
                /\ \E r \in NavRec : r.k = 0 /\ nav' = << r >>
      BY <2>1, <3>1, <3>2, StartNavigateOK
    <3>4. CASE nav' = << >>
      BY <1>0, <2>1, <2>2, <3>3, <3>4, EmptySeq DEF EngineInShell, ShellDataOK,
         ShellPcs, Terminal, AfterParse, BeforeTab
    <3>5. CASE /\ tabs' = tabs
               /\ \E r \in NavRec : r.k = 0 /\ nav' = << r >>
      BY <1>0, <2>1, <2>2, <3>2, <3>3, <3>5 DEF EngineInShell, ShellDataOK,
         ShellPcs, Terminal, AfterParse, BeforeTab, TabIndex
    <3>6. QED
      BY <3>3, <3>4, <3>5
  <2>5. QED
    BY <2>3, <2>4
(* html_parse returns into a tab that still exists: no handler has run.   *)
<1>11. CASE FinishNavigate
  <2>1. /\ handling = << >> /\ fault = "none" /\ nav # << >>
        /\ NavigateTo(nav[1].k, nav[1].url, nav[1].stored, nav[1].o)
        /\ nav' = << >> /\ activeTab' = activeTab
        /\ UNCHANGED <<pc, mainWindow, browserEngine, handling, delivered, initialUrl>>
    BY <1>11 DEF FinishNavigate
  <2>2. nav[1] \in NavRec /\ nav[1].k \in TabIndex /\ pc \in {"loop", "exited"}
    BY <1>0, <2>1, EmptySeq DEF EngineInShell, ShellDataOK
  <2>3. IInv'
    BY <1>0, <2>1, <2>2, EngineOKIsIInv, NavigateToOK DEF NavRec
  <2>4. EngineOK'
    BY <2>3 DEF IInv, TypeOK, EngineOK, Fault
  <2>5. QED
    BY <1>0, <2>1, <2>2, <2>4, EmptySeq DEF EngineInShell, ShellDataOK,
       ShellPcs, Terminal, AfterParse, BeforeTab
(* A keyboard shortcut keeps main in the event loop with no handler.      *)
<1>12. CASE \E key \in Keys, m \in 0 .. 3 : KeyboardShortcut(key, m)
  <2>1. PICK key \in Keys, m \in 0 .. 3 : KeyboardShortcut(key, m)
    BY <1>12
  <2>2. /\ pc = "loop" /\ handling = << >>
        /\ UNCHANGED <<pc, mainWindow, browserEngine, handling, delivered, initialUrl>>
    BY <2>1 DEF KeyboardShortcut, MainRuns
  <2>3. /\ EngineOK'
        /\ \/ nav' = << >>
           \/ /\ tabs' = tabs
              /\ \E r \in NavRec : r.k \in TabIndex /\ nav' = << r >>
    BY <2>1, KeyboardOK
  <2>4. CASE nav' = << >>
    BY <1>0, <2>2, <2>3, <2>4, EmptySeq DEF EngineInShell, ShellDataOK,
       ShellPcs, Terminal, AfterParse, BeforeTab
  <2>5. CASE /\ tabs' = tabs
             /\ \E r \in NavRec : r.k \in TabIndex /\ nav' = << r >>
    BY <1>0, <2>2, <2>3, <2>5 DEF EngineInShell, ShellDataOK, ShellPcs,
       Terminal, AfterParse, BeforeTab, TabIndex
  <2>6. QED
    BY <2>3, <2>4, <2>5
(* A signal either ends the process before signal() or stacks a handler. *)
<1>13. CASE \E sig \in Signals : Deliver(sig)
  <2>1. PICK sig \in Signals : Deliver(sig)
    BY <1>13
  <2>2. /\ delivered' \subseteq Signals
        /\ UNCHANGED <<vars, nav, mainWindow, browserEngine, initialUrl>>
    BY <1>0, <2>1 DEF Deliver
  <2>3. CASE pc = "signals"
    <3>1. pc' = "killed" /\ handling' = handling /\ nav = << >>
      BY <1>0, <2>1, <2>3 DEF Deliver
    <3>2. /\ vars' = vars /\ nav' = nav
          /\ mainWindow' \in BOOLEAN /\ browserEngine' \in BOOLEAN
          /\ delivered' \subseteq Signals
          /\ pc' \in ShellPcs
          /\ initialUrl' \in Urls \cup {AboutBlank, NULL}
          /\ pc' \in AfterParse => initialUrl' # NULL
          /\ pc' \in BeforeTab => tabs = << >>
          /\ pc' = "navigate" /\ handling' = << >> => Len(tabs) > 0
          /\ nav # << >> => pc' \in {"loop", "exited"}
          /\ handling' = handling \/ handling' # << >>
      BY <1>0, <2>2, <3>1 DEF ShellPcs, Terminal, AfterParse, BeforeTab
    <3>3. QED
      BY <3>2, QuietStep
  <2>4. CASE pc # "signals"
    <3>1. handling' = Append(handling, [sig |-> sig, at |-> "window"]) /\ pc' = pc
      BY <2>1, <2>4 DEF Deliver
    <3>2. handling' # << >>
      BY <3>1, AppendProperties DEF ShellIInv
    <3>3. /\ vars' = vars /\ nav' = nav
          /\ mainWindow' \in BOOLEAN /\ browserEngine' \in BOOLEAN
          /\ delivered' \subseteq Signals
          /\ pc' \in ShellPcs
          /\ initialUrl' \in Urls \cup {AboutBlank, NULL}
          /\ pc' \in AfterParse => initialUrl' # NULL
          /\ pc' \in BeforeTab => tabs = << >>
          /\ pc' = "navigate" /\ handling' = << >> => Len(tabs) > 0
          /\ nav # << >> => pc' \in {"loop", "exited"}
          /\ handling' = handling \/ handling' # << >>
      BY <1>0, <2>2, <3>1, <3>2
    <3>4. QED
      BY <3>3, QuietStep
  <2>5. QED
    BY <2>3, <2>4
(* A handler step leaves main where it is and the stack non-empty, so     *)
(* nothing about the pending call or the initial tab can be violated;     *)
(* the destroy functions only empty the table or add a double free.       *)
<1>14. CASE Handler
  <2>1. handling \in Seq(HandlerRec) /\ handling # << >>
    BY <1>14 DEF Handler, HandlerWindow, HandlerEngine, HandlerExit, ShellIInv
  <2>2. CASE HandlerWindow \/ HandlerEngine
    <3>1. PICK at \in {"engine", "exit"} : SetTop(at)
      BY <2>2 DEF HandlerWindow, HandlerEngine
    <3>2. handling' # << >>
      BY <2>1, <3>1, SetTopOK
    <3>5. UNCHANGED <<pc, mainWindow, browserEngine, delivered, initialUrl, nav>>
      BY <2>2 DEF HandlerWindow, HandlerEngine
    <3>3. EngineOK' /\ (tabs' = tabs \/ tabs' = << >>)
      <4>0. UNCHANGED vars => EngineOK' /\ tabs' = tabs
        BY <1>0 DEF vars, EngineOK, ActiveIsLast, CountsInCap
      <4>1. CASE HandlerWindow
        <5>1. CASE mainWindow
          BY <1>0, <4>1, <5>1, DestroyWindowOK DEF HandlerWindow
        <5>2. CASE ~mainWindow
          BY <4>0, <4>1, <5>2 DEF HandlerWindow
        <5>3. QED
          BY <5>1, <5>2
      <4>2. CASE HandlerEngine
        <5>1. CASE browserEngine
          BY <1>0, <4>2, <5>1, DestroyEngineOK DEF HandlerEngine
        <5>2. CASE ~browserEngine
          BY <4>0, <4>2, <5>2 DEF HandlerEngine
        <5>3. QED
          BY <5>1, <5>2
      <4>3. QED
        BY <2>2, <4>1, <4>2
    <3>4. QED
      BY <1>0, <2>1, <3>2, <3>3, <3>5 DEF EngineInShell, ShellDataOK, TabIndex
  <2>3. CASE HandlerExit
    <3>1. /\ vars' = vars /\ nav' = nav
          /\ mainWindow' \in BOOLEAN /\ browserEngine' \in BOOLEAN
          /\ delivered' \subseteq Signals
          /\ pc' \in ShellPcs
          /\ initialUrl' \in Urls \cup {AboutBlank, NULL}
          /\ pc' \in AfterParse => initialUrl' # NULL
          /\ pc' \in BeforeTab => tabs = << >>
          /\ pc' = "navigate" /\ handling' = << >> => Len(tabs) > 0
          /\ nav # << >> => pc' \in {"loop", "exited"}
          /\ handling' = handling \/ handling' # << >>
      BY <1>0, <2>1, <2>3 DEF HandlerExit, ShellPcs, Terminal, AfterParse,
         BeforeTab
    <3>2. QED
      BY <3>1, QuietStep
  <2>4. QED
    BY <1>14, <2>2, <2>3 DEF Handler
<1>15. CASE UNCHANGED allVars
  BY <1>15 DEF allVars, shellVars, vars, EngineInShell, EngineOK, ShellDataOK,
     ActiveIsLast, CountsInCap, TabIndex
<1>16. QED
  BY <1>1, <1>2, <1>3, <1>4, <1>5, <1>6, <1>7, <1>8, <1>9, <1>10, <1>11,
     <1>12, <1>13, <1>14, <1>15 DEF ShellNext

(* The shell starts with no tab, no pending call and initial_url NULL.    *)
LEMMA InitEngineInShell == ShellInit => EngineInShell
<1> SUFFICES ASSUME ShellInit PROVE EngineInShell
  OBVIOUS
<1>1. tabs = << >> /\ activeTab = 0 /\ fault = "none" /\ pc = "signals"
      /\ nav = << >> /\ initialUrl = NULL /\ delivered = {}
      /\ mainWindow = FALSE /\ browserEngine = FALSE
  BY DEF ShellInit, Init
<1>2. EngineOK
  BY <1>1, EmptySeq, ConstAssumption DEF EngineOK, ActiveIsLast, CountsInCap, Fault
<1>3. nav \in Seq(NavRec) /\ Len(nav) <= 1
  BY <1>1, EmptySeq
<1>4. ShellDataOK
  BY <1>1, <1>3 DEF ShellDataOK, ShellPcs, Terminal, AfterParse, BeforeTab
<1>5. QED
  BY <1>2, <1>4 DEF EngineInShell

(* The two invariants together give the shell's type invariant.           *)
LEMMA ShellTypeFromIInv ==
    ShellIInv /\ EngineInShell => ShellTypeOK
  BY DEF ShellIInv, HeapStates, HandlerRec, EngineInShell, EngineOK,
         ShellDataOK, ShellPcs, ShellTypeOK

(* Whatever the arguments, the allocation failures and the signals, and   *)
(* whichever keys the user presses, main, signal_handler and the engine   *)
(* keep every variable in its type: in particular the tab table stays a   *)
(* table of at most max_tabs tabs and at most one browser_navigate is     *)
(* pending (ShellTypeOK).                                                  *)
THEOREM ShellTypeCorrect == ShellSpec => []ShellTypeOK
<1>1. ShellInit => ShellIInv /\ EngineInShell
  BY InitShellIInv, InitEngineInShell
<1>2. ShellIInv /\ EngineInShell /\ [ShellNext]_allVars
        => (ShellIInv /\ EngineInShell)'
  BY NextShellIInv, NextEngineInShell
<1>3. QED
  BY <1>1, <1>2, ShellTypeFromIInv, PTL DEF ShellSpec

(* Driven by the shell, the engine's active tab stays an index of the     *)
(* table (ActiveTabInRange): the initial tab, the keyboard shortcuts, a   *)
(* browser_navigate interrupted by a signal and the teardown in           *)
(* signal_handler never leave active_tab_index past the last tab.          *)
THEOREM ActiveTabValidInShell == ShellSpec => []ActiveTabInRange
<1>1. ShellInit => ShellIInv /\ EngineInShell
  BY InitShellIInv, InitEngineInShell
<1>2. ShellIInv /\ EngineInShell /\ [ShellNext]_allVars
        => (ShellIInv /\ EngineInShell)'
  BY NextShellIInv, NextEngineInShell
<1>3. EngineInShell => ActiveTabInRange
  BY EngineOKProperties DEF EngineInShell
<1>4. QED
  BY <1>1, <1>2, <1>3, PTL DEF ShellSpec

(* Driven by the shell, every tab's history count stays within the cap   *)
(* and, while the process lives, its index within the count               *)
(* (HistoryInBounds): Alt+Left/Right, F5 and F1 on the active tab never   *)
(* move the history past its array.                                        *)
THEOREM HistoryBoundedInShell == ShellSpec => []HistoryInBounds
<1>1. ShellInit => ShellIInv /\ EngineInShell
  BY InitShellIInv, InitEngineInShell
<1>2. ShellIInv /\ EngineInShell /\ [ShellNext]_allVars
        => (ShellIInv /\ EngineInShell)'
  BY NextShellIInv, NextEngineInShell
<1>3. EngineInShell => HistoryInBounds
  BY EngineOKProperties DEF EngineInShell
<1>4. QED
  BY <1>1, <1>2, <1>3, PTL DEF ShellSpec
=============================================================================
