---------------------------- MODULE BrowserShell ----------------------------
(***************************************************************************)
(* The browser shell (src/userspace/browser/main.c) driving the engine of  *)
(* BrowserEngine: main's startup sequence with each of its failure paths,  *)
(* the keyboard shortcuts that call the engine on the active tab, and the  *)
(* SIGINT/SIGTERM handler that tears the window and the engine down.        *)
(*                                                                         *)
(* Everything runs on the main thread, but a signal interrupts it between  *)
(* any two steps: the handler's steps then run, and main's steps wait      *)
(* until the handler returns, which it never does (it ends in exit(0)).   *)
(* signal() installs the handler with the handled signal blocked while it *)
(* runs and the other one not, so a SIGTERM can interrupt the SIGINT       *)
(* handler and the converse; a signal that is blocked stays pending until *)
(* the process exits, so each signal is delivered at most once.           *)
(*                                                                         *)
(* The heap is reduced to the objects the handler and the failure paths    *)
(* free: the window and the engine's own allocations.  Freeing an object  *)
(* that is already free is a double free, which glibc detects and aborts *)
(* on: `fault` becomes "double_free" and no further step is taken.        *)
(* browser_navigate is split where browser_load_html has destroyed the     *)
(* tab's document and html_parse is building the new one, since main      *)
(* calls it and a signal may find the dangling document there.  The other *)
(* engine calls are one step each: browser_close_tab also frees a tab      *)
(* before it shifts the table (engine.c:366-384), but only the keyboard   *)
(* handler calls it, and nothing in src/ calls that handler.               *)
(***************************************************************************)
EXTENDS BrowserEngine

CONSTANTS
    AboutHelp     \* "about:help", the page F1 opens

ASSUME ShellAssumption ==
    AboutHelp \in Urls

VARIABLES
    pc,            \* where main is
    mainWindow,    \* main_window != NULL
    browserEngine, \* browser_engine != NULL
    heap,          \* each object: never allocated, live or freed
    handling,      \* the signal handlers running, innermost last
    delivered,     \* the signals delivered so far
    initialUrl,    \* options.initial_url
    nav            \* << >>, or the browser_navigate inside html_parse

shellVars == <<pc, mainWindow, browserEngine, heap, handling, delivered,
               initialUrl, nav>>
allVars == <<vars, shellVars>>

-----------------------------------------------------------------------------
(* Values.                                                                 *)

Signals == {"SIGINT", "SIGTERM"}

(* The engine's allocations in the order browser_engine_create and         *)
(* browser_engine_init make them; the four managers are one object.       *)
EngineOrder == <<"engine", "tab_array", "html_parser", "css_parser",
                 "js_engine", "render_engine", "managers">>
EngineObjs == Range(EngineOrder)
Objs == EngineObjs \cup {"window"}

(* What browser_engine_shutdown and browser_engine_destroy free, each      *)
(* freed pointer still set in the engine after the call.                  *)
DestroyFrees == {"js_engine", "html_parser", "css_parser", "render_engine",
                 "managers", "tab_array", "engine"}

(* A command-line argument: help or version, another option, or a URL.    *)
Args == {"help", "version", "option"} \cup Urls \cup {AboutBlank}

Terminal == {"returned", "exited", "killed"}

NoTab == -1

-----------------------------------------------------------------------------
(* Helpers.                                                                *)

(* browser_get_active_tab as a C index, NoTab for NULL.                    *)
ActiveTabIndex ==
    IF Len(tabs) = 0 \/ activeTab >= Len(tabs) THEN NoTab ELSE activeTab

(* free() of the objects in s whose pointers are set: a freed one is a     *)
(* double free.                                                            *)
Free(s) ==
    /\ heap' = [o \in Objs |-> IF o \in s /\ heap[o] = "live" THEN "freed" ELSE heap[o]]
    /\ fault' = IF \E o \in s : heap[o] = "freed" THEN "double_free" ELSE fault

(* browser_load_html has destroyed the document of the tab it loads into    *)
(* and not yet stored the new one.                                         *)
DocumentDangling == nav # << >> /\ tabs[nav[1].k + 1].doc

(* browser_engine_destroy: browser_engine_shutdown closes every tab       *)
(* (destroying each one's document), frees the subsystems, then the tab   *)
(* array and the engine are freed.                                        *)
DestroyEngine ==
    /\ heap' = [o \in Objs |-> IF o \in DestroyFrees /\ heap[o] = "live"
                                 THEN "freed" ELSE heap[o]]
    /\ fault' = IF DocumentDangling \/ \E o \in DestroyFrees : heap[o] = "freed"
                THEN "double_free" ELSE fault
    /\ tabs' = << >>
    /\ activeTab' = 0

(* browser_window_destroy.                                                 *)
DestroyWindow == Free({"window"}) /\ UNCHANGED <<tabs, activeTab>>

(* browser_navigate(tab, url) on the tab at C index k, `stored` being what *)
(* strdup copies from url.  When the fetch succeeds and a parser is        *)
(* created, browser_load_html destroys the document and main stays inside  *)
(* html_parse (nav); otherwise the call completes at once.                 *)
StartNavigate(k, url, stored) ==
    \E o \in LoadOutcome :
        IF o \in {"parse_null", "parsed"}
        THEN /\ nav' = << [k |-> k, url |-> url, stored |-> stored, o |-> o] >>
             /\ UNCHANGED <<tabs, activeTab, fault>>
        ELSE /\ NavigateTo(k, url, stored, o)
             /\ nav' = << >>
             /\ UNCHANGED activeTab

(* browser_reload(tab) = browser_navigate(tab, tab->url).                  *)
StartReload(k) ==
    \E stored \in {tabs[k + 1].url, Garbled} : StartNavigate(k, tabs[k + 1].url, stored)

-----------------------------------------------------------------------------
(* main.                                                                    *)

ShellInit ==
    /\ Init
    /\ pc = "signals"
    /\ mainWindow = FALSE
    /\ browserEngine = FALSE
    /\ heap = [o \in Objs |-> "none"]
    /\ handling = << >>
    /\ delivered = {}
    /\ initialUrl = NULL
    /\ nav = << >>

(* main runs only while no handler interrupts it and nothing crashed.     *)
MainRuns == handling = << >> /\ fault = "none" /\ nav = << >>

(* signal(SIGINT, ...); signal(SIGTERM, ...).                              *)
InstallHandlers ==
    /\ MainRuns /\ pc = "signals"
    /\ pc' = "parse"
    /\ UNCHANGED <<vars, mainWindow, browserEngine, heap, handling, delivered,
                   initialUrl, nav>>

(* options = parse_arguments(argc, argv), one iteration of its loop per   *)
(* step.  argv[i] is read once, by iteration i, so the step takes it from  *)
(* Args: -h and -v exit(0), an argument not starting with '-' is the URL   *)
(* (the last one wins), and any other option sets a field nothing reads.  *)
ParseArgument ==
    /\ MainRuns /\ pc = "parse"
    /\ \E a \in Args :
          IF a \in {"help", "version"}
          THEN pc' = "exited" /\ UNCHANGED initialUrl
          ELSE /\ initialUrl' = IF a \in Urls \cup {AboutBlank} THEN a ELSE initialUrl
               /\ UNCHANGED pc
    /\ UNCHANGED <<vars, mainWindow, browserEngine, heap, handling, delivered, nav>>

(* The loop has read the last argument: a NULL initial_url becomes         *)
(* "about:blank" and parse_arguments returns.                              *)
ParseDone ==
    /\ MainRuns /\ pc = "parse"
    /\ pc' = "engine"
    /\ initialUrl' = IF initialUrl = NULL THEN AboutBlank ELSE initialUrl
    /\ UNCHANGED <<vars, mainWindow, browserEngine, heap, handling, delivered, nav>>

(* The objects allocated when the first n allocations succeed.            *)
Made(n) == {EngineOrder[i] : i \in 1 .. n}

(* Mutant of InitBrowserEngine: a failed browser_engine_init is not       *)
(* followed by browser_engine_destroy.                                     *)
InitBrowserEngineNoCleanup ==
    /\ MainRuns /\ pc = "engine"
    /\ \/ /\ heap' = [o \in Objs |-> IF o \in EngineObjs THEN "live" ELSE heap[o]]
          /\ browserEngine' = TRUE
          /\ pc' = "ui"
       \/ \E n \in 0 .. Len(EngineOrder) - 2 :
            /\ heap' = [o \in Objs |-> IF o \in Made(n) THEN IF n < 2 THEN "freed" ELSE "live"
                                       ELSE heap[o]]
            /\ pc' = "returned"
            /\ UNCHANGED browserEngine
    /\ UNCHANGED <<vars, mainWindow, handling, delivered, initialUrl, nav>>

(* browser_engine = init_browser_engine(&options): browser_engine_create   *)
(* allocates the engine and the tab array, browser_engine_init the parser, *)
(* CSS, JavaScript and render subsystems and the managers; every one but  *)
(* the managers is checked, so the n-th allocation that fails is one of  *)
(* the first six.  When only the first n succeed, a failed                *)
(* create (n < 2) frees what it made, and a failed init is followed by    *)
(* browser_engine_destroy; main then returns 1.  The global is assigned   *)
(* only when the call returns.                                             *)
InitBrowserEngine ==
    /\ MainRuns /\ pc = "engine"
    /\ \/ /\ heap' = [o \in Objs |-> IF o \in EngineObjs THEN "live" ELSE heap[o]]
          /\ browserEngine' = TRUE
          /\ pc' = "ui"
       \/ \E n \in 0 .. Len(EngineOrder) - 2 :
            LET freedBy == IF n < 2 THEN Made(n) ELSE Made(n) \cap DestroyFrees
            IN  /\ heap' = [o \in Objs |-> IF o \in freedBy THEN "freed"
                                           ELSE IF o \in Made(n) THEN "live" ELSE heap[o]]
                /\ pc' = "returned"
                /\ UNCHANGED browserEngine
    /\ UNCHANGED <<vars, mainWindow, handling, delivered, initialUrl, nav>>

(* main_window = init_browser_ui(&options, browser_engine): the private or *)
(* the normal window is created (either may fail) and given the engine.  *)
InitBrowserUi ==
    /\ MainRuns /\ pc = "ui"
    /\ \/ /\ heap' = [heap EXCEPT !["window"] = "live"]
          /\ mainWindow' = TRUE
          /\ pc' = "tab"
       \/ /\ pc' = "ui_failed"
          /\ UNCHANGED <<heap, mainWindow>>
    /\ UNCHANGED <<vars, browserEngine, handling, delivered, initialUrl, nav>>

(* No window: browser_engine_destroy(browser_engine), the global left set. *)
UiFailedDestroyEngine ==
    /\ MainRuns /\ pc = "ui_failed"
    /\ DestroyEngine
    /\ pc' = "ui_return"
    /\ UNCHANGED <<mainWindow, browserEngine, handling, delivered, initialUrl, nav>>

(* initial_tab = browser_create_tab(browser_engine): the tab table is      *)
(* empty, so only js_engine_create or dom_document_create can fail.       *)
CreateInitialTab ==
    /\ MainRuns /\ pc = "tab"
    /\ \/ CreateTab /\ pc' = "navigate"
       \/ pc' = "tab_failed" /\ UNCHANGED vars
    /\ UNCHANGED <<mainWindow, browserEngine, heap, handling, delivered, initialUrl, nav>>

(* No initial tab: browser_window_destroy(main_window) ...                 *)
TabFailedDestroyWindow ==
    /\ MainRuns /\ pc = "tab_failed"
    /\ DestroyWindow
    /\ pc' = "tab_destroy_engine"
    /\ UNCHANGED <<mainWindow, browserEngine, handling, delivered, initialUrl, nav>>

(* ... then browser_engine_destroy(browser_engine), both globals left set. *)
TabFailedDestroyEngine ==
    /\ MainRuns /\ pc = "tab_destroy_engine"
    /\ DestroyEngine
    /\ pc' = "tab_return"
    /\ UNCHANGED <<mainWindow, browserEngine, handling, delivered, initialUrl, nav>>

(* return 1.                                                               *)
ReturnFailure ==
    /\ MainRuns /\ pc \in {"ui_return", "tab_return"}
    /\ pc' = "returned"
    /\ UNCHANGED <<vars, mainWindow, browserEngine, heap, handling, delivered,
                   initialUrl, nav>>

(* browser_navigate(initial_tab, url) unless the URL is about:blank, then  *)
(* browser_window_show and run_event_loop.                                  *)
StartEventLoop ==
    /\ MainRuns /\ pc = "navigate"
    /\ IF initialUrl = AboutBlank
       THEN UNCHANGED <<vars, nav>>
       ELSE StartNavigate(0, initialUrl, initialUrl)
    /\ pc' = "loop"
    /\ UNCHANGED <<mainWindow, browserEngine, heap, handling, delivered, initialUrl>>

(* html_parse returns and browser_navigate completes.                      *)
FinishNavigate ==
    /\ handling = << >> /\ fault = "none" /\ nav # << >>
    /\ NavigateTo(nav[1].k, nav[1].url, nav[1].stored, nav[1].o)
    /\ nav' = << >>
    /\ UNCHANGED <<activeTab, pc, mainWindow, browserEngine, heap, handling,
                   delivered, initialUrl>>

-----------------------------------------------------------------------------
(* handle_keyboard_shortcut(main_window, key, modifiers).  Nothing in src/ *)
(* calls it (run_event_loop's browser_ui_process_events is commented out); *)
(* it is modelled as a window system would call it, between two frames of *)
(* the event loop, which over-approximates the shell.  Only the keys that *)
(* reach the engine are modelled; the others call the window's own        *)
(* functions.  No key code is                                              *)
(* in two of the three switches, so one event makes at most one engine     *)
(* call.  browser_ui_create_tab is only declared in ui/window.h: Ctrl+T   *)
(* may call browser_create_tab on the window's engine, or leave the        *)
(* engine alone, which is a stuttering step and needs no disjunct.        *)

Ctrl(m) == m % 2 = 1
Alt(m) == (m \div 2) % 2 = 1

Keys == {116, 119, 114, 263, 262, 282, 293}   \* t w r Left Right F1 F5

KeyboardShortcut(key, m) ==
    LET k == ActiveTabIndex
    IN  /\ MainRuns /\ pc = "loop"
        /\ \/ Ctrl(m) /\ key = 116 /\ CreateTab /\ UNCHANGED nav
           \/ Ctrl(m) /\ key = 119 /\ k # NoTab /\ CloseTab(tabs[k + 1].id) /\ UNCHANGED nav
           \/ Ctrl(m) /\ key = 114 /\ k # NoTab /\ StartReload(k)
           \/ Alt(m) /\ key = 263 /\ k # NoTab /\ GoBack(k) /\ UNCHANGED nav
           \/ Alt(m) /\ key = 262 /\ k # NoTab /\ GoForward(k) /\ UNCHANGED nav
           \/ key = 282 /\ k # NoTab /\ StartNavigate(k, AboutHelp, AboutHelp)
           \/ key = 293 /\ k # NoTab /\ StartReload(k)
        /\ UNCHANGED <<pc, mainWindow, browserEngine, heap, handling, delivered, initialUrl>>

-----------------------------------------------------------------------------
(* signal_handler.                                                         *)

(* The kernel delivers sig: with no handler installed the default action  *)
(* ends the process; otherwise signal_handler starts on top of whatever   *)
(* main, or a handler of the other signal, was doing.                     *)
Deliver(sig) ==
    /\ fault = "none" /\ pc \notin Terminal
    /\ sig \notin delivered
    /\ delivered' = delivered \cup {sig}
    /\ IF pc = "signals"
       THEN pc' = "killed" /\ UNCHANGED handling
       ELSE handling' = Append(handling, [sig |-> sig, at |-> "window"]) /\ UNCHANGED pc
    /\ UNCHANGED <<vars, mainWindow, browserEngine, heap, initialUrl, nav>>

Top == handling[Len(handling)]

SetTop(at) == handling' = [handling EXCEPT ![Len(handling)].at = at]

(* if (main_window) browser_window_destroy(main_window);                   *)
HandlerWindow ==
    /\ fault = "none" /\ handling # << >> /\ Top.at = "window"
    /\ IF mainWindow THEN DestroyWindow ELSE UNCHANGED <<vars, heap>>
    /\ SetTop("engine")
    /\ UNCHANGED <<pc, mainWindow, browserEngine, delivered, initialUrl, nav>>

(* if (browser_engine) browser_engine_destroy(browser_engine);             *)
HandlerEngine ==
    /\ fault = "none" /\ handling # << >> /\ Top.at = "engine"
    /\ IF browserEngine THEN DestroyEngine ELSE UNCHANGED <<vars, heap>>
    /\ SetTop("exit")
    /\ UNCHANGED <<pc, mainWindow, browserEngine, delivered, initialUrl, nav>>

(* exit(0).                                                                *)
HandlerExit ==
    /\ fault = "none" /\ handling # << >> /\ Top.at = "exit"
    /\ pc' = "exited"
    /\ UNCHANGED <<vars, mainWindow, browserEngine, heap, handling, delivered,
                   initialUrl, nav>>

-----------------------------------------------------------------------------

Handler == HandlerWindow \/ HandlerEngine \/ HandlerExit

ShellNext ==
    \/ InstallHandlers
    \/ ParseArgument
    \/ ParseDone
    \/ InitBrowserEngine
    \/ InitBrowserUi
    \/ UiFailedDestroyEngine
    \/ CreateInitialTab
    \/ TabFailedDestroyWindow
    \/ TabFailedDestroyEngine
    \/ ReturnFailure
    \/ StartEventLoop
    \/ FinishNavigate
    \/ \E key \in Keys, m \in 0 .. 3 : KeyboardShortcut(key, m)
    \/ \E sig \in Signals : Deliver(sig)
    \/ Handler

(* No fairness: the handler calls free() and printf, which are not        *)
(* async-signal-safe, so a handler that interrupts main inside malloc may *)
(* block on its lock for ever, and main, the keys and the signals are the  *)
(* environment.                                                            *)
ShellSpec == ShellInit /\ [][ShellNext]_allVars

-----------------------------------------------------------------------------
(* Properties.                                                             *)

(* Type correctness of the shell's state.                                   *)
ShellTypeOK ==
    /\ pc \in {"signals", "parse", "engine", "ui", "ui_failed", "ui_return", "tab",
               "tab_failed", "tab_destroy_engine", "tab_return", "navigate", "loop"}
              \cup Terminal
    /\ mainWindow \in BOOLEAN /\ browserEngine \in BOOLEAN
    /\ heap \in [Objs -> {"none", "live", "freed"}]
    /\ handling \in Seq([sig : Signals, at : {"window", "engine", "exit"}])
    /\ delivered \subseteq Signals
    /\ initialUrl \in Urls \cup {AboutBlank, NULL}
    /\ Len(nav) <= 1
    /\ tabs \in Seq(Tab) /\ Len(tabs) <= MaxTabs
    /\ fault \in Fault \cup {"double_free"}

(* When main gives up and returns 1, on whichever of its three failure      *)
(* paths (engine, window or initial tab), everything it allocated has been *)
(* freed: browser_engine_create's own cleanup, browser_engine_destroy      *)
(* after a partial browser_engine_init, and main's cleanup calls between   *)
(* them leave no engine subsystem and no window behind.                   *)
CleanFailedStart ==
    pc = "returned" => \A o \in Objs : heap[o] # "live"

(* The signal handler and main's failure paths never free an object twice *)
(* (the subject of a violation run and a finding).                         *)
NoDoubleFree ==
    fault # "double_free"

=============================================================================
