--------------------------- MODULE BrowserEngine ---------------------------
(***************************************************************************)
(* The tab table and per-tab navigation history of the browser engine     *)
(* (src/kernel/src/browser/engine.c).  Every engine call runs to           *)
(* completion on the caller's thread, so each call is one atomic step.     *)
(*                                                                         *)
(* A tab is a record: its id, its url, the https flag, the progress        *)
(* counter, whether it owns a document, and the history array with its     *)
(* index and count.  The C tab array is 0-based and the sequence `tabs` is *)
(* 1-based: C index k is tabs[k + 1].                                      *)
(*                                                                         *)
(* Data are abstracted to what the properties tell apart: a URL is a model *)
(* value, the fetched page is only the outcome of the fetch and parse.  A  *)
(* segmentation fault ends the process: `fault` records where it struck  *)
(* and no further step is taken.                                           *)
(***************************************************************************)
EXTENDS Naturals, Sequences, SequencesExt

CONSTANTS
    Urls,         \* the URLs a caller may navigate to
    SecureUrls,   \* those of them that start with "https://"
    AboutBlank,   \* "about:blank", the URL of a new tab
    Garbled,      \* what a string read after it was freed turns out to be
    NULL,         \* the NULL pointer of an unset history slot
    MaxTabs,      \* config.max_tabs (100 in the shipped configuration)
    HistoryCap,   \* capacity of the history array (100 in the code)
    U32Max        \* UINT32_MAX, the value of (uint32_t)0 - 1

ASSUME ConstAssumption ==
    /\ SecureUrls \subseteq Urls
    /\ AboutBlank \notin Urls
    /\ Garbled \notin Urls \cup {AboutBlank, NULL}
    /\ NULL \notin Urls \cup {AboutBlank}
    /\ MaxTabs \in Nat \ {0}
    /\ HistoryCap \in Nat \ {0, 1}
    /\ U32Max \in Nat /\ U32Max > HistoryCap

VARIABLES
    tabs,         \* engine->tabs.tabs[0 .. tab_count - 1]
    activeTab,    \* engine->tabs.active_tab (a C index)
    fault         \* "none", or where a segmentation fault ended the process

vars == <<tabs, activeTab, fault>>

-----------------------------------------------------------------------------
(* Values.                                                                 *)

AnyUrl == Urls \cup {AboutBlank, Garbled}

HistSlot == 0 .. HistoryCap - 1

Tab == [id : 0 .. MaxTabs, url : AnyUrl, secure : BOOLEAN,
        progress : {0, 100}, doc : BOOLEAN,
        hist : [HistSlot -> AnyUrl \cup {NULL}],
        hidx : Nat, hcount : Nat]

(* What a page load ends in: the request or the fetch failed, there is no  *)
(* ok response (or no parser could be created), html_parse returned NULL,  *)
(* or the page was parsed.                                                 *)
LoadOutcome == {"fetch_failed", "not_ok", "parse_null", "parsed"}

(* n - 1 in uint32_t arithmetic.                                           *)
Dec32(n) == IF n = 0 THEN U32Max ELSE n - 1

-----------------------------------------------------------------------------
(* Helpers.                                                                *)

(* browser_load_html on a response that was fetched, as seen by the tab:  *)
(* the old document is destroyed and replaced by what html_parse returned. *)
LoadHtmlDoc(t, o) == IF o \in {"parse_null", "parsed"} THEN o = "parsed" ELSE t.doc

(* A NULL document returns -1; a parsed page goes through the title       *)
(* update and its scripts (which change no modelled field) and reaches    *)
(* the render step, which calls through tab->render_tree as a pipeline:   *)
(* NULL on the first load, freed later.                                    *)
LoadHtmlFault(o) == IF o = "parsed" THEN "render" ELSE "none"

Fault == {"none", "render", "strdup_null"}

(* Mutant of AddToHistory: the room test admits count = HistoryCap.       *)
AddToHistoryPastCap(t, url) ==
    LET count == IF t.hidx < Dec32(t.hcount) THEN t.hidx + 1 ELSE t.hcount
    IN  IF count <= HistoryCap
        THEN [t EXCEPT !.hist = [@ EXCEPT ![count] = url],
                       !.hcount = count + 1, !.hidx = count]
        ELSE [t EXCEPT !.hcount = count]

(* The history update of browser_navigate: drop the forward entries, then *)
(* append url if there is room.                                           *)
AddToHistory(t, url) ==
    LET count == IF t.hidx < Dec32(t.hcount) THEN t.hidx + 1 ELSE t.hcount
    IN  IF count < HistoryCap
        THEN [t EXCEPT !.hist = [@ EXCEPT ![count] = url],
                       !.hcount = count + 1, !.hidx = count]
        ELSE [t EXCEPT !.hcount = count]

(* browser_navigate(tab, url) on the tab at C index k.  `url` is the       *)
(* string the scheme test reads, `stored` what strdup copies from it (they *)
(* differ only when the argument was freed on the way), `o` the outcome of *)
(* the fetch and of browser_load_html.                                     *)
NavigateTo(k, url, stored, o) ==
    LET t  == tabs[k + 1]
        t1 == AddToHistory([t EXCEPT !.url = stored,
                                     !.secure = url \in SecureUrls], stored)
    IN  /\ tabs' = [tabs EXCEPT ![k + 1] =
                      [t1 EXCEPT !.progress = IF o = "fetch_failed" THEN 0 ELSE 100,
                                 !.doc = LoadHtmlDoc(t1, o)]]
        /\ fault' = LoadHtmlFault(o)

(* Loading history entry `slot` of the tab at C index k, as browser_go_back *)
(* and browser_go_forward do: strdup of a NULL entry faults.               *)
LoadEntry(k, slot) ==
    LET t == tabs[k + 1]
    IN  IF t.hist[slot] = NULL
        THEN /\ tabs' = [tabs EXCEPT ![k + 1].hidx = slot]
             /\ fault' = "strdup_null"
        ELSE \E o \in LoadOutcome :
               /\ tabs' = [tabs EXCEPT ![k + 1] =
                             [t EXCEPT !.hidx = slot, !.url = t.hist[slot],
                                       !.doc = LoadHtmlDoc(t, o)]]
               /\ fault' = LoadHtmlFault(o)

TabIndex == 0 .. Len(tabs) - 1

(* The loop of browser_close_tab that stops at the first tab with the id:  *)
(* the set holding that position, empty when no tab has the id.           *)
FirstWithId(id) ==
    {i \in 1 .. Len(tabs) : tabs[i].id = id /\ \A j \in 1 .. i - 1 : tabs[j].id # id}

-----------------------------------------------------------------------------
(* Operations.                                                             *)

Init ==
    /\ tabs = <<>>
    /\ activeTab = 0
    /\ fault = "none"

(* Mutant of CreateTab: the max_tabs test is dropped.                      *)
CreateTabUnbounded ==
    /\ fault = "none"
    /\ tabs' = Append(tabs, [id |-> Len(tabs), url |-> AboutBlank,
                             secure |-> FALSE, progress |-> 0, doc |-> TRUE,
                             hist |-> [s \in HistSlot |-> NULL],
                             hidx |-> 0, hcount |-> 0])
    /\ activeTab' = Len(tabs)
    /\ UNCHANGED fault

(* browser_create_tab: the id is the current tab count.                    *)
CreateTab ==
    /\ fault = "none"
    /\ Len(tabs) < MaxTabs
    /\ tabs' = Append(tabs, [id |-> Len(tabs), url |-> AboutBlank,
                             secure |-> FALSE, progress |-> 0, doc |-> TRUE,
                             hist |-> [s \in HistSlot |-> NULL],
                             hidx |-> 0, hcount |-> 0])
    /\ activeTab' = Len(tabs)
    /\ UNCHANGED fault

(* Mutant of CloseTab: the active index is not adjusted.                  *)
CloseTabNoClamp(id) ==
    /\ fault = "none"
    /\ \E i \in FirstWithId(id) :
          tabs' = RemoveAt(tabs, i)
    /\ UNCHANGED <<activeTab, fault>>

(* browser_close_tab(engine, id): the first tab with that id is removed,   *)
(* the later ones move down and the active index is clamped.              *)
CloseTab(id) ==
    LET n == Len(tabs) - 1
    IN  /\ fault = "none"
        /\ \E i \in FirstWithId(id) :
              tabs' = RemoveAt(tabs, i)
        /\ activeTab' = IF activeTab >= n /\ n > 0 THEN n - 1 ELSE activeTab
        /\ UNCHANGED fault

(* browser_navigate(tab, url).                                              *)
Navigate(k, url) ==
    /\ fault = "none"
    /\ \E o \in LoadOutcome : NavigateTo(k, url, url, o)
    /\ UNCHANGED activeTab

(* browser_reload(tab) = browser_navigate(tab, tab->url): navigate frees   *)
(* tab->url and then strdup's the same, freed, string.                    *)
Reload(k) ==
    LET url == tabs[k + 1].url
    IN  /\ fault = "none"
        /\ \E stored \in {url, Garbled}, o \in LoadOutcome :
               NavigateTo(k, url, stored, o)
        /\ UNCHANGED activeTab

(* browser_go_back(tab).                                                   *)
GoBack(k) ==
    /\ fault = "none"
    /\ tabs[k + 1].hidx # 0
    /\ LoadEntry(k, tabs[k + 1].hidx - 1)
    /\ UNCHANGED activeTab

(* browser_go_forward(tab).                                                *)
GoForward(k) ==
    /\ fault = "none"
    /\ ~(tabs[k + 1].hidx >= Dec32(tabs[k + 1].hcount))
    /\ LoadEntry(k, tabs[k + 1].hidx + 1)
    /\ UNCHANGED activeTab

(* browser_stop(tab).                                                      *)
Stop(k) ==
    /\ fault = "none"
    /\ tabs' = [tabs EXCEPT ![k + 1].progress = 0]
    /\ UNCHANGED <<activeTab, fault>>

Next ==
    \/ CreateTab
    \/ \E id \in 0 .. MaxTabs : CloseTab(id)
    \/ \E k \in TabIndex :
          \/ \E url \in Urls : Navigate(k, url)
          \/ Reload(k)
          \/ GoBack(k)
          \/ GoForward(k)
          \/ Stop(k)

Spec == Init /\ [][Next]_vars

-----------------------------------------------------------------------------
(* Properties.                                                             *)

(* Type correctness of the tab table.                                      *)
TypeOK ==
    /\ tabs \in Seq(Tab)
    /\ Len(tabs) <= MaxTabs
    /\ activeTab \in Nat
    /\ fault \in Fault

(* browser_get_active_tab finds a tab whenever there is one: the active    *)
(* index that browser_create_tab sets and browser_close_tab clamps stays   *)
(* below tab_count, whichever tab is closed.                               *)
ActiveTabInRange ==
    Len(tabs) > 0 => activeTab < Len(tabs)

(* The history array is never overrun: browser_navigate keeps              *)
(* history_count within the array, and while the process lives,           *)
(* browser_go_back and browser_go_forward keep history_index within the   *)
(* entries counted.                                                       *)
HistoryInBounds ==
    \A k \in TabIndex :
        /\ tabs[k + 1].hcount <= HistoryCap
        /\ fault = "none" /\ tabs[k + 1].hcount > 0
              => tabs[k + 1].hidx < tabs[k + 1].hcount

-----------------------------------------------------------------------------
(* Properties the code does not keep (each is the subject of a violation   *)
(* run and a finding).                                                     *)

(* Every history entry counted by history_count holds a URL, so that       *)
(* browser_go_back and browser_go_forward can load it.                     *)
HistoryEntriesSet ==
    \A k \in TabIndex : \A i \in 0 .. tabs[k + 1].hcount - 1 :
        tabs[k + 1].hist[i] # NULL

(* The https flag that browser_navigate sets describes the URL the tab     *)
(* shows, also after browser_go_back and browser_go_forward change it.    *)
SecureMatchesUrl ==
    \A k \in TabIndex : tabs[k + 1].url \in Urls =>
        (tabs[k + 1].secure <=> tabs[k + 1].url \in SecureUrls)

=============================================================================
