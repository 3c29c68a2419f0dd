# TLA+ models of react-os-rust's browser engine, HTML tree construction and wireless tools

This directory holds TLA+ models of the C code under `src/` and of the HTML
tree constructor that `spec.md` describes, the TLC configurations that check
them, and TLAPS proofs about the browser engine, the browser shell's startup
and the wpa_supplicant daemon.
Every definition that stands for code is listed, with its source lines, under
`map` in `PROJECT.json`.

## The system

The repository falls into five parts.

| Part | Source | What it does |
|------|--------|--------------|
| Browser engine | `src/kernel/src/browser/engine.c`, `engine.h` | A table of tabs (at most `max_tabs`), each with a URL, an https flag, a load state and a navigation history of 100 `strdup`'ed URLs. Operations: create and close tabs, navigate, load HTML, back, forward, reload, stop, render. |
| Browser shell | `src/userspace/browser/main.c`, `ui/window.h` | Installs SIGINT/SIGTERM handlers, parses options, creates the engine, a window and one tab, navigates to the start URL and runs the frame loop. Keyboard shortcuts act on the active tab. The signal handler destroys the window and the engine and exits. |
| wpa_supplicant | `src/userspace/wpa_supplicant/main.c` | A daemon with three threads. Main parses options and `/etc/wpa_supplicant.conf`, then starts an event thread and a scan thread and joins them. The two threads drive a state machine (DISCONNECTED → SCANNING → ASSOCIATING → 4WAY_HANDSHAKE → COMPLETED) under one mutex. A SIGINT/SIGTERM handler clears `running`. |
| iwconfig | `src/userspace/wpa_supplicant/iwconfig.c` | Prints wireless settings, or applies `essid`, `mode`, `channel`, `txpower` and `key` arguments one ioctl at a time. |
| HTML tree construction | `spec.md`; declarations in `src/kernel/src/browser/html/parser.h` | Consumes tokens and builds the document tree through the open-elements stack and the list of active formatting elements, repairing misnested markup. |

The HTML parser, CSS, JavaScript, render pipeline, fetch, WebSocket and CSP
exist only as header files. `spec.md` describes the HTML tokenizer and
tree-construction core, and the tree constructor is modelled from it: its
definitions are marked `spec_modelled` in the map. The engine calls these
collaborators; their results appear in the engine model as nondeterministic
outcomes.

How the parts interact:
- The shell calls the engine's tab operations, always on the active tab. `BrowserShell` extends `BrowserEngine` and reuses its actions, so the shell and the engine are checked together.
- wpa_supplicant and iwconfig each talk to the wireless driver through ioctls. The driver's answers (success, EBUSY, EAGAIN, error) are the environment of the model.

## Modules

| Module | Models | Kind |
|--------|--------|------|
| `BrowserEngine` | engine.c tab table and history | state machine |
| `MCBrowserEngine` | constants for TLC | model |
| `BrowserShell` | the shell's `main`, `handle_keyboard_shortcut`, `signal_handler`, and engine init/destroy | state machine composed with `BrowserEngine` |
| `MCBrowserShell` | constants for TLC | model |
| `BrowserEngineProofs` | TLAPS proofs for `BrowserEngine` | proofs |
| `WpaSupplicantProofs` | TLAPS proofs for `WpaSupplicant` | proofs |
| `BrowserShellProofs` | TLAPS proof for `BrowserShell` | proofs |
| `WpaSupplicant` | wpa_supplicant main, threads, signal | concurrent state machine |
| `MCWpaSupplicant` | constants for TLC | model |
| `SelectNetwork` | `select_network`, with a reference definition | pure algorithm |
| `SelectNetworkCall` | one call of `select_network` on bounded inputs | checking harness |
| `MCSelectNetworkCall` | constants for TLC | model |
| `WpaConfig` | `parse_config_file`, line by line | sequential state machine |
| `MCWpaConfig` | the lines a file is made of | model |
| `Iwconfig` | iwconfig's `main`, its five setters and the decoding of `print_interface_info` | sequential state machine |
| `MCIwconfig` | the command-line words | model |
| `HtmlTextStream` | what tree construction promises about text | abstract specification |
| `HtmlTreeBuilder` | the "in body" tree constructor of `spec.md` | state machine, refines `HtmlTextStream` |
| `MCHtmlTreeBuilder` | the inputs for TLC | model |

### BrowserEngine

State:
- `tabs` is the array `engine->tabs.tabs[0 .. tab_count-1]`. C index k is `tabs[k+1]`.
- `activeTab` is `engine->tabs.active_tab`.
- `fault` records a crash of the process: `"render"` for the NULL render pipeline, `"strdup_null"` for `strdup(NULL)`. After a fault no step is enabled, because a segfault ends the program. For the same reason the runs set `CHECK_DEADLOCK FALSE`.

A tab is a record of:
- `id`, `url` and `secure`;
- `progress`;
- `doc`, which says whether `tab->document` is non-NULL;
- the history: `hist`, `hidx` and `hcount` for `history`, `history_index` and `history_count`.

`state.loading` is left out. Every operation resets it before returning, so
between calls it is always false.

Each API call is one step, which is how the single-threaded shell calls it.
The actions and what they model:
- `CreateTab`: browser_create_tab. The failure paths (calloc, the JS context, the document) change nothing and are stutters.
- `CloseTab(id)`: browser_close_tab, with the first-match loop as `FirstWithId`, the shift as `RemoveAt`, and the clamp of `active_tab`.
- `Navigate(k, url)`: browser_navigate. It sets the URL and https flag, runs the history update `AddToHistory`, and takes one of the four fetch/parse outcomes through `browser_load_html`.
- `Reload(k)`: browser_reload, which calls `browser_navigate(tab, tab->url)`. browser_navigate frees `tab->url` and then `strdup`s the same pointer, which is a use after free. Its result is a nondeterministic choice between the old URL and a `Garbled` value.
- `GoBack(k)` and `GoForward(k)`: the guards of browser_go_back and browser_go_forward, then `LoadEntry`. `LoadEntry` faults on a NULL entry.
- `Stop(k)`: browser_stop.

`Dec32` is `n - 1` in `uint32_t`. `U32Max` is a constant because TLC integers
stop at 2^31−1. The only comparisons it takes part in are against small
history indices, so 2^31−1 behaves like 2^32−1.

### BrowserShell

`BrowserShell` extends `BrowserEngine`. Its own state:
- `pc` is main's position: installing the handlers, parsing, the engine, the UI, the initial tab, the failure paths, the event loop, and the terminal states `returned`, `exited` (the handler's `exit(0)`) and `killed` (a signal before `signal()` ran).
- `mainWindow` and `browserEngine` are the globals the handler reads.
- `heap` says, for each object main and the engine allocate, whether it is unallocated, live or freed. `Free` sets `fault` to `"double_free"` when an object is already freed, which glibc detects and aborts on.
- `handling` is the stack of running handler activations. `signal()` blocks only the signal being handled, so a SIGTERM can interrupt the SIGINT handler. Each signal is delivered at most once.
- `nav` is a browser_navigate that is inside `html_parse`. At that point the old document is destroyed but `tab->document` still points at it (`DocumentDangling`). Every other engine call is one step. browser_close_tab also frees a tab before it removes it from the table (engine.c:366-384), but only the keyboard handler calls it.

The actions:
- `InstallHandlers`, then `ParseArgument` (one iteration of parse_arguments' loop: help and version exit, a word not starting with '-' becomes the URL, so the last one wins) and `ParseDone` (the loop has ended: a NULL URL becomes about:blank). argv[i] is read once, so each iteration takes any word of `Args`, and a signal may arrive between two of them.
- `InitBrowserEngine`. It either builds every object, or fails at one of the six checked allocations (the managers' four callocs are not checked, so they cannot fail the call). A failure frees what browser_engine_create's cleanup or browser_engine_destroy frees.
- `InitBrowserUi`, `CreateInitialTab`, the failure paths (`UiFailedDestroyEngine`, `TabFailedDestroyWindow`, `TabFailedDestroyEngine`, `ReturnFailure`), `StartEventLoop` and `FinishNavigate`.
- `KeyboardShortcut(key, m)`. It has one disjunct for each key that reaches the engine: Ctrl+T/W/R, Alt+Left/Right, F1 and F5. Nothing in `src/` calls handle_keyboard_shortcut (run_event_loop's event processing is commented out), so this action over-approximates the shell: it is the handler as a window system would call it.
- `Deliver(sig)`, then the handler's steps `HandlerWindow`, `HandlerEngine` and `HandlerExit`.

### WpaSupplicant and SelectNetwork

The main thread's steps:
- `MainStart`: getopt and signal installation.
- `MainConfig`: daemon and parse_config_file. The configuration yields any profile list of up to `MaxNetworks` entries and either ap_scan value.
- `MainSocket`: init_wireless_socket.
- `MainSpawnEvent` and `MainSpawnScan`: the two pthread_create calls.
- `MainJoin`: the two joins and the frees.

Every failure returns from main, shown as `mainPc = "exit"`, and the other threads die with the process.

Each thread has two actions:
- `EvCheck` and `ScCheck` test `running` at the head of the loop.
- `EvBody` and `ScBody` run the body.

A body runs under the mutex and touches nothing that another thread reads
outside it, so it is one atomic step. The test of `running` is a separate step
because the signal handler (`Signal`) writes `running` without the mutex.
`Signal` terminates the process if it arrives before `signal()` has installed
the handler.

ioctl results are nondeterministic:
- `trigger_scan` failing changes nothing, since its return value is ignored.
- `get_scan_results` has four outcomes: nomem, error, EAGAIN and ok.

On ok, `get_scan_results` frees the old list and never parses the buffer, so
`scanResults` is always empty. The `select_network` call is still made.
`SelectNetwork` writes the function as a `FoldLeft` over the (profile, result)
pairs in the order of the two nested loops. The code's sentinels are kept:
best_priority −1 and best_signal −1000.

### WpaConfig

State:
- `file` is the whole file, chosen in `Init`.
- `pos` is the line `fgets` reads next.
- `inBlock` and `cur` are `in_network_block` and `current_network`.
- `networks` is the list, head first.
- `autoConnect` is `wpa_s->auto_connect`, which main sets to 1 before parsing.

A line is a sequence of symbols. A symbol is a single character (`TabChar` for a tab), or a word the code
only compares whole (a key, `network={`, a key_mgmt name). The C string
handling is written out on these sequences:
- `CutAt` is strchr plus the truncation.
- `SkipBlanks` is the blank skip over spaces and tabs (`Blanks`). `TrimKey` removes trailing spaces only, as the code does, so a key followed by a tab is kept with its tab and matches no key.
- `Scan` is `sscanf("%63[^=]=%127s")`.
- `TrimKey`, `Unquote`, `Atoi`, `Strncpy` and `AuthOf` stand for the code that trims the key, strips quotes, atoi, strncpy and the strstr chain.

Each branch of the loop body is an action: `Blank`, `OpenBlock` (calloc may return NULL, which is dereferenced, shown as `"crashed"`), `CloseBlock`, `BlockLine`, `GlobalLine`. `Fopen` and `Eof` model the start and the end.

### Iwconfig

`argv` is the command line and `i` is the loop index. `driver` holds the five settings
the setters change, each starting at `Orig`.

`SetArg(kw)` is one branch of the loop for essid, mode, channel, txpower or
key. Its disjuncts are:
- the argument is missing;
- the setter rejects the argument (an unknown mode, a non-numeric txpower);
- the ioctl fails;
- success, which makes the setting and does `i += 2`.

`Commit`, `Unknown` and `LoopDone` are the other branches. `ArgOf` gives what
each setter sends:
- A channel becomes `ChannelMHz`.
- `(int)freq` outside the int range is undefined behaviour. It is modelled as the values the compilers produce: INT_MIN on x86-64, INT_MIN or INT_MAX saturated on AArch64.

`ShownEssid`, `ShownMode`, `ShownChannel`, `ShownTxpower` and `ShownKey` are
what `print_interface_info` prints for a value the driver returns. They are
checked against what the setters send, taking the driver to return what it
was given.

Frequencies are kept in MHz. TLC's integers cannot hold 2.4·10⁹, and every
frequency the code computes is a whole number of MHz.

### HtmlTreeBuilder and HtmlTextStream

The model is spec.md's TreeConstructor in the "in body" insertion mode, which is
where the open-elements stack and the list of active formatting elements do
their work (§3, §4.2). spec.md leaves the tag tables and the inner steps of its
algorithms to the HTML standard (§9), so the model takes them from there.

The state:
- `nodes`: the tree. Node 1 is html and node 2 is body. Each node has a tag, a parent, children in order and, for a Text node, the positions of the character tokens it holds.
- `stack`: `open_elements` of `html_parser_t`.
- `afl`: `active_formatting`, with `Marker` entries.
- `input` and `pos`: the token stream.
- `phase` and `aaa`: the adoption agency's subject and outer-loop counter while an end tag is being handled.

Each token rule of "in body" is an action. Its guard is the token's class, and
it calls the algorithms of the standard as operators:
- **Start tags:** formatting, block, void, and marker.
- **End tags:** `</p>`, block, and marker.
- **Character tokens.**

The operators are `Reconstruct` (a fold over the entries to reopen), `PushFormatting` (Noah's Ark), `InScope`, `PopUntilTag`, `ClearToLastMarker` and `AnyOtherEndTag`.

A formatting end tag runs the adoption agency, one outer-loop iteration per
step, as the actions `AdoptionStart`, `AdoptionLimit`, `AdoptionNoEntry`,
`AdoptionNotOnStack`, `AdoptionNoFurthestBlock` and `AdoptionIteration`. An
iteration is atomic: its inner loop (`InnerLoop`, a fold over the stack entries
between the formatting element and the furthest block) leaves nodes out of the
tree until the end of the iteration, and nothing else runs in between.

The branch "formatting element on the stack but not in scope" (a parse error;
the token is ignored) is the ELSE of `AdoptionNoFurthestBlock`. In this mode it
is never taken: every scope-boundary element that is inserted also pushes a
marker, so a formatting element found after the last marker is always in
scope. It is modelled so that a state reaching it would not end the behaviour
silently under `CHECK_DEADLOCK FALSE`.

`HtmlTextStream` is the promise: each token is consumed once, in order, and a
character token's text lands at the end of the document's text. `HtmlTreeBuilder`
maps to it with `doc <- TextOf(1)`, the text of the tree in tree order. An
adoption-agency iteration must then be a stutter, and it is one only if the
subtrees it moves keep their text in order.

Two remarks on spec.md:
- Its summary of the adoption agency says only that a clone of the formatting element becomes the furthest block's last child. The standard also moves the furthest block's children into the clone, and the model does so. Leaving that move out breaks none of the three properties on these inputs, because the next outer iteration closes the clone or repairs the stack before the token is done.
- For its example `<b>1<i>2<p>3</b>4</p>5</i>` the model builds `<b>1<i>2</i></b><i><p><b>3</b>4</p>5</i>`, the standard's result. The nesting spec.md writes, `<p><i><b></b>3</i>4</p><i>5</i>`, is not what its own algorithm produces. The text order it asks for, 1 to 5, holds in both.

## Runs

| Run | Checks | Result |
|-----|--------|--------|
| browser_engine | TypeOK, ActiveTabInRange, HistoryInBounds | pass, 623k states |
| history_entries_set | HistoryEntriesSet | violation: first navigate stores at entry 1 |
| secure_matches_url | SecureMatchesUrl | violation: back from https to http |
| wpa_supplicant | TypeOK, ShutdownCompletes | pass |
| wpa_eventually_associates | EventuallyAssociates | violation: scan cycle forever |
| select_network | SelectsBest | pass, 320k inputs |
| wpa_config | ParsedAsWritten | pass, 1.07M states |
| iwconfig | LastRequestApplied, SettingsShownAsSet | pass, 84k states |
| iwconfig_channel_shown | ChannelShownAsSet | violation: `channel 6` shows no channel |
| html_tree_builder | StackIsAncestorChain, NoahsArk, ImplementsTextStream | pass, 764k states |
| browser_shell | ShellTypeOK, CleanFailedStart | pass, 407k states |
| shell_no_double_free | NoDoubleFree | violation: SIGINT after a failed start frees the window twice |

What the properties say:
- **ActiveTabInRange**: whatever sequence of creates and closes of any id, `active_tab < tab_count` whenever there is a tab, so `browser_get_active_tab` finds it.
- **HistoryInBounds**: `history_count` never exceeds the array, and while the process lives `history_index < history_count`.
- **ShutdownCompletes**: a signal once the handler is installed always ends the process, whether it arrives during configuration, between the two pthread_create calls, or between a thread's test of `running` and its body.
- **ParsedAsWritten**: after the file is read, `networks` is the reverse of the closed blocks' profiles in file order, and `autoConnect` is the last ap_scan read outside a block. The property gives a declarative reading of the file: a block is a `network={` line and the first `}` after it with no other `network={` in between, and its profile is its lines applied in order. The loop's bookkeeping (the flag, the pending profile, the list head) has to agree with that reading on every file, including the lost profiles of a nested or unterminated block.
- **LastRequestApplied**: when iwconfig exits, each driver setting is the one its keyword asked for last before the word where the loop stopped. On exit 0 that covers every word; on a failure, nothing at or after the failing word. Applied settings are not rolled back, and a value word is never read as a keyword. The reference walks the keyword positions on its own.
- **SelectsBest**: the network select_network returns is an enabled profile seen in the scan, with maximal priority and, among those, maximal signal.
- **SettingsShownAsSet**: after iwconfig exits 0, `print_interface_info` shows every essid, mode, txpower and key it changed as the last word given for that keyword asked. Essid flags, the IW_MODE_* codes, the dBm flag and IW_ENCODE_DISABLED have to agree between the setters and the display.
- **CleanFailedStart**: when main returns 1 after a failed start, no object it or the engine allocated is still live. This covers each failure point of browser_engine_init and the UI and tab failure paths.
- **StackIsAncestorChain**: between tokens, every entry of the open-elements stack is the parent of the entry above it (spec.md §3). Reconstruction pushes clones, implicit closing pops, and the adoption agency replaces, removes and inserts entries while it moves subtrees, and all of them have to keep the stack in step with the tree.
- **NoahsArk**: after the last marker, no tag has more than three entries in the list of active formatting elements. The clause only runs on a push, and reconstruction and the adoption agency replace entries, so the bound must survive their rewrites too.
- **ImplementsTextStream**: the tree constructor refines `HtmlTextStream`. No step moves text that is already placed, and each character lands last in document order.

Each violation run comes with a finding in `PROJECT.json`. Each is a
disagreement between what the code does and what its names, comments or
callers expect:
- the first navigation leaves entry 0 NULL because `history_count - 1` wraps;
- go back and forward keep the https flag of the previous page;
- the daemon never associates because scan results are discarded;
- `(int)freq` in set_channel overflows for every channel ≥ 0 (2.407 GHz > INT_MAX Hz), so `iwconfig wlan0 channel N` never sets channel N, and `iwconfig wlan0` then shows no channel;
- the shell's signal handler destroys the window and the engine through globals that main's failure paths never clear. A SIGINT after the initial-tab failure destroys the window a second time. A second signal during the handler, or a signal while html_parse runs, frees objects twice as well.

Eight more behaviours were met while modelling. They are listed as hazards in `PROJECT.json` but have no run:
- Tab ids repeat after a close (create, create, close 0, create gives two tabs with id 1), so a close by id can hit another tab. The shell only ever has one tab, so this matters only to other callers of the library.
- A page that parses crashes on the NULL render pipeline. The fault `"render"` is still reachable in the model.
- A full history changes the URL without recording it.
- A network of priority below −1 is never selected, because `best_priority` starts at −1.
- browser_reload passes `tab->url` to browser_navigate, which frees it (line 152) and then `strdup`s it (line 153). In the model, `Reload` stores either the old URL or `Garbled`.
- parse_config_file cuts every line at the first `#` before it looks at quotes, and reads the value with `%127s`. So `psk="a#a"` is stored as `"a`.
- When the scan thread cannot be created, wpa_supplicant's main returns while the event thread is running and reading `wpa_s`, a local of main's frame (main.c:503). The model ends the process when main returns.
- The browser's signal handler calls `free` and `printf`, which are not async-signal-safe. A signal that interrupts main inside the allocator can deadlock the handler. The model's heap operations are atomic, and the shell gets no fairness because of this.

## Bounds

- **Engine**: `MaxTabs = 2`, `HistoryCap = 3` instead of 100, and two URLs, one of them https. Two tabs are enough for every case of the close loop: first, last, absent, duplicate id, and a clamp to a non-empty table. A capacity of 3 reaches a full history after three navigations, with back and forward in between. With `MaxTabs = 3` the run takes over ten minutes.
- **wpa_supplicant**: one SSID, priorities {0, 1}, and at most two network blocks.
- **wpa_config**: every file of up to five lines from ten line shapes. These are: open, close, a plain and a quoted ssid, a quoted psk with `#`, a priority with a tab before the key, a space after it and a sign, key_mgmt, a comment, a line without `=`, and a global ap_scan. Five lines fit two complete blocks or a nested one with settings.
- **Shell**: `MaxTabs = 2`, `HistoryCap = 2`, with two URLs, the help URL being one of them. The parse loop takes any number of iterations, so help, version, an option and "a URL then another" all occur. With `HistoryCap = 3` the run takes 12 minutes. The shell's interesting cases come from signals and failure points, not from long histories.
- **iwconfig**: every command line of up to four words after the interface. The words are every keyword, a valid and an invalid mode or txpower word, `off`, a 2.4 GHz channel and a negative one whose frequency fits in an int. Four words are enough to reach "one setting applied, then a failure".
- **html_tree_builder**: every input of up to five tokens over `<b>`, `<i>`, `<p>`, `<br>`, `<object>`, their end tags (except `</br>`) and text (111,111 inputs), plus four longer inputs, one each for:
  - the eight-iteration limit (eight nested `div`s);
  - the current-node shortcut (a `<b>` evicted by Noah's Ark, then closed last);
  - the inner loop's removals after its third round (four formatting elements between `<b>` and `<p>`);
  - a block end tag.

  Five tokens reach reconstruction of two entries, a fourth identical push, a marker, and an adoption iteration with a clone in its inner loop.
- **select_network**: every profile and scan list of up to three entries, over two SSIDs, priorities {−2, −1, 0} (around the sentinel, with ties) and two signal levels (for ties broken by signal).

## Fairness

`WpaSupplicant` assumes weak fairness of every step of main and of both
threads. The threads are ordinary pthreads, their sleeps end, and a loop body
only waits for the mutex, which every body releases. Signals and the driver's
answers get no fairness: a signal may never come, and an ioctl may fail every
time.

The engine model has no liveness property and no fairness.

`BrowserShell` assumes no fairness, and its runs check safety only. The
signal handler calls `free` (through the destroy functions) and `printf`,
which are not async-signal-safe: a signal that interrupts main inside
`malloc` or `free` can block the handler on the allocator's lock for ever, so
nothing justifies assuming that a started handler finishes. Main may block in
the frame loop forever, and no key or signal has to come. The model's heap
operations are atomic steps, so that deadlock itself is not modelled.

## Proofs (TLAPS)

`BrowserEngineProofs` proves, for every value of the constants allowed by
`ConstAssumption` (any `MaxTabs ≥ 1`, `HistoryCap ≥ 2` and `U32Max > HistoryCap`):
- `TypeCorrect`: `Spec => []TypeOK`
- `ActiveTabValid`: `Spec => []ActiveTabInRange`
- `HistoryBounded`: `Spec => []HistoryInBounds`

None of the three invariants is inductive as it stands. The inductive
invariant `IInv` adds three facts:
- **`ActiveIsLast`**: with a tab, `active_tab` is the last index. Create sets it so and close clamps it, and this is what makes the clamp in browser_close_tab sufficient.
- **`CountsInCap`**: every `history_count` is within the capacity.
- **`HistOK`, while no fault has happened**: `history_index < history_count` on a non-empty history. An empty history has index 0 and only NULL entries. That last part is needed for browser_go_forward: on an empty history the wrapped test lets it read entry 1, and it is the NULL there, a crash, that ends the run rather than an index overrun.

The proof has one lemma per operation (`CreateTabOK`, `CloseTabOK`,
`NavigateToOK`, `LoadEntryOK`, `GoBackOK`, `GoForwardOK`, `StopOK`), resting
on four more lemmas:
- `TabUpdate`: replacing one tab keeps `IInv`.
- `AddToHistoryOK`: the history update keeps `HistOK`.
- `RemoveAtProperties`: what `RemoveAt` returns.
- `TabSetters`: setting one field of a tab yields a tab.

`NextIInv` combines the per-operation lemmas. The three theorems follow by PTL.
Why `HistoryCap ≥ 2` is needed: a capacity of 1 would make go-forward on an
empty history read past the array.

`WpaSupplicantProofs` proves `WpaTypeCorrect` (`Spec => []TypeOK`) and `NeverAssociates`
(`Spec => []NoConnection`), again for any SSIDs, priorities and
configuration size (`WpaAssumption`: priorities are integers and
`MaxNetworks` is a natural number). `TypeOK` is not inductive on its own.
The SCANNING case of `event_handler` stores the result of `select_network`
in `current_network`. On an arbitrary result list that result is a fold, and
bounding it would need induction. The strengthening `NoConnection` removes
the need:
- the result list is always empty;
- `current_network` is always NULL;
- the state is always DISCONNECTED or SCANNING.

It holds because `get_scan_results` frees the list and never reads the buffer
that the ioctl filled. The lemma `EmptySelect` shows that the fold over an
empty list returns its initial value, NULL. This needs no induction: the fold
runs over an empty domain. So `connect_to_network` is never reached, and
`Advance` never applies. `NeverAssociates` is the proof, for every
configuration, of what the `wpa_eventually_associates` run shows on one
instance.

`BrowserShellProofs` proves `FailedStartFreesAll`:
`Spec => []CleanFailedStart`, for every set of URLs and argument vectors.
That is, after a failed start, main has freed every engine object and the
window before returning 1. The inductive invariant `ShellIInv` needs three
facts:
- **The heap is a function to {none, live, freed}, and the handler stack is a sequence of records.** Without this typing, the `EXCEPT` updates of `Free` and of `SetTop` cannot be reasoned about.
- **Once main has returned, no handler is running.**
- **`HeapMatchesPc`**: while no handler is running, the program counter of main determines the heap. For each point of main this fixes which objects are unallocated, live or freed.

The last fact is only claimed while `handling` is empty. The shell's handlers
end in `exit` and never return to main. So once a signal is being handled,
main takes no further step, and the heap may be half-destroyed. The lemma
`EngineObjects` shows that the objects `browser_engine_destroy` frees are
exactly those `browser_engine_init` allocates. On that fact rests the case
of a failed engine init, which frees what it made. `MainStep` bundles the
reasoning shared by every step of main.

The same module proves the engine's guarantees with the shell driving it,
for every value of the constants (`ConstAssumption` and `ShellAssumption`:
the help URL is one of `Urls`):
- `ShellTypeCorrect`: `ShellSpec => []ShellTypeOK`
- `ActiveTabValidInShell`: `ShellSpec => []ActiveTabInRange`
- `HistoryBoundedInShell`: `ShellSpec => []HistoryInBounds`

They rest on `ShellIInv /\ EngineInShell`. `EngineInShell` is `EngineOK`
(the engine's `IInv` with the shell's extra fault, a double free, allowed)
and `ShellDataOK`, which says what the shell's state promises the engine
calls it makes:
- **`initialUrl` is set once parse_arguments has returned.** So the URL main navigates the initial tab to is one of `Urls` when it is not about:blank.
- **The tab table is empty before the initial tab is made, and holds a tab when main navigates.** So the navigation in `StartEventLoop` is on C index 0, an existing tab, and the destroy calls on the failure paths find nothing to break.
- **A pending browser_navigate (`nav`) is one record, belongs to the event loop, and names an existing tab while no handler runs.** `FinishNavigate` completes it only with no handler running; a handler may empty the table under it, but it never returns, so the stale index is never used.

The proof has one case per action. Four lemmas carry the engine calls:
`DestroyEngineOK` and `DestroyWindowOK` (a teardown keeps `EngineOK`, and
the engine's empties the table), `StartNavigateOK` (browser_navigate either
completes, via the engine's `NavigateToOK`, or stops inside html_parse with
the table untouched) and `KeyboardOK` (each shortcut makes at most one engine
call, on the active tab, via the engine's per-operation lemmas).
`QuietStep` covers the steps that leave the engine alone, and `SetTopOK`
shows that a handler step keeps the stack non-empty. The model of
parse_arguments as one step per loop iteration is what lets the type of
`initialUrl` be proved without induction over argv.

## What is only model-checked

- `ParsedAsWritten`, `LastRequestApplied` and `SelectsBest`: they compare a loop with a declarative reading of its input, which needs induction over the input.
- `NoDoubleFree` is a violation run: the code does not keep it.
- `SettingsShownAsSet`. `KeywordPositions` is a recursive function over the argument list, and relating it to the arguments needs induction.
- Liveness (`ShutdownCompletes`, `EventuallyAssociates`). TLAPS does not handle liveness under fairness or ENABLED.
- Everything about `HtmlTreeBuilder`. The refinement mapping `TextOf` is a recursive operator over the tree, and the adoption agency's inner loop is a fold, so its properties need induction over the tree and the stack.
- The agreement of `SelectNetwork` with its reference on bounded inputs. `FoldLeft` is recursive and induction over data is beyond the installed provers.

## Not modelled, and why

- **Browser shell UI.** The functions of `ui/window.h` are declared and implemented nowhere. Window creation is therefore an outcome, success or NULL. Ctrl+T's `browser_ui_create_tab` is taken to call browser_create_tab or to do nothing. `handle_mouse_event` only calls UI functions, and `print_usage` only prints.
- **The frame loop's rendering.** `browser_load_html` dereferences the render pipeline through the NULL (or freed) `tab->render_tree` before it ever sets a render tree. So `browser_render_frame` returns at its first test, and paint, composite and present never run. `browser_execute_script` and the title update only touch JavaScript and title state that no property reads.
- **iwconfig's other output.** The interface listing, and the display fields no setter writes (AP, bit rate, retry, RTS, fragmentation, power, statistics, flags), only print what the driver reports. The formatting helpers (`format_frequency`, `format_bitrate`, `dbm_to_quality`) only shape output. The mW branch of the Tx-Power display, with `log10(0)` undefined at 0 mW, is unreachable from `set_txpower`, which always sends dBm.
- **Composition of the config parser with the daemon.** `WpaSupplicant` lets `MainConfig` produce any profile list of bounded length rather than instantiating `WpaConfig`. Parsing is done before any thread starts, so nothing interleaves with it.
- **HTML tokenizer and the other insertion modes.** The tokenizer is a character-class state machine whose properties are about strings. Its tokens enter the model as a sequence. The other insertion modes, tables with foster parenting, attributes, the script pause and fragment parsing are outside the "in body" subset that the stack and list properties concern.
