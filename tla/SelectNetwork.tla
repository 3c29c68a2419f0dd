--------------------------- MODULE SelectNetwork ---------------------------
(***************************************************************************)
(* select_network of src/userspace/wpa_supplicant/main.c: the choice, among *)
(* the configured network profiles, of the one to connect to, given the    *)
(* scan results.  Both lists are sequences in list order (the head of the  *)
(* linked list first).  A profile is reduced to the fields the function    *)
(* reads, a scan result to its SSID and signal level.  The result names a  *)
(* profile by its position in the list, NoNetwork standing for NULL.       *)
(***************************************************************************)
EXTENDS Integers, Sequences, SequencesExt

NoNetwork == 0

(* The order in which the two nested loops visit (profile, result) pairs: *)
(* profile-major, each list from its head.                                 *)
LoopPairs(nets, bss) ==
    [n \in 1 .. Len(nets) * Len(bss) |->
        << ((n - 1) \div Len(bss)) + 1, ((n - 1) % Len(bss)) + 1 >>]

(* The three locals best, best_priority and best_signal before the loops. *)
SelectInit == [best |-> NoNetwork, priority |-> -1, signal |-> -1000]

(* Mutant of SelectStep: a profile of equal priority replaces the best so  *)
(* far whatever its signal.                                                 *)
SelectStepPriorityOnly(nets, bss, acc, p) ==
    LET net == nets[p[1]]
        b   == bss[p[2]]
    IN  IF /\ ~net.disabled
           /\ b.ssid = net.ssid
           /\ \/ net.priority >= acc.priority
              \/ net.priority = acc.priority /\ b.signal > acc.signal
        THEN [best |-> p[1], priority |-> net.priority, signal |-> b.signal]
        ELSE acc

(* One iteration of the inner loop: a disabled profile is skipped, a      *)
(* result with another SSID too, and a match replaces the best so far     *)
(* when its priority is higher, or equal with a stronger signal.           *)
SelectStep(nets, bss, acc, p) ==
    LET net == nets[p[1]]
        b   == bss[p[2]]
    IN  IF /\ ~net.disabled
           /\ b.ssid = net.ssid
           /\ \/ net.priority > acc.priority
              \/ net.priority = acc.priority /\ b.signal > acc.signal
        THEN [best |-> p[1], priority |-> net.priority, signal |-> b.signal]
        ELSE acc

SelectNetwork(nets, bss) ==
    FoldLeft(LAMBDA acc, p : SelectStep(nets, bss, acc, p),
             SelectInit, LoopPairs(nets, bss)).best

-----------------------------------------------------------------------------
(* The reference: what "the best network in range" means.                  *)

(* The scan results that show the profile's SSID.                          *)
Matches(nets, bss, i) == {j \in 1 .. Len(bss) : bss[j].ssid = nets[i].ssid}

(* The enabled profiles that some scan result shows.                       *)
Candidates(nets, bss) ==
    {i \in 1 .. Len(nets) : ~nets[i].disabled /\ Matches(nets, bss, i) # {}}

(* The strongest signal at which a candidate was seen.                     *)
BestSignal(nets, bss, i) == Max({bss[j].signal : j \in Matches(nets, bss, i)})

(* Candidate i is at least as good as candidate c: a higher priority, or  *)
(* the same one and a signal at least as strong.                           *)
AtLeastAsGood(nets, bss, i, c) ==
    \/ nets[i].priority > nets[c].priority
    \/ /\ nets[i].priority = nets[c].priority
       /\ BestSignal(nets, bss, i) >= BestSignal(nets, bss, c)
=============================================================================
