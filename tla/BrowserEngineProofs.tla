------------------------ MODULE BrowserEngineProofs ------------------------
(***************************************************************************)
(* Proofs about BrowserEngine for every value of its constants: the type   *)
(* invariant, the active tab index, and the bounds of the history array.  *)
(***************************************************************************)
EXTENDS BrowserEngine, SequenceTheorems, TLAPS

-----------------------------------------------------------------------------
(* RemoveAt, which browser_close_tab's shift loop is modelled by, yields a *)
(* sequence one shorter whose elements are those of the original.         *)
LEMMA RemoveAtProperties ==
    ASSUME NEW S, NEW s \in Seq(S), NEW i \in 1 .. Len(s)
    PROVE  /\ RemoveAt(s, i) \in Seq(S)
           /\ Len(RemoveAt(s, i)) = Len(s) - 1
           /\ \A j \in 1 .. Len(s) - 1 :
                 RemoveAt(s, i)[j] = IF j < i THEN s[j] ELSE s[j + 1]
<1> DEFINE A == SubSeq(s, 1, i - 1)
          B == SubSeq(s, i + 1, Len(s))
<1> HIDE DEF A, B
<1>1. /\ A \in Seq(S)
      /\ Len(A) = i - 1
      /\ \A j \in 1 .. i - 1 : A[j] = s[j]
  BY SubSeqProperties, LenProperties DEF A
<1>2. /\ B \in Seq(S)
      /\ Len(B) = Len(s) - i
      /\ \A j \in 1 .. Len(s) - i : B[j] = s[i + j]
  BY SubSeqProperties, LenProperties DEF B
<1>3. /\ A \o B \in Seq(S)
      /\ Len(A \o B) = Len(A) + Len(B)
      /\ \A j \in 1 .. Len(A) + Len(B) :
            (A \o B)[j] = IF j <= Len(A) THEN A[j] ELSE B[j - Len(A)]
  BY <1>1, <1>2, ConcatProperties
<1>4. RemoveAt(s, i) = A \o B
  BY DEF RemoveAt, A, B
<1>5. Len(s) \in Nat
  BY LenProperties
<1>6. ASSUME NEW j \in 1 .. Len(s) - 1
      PROVE  (A \o B)[j] = IF j < i THEN s[j] ELSE s[j + 1]
  <2>1. j \in 1 .. Len(A) + Len(B)
    BY <1>1, <1>2, <1>5
  <2>2. CASE j < i
    <3>1. (A \o B)[j] = A[j]
      BY <1>1, <1>3, <2>1, <2>2
    <3>2. j \in 1 .. i - 1
      BY <2>2
    <3>3. QED
      BY <1>1, <2>2, <3>1, <3>2
  <2>3. CASE ~(j < i)
    <3>1. (A \o B)[j] = B[j - (i - 1)]
      BY <1>1, <1>3, <2>1, <2>3
    <3>2. j - (i - 1) \in 1 .. Len(s) - i /\ i + (j - (i - 1)) = j + 1
      BY <1>5, <2>3
    <3>3. QED
      BY <1>2, <2>3, <3>1, <3>2
  <2>4. QED
    BY <2>2, <2>3
<1>7. Len(A \o B) = Len(s) - 1
  <2>1. Len(A) + Len(B) = Len(s) - 1
    BY <1>1, <1>2, <1>5
  <2>2. QED
    BY <1>3, <2>1
<1>8. QED
  BY <1>3, <1>4, <1>6, <1>7, Zenon

-----------------------------------------------------------------------------
(* The inductive invariant.  While the process lives, a tab's history     *)
(* index is below its count, and a tab that never navigated has index 0   *)
(* and only NULL entries: browser_go_forward on such a tab reads entry 1, *)
(* and it is this NULL that ends the process instead of an overrun.       *)
HistOK(t) ==
    /\ t.hcount > 0 => t.hidx < t.hcount
    /\ t.hcount = 0 => t.hidx = 0 /\ \A s \in HistSlot : t.hist[s] = NULL

(* With one tab or more, the active tab is the last one: no operation of  *)
(* the engine selects another.                                             *)
ActiveIsLast == Len(tabs) > 0 => activeTab = Len(tabs) - 1

CountsInCap == \A k \in 1 .. Len(tabs) : tabs[k].hcount <= HistoryCap

IInv ==
    /\ TypeOK
    /\ ActiveIsLast
    /\ CountsInCap
    /\ fault = "none" => \A k \in 1 .. Len(tabs) : HistOK(tabs[k])

-----------------------------------------------------------------------------
(* Setting one field of a tab to a value of the field's type gives a tab. *)
LEMMA TabSetters ==
    ASSUME NEW t \in Tab
    PROVE  /\ \A x \in AnyUrl : [t EXCEPT !.url = x] \in Tab
           /\ \A x \in BOOLEAN : [t EXCEPT !.secure = x] \in Tab
           /\ \A x \in {0, 100} : [t EXCEPT !.progress = x] \in Tab
           /\ \A x \in BOOLEAN : [t EXCEPT !.doc = x] \in Tab
           /\ \A x \in [HistSlot -> AnyUrl \cup {NULL}] : [t EXCEPT !.hist = x] \in Tab
           /\ \A x \in Nat : [t EXCEPT !.hidx = x] \in Tab
           /\ \A x \in Nat : [t EXCEPT !.hcount = x] \in Tab
  BY DEF Tab

-----------------------------------------------------------------------------
(* A step that replaces one tab by a record r and leaves the active index *)
(* alone keeps IInv when r is a tab within the history capacity and, if   *)
(* the process still lives, r's history is in order.                      *)
LEMMA TabUpdate ==
    ASSUME IInv, fault = "none",
           NEW k \in 1 .. Len(tabs), NEW r \in Tab,
           tabs' = [tabs EXCEPT ![k] = r],
           activeTab' = activeTab, fault' \in Fault,
           r.hcount <= HistoryCap,
           fault' = "none" => HistOK(r)
    PROVE  IInv'
<1>1. tabs' \in Seq(Tab) /\ Len(tabs') = Len(tabs)
  BY ExceptSeq DEF IInv, TypeOK
<1>2. \A j \in 1 .. Len(tabs) : tabs'[j] = IF j = k THEN r ELSE tabs[j]
  BY ExceptSeq DEF IInv, TypeOK
<1>3. TypeOK'
  BY <1>1 DEF IInv, TypeOK
<1>4. ActiveIsLast'
  BY <1>1 DEF IInv, ActiveIsLast
<1>5. CountsInCap'
  BY <1>1, <1>2 DEF IInv, CountsInCap
<1>6. (fault = "none" => \A j \in 1 .. Len(tabs) : HistOK(tabs[j]))'
  BY <1>1, <1>2 DEF IInv
<1>7. QED
  BY <1>3, <1>4, <1>5, <1>6 DEF IInv

(* The history update of browser_navigate keeps a tab's history in order  *)
(* and within the capacity.                                                *)
LEMMA AddToHistoryOK ==
    ASSUME NEW t \in Tab, HistOK(t), t.hcount <= HistoryCap, NEW u \in AnyUrl
    PROVE  /\ AddToHistory(t, u) \in Tab
           /\ AddToHistory(t, u).hcount <= HistoryCap
           /\ HistOK(AddToHistory(t, u))
<1> DEFINE count == IF t.hidx < Dec32(t.hcount) THEN t.hidx + 1 ELSE t.hcount
<1> HIDE DEF count
<1>1. count \in Nat /\ count <= HistoryCap
  <2>1. CASE t.hcount = 0
    BY <2>1, ConstAssumption DEF HistOK, Dec32, Tab, count
  <2>2. CASE t.hcount > 0
    BY <2>2, ConstAssumption DEF HistOK, Dec32, Tab, count
  <2>3. QED
    BY <2>1, <2>2 DEF Tab
<1>2. CASE count < HistoryCap
  <2>1. AddToHistory(t, u) = [t EXCEPT !.hist = [@ EXCEPT ![count] = u],
                                       !.hcount = count + 1, !.hidx = count]
    BY <1>2 DEF AddToHistory, count
  <2>2. count \in HistSlot
    BY <1>1, <1>2, ConstAssumption DEF HistSlot
  <2>3. [t.hist EXCEPT ![count] = u] \in [HistSlot -> AnyUrl \cup {NULL}]
    BY <2>2 DEF Tab
  <2>4. AddToHistory(t, u) \in Tab
    <3> DEFINE t1 == [t EXCEPT !.hist = [t.hist EXCEPT ![count] = u]]
               t2 == [t1 EXCEPT !.hcount = count + 1]
    <3>1. t1 \in Tab
      BY <2>3, TabSetters, Zenon
    <3> HIDE DEF t1
    <3>0. count + 1 \in Nat
      BY <1>1
    <3>2. t2 \in Tab
      BY <3>0, <3>1, TabSetters, Zenon
    <3> HIDE DEF t2
    <3>3. [t2 EXCEPT !.hidx = count] \in Tab
      BY <3>2, <1>1, TabSetters, Zenon
    <3>4. AddToHistory(t, u) = [t2 EXCEPT !.hidx = count]
      BY <2>1 DEF t1, t2
    <3>5. QED
      BY <3>3, <3>4
  <2>5. AddToHistory(t, u).hcount = count + 1 /\ AddToHistory(t, u).hidx = count
    BY <2>1 DEF Tab
  <2>6. QED
    BY <2>4, <2>5, <1>1, <1>2, ConstAssumption DEF HistOK
<1>3. CASE ~(count < HistoryCap)
  <2>1. AddToHistory(t, u) = [t EXCEPT !.hcount = count]
    BY <1>3 DEF AddToHistory, count
  <2>2. count = t.hcount /\ t.hcount = HistoryCap
    BY <1>1, <1>3, ConstAssumption DEF HistOK, Dec32, Tab, count
  <2>3. QED
    BY <2>1, <2>2, ConstAssumption DEF Tab, HistOK
<1>4. QED
  BY <1>2, <1>3
-----------------------------------------------------------------------------
(* browser_create_tab appends a tab that has never navigated.              *)
LEMMA CreateTabOK ==
    ASSUME IInv, CreateTab
    PROVE  IInv'
<1> DEFINE nt == [id |-> Len(tabs), url |-> AboutBlank,
                  secure |-> FALSE, progress |-> 0, doc |-> TRUE,
                  hist |-> [s \in HistSlot |-> NULL],
                  hidx |-> 0, hcount |-> 0]
<1>1. nt \in Tab /\ HistOK(nt) /\ nt.hcount <= HistoryCap
  BY ConstAssumption, LenProperties DEF IInv, TypeOK, CreateTab, Tab, AnyUrl, HistOK
<1> HIDE DEF nt
<1>2. /\ tabs' \in Seq(Tab)
      /\ Len(tabs') = Len(tabs) + 1
      /\ \A j \in 1 .. Len(tabs) : tabs'[j] = tabs[j]
      /\ tabs'[Len(tabs) + 1] = nt
  BY <1>1, AppendProperties DEF IInv, TypeOK, CreateTab, nt
<1>3. Len(tabs) \in Nat
  BY LenProperties DEF IInv, TypeOK
<1>0. fault' = fault /\ activeTab' = Len(tabs)
  BY DEF CreateTab
<1>4. TypeOK'
  BY <1>0, <1>2, <1>3, ConstAssumption DEF IInv, TypeOK, CreateTab
<1>5. ActiveIsLast'
  BY <1>0, <1>2, <1>3 DEF ActiveIsLast
<1>6. CountsInCap'
  BY <1>1, <1>2, <1>3 DEF IInv, CountsInCap
<1>7. (fault = "none" => \A j \in 1 .. Len(tabs) : HistOK(tabs[j]))'
  <2> SUFFICES ASSUME fault' = "none", NEW j \in 1 .. Len(tabs')
               PROVE  HistOK(tabs'[j])
    OBVIOUS
  <2>1. CASE j <= Len(tabs)
    BY <2>1, <1>0, <1>2, <1>3 DEF IInv
  <2>2. CASE j = Len(tabs) + 1
    BY <2>2, <1>1, <1>2
  <2>3. QED
    BY <2>1, <2>2, <1>2, <1>3
<1>8. QED
  BY <1>4, <1>5, <1>6, <1>7 DEF IInv

(* browser_close_tab removes one tab and clamps the active index.          *)
LEMMA CloseTabOK ==
    ASSUME IInv, NEW id, CloseTab(id)
    PROVE  IInv'
<1>1. PICK i \in FirstWithId(id) : tabs' = RemoveAt(tabs, i)
  BY DEF CloseTab
<1>2. i \in 1 .. Len(tabs)
  BY DEF FirstWithId
<1>3. /\ tabs' \in Seq(Tab)
      /\ Len(tabs') = Len(tabs) - 1
      /\ \A j \in 1 .. Len(tabs) - 1 : tabs'[j] = IF j < i THEN tabs[j] ELSE tabs[j + 1]
  BY <1>1, <1>2, RemoveAtProperties DEF IInv, TypeOK
<1>4. Len(tabs) \in Nat /\ Len(tabs) > 0
  BY <1>2, LenProperties DEF IInv, TypeOK
<1>5. \A j \in 1 .. Len(tabs') : \E m \in 1 .. Len(tabs) : tabs'[j] = tabs[m]
  BY <1>3, <1>4
<1>6. activeTab' = IF activeTab >= Len(tabs) - 1 /\ Len(tabs) - 1 > 0
                  THEN Len(tabs) - 2 ELSE activeTab
  BY DEF CloseTab
<1>0. fault' = fault
  BY DEF CloseTab
<1>7. TypeOK'
  BY <1>0, <1>3, <1>4, <1>6, ConstAssumption DEF IInv, TypeOK
<1>8. ActiveIsLast'
  BY <1>3, <1>4, <1>6 DEF IInv, TypeOK, ActiveIsLast
<1>9. CountsInCap'
  BY <1>5 DEF IInv, CountsInCap
<1>10. (fault = "none" => \A j \in 1 .. Len(tabs) : HistOK(tabs[j]))'
  BY <1>0, <1>5 DEF IInv
<1>11. QED
  BY <1>7, <1>8, <1>9, <1>10 DEF IInv

(* browser_stop only clears the progress counter.                          *)
LEMMA StopOK ==
    ASSUME IInv, NEW k \in TabIndex, Stop(k)
    PROVE  IInv'
<1>1. k + 1 \in 1 .. Len(tabs) /\ tabs[k + 1] \in Tab
  BY LenProperties DEF IInv, TypeOK, TabIndex
<1> DEFINE r == [tabs[k + 1] EXCEPT !.progress = 0]
<1>2. r \in Tab /\ r.hcount = tabs[k + 1].hcount /\ r.hidx = tabs[k + 1].hidx
      /\ r.hist = tabs[k + 1].hist
  <2>1. 0 \in {0, 100}
    OBVIOUS
  <2>2. r \in Tab
    BY <1>1, <2>1, TabSetters, Zenon
  <2>3. QED
    BY <1>1, <2>2 DEF Tab
<1>3. r.hcount <= HistoryCap /\ HistOK(r)
  BY <1>1, <1>2 DEF IInv, CountsInCap, HistOK, Stop
<1> HIDE DEF r
<1>4. QED
  BY <1>1, <1>2, <1>3, TabUpdate DEF Stop, r, Fault
(* HistOK reads only the three history fields of a tab.                    *)
LEMMA HistOKFields ==
    ASSUME NEW a, NEW b, a.hcount = b.hcount, a.hidx = b.hidx, a.hist = b.hist
    PROVE  HistOK(a) <=> HistOK(b)
  BY DEF HistOK

(* browser_navigate and browser_reload: the url and secure flag are set,   *)
(* the history updated, then load_html sets progress and the document.     *)
LEMMA NavigateToOK ==
    ASSUME IInv, fault = "none", NEW k \in TabIndex, NEW url,
           NEW stored \in AnyUrl, NEW o \in LoadOutcome,
           NavigateTo(k, url, stored, o), activeTab' = activeTab
    PROVE  IInv'
<1>1. k + 1 \in 1 .. Len(tabs) /\ tabs[k + 1] \in Tab
  BY LenProperties DEF IInv, TypeOK, TabIndex
<1> DEFINE t   == tabs[k + 1]
           t0  == [t EXCEPT !.url = stored]
           t0b == [t0 EXCEPT !.secure = url \in SecureUrls]
<1>2. t0 \in Tab
  BY <1>1, TabSetters, Zenon
<1>3. t0b \in Tab
  <2>1. (url \in SecureUrls) \in BOOLEAN
    OBVIOUS
  <2>2. QED
    BY <1>2, <2>1, TabSetters, Zenon
<1>4. t0b.hcount = t.hcount /\ t0b.hidx = t.hidx /\ t0b.hist = t.hist
  BY <1>1 DEF Tab
<1>5. HistOK(t0b) /\ t0b.hcount <= HistoryCap
  BY <1>1, <1>4, HistOKFields DEF IInv, CountsInCap
<1> DEFINE t1 == AddToHistory(t0b, stored)
<1>6. t1 \in Tab /\ t1.hcount <= HistoryCap /\ HistOK(t1)
  BY <1>3, <1>5, AddToHistoryOK
<1> DEFINE p  == IF o = "fetch_failed" THEN 0 ELSE 100
           r1 == [t1 EXCEPT !.progress = p]
           r  == [r1 EXCEPT !.doc = LoadHtmlDoc(t1, o)]
<1> HIDE DEF t0, t0b, t1
<1>7. r1 \in Tab
  <2>1. p \in {0, 100}
    OBVIOUS
  <2>2. QED
    BY <1>6, <2>1, TabSetters, Zenon
<1>8. r \in Tab
  <2>1. LoadHtmlDoc(t1, o) \in BOOLEAN
    BY <1>6 DEF LoadHtmlDoc, Tab
  <2>2. QED
    BY <1>7, <2>1, TabSetters, Zenon
<1> HIDE DEF r1
<1>9. r.hcount = t1.hcount /\ r.hidx = t1.hidx /\ r.hist = t1.hist
  <2>1. r1.hcount = t1.hcount /\ r1.hidx = t1.hidx /\ r1.hist = t1.hist
    BY <1>6 DEF r1, Tab
  <2>2. QED
    BY <1>7, <2>1 DEF Tab
<1>10. tabs' = [tabs EXCEPT ![k + 1] = r]
  BY DEF NavigateTo, t0, t0b, t1, r1
<1>11. fault' \in Fault
  BY DEF NavigateTo, LoadHtmlFault, Fault
<1>12. QED
  BY <1>1, <1>6, <1>8, <1>9, <1>10, <1>11, HistOKFields, TabUpdate
(* Loading a history entry: a NULL entry ends the process; otherwise the  *)
(* index moves to the slot, which holds an entry below the count.          *)
LEMMA LoadEntryOK ==
    ASSUME IInv, fault = "none", NEW k \in TabIndex, NEW slot \in HistSlot,
           LoadEntry(k, slot), activeTab' = activeTab,
           tabs[k + 1].hcount > 0 => slot < tabs[k + 1].hcount,
           tabs[k + 1].hcount = 0 => tabs[k + 1].hist[slot] = NULL
    PROVE  IInv'
<1>1. k + 1 \in 1 .. Len(tabs) /\ tabs[k + 1] \in Tab
  BY LenProperties DEF IInv, TypeOK, TabIndex
<1> DEFINE t  == tabs[k + 1]
           r0 == [t EXCEPT !.hidx = slot]
<1>2. slot \in Nat
  BY ConstAssumption DEF HistSlot
<1>3. r0 \in Tab
  BY <1>1, <1>2, TabSetters, Zenon
<1>4. r0.hcount = t.hcount /\ r0.hidx = slot /\ r0.hist = t.hist
  BY <1>1 DEF Tab
<1>5. r0.hcount <= HistoryCap
  BY <1>1, <1>4 DEF IInv, CountsInCap
<1>6. CASE t.hist[slot] = NULL
  <2>1. tabs' = [tabs EXCEPT ![k + 1] = r0] /\ fault' = "strdup_null"
    BY <1>6 DEF LoadEntry
  <2>2. QED
    BY <1>1, <1>3, <1>5, <2>1, TabUpdate DEF Fault
<1>7. CASE t.hist[slot] # NULL
  <2>1. PICK o \in LoadOutcome :
          /\ tabs' = [tabs EXCEPT ![k + 1] =
                        [t EXCEPT !.hidx = slot, !.url = t.hist[slot],
                                  !.doc = LoadHtmlDoc(t, o)]]
          /\ fault' = LoadHtmlFault(o)
    BY <1>7 DEF LoadEntry
  <2> DEFINE r1 == [r0 EXCEPT !.url = t.hist[slot]]
             r  == [r1 EXCEPT !.doc = LoadHtmlDoc(t, o)]
  <2>2. t.hist[slot] \in AnyUrl
    BY <1>1, <1>7 DEF Tab
  <2>3. LoadHtmlDoc(t, o) \in BOOLEAN
    BY <1>1 DEF LoadHtmlDoc, Tab
  <2> HIDE DEF r0
  <2>4. r1 \in Tab
    BY <1>3, <2>2, TabSetters, Zenon
  <2>5. r \in Tab
    BY <2>3, <2>4, TabSetters, Zenon
  <2> HIDE DEF r1
  <2>6. r.hcount = t.hcount /\ r.hidx = slot /\ r.hist = t.hist
    <3>1. r1.hcount = t.hcount /\ r1.hidx = slot /\ r1.hist = t.hist
      BY <1>3, <1>4 DEF r1, Tab
    <3>2. QED
      BY <2>4, <3>1 DEF Tab
  <2>7. t.hcount > 0 /\ slot < t.hcount
    BY <1>1, <1>7 DEF Tab
  <2>8. HistOK(r)
    BY <2>6, <2>7 DEF HistOK
  <2>9. tabs' = [tabs EXCEPT ![k + 1] = r]
    BY <2>1 DEF r, r1, r0
  <2>10. fault' \in Fault
    BY <2>1 DEF LoadHtmlFault, Fault
  <2> HIDE DEF r
  <2>11. r.hcount <= HistoryCap
    BY <1>4, <1>5, <2>6
  <2>12. QED
    BY <1>1, <2>5, <2>8, <2>9, <2>10, <2>11, TabUpdate, Zenon
<1>8. QED
  BY <1>6, <1>7

(* browser_go_back moves to entry index - 1, which lies below the count.   *)
LEMMA GoBackOK ==
    ASSUME IInv, NEW k \in TabIndex, GoBack(k)
    PROVE  IInv'
<1>1. k + 1 \in 1 .. Len(tabs) /\ tabs[k + 1] \in Tab
  BY LenProperties DEF IInv, TypeOK, TabIndex
<1> DEFINE t == tabs[k + 1]
<1>2. fault = "none" /\ t.hidx # 0
  BY DEF GoBack
<1>3. HistOK(t) /\ t.hcount <= HistoryCap
  BY <1>1, <1>2 DEF IInv, CountsInCap
<1>4. t.hcount > 0 /\ t.hidx < t.hcount
  BY <1>1, <1>2, <1>3 DEF HistOK, Tab
<1>5. t.hidx - 1 \in HistSlot /\ t.hidx - 1 < t.hcount
  BY <1>1, <1>2, <1>3, <1>4, ConstAssumption DEF HistSlot, Tab
<1>6. QED
  BY <1>2, <1>4, <1>5, LoadEntryOK DEF GoBack

(* browser_go_forward moves to entry index + 1.  The test against count-1 *)
(* wraps for an empty history, so the step is taken and reads entry 1,    *)
(* which is NULL.                                                          *)
LEMMA GoForwardOK ==
    ASSUME IInv, NEW k \in TabIndex, GoForward(k)
    PROVE  IInv'
<1>1. k + 1 \in 1 .. Len(tabs) /\ tabs[k + 1] \in Tab
  BY LenProperties DEF IInv, TypeOK, TabIndex
<1> DEFINE t == tabs[k + 1]
<1>2. fault = "none" /\ ~(t.hidx >= Dec32(t.hcount))
  BY DEF GoForward
<1>3. HistOK(t) /\ t.hcount <= HistoryCap
  BY <1>1, <1>2 DEF IInv, CountsInCap
<1>4. CASE t.hcount = 0
  <2>1. t.hidx + 1 = 1 /\ 1 \in HistSlot
    BY <1>3, <1>4, ConstAssumption DEF HistOK, HistSlot
  <2>2. t.hist[t.hidx + 1] = NULL
    BY <1>3, <1>4, <2>1 DEF HistOK
  <2>3. QED
    BY <1>2, <1>4, <2>1, <2>2, LoadEntryOK DEF GoForward
<1>5. CASE t.hcount # 0
  <2>1. t.hidx + 1 < t.hcount /\ t.hcount > 0
    BY <1>1, <1>2, <1>5 DEF Dec32, Tab
  <2>2. t.hidx + 1 \in HistSlot
    BY <1>1, <1>3, <2>1, ConstAssumption DEF HistSlot, Tab
  <2>3. QED
    BY <1>2, <2>1, <2>2, LoadEntryOK DEF GoForward
<1>6. QED
  BY <1>4, <1>5
-----------------------------------------------------------------------------
(* The engine starts with no tab, which satisfies the invariant.          *)
THEOREM InitIInv == Init => IInv
  BY EmptySeq, ConstAssumption
     DEF Init, IInv, TypeOK, ActiveIsLast, CountsInCap, Fault

(* Every operation of the engine, and a stutter, keeps the invariant.     *)
THEOREM NextIInv == IInv /\ [Next]_vars => IInv'
<1> SUFFICES ASSUME IInv, [Next]_vars PROVE IInv'
  OBVIOUS
<1>1. CASE CreateTab
  BY <1>1, CreateTabOK
<1>2. CASE \E id \in 0 .. MaxTabs : CloseTab(id)
  BY <1>2, CloseTabOK
<1>3. CASE \E k \in TabIndex : \E url \in Urls : Navigate(k, url)
  <2>1. PICK k \in TabIndex, url \in Urls : Navigate(k, url)
    BY <1>3
  <2>2. PICK o \in LoadOutcome : NavigateTo(k, url, url, o)
    BY <2>1 DEF Navigate
  <2>3. url \in AnyUrl /\ fault = "none" /\ activeTab' = activeTab
    BY <2>1 DEF Navigate, AnyUrl
  <2>4. QED
    BY <2>2, <2>3, NavigateToOK
<1>4. CASE \E k \in TabIndex : Reload(k)
  <2>1. PICK k \in TabIndex : Reload(k)
    BY <1>4
  <2>2. PICK stored \in {tabs[k + 1].url, Garbled}, o \in LoadOutcome :
          NavigateTo(k, tabs[k + 1].url, stored, o)
    BY <2>1 DEF Reload
  <2>3. tabs[k + 1] \in Tab
    BY LenProperties DEF IInv, TypeOK, TabIndex
  <2>4. stored \in AnyUrl /\ fault = "none" /\ activeTab' = activeTab
    BY <2>1, <2>3 DEF Reload, AnyUrl, Tab
  <2>5. QED
    BY <2>2, <2>4, NavigateToOK
<1>5. CASE \E k \in TabIndex : GoBack(k)
  BY <1>5, GoBackOK
<1>6. CASE \E k \in TabIndex : GoForward(k)
  BY <1>6, GoForwardOK
<1>7. CASE \E k \in TabIndex : Stop(k)
  BY <1>7, StopOK
<1>8. CASE UNCHANGED vars
  BY <1>8 DEF vars, IInv, TypeOK, ActiveIsLast, CountsInCap
<1>9. QED
  BY <1>1, <1>2, <1>3, <1>4, <1>5, <1>6, <1>7, <1>8 DEF Next

(* The invariant implies the three properties the model-checking run      *)
(* checks.                                                                 *)
LEMMA IInvProperties ==
    IInv => TypeOK /\ ActiveTabInRange /\ HistoryInBounds
<1> SUFFICES ASSUME IInv PROVE TypeOK /\ ActiveTabInRange /\ HistoryInBounds
  OBVIOUS
<1>1. Len(tabs) \in Nat
  BY LenProperties DEF IInv, TypeOK
<1>2. ActiveTabInRange
  BY <1>1 DEF IInv, ActiveIsLast, ActiveTabInRange
<1>3. HistoryInBounds
  BY <1>1 DEF IInv, CountsInCap, HistOK, HistoryInBounds, TabIndex
<1>4. QED
  BY <1>2, <1>3 DEF IInv

(* The tab table is well typed in every reachable state.                   *)
THEOREM TypeCorrect == Spec => []TypeOK
  BY InitIInv, NextIInv, IInvProperties, PTL DEF Spec

(* The active tab index names a tab whenever there is one, whatever        *)
(* sequence of create and close calls (ActiveTabInRange).                  *)
THEOREM ActiveTabValid == Spec => []ActiveTabInRange
  BY InitIInv, NextIInv, IInvProperties, PTL DEF Spec

(* browser_navigate never writes past the history array, and go back and  *)
(* go forward keep the history index below the count while the process    *)
(* lives (HistoryInBounds).                                                *)
THEOREM HistoryBounded == Spec => []HistoryInBounds
  BY InitIInv, NextIInv, IInvProperties, PTL DEF Spec
=============================================================================
