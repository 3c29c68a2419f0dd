------------------------------ MODULE WpaConfig -----------------------------
(***************************************************************************)
(* parse_config_file of src/userspace/wpa_supplicant/main.c: the loop that *)
(* reads wpa_supplicant.conf one line at a time, builds network profiles   *)
(* between "network={" and "}", prepends each finished one to the list and *)
(* sets auto_connect from a global ap_scan line.                           *)
(*                                                                         *)
(* A line is a sequence of symbols.  A symbol is one character (TabChar   *)
(* for a tab, Quote for '"') or a word the code only compares as          *)
(* a whole: a key, a key_mgmt name, "network={".  The string functions    *)
(* the loop calls (strchr, sscanf, strncpy, atoi, strstr) are written on   *)
(* these sequences.  Lines are shorter than fgets' 256 bytes and than the *)
(* sscanf widths, so no line is split and no field is cut short.          *)
(***************************************************************************)
EXTENDS Integers, Sequences, SequencesExt

CONSTANTS
    Lines,      \* the lines a configuration file may contain
    MaxLines    \* the most lines in a file

ASSUME ConfigAssumption == MaxLines \in Nat /\ Lines \subseteq Seq(STRING)

VARIABLES file, pc, pos, inBlock, cur, networks, autoConnect

vars == <<file, pc, pos, inBlock, cur, networks, autoConnect>>

Quote == "\""

TabChar == "\t"

Blanks == {" ", TabChar}

MAX_SSID_LEN == 32
MAX_PASSPHRASE_LEN == 63

NULL == "NULL"

Digit == <<"0", "1", "2", "3", "4", "5", "6", "7", "8", "9">>

(* p = strchr(s, x); if (p) *p = '\0'; with x any character of X.         *)
CutAt(s, X) ==
    LET k == SelectInSeq(s, LAMBDA c : c \in X)
    IN  IF k = 0 THEN s ELSE SubSeq(s, 1, k - 1)

(* while (p[0] == ' ' || p[0] == '\t') p++;                                  *)
SkipBlanks(s) ==
    LET k == SelectInSeq(s, LAMBDA c : c \notin Blanks)
    IN  IF k = 0 THEN << >> ELSE SubSeq(s, k, Len(s))

(* The line after the comment is cut off and the leading blanks skipped.   *)
CleanLine(line) == SkipBlanks(CutAt(line, {"#"}))

(* sscanf(p, "%63[^=]=%127s", key, value) == 2: a non-empty key up to the  *)
(* first '=' (blanks included), then, after any blanks, a non-empty word  *)
(* ending at the next blank.                                               *)
Scan(p) ==
    LET e    == SelectInSeq(p, LAMBDA c : c = "=")
        rest == SkipBlanks(SubSeq(p, e + 1, Len(p)))
    IN  [ok    |-> e > 1 /\ rest # << >>,
         key   |-> SubSeq(p, 1, e - 1),
         value |-> CutAt(rest, Blanks)]

(* while (key[strlen(key)-1] == ' ') key[strlen(key)-1] = '\0';: spaces   *)
(* only, a trailing tab stays in the key.                                  *)
TrimKey(k) == SubSeq(k, 1, SelectLastInSeq(k, LAMBDA c : c # " "))

(* A value in double quotes loses them (a lone '"' becomes empty).         *)
Unquote(v) ==
    IF v[1] = Quote /\ v[Len(v)] = Quote THEN SubSeq(v, 2, Len(v) - 1) ELSE v

(* atoi: an optional sign and the digits that follow it.                   *)
Atoi(v) ==
    LET signed == v # << >> /\ v[1] \in {"-", "+"}
        body   == IF signed THEN Tail(v) ELSE v
        stop   == SelectInSeq(body, LAMBDA c : c \notin Range(Digit))
        digits == IF stop = 0 THEN body ELSE SubSeq(body, 1, stop - 1)
        val    == FoldLeft(LAMBDA acc, d : 10 * acc + (CHOOSE n \in 0 .. 9 : Digit[n + 1] = d),
                           0, digits)
    IN  IF signed /\ v[1] = "-" THEN -val ELSE val

(* strncpy(dst, value, n) into a zeroed buffer of n + 1 bytes.             *)
Strncpy(v, n) == IF Len(v) <= n THEN v ELSE SubSeq(v, 1, n)

(* The profile calloc gives, with the defaults the loop then sets.         *)
DefaultProfile ==
    [ssid |-> << >>, psk |-> << >>, auth |-> "WPA2_PSK",
     priority |-> 0, disabled |-> 0, scanSsid |-> 0]

(* key_mgmt: the first of the names that strstr finds in the value.        *)
AuthOf(v, old) ==
    CASE Contains(v, "WPA-PSK")  -> "WPA_PSK"
      [] Contains(v, "WPA2-PSK") -> "WPA2_PSK"
      [] Contains(v, "SAE")      -> "WPA3_SAE"
      [] Contains(v, "NONE")     -> "OPEN"
      [] OTHER                   -> old

(* One key = value line inside a network block.                           *)
SetKey(prof, key, v) ==
    CASE key = <<"ssid">>      -> [prof EXCEPT !.ssid = Strncpy(v, MAX_SSID_LEN)]
      [] key = <<"psk">>       -> [prof EXCEPT !.psk = Strncpy(v, MAX_PASSPHRASE_LEN)]
      [] key = <<"key_mgmt">>  -> [prof EXCEPT !.auth = AuthOf(v, prof.auth)]
      [] key = <<"priority">>  -> [prof EXCEPT !.priority = Atoi(v)]
      [] key = <<"disabled">>  -> [prof EXCEPT !.disabled = Atoi(v)]
      [] key = <<"scan_ssid">> -> [prof EXCEPT !.scanSsid = Atoi(v)]
      [] OTHER                 -> prof

(* What a line does to a profile: nothing unless sscanf matches.           *)
ApplyLine(prof, p) ==
    LET s == Scan(p)
    IN  IF s.ok THEN SetKey(prof, TrimKey(s.key), Unquote(s.value)) ELSE prof

IsOpen(p)  == p # << >> /\ p[1] = "network={"
IsClose(p) == p # << >> /\ p[1] = "}"

-----------------------------------------------------------------------------
(* main sets auto_connect = 1 before it parses the file.                   *)
Init ==
    /\ file \in BoundedSeq(Lines, MaxLines)
    /\ pc = "fopen"
    /\ pos = 0
    /\ inBlock = FALSE
    /\ cur = NULL
    /\ networks = << >>
    /\ autoConnect = 1

Line == CleanLine(file[pos])

(* fopen, which fails when the file is missing or unreadable.              *)
Fopen ==
    /\ pc = "fopen"
    /\ \/ pc' = "failed" /\ UNCHANGED pos
       \/ pc' = "loop" /\ pos' = 1
    /\ UNCHANGED <<file, inBlock, cur, networks, autoConnect>>

(* An empty line, or one that is all comment.                               *)
Blank ==
    /\ pc = "loop" /\ pos <= Len(file)
    /\ Line = << >>
    /\ pos' = pos + 1
    /\ UNCHANGED <<file, pc, inBlock, cur, networks, autoConnect>>

(* "network={": a new profile replaces the one being built, if any; a    *)
(* NULL from calloc is dereferenced at once.                               *)
OpenBlock ==
    /\ pc = "loop" /\ pos <= Len(file)
    /\ IsOpen(Line)
    /\ \/ /\ pc' = "crashed"
          /\ UNCHANGED <<pos, inBlock, cur>>
       \/ /\ inBlock' = TRUE
          /\ cur' = DefaultProfile
          /\ pos' = pos + 1
          /\ UNCHANGED pc
    /\ UNCHANGED <<file, networks, autoConnect>>

(* Mutant of CloseBlock: the profile is appended to the list.              *)
CloseBlockAppend ==
    /\ pc = "loop" /\ pos <= Len(file)
    /\ inBlock /\ IsClose(Line)
    /\ inBlock' = FALSE
    /\ networks' = Append(networks, cur)
    /\ cur' = NULL
    /\ pos' = pos + 1
    /\ UNCHANGED <<file, pc, autoConnect>>

(* "}" inside a block: the profile goes to the head of the list.           *)
CloseBlock ==
    /\ pc = "loop" /\ pos <= Len(file)
    /\ inBlock /\ IsClose(Line)
    /\ inBlock' = FALSE
    /\ networks' = <<cur>> \o networks
    /\ cur' = NULL
    /\ pos' = pos + 1
    /\ UNCHANGED <<file, pc, autoConnect>>

(* Any other line inside a block: a key = value setting of the profile.    *)
BlockLine ==
    /\ pc = "loop" /\ pos <= Len(file)
    /\ inBlock /\ Line # << >> /\ ~IsOpen(Line) /\ ~IsClose(Line)
    /\ cur' = ApplyLine(cur, Line)
    /\ pos' = pos + 1
    /\ UNCHANGED <<file, pc, inBlock, networks, autoConnect>>

(* A line outside a block: only ap_scan = N has an effect.                 *)
GlobalLine ==
    /\ pc = "loop" /\ pos <= Len(file)
    /\ ~inBlock /\ Line # << >> /\ ~IsOpen(Line)
    /\ LET s == Scan(Line)
       IN  autoConnect' = IF s.ok /\ s.key = <<"ap_scan">>
                          THEN Atoi(s.value) ELSE autoConnect
    /\ pos' = pos + 1
    /\ UNCHANGED <<file, pc, inBlock, cur, networks>>

(* End of file: fclose and return 0; a block still open is dropped.        *)
Eof ==
    /\ pc = "loop" /\ pos > Len(file)
    /\ pc' = "done"
    /\ UNCHANGED <<file, pos, inBlock, cur, networks, autoConnect>>

Next ==
    \/ Fopen \/ Blank \/ OpenBlock \/ CloseBlock \/ BlockLine
    \/ GlobalLine \/ Eof

Spec == Init /\ [][Next]_vars

-----------------------------------------------------------------------------
(* The reference: what the file says, read block by block.                 *)

Clean(n) == CleanLine(file[n])

(* A block is a "network={" line and the first "}" line after it, with no *)
(* other "network={" in between.                                           *)
Blocks ==
    {b \in (1 .. Len(file)) \X (1 .. Len(file)) :
        /\ b[1] < b[2] /\ IsOpen(Clean(b[1])) /\ IsClose(Clean(b[2]))
        /\ \A m \in b[1] + 1 .. b[2] - 1 : ~IsOpen(Clean(m)) /\ ~IsClose(Clean(m))}

(* A block's profile: its setting lines applied in file order.             *)
BlockProfile(b) ==
    FoldLeft(LAMBDA prof, m : ApplyLine(prof, Clean(m)), DefaultProfile,
             [k \in 1 .. b[2] - b[1] - 1 |-> b[1] + k])

(* Line n is read outside any network block.                               *)
Outside(n) ==
    \A o \in 1 .. n - 1 : IsOpen(Clean(o)) => \E m \in o + 1 .. n - 1 : IsClose(Clean(m))

ApScanLines ==
    {n \in 1 .. Len(file) :
        /\ Outside(n) /\ Clean(n) # << >> /\ ~IsOpen(Clean(n))
        /\ Scan(Clean(n)).ok /\ Scan(Clean(n)).key = <<"ap_scan">>}

(* When the file has been read, the profile list holds one profile per    *)
(* closed network block, the last block of the file first, each with its  *)
(* settings, and auto_connect is the last global ap_scan value (1 when    *)
(* there is none): the loop of parse_config_file keeps in_network_block,   *)
(* current_network and the list head in step with the file, dropping a    *)
(* block that a second "network={" or the end of the file interrupts.      *)
ParsedAsWritten ==
    pc = "done" =>
        /\ networks = Reverse([k \in 1 .. Cardinality(Blocks) |->
                                  BlockProfile(SetToSortSeq(Blocks,
                                      LAMBDA a, b : a[1] < b[1])[k])])
        /\ autoConnect = IF ApScanLines = {} THEN 1
                         ELSE Atoi(Scan(Clean(Max(ApScanLines))).value)
=============================================================================
