----------------------------- MODULE ConfigFile -----------------------------
(***************************************************************************)
(* common::Config (common/config_file.hpp), the key=value file every       *)
(* process reads at its start, line by line into a table of fixed size.    *)
(* Each process refuses to start if load returns false.  A line is what    *)
(* the parser makes of it: an assignment, or one of the kinds it skips or  *)
(* rejects.  Of a value only its meaning is kept: its text, and whether a  *)
(* getter's conversion takes it.                                           *)
(***************************************************************************)
EXTENDS Integers, Sequences, FiniteSets

CONSTANTS
    CfgKey,      \* keys
    CfgVal,      \* values
    Convertible, \* the values that get_i64, get_f64 or get_bool can convert
    MAX_ENTRIES, \* entries of the table
    MaxLines     \* bound: lines of a file

ASSUME ConfigAssumption ==
    Convertible \subseteq CfgVal /\ MAX_ENTRIES \in Nat /\ MaxLines \in Nat

NoVal == "none"

VARIABLES
    cfgLines,  \* history: the lines read
    entries,   \* e_[0 .. n_ - 1]
    cfgOk      \* what load will return

cfgVars == <<cfgLines, entries, cfgOk>>

CfgInit == cfgLines = <<>> /\ entries = <<>> /\ cfgOk = TRUE

\* Blank lines and comments are skipped; a line without '=', with an empty key,
\* or too long (as a whole, in its key or in its value) is rejected.
Assignment(k, v) == [kind |-> "assign", key |-> k, val |-> v]
OtherLine(kind) == [kind |-> kind, key |-> NoVal, val |-> NoVal]

\* find: the first entry of a key, 0 if there is none.
FindEntry(k) ==
    LET hits == {i \in DOMAIN entries : entries[i].key = k}
    IN  IF hits = {} THEN 0 ELSE CHOOSE i \in hits : \A j \in hits : i <= j

-----------------------------------------------------------------------------
\* A line that is skipped or rejected leaves the table alone.
ParseOther(kind) ==
    /\ Len(cfgLines) < MaxLines
    /\ cfgLines' = Append(cfgLines, OtherLine(kind))
    /\ cfgOk' = (cfgOk /\ kind = "blank")
    /\ UNCHANGED entries

\* Mutant: the room for a new key is not tested.
ParseAssignmentFull(k, v) ==
    /\ Len(cfgLines) < MaxLines
    /\ cfgLines' = Append(cfgLines, Assignment(k, v))
    /\ IF FindEntry(k) # 0
       THEN entries' = [entries EXCEPT ![FindEntry(k)].val = v] /\ UNCHANGED cfgOk
       ELSE entries' = Append(entries, [key |-> k, val |-> v]) /\ UNCHANGED cfgOk

\* Mutant: a repeated key gets an entry of its own.
ParseAssignmentTwice(k, v) ==
    /\ Len(cfgLines) < MaxLines
    /\ cfgLines' = Append(cfgLines, Assignment(k, v))
    /\ IF Len(entries) < MAX_ENTRIES
       THEN entries' = Append(entries, [key |-> k, val |-> v]) /\ UNCHANGED cfgOk
       ELSE cfgOk' = FALSE /\ UNCHANGED entries

\* parse_line, of an assignment: a key that is known is overridden, another one
\* appended while there is room.
ParseAssignment(k, v) ==
    /\ Len(cfgLines) < MaxLines
    /\ cfgLines' = Append(cfgLines, Assignment(k, v))
    /\ IF FindEntry(k) # 0
       THEN entries' = [entries EXCEPT ![FindEntry(k)].val = v] /\ UNCHANGED cfgOk
       ELSE IF Len(entries) < MAX_ENTRIES
       THEN entries' = Append(entries, [key |-> k, val |-> v]) /\ UNCHANGED cfgOk
       ELSE cfgOk' = FALSE /\ UNCHANGED entries

CfgNext ==
    \/ \E kind \in {"blank", "noEquals", "emptyKey", "tooLong"} : ParseOther(kind)
    \/ \E k \in CfgKey, v \in CfgVal : ParseAssignment(k, v)

CfgSpec == CfgInit /\ [][CfgNext]_cfgVars

-----------------------------------------------------------------------------
\* get_str(k, def), and get_i64, get_f64 and get_bool: def if there is no entry
\* or it does not convert.
GetStr(k, def) == IF FindEntry(k) = 0 THEN def ELSE entries[FindEntry(k)].val
GetConverted(k, def) ==
    IF FindEntry(k) = 0 \/ GetStr(k, def) \notin Convertible THEN def ELSE GetStr(k, def)

-----------------------------------------------------------------------------
(* Properties.                                                             *)

Assigned(k) == {i \in DOMAIN cfgLines : cfgLines[i].kind = "assign" /\ cfgLines[i].key = k}
FirstLine(k) == CHOOSE i \in Assigned(k) : \A j \in Assigned(k) : i <= j
LastLine(k) == CHOOSE i \in Assigned(k) : \A j \in Assigned(k) : j <= i

\* A config that loads is the file: every key has the value of its last
\* assignment and only a key without one its default, no key is visited twice
\* by for_prefix and they come in the order of the file, and no line went
\* unread; one that does not fit, or has a line that means nothing, is refused.
ConfigIsTheFile ==
    /\ Len(entries) <= MAX_ENTRIES
    /\ cfgOk =>
         /\ \A k \in CfgKey :
               LET v == IF Assigned(k) = {} THEN NoVal ELSE cfgLines[LastLine(k)].val
               IN  /\ GetStr(k, NoVal) = v
                   /\ GetConverted(k, NoVal) = IF v \in Convertible THEN v ELSE NoVal
         /\ \A i, j \in DOMAIN entries :
               i < j => FirstLine(entries[i].key) < FirstLine(entries[j].key)
    /\ cfgOk <=>
         /\ \A i \in DOMAIN cfgLines : cfgLines[i].kind \in {"assign", "blank"}
         /\ Cardinality({k \in CfgKey : Assigned(k) # {}}) <= MAX_ENTRIES
=============================================================================
