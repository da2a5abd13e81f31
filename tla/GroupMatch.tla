------------------------------ MODULE GroupMatch ------------------------------
(***************************************************************************)
(* EventFilter::setGroupId: the group of a key press.  A window is what    *)
(* the caches of the main thread say of it: its class name, whether there  *)
(* is a pid, the name of that process, and the names of its descendants;   *)
(* "" is the class of a window that has none and the name of a process     *)
(* that is not in the tree.  Names are equal as by string_eq_ci.           *)
(***************************************************************************)
EXTENDS ConfigReader

CONSTANTS WindowInfos,  \* records [class, hasPid, process, descendants]
          TerminalNames \* class names that end like a terminal's

ASSUME WindowsAssumption ==
    WindowInfos \subseteq [class : STRING, hasPid : BOOLEAN, process : STRING,
                           descendants : SUBSET STRING]

VARIABLES window,  \* the window of the press
          stage,   \* which of the match functions runs
          next,    \* index of the group it looks at
          gid

matchVars == <<window, stage, next, gid>>
vars == <<configVars, matchVars>>

NoWindow == [class |-> "", hasPid |-> FALSE, process |-> "", descendants |-> {}]

-----------------------------------------------------------------------------

\* Slip: the descendants are looked at whatever the window is.
SetGroupIdOfAny(w) ==
    /\ reader = "done"
    /\ stage = "idle"
    /\ window' = w
    /\ stage' = IF w.hasPid THEN "terminalProcessName" ELSE "windowClassName"
    /\ next' = 1
    /\ gid' = -1
    /\ UNCHANGED configVars

\* A key press: a terminal with a pid starts with its descendants, another
\* window with a pid with its process.
SetGroupId(w) ==
    /\ reader = "done"
    /\ stage = "idle"
    /\ window' = w
    /\ stage' = IF ~w.hasPid THEN "windowClassName"
                ELSE IF w.class \in TerminalNames THEN "terminalProcessName"
                ELSE "processName"
    /\ next' = 1
    /\ gid' = -1
    /\ UNCHANGED configVars

\* The names that the rules of a type are compared with.
NamesFor(type) == CASE type = "terminalProcessName" -> window.descendants
                    [] type = "processName" -> {window.process}
                    [] OTHER -> {window.class}

Matches(group, type) == group.rules[type] \cap NamesFor(type) # {}

\* What setGroupId tries when a match function returned -1.
After(type) == CASE type = "terminalProcessName" -> "processName"
                 [] type = "processName" -> "windowClassName"
                 [] OTHER -> "matched"

Matching == stage \in RuleTypes

\* The next group does not match.
SkipGroup ==
    /\ Matching
    /\ next <= Len(m_groups)
    /\ ~Matches(m_groups[next], stage)
    /\ next' = next + 1
    /\ UNCHANGED <<configVars, window, stage, gid>>

\* Slip: only the loop over the rules is left.
MatchGroupGoesOn ==
    /\ Matching
    /\ next <= Len(m_groups)
    /\ Matches(m_groups[next], stage)
    /\ gid' = m_groups[next].id
    /\ next' = next + 1
    /\ UNCHANGED <<configVars, window, stage>>

\* The next group matches; if its id is -1, that is taken for no match at all.
MatchGroup ==
    /\ Matching
    /\ next <= Len(m_groups)
    /\ Matches(m_groups[next], stage)
    /\ gid' = m_groups[next].id
    /\ stage' = IF gid' = -1 THEN After(stage) ELSE "matched"
    /\ next' = 1
    /\ UNCHANGED <<configVars, window>>

\* No group matches.
NoGroupMatches ==
    /\ Matching
    /\ next > Len(m_groups)
    /\ stage' = IF gid = -1 THEN After(stage) ELSE "matched"
    /\ next' = 1
    /\ UNCHANGED <<configVars, window, gid>>

\* The event is queued; Daemon::run counts it unless its group is -1.
EventQueued ==
    /\ stage = "matched"
    /\ window' = NoWindow
    /\ stage' = "idle"
    /\ gid' = -1
    /\ UNCHANGED <<configVars, next>>

Init == /\ ConfigInit
        /\ window = NoWindow
        /\ stage = "idle"
        /\ next = 1
        /\ gid = -1

Next == \/ ReadConfig /\ UNCHANGED matchVars
        \/ \E w \in WindowInfos : SetGroupId(w)
        \/ SkipGroup \/ MatchGroup \/ NoGroupMatches
        \/ EventQueued

Spec == Init /\ [][Next]_vars

-----------------------------------------------------------------------------
(* Properties                                                              *)

TypeOK == /\ reader \in {"start", "sections", "groups", "rules", "options", "done",
                        "exception", "segfault"}
          /\ \A i \in DOMAIN m_groups : m_groups[i].id \in Ids
          /\ m_options \in [flags : [Flags -> BOOLEAN], clusterSize : Ids]
          /\ reader # "done" => stage = "idle"
          /\ stage \in RuleTypes \cup {"idle", "matched"}
          /\ next \in 1..(Len(m_groups) + 1)
          /\ gid \in Ids
          /\ Matching => gid = -1

\* The rule types that may speak of a window, the first one first.
Stages(w) == IF ~w.hasPid THEN <<"windowClassName">>
             ELSE IF w.class \in TerminalNames
             THEN <<"terminalProcessName", "processName", "windowClassName">>
             ELSE <<"processName", "windowClassName">>

FirstMatch(type) == LET matching == {i \in DOMAIN m_groups : Matches(m_groups[i], type)}
                    IN  IF matching = {} THEN -1 ELSE m_groups[Min(matching)].id

\* What the process of a terminal is counts more than what its window is, and of
\* the groups that a name is in, the first in the document has it.
FirstRuleDecides ==
    stage = "matched" =>
        LET found == {k \in DOMAIN Stages(window) : FirstMatch(Stages(window)[k]) # -1}
        IN  gid = IF found = {} THEN -1 ELSE FirstMatch(Stages(window)[Min(found)])

\* On the way there: what setGroupId tries is one of the window's types, those
\* before it gave no group, and nor did the groups before the next one.
SearchInv ==
    Matching =>
        /\ \A i \in 1..(next - 1) : ~Matches(m_groups[i], stage)
        /\ \E k \in DOMAIN Stages(window) :
               /\ Stages(window)[k] = stage
               /\ \A j \in 1..(k - 1) : FirstMatch(Stages(window)[j]) = -1

MatchInv == /\ TypeOK
            /\ ReaderInv
            /\ window \in WindowInfos \cup {NoWindow}
            /\ stage = "idle" => gid = -1
            /\ SearchInv

Nameless(w) == w.class = "" /\ w.process = "" /\ w.descendants = {}

\* A press of which nothing is known, neither class nor processes, is in no group:
\* the reader lets no empty name into a rule.
NamelessNotCounted == stage = "matched" /\ Nameless(window) => gid = -1

\* An id of decimal digits, with a sign or without, that fits an int.
Decimal(id) == id.given /\ id.numeric /\ id.leading = id.number /\ id.number \in Ids

\* A document of elements in no namespace, with the root that Keyvis asks for, a
\* decimal id for each group and another one for each.
Portable(doc) ==
    /\ doc.root = "keyfrog"
    /\ \A p \in GroupPlaces(doc) : InNoNamespace(doc, p)
    /\ \A p \in GroupPlaces(doc) : Decimal(NodeAt(doc, p).id)
    /\ \A p, q \in GroupPlaces(doc) :
           p # q => NodeAt(doc, p).id.number # NodeAt(doc, q).id.number

\* A rule of the group, as it is written, speaks of the window.
SpeaksOf(node, w) ==
    \E i \in DOMAIN Stages(w) :
        LET written == RulesAsWritten(node.rules)[Stages(w)[i]]
        IN  CASE Stages(w)[i] = "terminalProcessName" -> written \cap w.descendants # {}
              [] Stages(w)[i] = "processName" -> w.process \in written
              [] OTHER -> w.class \in written

\* A press is shown under the name of a group that has a rule for its window: the
\* filter finds a group, keyfrog counts the press under the id it read for it, and
\* Keyvis has for that id the name it read itself, which is of this group and no
\* other.  It does where each id is a decimal one of its own and nothing is in a
\* namespace; for what the two programs read apart it does not.
ShownUnderItsName ==
    stage = "matched" /\ gid # -1 /\ Portable(document) /\ KeyvisAccepts(document) =>
        \E p \in GroupPlaces(document) :
            NamedAfter(document, gid, p) /\ SpeaksOf(NodeAt(document, p), window)
=============================================================================
