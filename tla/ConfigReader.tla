----------------------------- MODULE ConfigReader -----------------------------
(***************************************************************************)
(* ~/.keyfrog/config, an XML document, has two readers: ConfigReader, in   *)
(* the constructor of Daemon, which makes the list of groups that          *)
(* EventFilter matches key presses against, and Main.readConfig of Keyvis, *)
(* which makes the table of their names.                                   *)
(*                                                                         *)
(* A document is [wellFormed, root, sections]; the children of its root    *)
(* are [name, plain, nodes]; a node of application-groups is [name, plain, *)
(* id, label, rules], with the name "comment" if it is one and any other   *)
(* name for texts and other elements; a rule is [name, type, text], with   *)
(* the name "comment" for what is no element and the text "" for any       *)
(* contents but one text.  The names are those without a prefix, and what  *)
(* is plain is in no namespace.  An id is [given, leading, numeric,        *)
(* number]: what strtol makes of it, which ends at the first letter, and   *)
(* what Double does, which wants a number to the end, point and exponent   *)
(* included, of which the whole part counts; "1e2" has the leading 1 and   *)
(* the number 100.  A node of options is [name, flags, size], a flag being *)
(* "on", "off", "none" for an attribute that is missing, or "other".       *)
(***************************************************************************)
EXTENDS Integers, SequencesExt, FiniteSetsExt

CONSTANTS Documents,  \* the files that there may be
          IntMax      \* INT_MAX

ASSUME ConfigAssumption == IntMax \in Nat \ {0}

VARIABLES document,
          sections,  \* readConfig: children of the root still to come
          nodes,     \* processGroups, processOptions: nodes still to come
          newGroup,  \* processGroups: the group that is read
          rules,     \* processGroups: its rules still to come
          m_groups,  \* FilterConfig::m_groups
          m_options, \* Options: its flags and the size of a cluster
          reader     \* what readConfig is at, or how it ended

configVars == <<document, sections, nodes, newGroup, rules, m_groups, m_options, reader>>

Flags == {"debugState", "debugUseLogFile", "debugUseStdErr"}
RuleTypes == {"windowClassName", "terminalProcessName", "processName"}

\* The documents there are, from the inside out.
IdAttributes == [given : BOOLEAN, leading : Int, numeric : BOOLEAN, number : Int]
RuleElements == [name : STRING, type : STRING, text : STRING]
GroupElements == [name : STRING, plain : BOOLEAN, id : IdAttributes, label : STRING,
                  rules : Seq(RuleElements)]
OptionElements == [name : STRING, flags : [Flags -> STRING], size : IdAttributes]
SectionElements == [name : {"application-groups"}, plain : BOOLEAN, nodes : Seq(GroupElements)]
                   \cup [name : STRING \ {"application-groups"}, nodes : Seq(OptionElements)]

ASSUME DocumentsAssumption ==
    Documents \subseteq [wellFormed : BOOLEAN, root : STRING, sections : Seq(SectionElements)]

\* The lists of a Group matter for what is in them, so they are sets here.
Group(id) == [id |-> id, rules |-> [t \in RuleTypes |-> {}]]
NoGroup == Group(0)

\* atoi: strtol, cut to an int.
atoi(id) == ((id.leading + IntMax + 1) % (2 * (IntMax + 1))) - IntMax - 1

-----------------------------------------------------------------------------
(* ConfigReader                                                            *)

\* xmlReadFile returns NULL for a file that is missing or malformed; the message
\* is printed, and the root element of the NULL document is dereferenced.
ReadDocument ==
    /\ reader = "start"
    /\ IF document.wellFormed THEN sections' = document.sections /\ reader' = "sections"
                              ELSE reader' = "segfault" /\ UNCHANGED sections
    /\ UNCHANGED <<document, nodes, newGroup, rules, m_groups, m_options>>

\* The next child of the root, if there is one.
SectionIs(name) == sections # <<>> /\ Head(sections).name = name
SkipsSection == /\ sections # <<>>
                /\ Head(sections).name \notin {"application-groups", "options"}

NextSection ==
    /\ reader = "sections"
    /\ \/ /\ sections = <<>>
          /\ reader' = "done"
          /\ UNCHANGED <<sections, nodes>>
       \/ /\ SectionIs("application-groups")
          /\ nodes' = Head(sections).nodes
          /\ reader' = "groups"
          /\ sections' = Tail(sections)
       \/ /\ SectionIs("options")
          /\ nodes' = Head(sections).nodes
          /\ reader' = "options"
          /\ sections' = Tail(sections)
       \/ /\ SkipsSection
          /\ sections' = Tail(sections)
          /\ UNCHANGED <<nodes, reader>>
    /\ UNCHANGED <<document, newGroup, rules, m_groups, m_options>>

\* A group has an id, and its rules are read next.
StartGroup(group) ==
    /\ newGroup' = group
    /\ rules' = Head(nodes).rules
    /\ reader' = "rules"

\* A node that is no group to start with: a comment is skipped, anything else
\* throws; without an id, atoi is called with NULL.
NotAGroup ==
    /\ \/ Head(nodes).name = "comment" /\ UNCHANGED reader
       \/ Head(nodes).name = "group" /\ ~Head(nodes).id.given /\ reader' = "segfault"
       \/ Head(nodes).name \notin {"comment", "group"} /\ reader' = "exception"
    /\ UNCHANGED <<newGroup, rules>>

IsGroup(node) == node.name = "group" /\ node.id.given

\* Slip: newGroup lives outside the loop, and keeps the rules it has.
NextGroupKeepsRules ==
    /\ reader = "groups"
    /\ nodes # <<>>
    /\ nodes' = Tail(nodes)
    /\ \/ /\ IsGroup(Head(nodes))
          /\ StartGroup([newGroup EXCEPT !.id = atoi(Head(nodes).id)])
       \/ NotAGroup
    /\ UNCHANGED <<document, sections, m_groups, m_options>>

\* processGroups takes the next node.
NextGroup ==
    /\ reader = "groups"
    /\ nodes # <<>>
    /\ nodes' = Tail(nodes)
    /\ \/ IsGroup(Head(nodes)) /\ StartGroup(Group(atoi(Head(nodes).id)))
       \/ NotAGroup
    /\ UNCHANGED <<document, sections, m_groups, m_options>>

\* processGroups or processOptions has no node left.
EndOfSection ==
    /\ reader \in {"groups", "options"}
    /\ nodes = <<>>
    /\ reader' = "sections"
    /\ UNCHANGED <<document, sections, nodes, newGroup, rules, m_groups, m_options>>

\* Slip: the contents of a rule are not checked.
ThrowsByName(rule) == rule.name \notin {"rule", "comment"}

\* A rule that throws: an element of another name, or one of the known types with
\* anything but one text in it.
Throws(rule) == \/ rule.name \notin {"rule", "comment"}
                \/ rule.name = "rule" /\ rule.type \in RuleTypes /\ rule.text = ""

\* A rule that is added to the group; one of another type is ignored.
IsAdded(rule) == rule.name = "rule" /\ rule.type \in RuleTypes /\ ~Throws(rule)

NextRule ==
    /\ reader = "rules"
    /\ rules # <<>>
    /\ LET rule == Head(rules)
       IN  /\ reader' = IF Throws(rule) THEN "exception" ELSE reader
           /\ newGroup' = IF IsAdded(rule)
                          THEN [newGroup EXCEPT !.rules[rule.type] = @ \cup {rule.text}]
                          ELSE newGroup
    /\ rules' = Tail(rules)
    /\ UNCHANGED <<document, sections, nodes, m_groups, m_options>>

\* The group is added, with rules or without.
AddGroup ==
    /\ reader = "rules"
    /\ rules = <<>>
    /\ m_groups' = Append(m_groups, newGroup)
    /\ reader' = "groups"
    /\ UNCHANGED <<document, sections, nodes, newGroup, rules, m_options>>

\* A flag of a debug element: a missing attribute is "off", and any other value
\* than the two leaves the flag as it was.
FlagAfter(flag, attribute) == attribute = "on" \/ (attribute = "other" /\ flag)

\* processOptions; what is neither debug nor cluster is skipped.  Nothing reads the
\* options it sets: StorageSqlite has a size of clusters of its own.
NextOption ==
    /\ reader = "options"
    /\ nodes # <<>>
    /\ \/ /\ Head(nodes).name = "debug"
          /\ m_options' = [m_options EXCEPT !.flags =
                              [f \in Flags |-> FlagAfter(@[f], Head(nodes).flags[f])]]
       \/ /\ Head(nodes).name = "cluster" /\ Head(nodes).size.given
          /\ m_options' = [m_options EXCEPT !.clusterSize = atoi(Head(nodes).size)]
       \/ /\ Head(nodes).name # "debug"
          /\ ~(Head(nodes).name = "cluster" /\ Head(nodes).size.given)
          /\ UNCHANGED m_options
    /\ nodes' = Tail(nodes)
    /\ UNCHANGED <<document, sections, newGroup, rules, m_groups, reader>>

\* Options::Options, but for the size of a cluster: the constructor sets a local
\* variable of its name, and the member is uninitialised.
DefaultOptions == [flags |-> [f \in Flags |-> f = "debugUseStdErr"], clusterSize |-> 0]

ConfigInit == /\ document \in Documents
              /\ sections = <<>> /\ nodes = <<>> /\ rules = <<>>
              /\ newGroup = NoGroup
              /\ m_groups = <<>>
              /\ m_options = DefaultOptions
              /\ reader = "start"

ReadConfig == \/ ReadDocument \/ NextSection
              \/ NextGroup \/ NextRule \/ AddGroup
              \/ NextOption \/ EndOfSection

-----------------------------------------------------------------------------
(* Main.readConfig of Keyvis                                               *)

\* Where a group is: the section it is in, and its place among the nodes there.
GroupPlaces(doc) ==
    UNION {{i} \X {j \in DOMAIN doc.sections[i].nodes : doc.sections[i].nodes[j].name = "group"} :
           i \in {k \in DOMAIN doc.sections : doc.sections[k].name = "application-groups"}}

NodeAt(doc, place) == doc.sections[place[1]].nodes[place[2]]

\* The places of the groups that come before a place in the document.
Before(doc, place) ==
    {p \in GroupPlaces(doc) : p[1] < place[1] \/ (p[1] = place[1] /\ p[2] < place[2])}

\* What selectNodes("/keyfrog/application-groups/group") finds: the path asks for
\* names that are in no namespace, unlike the names that ConfigReader compares.
InNoNamespace(doc, place) == doc.sections[place[1]].plain /\ NodeAt(doc, place).plain

\* Slip: only the first section.
FirstSectionPlaces(doc) ==
    {p \in GroupPlaces(doc) : doc.root = "keyfrog" /\ InNoNamespace(doc, p) /\ p[1] = 1}

SelectedPlaces(doc) ==
    {p \in GroupPlaces(doc) : doc.root = "keyfrog" /\ InNoNamespace(doc, p)}

\* It returns true: every group has a name and a number for an id.
KeyvisAccepts(doc) ==
    /\ doc.wellFormed
    /\ \A p \in SelectedPlaces(doc) : NodeAt(doc, p).label # "" /\ NodeAt(doc, p).id.numeric

Ids == -(IntMax + 1)..IntMax

\* id.intValue() of a Double saturates.
intValue(id) == CASE id.number \in Ids -> id.number
                  [] id.number > IntMax -> IntMax
                  [] OTHER -> -(IntMax + 1)

\* m_groupIdToName has the name of the group of this place for an id: of the groups
\* with one key, the last to be put is the one that stays.
NamedAfter(doc, id, place) ==
    /\ place \in SelectedPlaces(doc) /\ intValue(NodeAt(doc, place).id) = id
    /\ \A p \in SelectedPlaces(doc) :
           intValue(NodeAt(doc, p).id) = id => p = place \/ p \in Before(doc, place)

-----------------------------------------------------------------------------
(* Properties                                                              *)

RulesAsWritten(written) ==
    [t \in RuleTypes |->
        {written[i].text : i \in {j \in DOMAIN written : written[j].name = "rule"
                                                         /\ written[j].type = t}}]

\* What the reader passes on from one function to the next; a rule is never empty.
GroupRecords == [id : Ids, rules : [RuleTypes -> SUBSET (STRING \ {""})]]
ReaderInv == /\ sections \in Seq(SectionElements)
             /\ reader \in {"groups", "rules"} => nodes \in Seq(GroupElements)
             /\ reader = "options" => nodes \in Seq(OptionElements)
             /\ newGroup \in GroupRecords
             /\ rules \in Seq(RuleElements)
             /\ m_groups \in Seq(GroupRecords)

AsWritten(node) == [id |-> atoi(node.id), rules |-> RulesAsWritten(node.rules)]

\* The i-th group is as it is written in the i-th place.
InPlace(i, place) == /\ Cardinality(Before(document, place)) = i - 1
                     /\ m_groups[i] = AsWritten(NodeAt(document, place))

\* Once the reader is done the filter has the groups of the document, in its
\* order, each with its own rules and no other; until then it has a beginning of
\* them, also where the reader gives up.
GroupsAsWritten ==
    LET places == GroupPlaces(document)
    IN  /\ Len(m_groups) <= Cardinality(places)
        /\ \A i \in DOMAIN m_groups : \E p \in places : InPlace(i, p)
        /\ reader = "done" => Len(m_groups) = Cardinality(places)

\* What has been read of a list of which these are left.
Taken(left, all) == Len(all) - Len(left)
Suffix(left, all) == /\ Len(left) <= Len(all)
                     /\ \A i \in DOMAIN left : left[i] = all[Taken(left, all) + i]

\* The groups are those before a place.
ReadBefore(place) == /\ Len(m_groups) = Cardinality(Before(document, place))
                     /\ \A i \in DOMAIN m_groups :
                            \E p \in Before(document, place) : InPlace(i, p)

\* The section and the node, of the document and of the section, that were taken last.
SectionTaken == Taken(sections, document.sections)
NodeTaken == Taken(nodes, document.sections[SectionTaken].nodes)

\* newGroup is the node but for the rules that are still to come.
RulesToCome(node) ==
    /\ node.name = "group" /\ newGroup.id = atoi(node.id)
    /\ \A t \in RuleTypes :
           RulesAsWritten(node.rules)[t] = newGroup.rules[t] \cup RulesAsWritten(rules)[t]

\* On the way there: the reader is at a place of the document, the groups before
\* that are read, and the one that is being read lacks the rules still to come.
WrittenInv ==
    /\ reader = "start" => m_groups = <<>>
    /\ reader \notin {"start", "exception", "segfault"} => Suffix(sections, document.sections)
    /\ reader = "done" => sections = <<>>
    /\ reader \in {"sections", "options", "done"} => ReadBefore(<<SectionTaken + 1, 1>>)
    /\ reader \in {"groups", "rules"} =>
           /\ SectionTaken > 0
           /\ document.sections[SectionTaken].name = "application-groups"
           /\ Suffix(nodes, document.sections[SectionTaken].nodes)
    /\ reader = "groups" => ReadBefore(<<SectionTaken, NodeTaken + 1>>)
    /\ reader = "rules" => /\ NodeTaken > 0
                           /\ ReadBefore(<<SectionTaken, NodeTaken>>)
                           /\ RulesToCome(NodeAt(document, <<SectionTaken, NodeTaken>>))
    /\ GroupsAsWritten
=============================================================================
