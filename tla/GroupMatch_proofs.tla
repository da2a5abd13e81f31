-------------------------- MODULE GroupMatch_proofs --------------------------
(***************************************************************************)
(* Proofs about GroupMatch, for every set of documents and windows and     *)
(* every width of int: which group a key press gets.                       *)
(***************************************************************************)
EXTENDS GroupMatch, SequenceTheorems, FiniteSetTheorems, TLAPS

\* atoi gives an int, whatever the digits are.
LEMMA AtoiIsInt ==
    ASSUME NEW id \in IdAttributes
    PROVE  atoi(id) \in Ids
<1> DEFINE m == 2 * (IntMax + 1)
           v == id.leading + IntMax + 1
<1>1. /\ IntMax \in Nat /\ m \in Nat \ {0} /\ v \in Int
  BY ConfigAssumption DEF IdAttributes
<1>2. v % m \in 0..(m - 1)
  <2> HIDE DEF m, v
  <2> QED BY <1>1
<1>3. atoi(id) = (v % m) - IntMax - 1
  BY DEF atoi
<1> HIDE DEF v
<1> QED BY <1>1, <1>2, <1>3 DEF Ids

LEMMA RecordsAreRecords ==
    ASSUME NEW id \in Ids
    PROVE  Group(id) \in GroupRecords
BY DEF Group, GroupRecords

\* What is taken from the front of a list has the type of the list.
LEMMA HeadAndTail ==
    ASSUME NEW S, NEW list \in Seq(S), list # <<>>
    PROVE  Head(list) \in S /\ Tail(list) \in Seq(S)
BY HeadTailProperties

-----------------------------------------------------------------------------
(* The start, and the reader                                               *)

LEMMA MatchInvInit ==
    ASSUME Init
    PROVE  MatchInv
<1> USE DEF Init, ConfigInit
<1>1. 0 \in Ids /\ -1 \in Ids
  BY ConfigAssumption DEF Ids
<1>2. /\ <<>> \in Seq(SectionElements) /\ <<>> \in Seq(RuleElements)
      /\ <<>> \in Seq(GroupRecords) /\ m_groups = <<>> /\ Len(m_groups) = 0
  BY EmptySeq
<1>3. TypeOK
  BY <1>1, <1>2 DEF TypeOK, DefaultOptions, Matching, RuleTypes
<1>4. ReaderInv
  BY <1>1, <1>2, RecordsAreRecords DEF ReaderInv, NoGroup
<1>5. SearchInv
  BY DEF SearchInv, Matching, RuleTypes
<1> QED BY <1>3, <1>4, <1>5 DEF MatchInv

\* No press is matched while the document is read, so that the reader has to
\* keep no more than its own types.
LEMMA ReaderStep ==
    ASSUME MatchInv, ReadConfig, UNCHANGED matchVars, document \in Documents
    PROVE  MatchInv'
<1> USE DEF MatchInv, TypeOK
<1>1. reader # "done"
  BY DEF ReadConfig, ReadDocument, NextSection, NextGroup, NextRule, AddGroup, NextOption,
     EndOfSection
<1>2. stage = "idle" /\ stage' = "idle"
  BY <1>1 DEF matchVars
<1>3. ~Matching'
  BY <1>2 DEF Matching, RuleTypes
<1>4. SearchInv'
  BY <1>3 DEF SearchInv
<1>5. window' = window /\ next' = next /\ gid' = gid
  BY DEF matchVars
<1>6. document.sections \in Seq(SectionElements)
  BY DocumentsAssumption
<1> DEFINE Kept == /\ ReaderInv'
                  /\ reader' \in {"start", "sections", "groups", "rules", "options", "done",
                                  "exception", "segfault"}
                  /\ m_options' \in [flags : [Flags -> BOOLEAN], clusterSize : Ids]
                  /\ Len(m_groups') >= Len(m_groups)
<1>7. SUFFICES Kept
  <2>1. m_groups' \in Seq(GroupRecords)
    BY <1>7 DEF ReaderInv
  <2>2. \A i \in 1..Len(m_groups') : m_groups'[i] \in GroupRecords
    BY <2>1, ElementOfSeq
  <2>3. \A i \in DOMAIN m_groups' : m_groups'[i].id \in Ids
    BY <2>1, <2>2, LenProperties DEF GroupRecords
  <2>4. Len(m_groups) \in Nat /\ Len(m_groups') \in Nat
    BY <2>1, LenProperties DEF ReaderInv
  <2>5. next' \in 1..(Len(m_groups') + 1)
    BY <1>5, <1>7, <2>4
  <2>6. TypeOK'
    BY <1>2, <1>3, <1>5, <1>7, <2>3, <2>5
  <2>7. window' \in WindowInfos \cup {NoWindow} /\ (stage' = "idle" => gid' = -1)
    BY <1>2, <1>5
  <2> HIDE DEF TypeOK
  <2> QED BY <1>4, <1>7, <2>6, <2>7
<1>8. Len(m_groups) \in Nat
  BY LenProperties DEF ReaderInv
<1>9. CASE ReadDocument
  BY <1>6, <1>8, <1>9 DEF ReadDocument, ReaderInv
<1>10. CASE NextSection
  <2>1. CASE sections = <<>>
    BY <1>8, <1>10, <2>1 DEF NextSection, SectionIs, SkipsSection, ReaderInv
  <2>2. CASE sections # <<>>
    <3>1. Head(sections) \in SectionElements /\ Tail(sections) \in Seq(SectionElements)
      BY <2>2, HeadAndTail DEF ReaderInv
    <3>2. /\ Head(sections).name = "application-groups" =>
                 Head(sections).nodes \in Seq(GroupElements)
          /\ Head(sections).name = "options" => Head(sections).nodes \in Seq(OptionElements)
      BY <3>1 DEF SectionElements
    <3>3. /\ sections' = Tail(sections)
          /\ UNCHANGED <<newGroup, rules, m_groups, m_options>>
          /\ \/ reader' = "groups" /\ nodes' \in Seq(GroupElements)
             \/ reader' = "options" /\ nodes' \in Seq(OptionElements)
             \/ reader' = "sections" /\ nodes' = nodes
      BY <1>10, <2>2, <3>2 DEF NextSection, SectionIs, SkipsSection
    <3> QED BY <1>8, <3>1, <3>3 DEF ReaderInv
  <2> QED BY <2>1, <2>2
<1>11. CASE NextGroup
  <2>1. nodes \in Seq(GroupElements) /\ nodes # <<>>
    BY <1>11 DEF NextGroup, ReaderInv
  <2>2. Head(nodes) \in GroupElements /\ Tail(nodes) \in Seq(GroupElements)
    BY <2>1, HeadAndTail
  <2>3. Head(nodes).id \in IdAttributes /\ Head(nodes).rules \in Seq(RuleElements)
    BY <2>2 DEF GroupElements
  <2>4. Group(atoi(Head(nodes).id)) \in GroupRecords
    BY <2>3, AtoiIsInt, RecordsAreRecords
  <2>5. /\ nodes' = Tail(nodes)
        /\ UNCHANGED <<sections, m_groups, m_options>>
        /\ newGroup' \in GroupRecords /\ rules' \in Seq(RuleElements)
        /\ reader' \in {"groups", "rules", "segfault", "exception"}
    BY <1>11, <2>3, <2>4 DEF NextGroup, StartGroup, NotAGroup, ReaderInv
  <2> QED BY <1>8, <2>2, <2>5 DEF ReaderInv
<1>12. CASE NextRule
  <2> DEFINE rule == Head(rules)
  <2>1. rule \in RuleElements /\ Tail(rules) \in Seq(RuleElements)
    BY <1>12, HeadAndTail DEF NextRule, ReaderInv
  <2>2. nodes \in Seq(GroupElements) /\ newGroup \in GroupRecords
    BY <1>12 DEF NextRule, ReaderInv
  <2>3. newGroup' \in GroupRecords
    <3>1. CASE IsAdded(rule)
      <4>1. rule.type \in RuleTypes /\ rule.text \in STRING \ {""}
        BY <2>1, <3>1 DEF IsAdded, Throws, RuleElements
      <4>2. newGroup' = [newGroup EXCEPT !.rules[rule.type] = @ \cup {rule.text}]
        BY <1>12, <3>1 DEF NextRule
      <4> HIDE DEF rule
      <4> QED BY <2>2, <4>1, <4>2 DEF GroupRecords
    <3>2. CASE ~IsAdded(rule)
      BY <1>12, <2>2, <3>2 DEF NextRule
    <3> QED BY <3>1, <3>2
  <2>4. /\ reader' \in {"exception", "rules"}
        /\ rules' = Tail(rules)
        /\ UNCHANGED <<sections, nodes, m_groups, m_options>>
    BY <1>12 DEF NextRule
  <2> QED BY <1>8, <2>1, <2>2, <2>3, <2>4 DEF ReaderInv
<1>13. CASE AddGroup
  <2>1. /\ m_groups' \in Seq(GroupRecords)
        /\ Len(m_groups') = Len(m_groups) + 1
    BY <1>13, AppendProperties DEF AddGroup, ReaderInv
  <2> QED BY <1>8, <1>13, <2>1 DEF AddGroup, ReaderInv
<1>14. CASE NextOption
  <2>1. nodes \in Seq(OptionElements) /\ nodes # <<>>
    BY <1>14 DEF NextOption, ReaderInv
  <2>2. Head(nodes) \in OptionElements /\ Tail(nodes) \in Seq(OptionElements)
    BY <2>1, HeadAndTail
  <2>3. atoi(Head(nodes).size) \in Ids
    BY <2>2, AtoiIsInt DEF OptionElements
  <2>4. \A f \in Flags : FlagAfter(m_options.flags[f], Head(nodes).flags[f]) \in BOOLEAN
    BY DEF FlagAfter
  <2>5. m_options' \in [flags : [Flags -> BOOLEAN], clusterSize : Ids]
    BY <1>14, <2>3, <2>4 DEF NextOption
  <2> QED BY <1>8, <1>14, <2>2, <2>5 DEF NextOption, ReaderInv
<1>15. CASE EndOfSection
  BY <1>8, <1>15 DEF EndOfSection, ReaderInv
<1> QED BY <1>9, <1>10, <1>11, <1>12, <1>13, <1>14, <1>15 DEF ReadConfig

-----------------------------------------------------------------------------
(* One kind of rules                                                       *)

LEMMA MinIsLeast ==
    ASSUME NEW S \in SUBSET Int, NEW x \in S, \A y \in S : x <= y
    PROVE  Min(S) = x
<1>1. Min(S) \in S /\ \A y \in S : Min(S) <= y
  BY Zenon DEF Min
<1>2. Min(S) \in Int /\ x \in Int /\ Min(S) <= x /\ x <= Min(S)
  BY <1>1
<1> QED BY <1>2

\* The first group that matches gives FirstMatch.
LEMMA FirstMatchFound ==
    ASSUME m_groups \in Seq(GroupRecords), NEW type, NEW n \in 1..Len(m_groups),
           Matches(m_groups[n], type),
           \A i \in 1..(n - 1) : ~Matches(m_groups[i], type)
    PROVE  FirstMatch(type) = m_groups[n].id
<1> DEFINE matching == {i \in DOMAIN m_groups : Matches(m_groups[i], type)}
<1>1. DOMAIN m_groups = 1..Len(m_groups) /\ Len(m_groups) \in Nat
  BY LenProperties
<1>2. n \in matching /\ matching \in SUBSET Int
  BY <1>1
<1>3. \A i \in matching : n <= i
  BY <1>1
<1>4. Min(matching) = n
  <2> HIDE DEF matching
  <2> QED BY <1>2, <1>3, MinIsLeast
<1> QED BY <1>2, <1>4 DEF FirstMatch

LEMMA FirstMatchNone ==
    ASSUME m_groups \in Seq(GroupRecords), NEW type,
           \A i \in 1..Len(m_groups) : ~Matches(m_groups[i], type)
    PROVE  FirstMatch(type) = -1
<1>1. DOMAIN m_groups = 1..Len(m_groups)
  BY LenProperties
<1>2. {i \in DOMAIN m_groups : Matches(m_groups[i], type)} = {}
  BY <1>1
<1> QED BY <1>2 DEF FirstMatch

\* What setGroupId tries next is the next of the window's types.
LEMMA AfterIsNext ==
    ASSUME NEW w \in WindowInfos \cup {NoWindow}, NEW k \in DOMAIN Stages(w)
    PROVE  /\ DOMAIN Stages(w) = 1..Len(Stages(w)) /\ Len(Stages(w)) \in Nat
           /\ Stages(w)[k] \in RuleTypes
           /\ After(Stages(w)[k]) = IF k = Len(Stages(w)) THEN "matched"
                                    ELSE Stages(w)[k + 1]
<1>1. w.hasPid \in BOOLEAN
  <2>1. CASE w \in WindowInfos
    BY <2>1, WindowsAssumption
  <2>2. CASE w = NoWindow
    BY <2>2 DEF NoWindow
  <2> QED BY <2>1, <2>2
<1>2. CASE ~w.hasPid
  <2>1. Stages(w) = <<"windowClassName">>
    BY <1>2 DEF Stages
  <2> QED BY <2>1 DEF After, RuleTypes
<1>3. CASE w.hasPid /\ w.class \in TerminalNames
  <2>1. Stages(w) = <<"terminalProcessName", "processName", "windowClassName">>
    BY <1>3 DEF Stages
  <2> QED BY <2>1 DEF After, RuleTypes
<1>4. CASE w.hasPid /\ w.class \notin TerminalNames
  <2>1. Stages(w) = <<"processName", "windowClassName">>
    BY <1>4 DEF Stages
  <2> QED BY <2>1 DEF After, RuleTypes
<1> QED BY <1>1, <1>2, <1>3, <1>4

-----------------------------------------------------------------------------
(* The steps of setGroupId                                                 *)

DecidedInv == document \in Documents /\ MatchInv /\ FirstRuleDecides

LEMMA SetGroupIdStep ==
    ASSUME DecidedInv, NEW w \in WindowInfos, SetGroupId(w)
    PROVE  DecidedInv'
<1> USE DEF DecidedInv, MatchInv
<1>1. w.hasPid \in BOOLEAN
  BY WindowsAssumption
<1>2. /\ reader = "done" /\ UNCHANGED configVars
      /\ window' = w /\ next' = 1 /\ gid' = -1
      /\ stage' \in RuleTypes
      /\ stage' = Stages(w)[1] /\ 1 \in DOMAIN Stages(w)
  BY <1>1 DEF SetGroupId, Stages, RuleTypes
<1>3. m_groups' = m_groups /\ Len(m_groups) \in Nat /\ -1 \in Ids
  BY <1>2, LenProperties, ConfigAssumption DEF configVars, ReaderInv, Ids
<1>4. TypeOK'
  BY <1>2, <1>3 DEF TypeOK, configVars, Matching
<1>5. ReaderInv'
  BY <1>2 DEF ReaderInv, configVars
<1>6. SearchInv'
  <2>1. \A i \in 1..(next' - 1) : FALSE
    BY <1>2
  <2>2. /\ Stages(window')[1] = stage' /\ 1 \in DOMAIN Stages(window')
        /\ \A j \in 1..(1 - 1) : FALSE
    BY <1>2
  <2> QED BY <2>1, <2>2 DEF SearchInv
<1>7. stage' # "idle" /\ stage' # "matched"
  BY <1>2 DEF RuleTypes
<1>8. FirstRuleDecides'
  BY <1>7 DEF FirstRuleDecides
<1> QED BY <1>2, <1>4, <1>5, <1>6, <1>7, <1>8 DEF configVars

LEMMA SkipGroupStep ==
    ASSUME DecidedInv, SkipGroup
    PROVE  DecidedInv'
<1> USE DEF DecidedInv, MatchInv
<1>1. /\ next <= Len(m_groups) /\ ~Matches(m_groups[next], stage)
      /\ next' = next + 1
      /\ UNCHANGED <<configVars, window, stage, gid>>
      /\ Matching /\ stage \in RuleTypes
  BY DEF SkipGroup, Matching
<1>2. Len(m_groups) \in Nat /\ next \in 1..(Len(m_groups) + 1)
  BY LenProperties DEF ReaderInv, TypeOK
<1>3. TypeOK'
  BY <1>1, <1>2 DEF TypeOK, configVars, Matching
<1>4. ReaderInv'
  BY <1>1 DEF ReaderInv, configVars
<1>5. m_groups' = m_groups
  BY <1>1 DEF configVars
<1>6. \A type : FirstMatch(type)' = FirstMatch(type)
  BY <1>1, <1>5 DEF FirstMatch, Matches, NamesFor
<1>7. \A i \in 1..(next' - 1) : ~Matches(m_groups[i], stage)'
  <2>1. \A i \in 1..next : ~Matches(m_groups[i], stage)
    BY <1>1, <1>2 DEF SearchInv
  <2> QED BY <1>1, <1>2, <1>5, <2>1 DEF Matches, NamesFor
<1>8. SearchInv'
  <2>1. PICK k \in DOMAIN Stages(window) :
            /\ Stages(window)[k] = stage
            /\ \A j \in 1..(k - 1) : FirstMatch(Stages(window)[j]) = -1
    BY <1>1 DEF SearchInv
  <2>2. \A j \in 1..(k - 1) : FirstMatch(Stages(window)[j])' = -1
    BY <1>1, <1>6, <2>1
  <2>3. /\ k \in DOMAIN Stages(window') /\ Stages(window')[k] = stage'
    BY <1>1, <2>1
  <2> QED BY <1>7, <2>2, <2>3 DEF SearchInv
<1>9. stage' # "idle" /\ stage' # "matched"
  BY <1>1 DEF RuleTypes
<1>10. FirstRuleDecides'
  BY <1>9 DEF FirstRuleDecides
<1> QED BY <1>1, <1>3, <1>4, <1>8, <1>9, <1>10 DEF configVars

\* A match function returns: what it found is the decision, or the next one is
\* called.
LEMMA StageDecided ==
    ASSUME DecidedInv, Matching, NEW result \in Ids, FirstMatch(stage) = result,
           gid' = result, next' = 1,
           stage' = IF result = -1 THEN After(stage) ELSE "matched",
           UNCHANGED <<configVars, window>>
    PROVE  DecidedInv'
<1> USE DEF DecidedInv, MatchInv
<1>1. PICK k \in DOMAIN Stages(window) :
          /\ Stages(window)[k] = stage
          /\ \A j \in 1..(k - 1) : FirstMatch(Stages(window)[j]) = -1
  BY DEF SearchInv
<1>2. /\ DOMAIN Stages(window) = 1..Len(Stages(window)) /\ Len(Stages(window)) \in Nat
      /\ After(stage) = IF k = Len(Stages(window)) THEN "matched"
                        ELSE Stages(window)[k + 1]
      /\ \A j \in DOMAIN Stages(window) : Stages(window)[j] \in RuleTypes
  BY <1>1, AfterIsNext
<1>3. /\ m_groups' = m_groups /\ reader' = reader /\ m_options' = m_options
      /\ Stages(window)' = Stages(window)
  BY DEF configVars, Stages
<1>4. \A type : FirstMatch(type)' = FirstMatch(type)
  BY <1>3 DEF FirstMatch, Matches, NamesFor
<1>5. ReaderInv'
  BY DEF ReaderInv, configVars
<1>6. reader = "done" /\ Len(m_groups) \in Nat
  BY LenProperties DEF TypeOK, Matching, RuleTypes, ReaderInv
<1>7. SUFFICES /\ stage' \in RuleTypes \cup {"matched"}
               /\ Matching' => result = -1
               /\ SearchInv'
               /\ FirstRuleDecides'
  <2>1. TypeOK'
    BY <1>3, <1>6, <1>7 DEF TypeOK
  <2>2. stage' # "idle"
    BY <1>7 DEF RuleTypes
  <2> QED BY <1>5, <1>7, <2>1, <2>2 DEF configVars
<1> DEFINE found == {j \in DOMAIN Stages(window) : FirstMatch(Stages(window)[j]) # -1}
<1>8. found' = found
  BY <1>3, <1>4
<1>9. CASE result # -1
  <2>1. stage' = "matched" /\ ~Matching'
    BY <1>9 DEF Matching, RuleTypes
  <2>2. k \in found /\ found \in SUBSET Int
    BY <1>1, <1>2, <1>9
  <2>3. \A j \in found : k <= j
    BY <1>1, <1>2
  <2>4. Min(found) = k /\ found # {}
    <3> HIDE DEF found
    <3> QED BY <2>2, <2>3, MinIsLeast
  <2>5. gid' = FirstMatch(Stages(window)[Min(found)])
    BY <1>1, <2>4
  <2>6. FirstRuleDecides'
    BY <1>3, <1>4, <1>8, <2>4, <2>5 DEF FirstRuleDecides
  <2> QED BY <2>1, <2>6 DEF SearchInv
<1>10. CASE result = -1 /\ k # Len(Stages(window))
  <2>1. /\ k + 1 \in DOMAIN Stages(window)
        /\ stage' = Stages(window)[k + 1]
    BY <1>1, <1>2, <1>10
  <2>2. stage' \in RuleTypes /\ stage' # "matched"
    BY <1>2, <2>1 DEF RuleTypes
  <2>3. \A j \in 1..k : FirstMatch(Stages(window)[j])' = -1
    BY <1>1, <1>2, <1>3, <1>4, <1>10
  <2>4. \A j \in 1..((k + 1) - 1) : FirstMatch(Stages(window)[j])' = -1
    BY <1>2, <2>3
  <2>5. \A i \in 1..(next' - 1) : FALSE
    OBVIOUS
  <2>6. SearchInv'
    BY <1>3, <2>1, <2>4, <2>5 DEF SearchInv
  <2> QED BY <1>10, <2>2, <2>6 DEF FirstRuleDecides
<1>11. CASE result = -1 /\ k = Len(Stages(window))
  <2>1. stage' = "matched" /\ ~Matching'
    BY <1>2, <1>11 DEF Matching, RuleTypes
  <2>2. found = {}
    BY <1>1, <1>2, <1>11
  <2>3. FirstRuleDecides'
    BY <1>8, <1>11, <2>2 DEF FirstRuleDecides
  <2> QED BY <2>1, <2>3 DEF SearchInv
<1> QED BY <1>9, <1>10, <1>11

LEMMA MatchGroupStep ==
    ASSUME DecidedInv, MatchGroup
    PROVE  DecidedInv'
<1>1. /\ m_groups \in Seq(GroupRecords) /\ Len(m_groups) \in Nat
      /\ next \in 1..(Len(m_groups) + 1) /\ next <= Len(m_groups)
      /\ Matching /\ Matches(m_groups[next], stage)
      /\ \A i \in 1..(next - 1) : ~Matches(m_groups[i], stage)
  BY LenProperties DEF DecidedInv, MatchInv, ReaderInv, TypeOK, SearchInv, MatchGroup
<1>2. next \in 1..Len(m_groups)
  BY <1>1
<1>3. FirstMatch(stage) = m_groups[next].id
  BY <1>1, <1>2, FirstMatchFound
<1>4. m_groups[next] \in GroupRecords
  BY <1>1, <1>2, ElementOfSeq
<1>5. m_groups[next].id \in Ids
  BY <1>4 DEF GroupRecords
<1> QED BY <1>1, <1>3, <1>5, StageDecided DEF MatchGroup

LEMMA NoGroupMatchesStep ==
    ASSUME DecidedInv, NoGroupMatches
    PROVE  DecidedInv'
<1>1. /\ m_groups \in Seq(GroupRecords) /\ Len(m_groups) \in Nat
      /\ next \in 1..(Len(m_groups) + 1) /\ next > Len(m_groups)
      /\ Matching /\ gid = -1
      /\ \A i \in 1..(next - 1) : ~Matches(m_groups[i], stage)
  BY LenProperties DEF DecidedInv, MatchInv, ReaderInv, TypeOK, SearchInv, NoGroupMatches
<1>2. \A i \in 1..Len(m_groups) : ~Matches(m_groups[i], stage)
  BY <1>1
<1>3. FirstMatch(stage) = -1 /\ -1 \in Ids
  BY <1>1, <1>2, FirstMatchNone, ConfigAssumption DEF Ids
<1> QED BY <1>1, <1>3, StageDecided DEF NoGroupMatches

LEMMA EventQueuedStep ==
    ASSUME DecidedInv, EventQueued
    PROVE  DecidedInv'
<1> USE DEF DecidedInv, MatchInv
<1>1. /\ stage = "matched" /\ stage' = "idle"
      /\ window' = NoWindow /\ gid' = -1 /\ next' = next
      /\ UNCHANGED configVars
  BY DEF EventQueued
<1>2. -1 \in Ids /\ ~Matching'
  BY <1>1, ConfigAssumption DEF Ids, Matching, RuleTypes
<1>3. TypeOK' /\ ReaderInv'
  BY <1>1, <1>2 DEF TypeOK, ReaderInv, configVars
<1>4. SearchInv' /\ FirstRuleDecides'
  BY <1>1, <1>2 DEF SearchInv, FirstRuleDecides
<1> QED BY <1>1, <1>3, <1>4 DEF configVars

-----------------------------------------------------------------------------
(* The places of the groups in a document                                  *)

\* The nodes of an application-groups are those of groups, or stand where one may.
LEMMA SectionsAre ==
    ASSUME NEW doc \in Documents
    PROVE  /\ doc.sections \in Seq(SectionElements)
           /\ Len(doc.sections) \in Nat
           /\ DOMAIN doc.sections = 1..Len(doc.sections)
           /\ \A s \in DOMAIN doc.sections :
                  doc.sections[s].name = "application-groups" =>
                      /\ doc.sections[s].nodes \in Seq(GroupElements)
                      /\ Len(doc.sections[s].nodes) \in Nat
                      /\ DOMAIN doc.sections[s].nodes = 1..Len(doc.sections[s].nodes)
<1>1. /\ doc.sections \in Seq(SectionElements)
      /\ Len(doc.sections) \in Nat
      /\ DOMAIN doc.sections = 1..Len(doc.sections)
  BY DocumentsAssumption, LenProperties
<1>2. ASSUME NEW s \in DOMAIN doc.sections, doc.sections[s].name = "application-groups"
      PROVE  doc.sections[s].nodes \in Seq(GroupElements)
  <2>1. doc.sections[s] \in SectionElements
    BY <1>1, ElementOfSeq
  <2> QED BY <1>2, <2>1 DEF SectionElements
<1> QED BY <1>1, <1>2, LenProperties

LEMMA PlacesAre ==
    ASSUME NEW doc \in Documents
    PROVE  /\ GroupPlaces(doc) \subseteq Nat \X Nat
           /\ \A s, n : <<s, n>> \in GroupPlaces(doc) <=>
                            /\ s \in DOMAIN doc.sections
                            /\ doc.sections[s].name = "application-groups"
                            /\ n \in DOMAIN doc.sections[s].nodes
                            /\ doc.sections[s].nodes[n].name = "group"
<1>1. \A p : p \in GroupPlaces(doc) <=>
                 \E s \in DOMAIN doc.sections :
                     /\ doc.sections[s].name = "application-groups"
                     /\ \E n \in DOMAIN doc.sections[s].nodes :
                            p = <<s, n>> /\ doc.sections[s].nodes[n].name = "group"
  BY DEF GroupPlaces
<1>2. GroupPlaces(doc) \subseteq Nat \X Nat
  BY <1>1, SectionsAre
<1> QED BY <1>1, <1>2

LEMMA PlacesFinite ==
    ASSUME NEW doc \in Documents
    PROVE  IsFiniteSet(GroupPlaces(doc))
<1> DEFINE I == {k \in DOMAIN doc.sections : doc.sections[k].name = "application-groups"}
           J(i) == {j \in DOMAIN doc.sections[i].nodes : doc.sections[i].nodes[j].name = "group"}
           f == [i \in I |-> {i} \X J(i)]
           T == {f[i] : i \in I}
<1>1. IsFiniteSet(I)
  <2>1. IsFiniteSet(1..Len(doc.sections))
    BY SectionsAre, FS_Interval
  <2> QED BY <2>1, SectionsAre, FS_Subset
<1>2. ASSUME NEW i \in I
      PROVE  IsFiniteSet({i} \X J(i))
  <2>0. Len(doc.sections[i].nodes) \in Nat
    BY SectionsAre
  <2>1. IsFiniteSet(1..Len(doc.sections[i].nodes))
    BY <2>0, FS_Interval
  <2>2. IsFiniteSet(J(i))
    BY <2>1, SectionsAre, FS_Subset
  <2>3. IsFiniteSet({i})
    BY FS_Singleton
  <2> HIDE DEF I, J
  <2> QED BY <2>2, <2>3, FS_Product
<1>3. \A t \in T : IsFiniteSet(t)
  BY <1>2
<1>4. IsFiniteSet(T)
  <2> HIDE DEF I, J
  <2>1. f \in Surjection(I, T)
    BY DEF Surjection
  <2> HIDE DEF f, T
  <2> QED BY <1>1, <2>1, FS_Surjection
<1>5. IsFiniteSet(UNION T)
  <2> HIDE DEF T
  <2> QED BY <1>3, <1>4, FS_UNION
<1>6. GroupPlaces(doc) = UNION T
  <2>1. GroupPlaces(doc) = UNION {{i} \X J(i) : i \in I}
    BY DEF GroupPlaces
  <2> HIDE DEF I, J
  <2> QED BY <2>1
<1> QED BY <1>5, <1>6

\* What is before a place is a part of the places, and finite.
LEMMA BeforeFinite ==
    ASSUME NEW doc \in Documents, NEW place
    PROVE  /\ Before(doc, place) \subseteq GroupPlaces(doc)
           /\ IsFiniteSet(Before(doc, place))
           /\ Cardinality(Before(doc, place)) \in Nat
           /\ Cardinality(GroupPlaces(doc)) \in Nat
           /\ Cardinality(Before(doc, place)) <= Cardinality(GroupPlaces(doc))
<1>1. Before(doc, place) \subseteq GroupPlaces(doc)
  BY DEF Before
<1> QED BY <1>1, PlacesFinite, FS_Subset, FS_CardinalityType

\* Nothing is before the first place, and before the next node is what was before
\* this one, and this one if it is a group.
LEMMA BeforeNext ==
    ASSUME NEW doc \in Documents, NEW s \in Nat, NEW n \in Nat
    PROVE  /\ Before(doc, <<1, 1>>) = {}
           /\ Before(doc, <<s, n + 1>>) =
                  Before(doc, <<s, n>>) \cup (GroupPlaces(doc) \cap {<<s, n>>})
           /\ <<s, n>> \notin Before(doc, <<s, n>>)
<1>1. \A p \in GroupPlaces(doc) : p = <<p[1], p[2]>> /\ p[1] \in Nat /\ p[2] \in Nat
  BY PlacesAre
<1>2. \A p \in GroupPlaces(doc) : p[1] > 0 /\ p[2] > 0
  <2>1. ASSUME NEW p \in GroupPlaces(doc)
        PROVE  p[1] > 0 /\ p[2] > 0
    <3>1. /\ p[1] \in DOMAIN doc.sections
          /\ doc.sections[p[1]].name = "application-groups"
          /\ p[2] \in DOMAIN doc.sections[p[1]].nodes
      BY <1>1, PlacesAre
    <3> QED BY <3>1, SectionsAre
  <2> QED BY <2>1
<1>3. Before(doc, <<1, 1>>) = {}
  BY <1>1, <1>2 DEF Before
<1>4. ASSUME NEW p \in GroupPlaces(doc)
      PROVE  p \in Before(doc, <<s, n + 1>>) <=> p \in Before(doc, <<s, n>>) \/ p = <<s, n>>
  BY <1>1 DEF Before
<1>5. <<s, n>> \notin Before(doc, <<s, n>>)
  BY DEF Before
<1> QED BY <1>3, <1>4, <1>5, BeforeFinite

LEMMA BeforeMeans ==
    ASSUME NEW doc, NEW p \in GroupPlaces(doc), NEW s, NEW n
    PROVE  p \in Before(doc, <<s, n>>) <=> p[1] < s \/ (p[1] = s /\ p[2] < n)
BY DEF Before

\* Before the next section is what was before the last node of this one.
LEMMA BeforeSection ==
    ASSUME NEW doc \in Documents, NEW s \in DOMAIN doc.sections
    PROVE  /\ doc.sections[s].name # "application-groups" =>
                  Before(doc, <<s + 1, 1>>) = Before(doc, <<s, 1>>)
           /\ doc.sections[s].name = "application-groups" =>
                  Before(doc, <<s + 1, 1>>) =
                      Before(doc, <<s, Len(doc.sections[s].nodes) + 1>>)
           /\ Before(doc, <<Len(doc.sections) + 1, 1>>) = GroupPlaces(doc)
<1>1. s \in Nat /\ s > 0
  BY SectionsAre
<1>2. ASSUME NEW p \in GroupPlaces(doc)
      PROVE  /\ p[1] \in 1..Len(doc.sections) /\ p[2] \in Nat /\ p[2] > 0
             /\ doc.sections[p[1]].name = "application-groups"
             /\ p[1] = s => p[2] <= Len(doc.sections[s].nodes)
  <2>1. /\ p = <<p[1], p[2]>>
        /\ p[1] \in DOMAIN doc.sections
        /\ doc.sections[p[1]].name = "application-groups"
        /\ p[2] \in DOMAIN doc.sections[p[1]].nodes
    BY PlacesAre
  <2>2. p[1] \in 1..Len(doc.sections) /\ p[2] \in 1..Len(doc.sections[p[1]].nodes)
    BY <2>1, SectionsAre
  <2>3. Len(doc.sections[p[1]].nodes) \in Nat
    BY <2>1, SectionsAre
  <2> QED BY <2>1, <2>2, <2>3
<1>3. Len(doc.sections) \in Nat
  BY SectionsAre
<1>4. ASSUME doc.sections[s].name # "application-groups"
      PROVE  Before(doc, <<s + 1, 1>>) = Before(doc, <<s, 1>>)
  <2>1. ASSUME NEW p \in GroupPlaces(doc)
        PROVE  p \in Before(doc, <<s + 1, 1>>) <=> p \in Before(doc, <<s, 1>>)
    <3>1. p[1] # s /\ p[1] \in Nat /\ p[2] \in Nat /\ p[2] > 0
      BY <1>2, <1>3, <1>4
    <3>2. p[1] < s + 1 <=> p[1] < s
      BY <1>1, <3>1
    <3> QED BY <3>1, <3>2 DEF Before
  <2>2. /\ Before(doc, <<s + 1, 1>>) \subseteq GroupPlaces(doc)
        /\ Before(doc, <<s, 1>>) \subseteq GroupPlaces(doc)
    BY BeforeFinite
  <2> QED BY <2>1, <2>2
<1>5. ASSUME doc.sections[s].name = "application-groups"
      PROVE  Before(doc, <<s + 1, 1>>) = Before(doc, <<s, Len(doc.sections[s].nodes) + 1>>)
  <2>1. Len(doc.sections[s].nodes) \in Nat
    BY <1>5, SectionsAre
  <2>2. ASSUME NEW p \in GroupPlaces(doc)
        PROVE  p \in Before(doc, <<s + 1, 1>>) <=>
                   p \in Before(doc, <<s, Len(doc.sections[s].nodes) + 1>>)
    <3>1. p[1] \in Nat /\ p[2] \in Nat /\ p[2] > 0
      BY <1>2, <1>3
    <3>2. p[1] = s => p[2] < Len(doc.sections[s].nodes) + 1
      BY <1>2, <2>1, <3>1
    <3>3. p[1] < s + 1 <=> p[1] < s \/ p[1] = s
      BY <1>1, <3>1
    <3>4. p[1] = s + 1 => ~(p[2] < 1)
      BY <3>1
    <3> QED BY <3>2, <3>3, <3>4, BeforeMeans
  <2>3. /\ Before(doc, <<s + 1, 1>>) \subseteq GroupPlaces(doc)
        /\ Before(doc, <<s, Len(doc.sections[s].nodes) + 1>>) \subseteq GroupPlaces(doc)
    BY BeforeFinite
  <2> QED BY <2>2, <2>3
<1>6. Before(doc, <<Len(doc.sections) + 1, 1>>) = GroupPlaces(doc)
  BY <1>2, <1>3 DEF Before
<1> QED BY <1>4, <1>5, <1>6

\* What is left of a list when one more is taken.
LEMMA TakeNext ==
    ASSUME NEW S, NEW all \in Seq(S), NEW L, NEW left \in Seq(L), Suffix(left, all)
    PROVE  /\ Taken(left, all) \in 0..Len(all)
           /\ left = <<>> => Taken(left, all) = Len(all)
           /\ left # <<>> =>
                  /\ Taken(Tail(left), all) = Taken(left, all) + 1
                  /\ Taken(left, all) + 1 \in DOMAIN all
                  /\ Head(left) = all[Taken(left, all) + 1]
                  /\ Suffix(Tail(left), all)
<1>1. /\ Len(all) \in Nat /\ Len(left) \in Nat /\ Len(left) <= Len(all)
      /\ DOMAIN all = 1..Len(all) /\ DOMAIN left = 1..Len(left)
      /\ \A i \in 1..Len(left) : left[i] = all[Taken(left, all) + i]
  BY LenProperties DEF Suffix
<1>2. ASSUME left # <<>>
      PROVE  /\ Len(left) > 0 /\ Len(Tail(left)) = Len(left) - 1
             /\ Head(left) = left[1]
             /\ DOMAIN Tail(left) = 1..(Len(left) - 1)
             /\ \A i \in 1..(Len(left) - 1) : Tail(left)[i] = left[i + 1]
  BY <1>2, <1>1, HeadTailProperties, EmptySeq, LenProperties
<1>3. left = <<>> => Len(left) = 0
  BY EmptySeq
<1>4. ASSUME left # <<>>
      PROVE  /\ Taken(Tail(left), all) = Taken(left, all) + 1
             /\ Taken(left, all) + 1 \in DOMAIN all
             /\ Head(left) = all[Taken(left, all) + 1]
  BY <1>1, <1>2, <1>4 DEF Taken
<1>5. ASSUME left # <<>>
      PROVE  Suffix(Tail(left), all)
  <2>1. ASSUME NEW i \in DOMAIN Tail(left)
        PROVE  Tail(left)[i] = all[Taken(Tail(left), all) + i]
    <3>1. i \in 1..(Len(left) - 1) /\ i + 1 \in 1..Len(left)
      BY <1>1, <1>2, <1>5
    <3>2. Tail(left)[i] = all[Taken(left, all) + (i + 1)]
      BY <1>1, <1>2, <1>5, <3>1
    <3>3. Taken(Tail(left), all) + i = Taken(left, all) + (i + 1)
      BY <1>1, <1>2, <1>5, <3>1 DEF Taken
    <3> QED BY <3>2, <3>3
  <2> QED BY <1>1, <1>2, <1>5, <2>1 DEF Suffix
<1>6. Taken(left, all) \in 0..Len(all)
  BY <1>1 DEF Taken
<1>7. ASSUME left = <<>>
      PROVE  Taken(left, all) = Len(all)
  <2>1. Len(left) = 0
    BY <1>3, <1>7
  <2>2. Len(all) - Len(left) = Len(all)
    BY <1>1, <2>1
  <2> QED BY <2>2 DEF Taken
<1> QED BY <1>4, <1>5, <1>6, <1>7

LEMMA NoRules ==
    ASSUME NEW t \in RuleTypes
    PROVE  RulesAsWritten(<<>>)[t] = {}
BY DEF RulesAsWritten

LEMMA RulesRest ==
    ASSUME NEW list \in Seq(RuleElements), list # <<>>, NEW t \in RuleTypes
    PROVE  RulesAsWritten(list)[t] =
               RulesAsWritten(Tail(list))[t]
                   \cup (IF Head(list).name = "rule" /\ Head(list).type = t
                         THEN {Head(list).text} ELSE {})
<1> DEFINE Is(rule) == rule.name = "rule" /\ rule.type = t
           Texts(written) == {written[i].text : i \in {j \in DOMAIN written : Is(written[j])}}
<1>1. \A written : RulesAsWritten(written)[t] = Texts(written)
  BY DEF RulesAsWritten
<1>2. /\ DOMAIN list = 1..Len(list) /\ Len(list) \in Nat /\ Len(list) > 0
      /\ Head(list) = list[1]
      /\ DOMAIN Tail(list) = 1..(Len(list) - 1)
      /\ \A i \in 1..(Len(list) - 1) : Tail(list)[i] = list[i + 1]
  BY HeadTailProperties, EmptySeq, LenProperties
<1>3. ASSUME NEW x
      PROVE  x \in Texts(list) <=>
                 x \in Texts(Tail(list)) \/ (Is(Head(list)) /\ x = Head(list).text)
  <2>1. ASSUME NEW i \in DOMAIN list, Is(list[i]), x = list[i].text
        PROVE  x \in Texts(Tail(list)) \/ (Is(Head(list)) /\ x = Head(list).text)
    <3>1. CASE i = 1
      BY <1>2, <2>1, <3>1
    <3>2. CASE i # 1
      <4>1. i - 1 \in DOMAIN Tail(list) /\ Tail(list)[i - 1] = list[i]
        BY <1>2, <3>2
      <4> QED BY <2>1, <4>1
    <3> QED BY <3>1, <3>2
  <2>2. ASSUME NEW i \in DOMAIN Tail(list), Is(Tail(list)[i]), x = Tail(list)[i].text
        PROVE  x \in Texts(list)
    <3>1. i + 1 \in DOMAIN list /\ list[i + 1] = Tail(list)[i]
      BY <1>2
    <3> QED BY <2>2, <3>1
  <2>3. 1 \in DOMAIN list
    BY <1>2
  <2> QED BY <1>2, <2>1, <2>2, <2>3
<1> HIDE DEF Texts
<1>4. Texts(list) = Texts(Tail(list)) \cup (IF Is(Head(list)) THEN {Head(list).text} ELSE {})
  BY <1>3
<1> QED BY <1>1, <1>4

-----------------------------------------------------------------------------
(* The reader and the document                                             *)

\* The groups before a place are those before any other place with the same groups
\* before it.
LEMMA ReadOn ==
    ASSUME NEW place, NEW other, ReadBefore(place), UNCHANGED <<document, m_groups>>,
           Before(document, place) = Before(document, other)
    PROVE  ReadBefore(other)'
BY DEF ReadBefore, InPlace

LEMMA WrittenKept ==
    ASSUME GroupsAsWritten, UNCHANGED <<document, m_groups>>, reader' # "done"
    PROVE  GroupsAsWritten'
BY DEF GroupsAsWritten, InPlace

LEMMA WrittenInit ==
    ASSUME ConfigInit
    PROVE  WrittenInv
<1>1. /\ document \in Documents /\ reader = "start" /\ m_groups = <<>>
      /\ Len(m_groups) = 0 /\ DOMAIN m_groups = {}
  BY EmptySeq DEF ConfigInit
<1>2. Cardinality(GroupPlaces(document)) >= 0
  BY <1>1, BeforeFinite
<1> QED BY <1>1, <1>2 DEF WrittenInv, GroupsAsWritten

LEMMA ReadDocumentWritten ==
    ASSUME MatchInv, WrittenInv, document \in Documents, ReadDocument
    PROVE  WrittenInv'
<1>1. /\ reader = "start" /\ reader' \in {"sections", "segfault"}
      /\ reader' = "sections" => sections' = document.sections
      /\ UNCHANGED <<document, m_groups>>
  BY DEF ReadDocument
<1>2. GroupsAsWritten'
  BY <1>1, WrittenKept DEF WrittenInv
<1>3. ASSUME reader' = "sections"
      PROVE  Suffix(sections', document.sections) /\ ReadBefore(<<SectionTaken + 1, 1>>)'
  <2>1. Len(document.sections) \in Nat
    BY SectionsAre
  <2>2. Taken(document.sections, document.sections) = 0
    BY <2>1 DEF Taken
  <2>3. DOMAIN document.sections = 1..Len(document.sections)
    BY SectionsAre
  <2>4. Suffix(document.sections, document.sections)
    BY <2>1, <2>2, <2>3 DEF Suffix
  <2>5. SectionTaken' = 0
    BY <1>1, <1>3, <2>2 DEF SectionTaken
  <2>6. Before(document, <<1, 1>>) = {} /\ Cardinality({}) = 0
    BY BeforeNext, FS_EmptySet
  <2>7. m_groups' = <<>> /\ Len(m_groups') = 0 /\ DOMAIN m_groups' = {}
    BY <1>1, EmptySeq DEF WrittenInv
  <2>8. ReadBefore(<<1, 1>>)'
    BY <1>1, <2>6, <2>7 DEF ReadBefore
  <2> QED BY <1>1, <1>3, <2>4, <2>5, <2>8
<1> QED BY <1>1, <1>2, <1>3 DEF WrittenInv

LEMMA NextSectionWritten ==
    ASSUME MatchInv, WrittenInv, document \in Documents, NextSection
    PROVE  WrittenInv'
<1>0. PICK s : s = SectionTaken
  OBVIOUS
<1>1. /\ reader = "sections"
      /\ UNCHANGED <<document, m_groups>>
      /\ sections \in Seq(SectionElements)
      /\ Suffix(sections, document.sections)
      /\ ReadBefore(<<s + 1, 1>>)
      /\ GroupsAsWritten
  BY <1>0 DEF NextSection, MatchInv, ReaderInv, WrittenInv
<1>2. /\ document.sections \in Seq(SectionElements) /\ Len(document.sections) \in Nat
      /\ DOMAIN document.sections = 1..Len(document.sections)
  BY SectionsAre
<1>3. /\ s \in 0..Len(document.sections)
      /\ sections = <<>> => s = Len(document.sections)
      /\ sections # <<>> =>
             /\ Taken(Tail(sections), document.sections) = s + 1
             /\ s + 1 \in DOMAIN document.sections
             /\ Head(sections) = document.sections[s + 1]
             /\ Suffix(Tail(sections), document.sections)
  BY <1>0, <1>1, <1>2, TakeNext DEF SectionTaken
<1>4. CASE sections = <<>>
  <2>1. reader' = "done" /\ sections' = sections /\ nodes' = nodes
    BY <1>1, <1>4 DEF NextSection, SectionIs, SkipsSection
  <2>2. SectionTaken' = s
    BY <1>0, <1>1, <2>1 DEF SectionTaken
  <2>3. ReadBefore(<<s + 1, 1>>)'
    BY <1>1, ReadOn
  <2>4. Before(document, <<s + 1, 1>>) = GroupPlaces(document)
    <3>1. CASE Len(document.sections) = 0
      <4>1. GroupPlaces(document) = {}
        BY <1>2, <3>1, PlacesAre
      <4> QED BY <4>1 DEF Before
    <3>2. CASE Len(document.sections) # 0
      <4>1. 1 \in DOMAIN document.sections
        BY <1>2, <3>2
      <4> QED BY <1>3, <1>4, <4>1, BeforeSection
    <3> QED BY <3>1, <3>2
  <2>5. /\ Len(m_groups') = Cardinality(GroupPlaces(document'))
        /\ \A i \in DOMAIN m_groups' : \E p \in GroupPlaces(document') : InPlace(i, p)'
    BY <1>1, <2>3, <2>4 DEF ReadBefore
  <2>6. Cardinality(GroupPlaces(document)) \in Nat
    BY BeforeFinite
  <2>7. GroupsAsWritten'
    BY <1>1, <2>5, <2>6 DEF GroupsAsWritten
  <2> QED BY <1>1, <1>4, <2>1, <2>2, <2>3, <2>7 DEF WrittenInv
<1>5. CASE sections # <<>>
  <2>1. /\ sections' = Tail(sections)
        /\ SectionTaken' = s + 1
        /\ s + 1 \in DOMAIN document.sections
        /\ Suffix(sections', document.sections)
        /\ s \in Nat
    <3>1. sections' = Tail(sections)
      BY <1>1, <1>5 DEF NextSection
    <3> QED BY <1>1, <1>2, <1>3, <1>5, <3>1 DEF SectionTaken
  <2>2. reader' \in {"sections", "options", "groups"}
    BY <1>1, <1>5 DEF NextSection
  <2>3. GroupsAsWritten'
    BY <1>1, <2>2, WrittenKept
  <2>4. CASE SectionIs("application-groups")
    <3>1. /\ reader' = "groups" /\ nodes' = document.sections[s + 1].nodes
          /\ document.sections[s + 1].name = "application-groups"
      BY <1>3, <1>5, <2>4 DEF NextSection, SectionIs, SkipsSection
    <3>2. Len(nodes') \in Nat /\ DOMAIN nodes' = 1..Len(nodes')
      BY <2>1, <3>1, SectionsAre
    <3>3. Taken(nodes', nodes') = 0
      BY <3>2 DEF Taken
    <3>4. Suffix(nodes', nodes') /\ NodeTaken' = 0
      BY <1>1, <2>1, <3>1, <3>2, <3>3 DEF Suffix, NodeTaken
    <3>5. ReadBefore(<<s + 1, 1>>)'
      BY <1>1, ReadOn
    <3> QED BY <1>1, <2>1, <2>3, <3>1, <3>4, <3>5 DEF WrittenInv
  <2>5. CASE ~SectionIs("application-groups")
    <3>1. reader' \in {"sections", "options"}
      BY <1>1, <1>5, <2>5 DEF NextSection
    <3>2. document.sections[s + 1].name # "application-groups"
      BY <1>3, <1>5, <2>5 DEF SectionIs
    <3>3. Before(document, <<s + 1, 1>>) = Before(document, <<(s + 1) + 1, 1>>)
      BY <2>1, <3>2, BeforeSection
    <3>4. ReadBefore(<<(s + 1) + 1, 1>>)'
      BY <1>1, <3>3, ReadOn
    <3> QED BY <1>1, <2>1, <2>3, <3>1, <3>4 DEF WrittenInv
  <2> QED BY <2>4, <2>5
<1> QED BY <1>4, <1>5

\* Where the reader of groups is.
LEMMA InGroups ==
    ASSUME MatchInv, WrittenInv, document \in Documents, reader \in {"groups", "rules"}
    PROVE  LET s == SectionTaken
               n == NodeTaken
               list == document.sections[s].nodes
           IN  /\ s \in DOMAIN document.sections /\ s \in Nat
               /\ n \in Nat
               /\ document.sections[s].name = "application-groups"
               /\ list \in Seq(GroupElements) /\ Len(list) \in Nat
               /\ DOMAIN list = 1..Len(list) /\ n <= Len(list)
               /\ Suffix(sections, document.sections) /\ Suffix(nodes, list)
               /\ nodes \in Seq(GroupElements)
               /\ nodes = <<>> => n = Len(list)
               /\ nodes # <<>> =>
                      /\ Taken(Tail(nodes), list) = n + 1
                      /\ n + 1 \in DOMAIN list
                      /\ Head(nodes) = list[n + 1]
                      /\ Suffix(Tail(nodes), list)
<1> DEFINE s == SectionTaken
           n == NodeTaken
           list == document.sections[s].nodes
<1>1. /\ sections \in Seq(SectionElements) /\ nodes \in Seq(GroupElements)
      /\ Suffix(sections, document.sections)
      /\ s > 0 /\ document.sections[s].name = "application-groups" /\ Suffix(nodes, list)
  BY DEF MatchInv, ReaderInv, WrittenInv
<1>2. s \in 0..Len(document.sections)
  BY <1>1, SectionsAre, TakeNext DEF SectionTaken
<1>3. s \in DOMAIN document.sections /\ s \in Nat
  BY <1>1, <1>2, SectionsAre
<1>4. /\ list \in Seq(GroupElements) /\ Len(list) \in Nat /\ DOMAIN list = 1..Len(list)
  BY <1>1, <1>3, SectionsAre
<1>5. /\ Taken(nodes, list) \in 0..Len(list)
      /\ nodes = <<>> => Taken(nodes, list) = Len(list)
      /\ nodes # <<>> => /\ Taken(Tail(nodes), list) = Taken(nodes, list) + 1
                         /\ Taken(nodes, list) + 1 \in DOMAIN list
                         /\ Head(nodes) = list[Taken(nodes, list) + 1]
                         /\ Suffix(Tail(nodes), list)
  <2> HIDE DEF list
  <2> QED BY <1>1, <1>4, TakeNext
<1>6. n = Taken(nodes, list)
  BY DEF NodeTaken
<1> HIDE DEF s, n, list
<1> QED BY <1>1, <1>3, <1>4, <1>5, <1>6 DEF s, n, list

LEMMA NextGroupWritten ==
    ASSUME MatchInv, WrittenInv, document \in Documents, NextGroup
    PROVE  WrittenInv'
<1>0. PICK s, n : s = SectionTaken /\ n = NodeTaken
  OBVIOUS
<1> DEFINE list == document.sections[s].nodes
<1>1. /\ reader = "groups" /\ nodes # <<>> /\ nodes' = Tail(nodes)
      /\ UNCHANGED <<document, sections, m_groups>>
      /\ ReadBefore(<<s, n + 1>>) /\ GroupsAsWritten
      /\ reader' \in {"groups", "rules", "exception", "segfault"}
  BY <1>0 DEF NextGroup, StartGroup, NotAGroup, WrittenInv
<1>2. /\ s \in DOMAIN document.sections /\ s \in Nat /\ n \in Nat
      /\ document.sections[s].name = "application-groups"
      /\ Suffix(sections, document.sections)
      /\ Taken(Tail(nodes), list) = n + 1 /\ n + 1 \in DOMAIN list
      /\ Head(nodes) = list[n + 1] /\ Suffix(Tail(nodes), list)
  BY <1>0, <1>1, InGroups
<1>3. SectionTaken' = s /\ NodeTaken' = n + 1 /\ s > 0 /\ n + 1 > 0
  BY <1>0, <1>1, <1>2, SectionsAre DEF SectionTaken, NodeTaken
<1>4. GroupsAsWritten'
  BY <1>1, WrittenKept
<1>5. NodeAt(document, <<s, n + 1>>) = Head(nodes)
  BY <1>2 DEF NodeAt
<1>6. Suffix(nodes', document'.sections[SectionTaken'].nodes)
  BY <1>1, <1>2, <1>3
<1>7. CASE reader' = "rules"
  <2>1. /\ IsGroup(Head(nodes))
        /\ newGroup' = Group(atoi(Head(nodes).id)) /\ rules' = Head(nodes).rules
    BY <1>1, <1>7 DEF NextGroup, StartGroup, NotAGroup
  <2>2. ReadBefore(<<s, n + 1>>)'
    BY <1>1, ReadOn
  <2>4. RulesToCome(NodeAt(document, <<SectionTaken, NodeTaken>>))'
    <3>1. NodeAt(document', <<SectionTaken', NodeTaken'>>) = Head(nodes)
      BY <1>1, <1>3, <1>5
    <3>2. RulesAsWritten(Head(nodes).rules) = RulesAsWritten(rules')
      BY <2>1
    <3>3. /\ Head(nodes).name = "group" /\ newGroup'.id = atoi(Head(nodes).id)
          /\ \A t \in RuleTypes : newGroup'.rules[t] = {}
      BY <2>1 DEF IsGroup, Group
    <3> QED BY <3>1, <3>2, <3>3 DEF RulesToCome
  <2> QED BY <1>1, <1>2, <1>3, <1>4, <1>6, <1>7, <2>2, <2>4 DEF WrittenInv
<1>8. CASE reader' = "groups"
  <2>1. Head(nodes).name # "group"
    BY <1>1, <1>8 DEF NextGroup, StartGroup, NotAGroup
  <2>2. <<s, n + 1>> \notin GroupPlaces(document)
    BY <1>2, <2>1, PlacesAre
  <2>3. Before(document, <<s, n + 1>>) = Before(document, <<s, (n + 1) + 1>>)
    BY <1>2, <2>2, BeforeNext
  <2>4. ReadBefore(<<s, (n + 1) + 1>>)'
    BY <1>1, <2>3, ReadOn
  <2> QED BY <1>1, <1>2, <1>3, <1>4, <1>6, <1>8, <2>4 DEF WrittenInv
<1>9. CASE reader' \in {"exception", "segfault"}
  BY <1>4, <1>9 DEF WrittenInv
<1> QED BY <1>1, <1>7, <1>8, <1>9

LEMMA NextRuleWritten ==
    ASSUME MatchInv, WrittenInv, document \in Documents, NextRule
    PROVE  WrittenInv'
<1> DEFINE rule == Head(rules)
           node == NodeAt(document, <<SectionTaken, NodeTaken>>)
<1>1. /\ reader = "rules" /\ rules # <<>> /\ rules' = Tail(rules)
      /\ rules \in Seq(RuleElements) /\ newGroup \in GroupRecords
      /\ UNCHANGED <<document, sections, nodes, m_groups>>
      /\ reader' = IF Throws(rule) THEN "exception" ELSE "rules"
      /\ newGroup' = IF IsAdded(rule)
                     THEN [newGroup EXCEPT !.rules[rule.type] = @ \cup {rule.text}]
                     ELSE newGroup
      /\ GroupsAsWritten
  BY DEF NextRule, WrittenInv, MatchInv, ReaderInv
<1>2. GroupsAsWritten'
  BY <1>1, WrittenKept
<1>3. CASE Throws(rule)
  BY <1>1, <1>2, <1>3 DEF WrittenInv
<1>4. CASE ~Throws(rule)
  <2>1. RulesToCome(node)
    BY <1>1 DEF WrittenInv
  <2>2. newGroup'.id = newGroup.id
    BY <1>1 DEF GroupRecords
  <2>3. ASSUME NEW t \in RuleTypes
        PROVE  newGroup.rules[t] \cup RulesAsWritten(rules)[t] =
                   newGroup'.rules[t] \cup RulesAsWritten(Tail(rules))[t]
    <3>1. RulesAsWritten(rules)[t] =
              RulesAsWritten(Tail(rules))[t]
                  \cup (IF rule.name = "rule" /\ rule.type = t THEN {rule.text} ELSE {})
      BY <1>1, RulesRest
    <3>2. CASE rule.name = "rule" /\ rule.type = t
      <4>1. IsAdded(rule)
        BY <1>4, <3>2 DEF IsAdded
      <4>2. newGroup'.rules[t] = newGroup.rules[t] \cup {rule.text}
        <5> HIDE DEF rule
        <5> QED BY <1>1, <3>2, <4>1 DEF GroupRecords
      <4> QED BY <3>1, <3>2, <4>2
    <3>3. CASE ~(rule.name = "rule" /\ rule.type = t)
      <4>1. newGroup'.rules[t] = newGroup.rules[t]
        <5>1. IsAdded(rule) => rule.type # t
          BY <3>3 DEF IsAdded
        <5> HIDE DEF rule
        <5> QED BY <1>1, <5>1 DEF GroupRecords
      <4> QED BY <3>1, <3>3, <4>1
    <3> QED BY <3>2, <3>3
  <2>4. RulesToCome(node)'
    <3>1. /\ node.name = "group" /\ newGroup'.id = atoi(node.id)
          /\ \A t \in RuleTypes : RulesAsWritten(node.rules)[t] =
                                      newGroup'.rules[t] \cup RulesAsWritten(rules')[t]
      BY <1>1, <2>1, <2>2, <2>3 DEF RulesToCome
    <3>2. node' = node
      BY <1>1 DEF SectionTaken, NodeTaken
    <3> HIDE DEF node
    <3> QED BY <3>1, <3>2 DEF RulesToCome
  <2>5. SectionTaken' = SectionTaken /\ NodeTaken' = NodeTaken
    BY <1>1 DEF SectionTaken, NodeTaken
  <2>6. ReadBefore(<<SectionTaken, NodeTaken>>)'
    BY <1>1, <2>5 DEF WrittenInv, ReadBefore, InPlace
  <2> QED BY <1>1, <1>2, <1>4, <2>4, <2>5, <2>6 DEF WrittenInv
<1> QED BY <1>3, <1>4

LEMMA AddGroupWritten ==
    ASSUME MatchInv, WrittenInv, document \in Documents, AddGroup
    PROVE  WrittenInv'
<1>0. PICK s, n : s = SectionTaken /\ n = NodeTaken
  OBVIOUS
<1> DEFINE place == <<s, n>>
           node == NodeAt(document, place)
<1>1. /\ reader = "rules" /\ rules = <<>> /\ reader' = "groups"
      /\ m_groups' = Append(m_groups, newGroup)
      /\ UNCHANGED <<document, sections, nodes>>
      /\ newGroup \in GroupRecords /\ m_groups \in Seq(GroupRecords)
      /\ n > 0 /\ ReadBefore(place) /\ RulesToCome(node)
  BY <1>0 DEF AddGroup, WrittenInv, MatchInv, ReaderInv
<1>2. /\ s \in DOMAIN document.sections /\ s \in Nat /\ n \in Nat
      /\ document.sections[s].name = "application-groups"
      /\ DOMAIN document.sections[s].nodes = 1..Len(document.sections[s].nodes)
      /\ Len(document.sections[s].nodes) \in Nat
      /\ n <= Len(document.sections[s].nodes)
      /\ Suffix(sections, document.sections)
      /\ Suffix(nodes, document.sections[s].nodes)
  BY <1>0, <1>1, InGroups
<1>3. s > 0 /\ SectionTaken' = s /\ NodeTaken' = n
  BY <1>0, <1>1, <1>2, SectionsAre DEF SectionTaken, NodeTaken
<1>4. place \in GroupPlaces(document)
  <2>1. n \in DOMAIN document.sections[s].nodes
    BY <1>1, <1>2
  <2>2. document.sections[s].nodes[n].name = "group"
    BY <1>1 DEF RulesToCome, NodeAt
  <2> QED BY <1>2, <2>1, <2>2, PlacesAre
<1>5. newGroup = AsWritten(node)
  <2>1. \A t \in RuleTypes : RulesAsWritten(node.rules)[t] = newGroup.rules[t]
    BY <1>1, NoRules DEF RulesToCome
  <2>2. newGroup.rules \in [RuleTypes -> SUBSET (STRING \ {""})]
    BY <1>1 DEF GroupRecords
  <2>3. RulesAsWritten(node.rules) = newGroup.rules
    <3>1. RulesAsWritten(node.rules) = [t \in RuleTypes |-> RulesAsWritten(node.rules)[t]]
      BY DEF RulesAsWritten
    <3> HIDE DEF node
    <3> QED BY <2>1, <2>2, <3>1
  <2>4. newGroup.id = atoi(node.id)
    BY <1>1 DEF RulesToCome
  <2> HIDE DEF node
  <2> QED BY <1>1, <2>3, <2>4 DEF GroupRecords, AsWritten
<1>6. /\ Before(document, <<s, n + 1>>) = Before(document, place) \cup {place}
      /\ place \notin Before(document, place)
  BY <1>2, <1>4, BeforeNext
<1>7. Cardinality(Before(document, <<s, n + 1>>)) = Cardinality(Before(document, place)) + 1
  <2>1. IsFiniteSet(Before(document, place))
    BY BeforeFinite
  <2> HIDE DEF place
  <2> QED BY <1>6, <2>1, FS_AddElement
<1>8. /\ Len(m_groups) \in Nat /\ Len(m_groups') = Len(m_groups) + 1
      /\ DOMAIN m_groups = 1..Len(m_groups) /\ DOMAIN m_groups' = 1..(Len(m_groups) + 1)
      /\ \A i \in 1..Len(m_groups) : m_groups'[i] = m_groups[i]
      /\ m_groups'[Len(m_groups) + 1] = newGroup
  BY <1>1, AppendProperties, LenProperties
<1>9. ASSUME NEW i \in DOMAIN m_groups'
      PROVE  \E p \in Before(document, <<s, n + 1>>) : InPlace(i, p)'
  <2>1. CASE i \in 1..Len(m_groups)
    <3>1. PICK p \in Before(document, place) : InPlace(i, p)
      BY <1>1, <1>8, <2>1 DEF ReadBefore
    <3>2. InPlace(i, p)'
      BY <1>1, <1>8, <2>1, <3>1 DEF InPlace
    <3> QED BY <1>6, <3>1, <3>2
  <2>2. CASE i = Len(m_groups) + 1
    <3>1. Cardinality(Before(document, place)) = i - 1
      BY <1>1, <1>8, <2>2 DEF ReadBefore
    <3>2. m_groups'[i] = AsWritten(NodeAt(document, place))
      BY <1>5, <1>8, <2>2
    <3> HIDE DEF place, node
    <3>3. InPlace(i, place)'
      BY <1>1, <1>3, <3>1, <3>2 DEF InPlace, place
    <3> QED BY <1>6, <3>3
  <2> QED BY <1>8, <2>1, <2>2
<1>10. ReadBefore(<<s, n + 1>>)'
  <2>1. Len(m_groups') = Cardinality(Before(document', <<s, n + 1>>))
    BY <1>1, <1>7, <1>8 DEF ReadBefore
  <2> QED BY <1>1, <1>3, <1>9, <2>1 DEF ReadBefore
<1>11. GroupsAsWritten'
  <2>1. /\ Before(document, <<s, n + 1>>) \subseteq GroupPlaces(document)
        /\ Len(m_groups') <= Cardinality(GroupPlaces(document))
    BY <1>1, <1>7, <1>8, BeforeFinite DEF ReadBefore
  <2> QED BY <1>1, <1>9, <2>1 DEF GroupsAsWritten
<1> QED BY <1>1, <1>2, <1>3, <1>10, <1>11 DEF WrittenInv

LEMMA NextOptionWritten ==
    ASSUME WrittenInv, NextOption
    PROVE  WrittenInv'
<1>1. /\ reader = "options" /\ reader' = reader
      /\ UNCHANGED <<document, sections, m_groups>>
  BY DEF NextOption
<1>2. SectionTaken' = SectionTaken
  BY <1>1 DEF SectionTaken
<1>3. GroupsAsWritten'
  BY <1>1, WrittenKept DEF WrittenInv
<1>4. ReadBefore(<<SectionTaken + 1, 1>>)'
  BY <1>1, <1>2 DEF WrittenInv, ReadBefore, InPlace
<1> QED BY <1>1, <1>3, <1>4 DEF WrittenInv

LEMMA EndOfSectionWritten ==
    ASSUME MatchInv, WrittenInv, document \in Documents, EndOfSection
    PROVE  WrittenInv'
<1>0. PICK s, n : s = SectionTaken /\ n = NodeTaken
  OBVIOUS
<1>1. /\ reader \in {"groups", "options"} /\ reader' = "sections" /\ nodes = <<>>
      /\ UNCHANGED <<document, sections, m_groups>>
  BY DEF EndOfSection
<1>2. SectionTaken' = s
  BY <1>0, <1>1 DEF SectionTaken
<1>3. GroupsAsWritten'
  BY <1>1, WrittenKept DEF WrittenInv
<1>4. ReadBefore(<<s + 1, 1>>)'
  <2>1. CASE reader = "options"
    BY <1>0, <1>1, <2>1, ReadOn DEF WrittenInv
  <2>2. CASE reader = "groups"
    <3>1. /\ s \in DOMAIN document.sections
          /\ document.sections[s].name = "application-groups"
          /\ n = Len(document.sections[s].nodes)
      BY <1>0, <1>1, <2>2, InGroups
    <3>2. Before(document, <<s, n + 1>>) = Before(document, <<s + 1, 1>>)
      BY <3>1, BeforeSection
    <3>3. ReadBefore(<<s, n + 1>>)
      BY <1>0, <2>2 DEF WrittenInv
    <3> QED BY <1>1, <3>2, <3>3, ReadOn
  <2> QED BY <1>1, <2>1, <2>2
<1> QED BY <1>1, <1>2, <1>3, <1>4 DEF WrittenInv

LEMMA WrittenStep ==
    ASSUME MatchInv, WrittenInv, document \in Documents, ReadConfig
    PROVE  WrittenInv'
BY ReadDocumentWritten, NextSectionWritten, NextGroupWritten, NextRuleWritten, AddGroupWritten,
   NextOptionWritten, EndOfSectionWritten DEF ReadConfig

-----------------------------------------------------------------------------
(* The theorems                                                            *)

LEMMA DecidedInvariant == Spec => []DecidedInv
<1>1. Init => DecidedInv
  BY MatchInvInit DEF DecidedInv, FirstRuleDecides, Init, ConfigInit
<1>2. ASSUME DecidedInv, [Next]_vars
      PROVE  DecidedInv'
  <2>1. CASE ReadConfig /\ UNCHANGED matchVars
    <3>1. reader # "done" /\ document' = document
      BY <2>1 DEF ReadConfig, ReadDocument, NextSection, NextGroup, NextRule, AddGroup,
         NextOption, EndOfSection
    <3>2. stage' = "idle"
      BY <1>2, <2>1, <3>1 DEF DecidedInv, MatchInv, TypeOK, matchVars
    <3> QED BY <1>2, <2>1, <3>1, <3>2, ReaderStep DEF DecidedInv, FirstRuleDecides
  <2>2. ASSUME NEW w \in WindowInfos, SetGroupId(w)
        PROVE  DecidedInv'
    BY <1>2, <2>2, SetGroupIdStep
  <2>3. CASE SkipGroup
    BY <1>2, <2>3, SkipGroupStep
  <2>4. CASE MatchGroup
    BY <1>2, <2>4, MatchGroupStep
  <2>5. CASE NoGroupMatches
    BY <1>2, <2>5, NoGroupMatchesStep
  <2>6. CASE EventQueued
    BY <1>2, <2>6, EventQueuedStep
  <2>7. CASE UNCHANGED vars
    <3>1. \A type : FirstMatch(type)' = FirstMatch(type)
      BY <2>7 DEF vars, configVars, matchVars, FirstMatch, Matches, NamesFor
    <3>2. Stages(window)' = Stages(window) /\ Matching' = Matching
      BY <2>7 DEF vars, matchVars, Stages, Matching
    <3>3. TypeOK' /\ ReaderInv' /\ document' \in Documents
      BY <1>2, <2>7 DEF vars, configVars, matchVars, DecidedInv, MatchInv, TypeOK, ReaderInv,
         Matching
    <3>4. SearchInv'
      BY <1>2, <2>7, <3>1, <3>2 DEF vars, configVars, matchVars, DecidedInv, MatchInv,
         SearchInv, Matches, NamesFor
    <3>5. FirstRuleDecides'
      BY <1>2, <2>7, <3>1, <3>2 DEF vars, matchVars, DecidedInv, FirstRuleDecides
    <3> QED BY <1>2, <2>7, <3>3, <3>4, <3>5 DEF vars, matchVars, DecidedInv, MatchInv
  <2> QED BY <1>2, <2>1, <2>2, <2>3, <2>4, <2>5, <2>6, <2>7 DEF Next
<1> QED BY <1>1, <1>2, PTL DEF Spec

\* The reader is between the places of the document that its variables say.
LEMMA WrittenInvariant == Spec => []WrittenInv
<1>1. Init => WrittenInv
  BY WrittenInit DEF Init
<1>2. ASSUME DecidedInv, WrittenInv, [Next]_vars
      PROVE  WrittenInv'
  <2>1. CASE ReadConfig
    BY <1>2, <2>1, WrittenStep DEF DecidedInv
  <2>2. CASE UNCHANGED configVars
    <3>1. /\ SectionTaken' = SectionTaken /\ NodeTaken' = NodeTaken
          /\ UNCHANGED <<document, sections, nodes, newGroup, rules, m_groups, reader>>
      BY <2>2 DEF configVars, SectionTaken, NodeTaken
    <3>2. GroupsAsWritten'
      BY <1>2, <3>1 DEF WrittenInv, GroupsAsWritten, InPlace
    <3>3. \A s, n : ReadBefore(<<s, n>>) => ReadBefore(<<s, n>>)'
      BY <3>1 DEF ReadBefore, InPlace
    <3>4. \A node : RulesToCome(node) => RulesToCome(node)'
      BY <3>1 DEF RulesToCome
    <3> QED BY <1>2, <3>1, <3>2, <3>3, <3>4 DEF WrittenInv
  <2> QED BY <1>2, <2>1, <2>2 DEF Next, vars, SetGroupId, SkipGroup, MatchGroup,
             NoGroupMatches, EventQueued
<1> QED BY <1>1, <1>2, DecidedInvariant, PTL DEF Spec

\* A press is counted under the id of one of the groups that match its window.
GroupFound ==
    gid # -1 => \E i \in DOMAIN m_groups, k \in DOMAIN Stages(window) :
                    gid = m_groups[i].id /\ Matches(m_groups[i], Stages(window)[k])

LEMMA GroupFoundInvariant == Spec => []GroupFound
<1>1. Init => GroupFound
  BY DEF Init, GroupFound
<1>2. ASSUME DecidedInv, GroupFound, [Next]_vars
      PROVE  GroupFound'
  <2>1. CASE ReadConfig /\ UNCHANGED matchVars
    <3>1. reader # "done"
      BY <2>1 DEF ReadConfig, ReadDocument, NextSection, NextGroup, NextRule, AddGroup,
         NextOption, EndOfSection
    <3>2. gid' = -1
      BY <1>2, <2>1, <3>1 DEF DecidedInv, MatchInv, TypeOK, matchVars
    <3> QED BY <3>2 DEF GroupFound
  <2>2. CASE MatchGroup
    <3>1. next \in DOMAIN m_groups
      <4>1. m_groups \in Seq(GroupRecords) /\ next \in 1..(Len(m_groups) + 1)
        BY <1>2 DEF DecidedInv, MatchInv, ReaderInv, TypeOK
      <4>2. next <= Len(m_groups) /\ Len(m_groups) \in Nat /\ DOMAIN m_groups = 1..Len(m_groups)
        BY <2>2, <4>1, LenProperties DEF MatchGroup
      <4> QED BY <4>1, <4>2
    <3>2. PICK k \in DOMAIN Stages(window) : Stages(window)[k] = stage
      BY <1>2, <2>2 DEF DecidedInv, MatchInv, SearchInv, MatchGroup
    <3>3. PICK i \in DOMAIN m_groups : i = next
      BY <3>1
    <3>4. /\ UNCHANGED <<m_groups, window>> /\ gid' = m_groups[i].id
          /\ Matches(m_groups[i], Stages(window)[k])
      BY <2>2, <3>2, <3>3 DEF MatchGroup, configVars
    <3>5. Matches(m_groups[i], Stages(window)[k])'
      BY <3>4 DEF Matches, NamesFor
    <3> QED BY <3>4, <3>5 DEF GroupFound
  <2>3. CASE gid' = -1 \/ UNCHANGED <<gid, m_groups, window>>
    BY <1>2, <2>3 DEF GroupFound, Matches, NamesFor
  <2> QED BY <1>2, <2>1, <2>2, <2>3 DEF Next, vars, matchVars, configVars, SetGroupId,
             SkipGroup, NoGroupMatches, EventQueued
<1> QED BY <1>1, <1>2, DecidedInvariant, PTL DEF Spec

\* The variables of reader and filter have their types, whatever the document is.
THEOREM TypeCorrect == Spec => []TypeOK
<1>1. DecidedInv => TypeOK
  BY DEF DecidedInv, MatchInv
<1> QED BY <1>1, DecidedInvariant, PTL

\* The group of a press is that of the first matching group of the first kind of
\* rules that has one, for any document and any window.
THEOREM FirstRuleWins == Spec => []FirstRuleDecides
<1>1. DecidedInv => FirstRuleDecides
  BY DEF DecidedInv
<1> QED BY <1>1, DecidedInvariant, PTL

\* A press of which nothing is known is counted for no group, since no rule is
\* empty.
THEOREM NamelessStaysOut == Spec => []NamelessNotCounted
<1>1. ASSUME DecidedInv, stage = "matched", Nameless(window)
      PROVE  gid = -1
  <2>1. /\ m_groups \in Seq(GroupRecords)
        /\ window \in WindowInfos \cup {NoWindow}
    BY <1>1 DEF DecidedInv, MatchInv, ReaderInv
  <2>2. ASSUME NEW k \in DOMAIN Stages(window)
        PROVE  FirstMatch(Stages(window)[k]) = -1
    <3> DEFINE type == Stages(window)[k]
    <3>1. type \in RuleTypes
      BY <2>1, AfterIsNext
    <3>2. NamesFor(type) \subseteq {""}
      BY <1>1 DEF NamesFor, Nameless
    <3>3. ASSUME NEW i \in 1..Len(m_groups)
          PROVE  ~Matches(m_groups[i], type)
      <4>1. m_groups[i] \in GroupRecords
        BY <2>1, ElementOfSeq
      <4>2. "" \notin m_groups[i].rules[type]
        BY <3>1, <4>1 DEF GroupRecords
      <4> QED BY <3>2, <4>2 DEF Matches
    <3> QED BY <2>1, <3>3, FirstMatchNone
  <2>3. {k \in DOMAIN Stages(window) : FirstMatch(Stages(window)[k]) # -1} = {}
    BY <2>2
  <2> QED BY <1>1, <2>3 DEF DecidedInv, FirstRuleDecides
<1>2. DecidedInv => NamelessNotCounted
  BY <1>1 DEF NamelessNotCounted
<1> QED BY <1>2, DecidedInvariant, PTL

\* The filter has the groups of the document in its order, each with its own rules
\* and no other, and until the reader is done, or where it gave up, the first ones
\* of them.
THEOREM GroupsReadAsWritten == Spec => []GroupsAsWritten
<1>1. WrittenInv => GroupsAsWritten
  BY DEF WrittenInv
<1> QED BY <1>1, WrittenInvariant, PTL

\* atoi and intValue are one for a decimal id that fits an int.
LEMMA SameNumber ==
    ASSUME NEW id \in IdAttributes, Decimal(id)
    PROVE  atoi(id) = id.number /\ intValue(id) = id.number
<1> DEFINE v == id.number
           m == 2 * (IntMax + 1)
<1>1. /\ IntMax \in Nat /\ m \in Nat \ {0} /\ v \in Int /\ v + IntMax + 1 \in 0..(m - 1)
      /\ id.leading = v
  BY ConfigAssumption DEF Ids, Decimal
<1>2. (v + IntMax + 1) % m = v + IntMax + 1
  <2> HIDE DEF m, v
  <2> QED BY <1>1
<1>3. atoi(id) = v
  BY <1>1, <1>2 DEF atoi
<1>4. intValue(id) = v
  <2>1. v \in Ids /\ ~(v > IntMax)
    BY <1>1 DEF Ids
  <2> QED BY <2>1 DEF intValue
<1> QED BY <1>3, <1>4

LEMMA IdsAre ==
    ASSUME NEW doc \in Documents, NEW p \in GroupPlaces(doc)
    PROVE  NodeAt(doc, p).id \in IdAttributes
<1>1. /\ p[1] \in DOMAIN doc.sections
      /\ doc.sections[p[1]].name = "application-groups"
      /\ p[2] \in DOMAIN doc.sections[p[1]].nodes
  <2>1. p = <<p[1], p[2]>>
    BY PlacesAre
  <2> QED BY <2>1, PlacesAre
<1>2. doc.sections[p[1]].nodes \in Seq(GroupElements)
  BY <1>1, SectionsAre
<1>3. NodeAt(doc, p) \in GroupElements
  BY <1>1, <1>2, ElementOfSeq, LenProperties DEF NodeAt
<1> QED BY <1>3 DEF GroupElements

\* Where every id is a decimal one of its own, a group has the name for its id.
LEMMA NamedAfterItself ==
    ASSUME document \in Documents, Portable(document), NEW p \in GroupPlaces(document)
    PROVE  NamedAfter(document, atoi(NodeAt(document, p).id), p)
<1>1. \A q \in GroupPlaces(document) :
          /\ atoi(NodeAt(document, q).id) = NodeAt(document, q).id.number
          /\ intValue(NodeAt(document, q).id) = NodeAt(document, q).id.number
  BY IdsAre, SameNumber DEF Portable
<1>2. SelectedPlaces(document) = GroupPlaces(document)
  BY DEF SelectedPlaces, Portable
<1> QED BY <1>1, <1>2 DEF NamedAfter, Portable

\* What matches is what is written.
LEMMA MatchSpeaks ==
    ASSUME NEW node, NEW k \in DOMAIN Stages(window), Stages(window)[k] \in RuleTypes,
           Matches(AsWritten(node), Stages(window)[k])
    PROVE  SpeaksOf(node, window)
<1> DEFINE type == Stages(window)[k]
           written == RulesAsWritten(node.rules)[type]
<1>1. written \cap NamesFor(type) # {}
  BY DEF Matches, AsWritten
<1>2. CASE type = "terminalProcessName"
  BY <1>1, <1>2 DEF NamesFor, SpeaksOf
<1>3. CASE type = "processName"
  BY <1>1, <1>3 DEF NamesFor, SpeaksOf
<1>4. CASE type = "windowClassName"
  BY <1>1, <1>4 DEF NamesFor, SpeaksOf
<1> QED BY <1>2, <1>3, <1>4 DEF RuleTypes

\* A press is shown in Keyvis under the name of a group that has a rule for its
\* window, in every document whose ids are decimal ones, each of its own, and
\* whose elements are in no namespace.
THEOREM PressesAreNamed == Spec => []ShownUnderItsName
<1>1. ASSUME DecidedInv, WrittenInv, GroupFound, gid # -1, Portable(document)
      PROVE  \E p \in GroupPlaces(document) :
                 NamedAfter(document, gid, p) /\ SpeaksOf(NodeAt(document, p), window)
  <2>1. PICK i \in DOMAIN m_groups, k \in DOMAIN Stages(window) :
            gid = m_groups[i].id /\ Matches(m_groups[i], Stages(window)[k])
    BY <1>1 DEF GroupFound
  <2>2. PICK p \in GroupPlaces(document) : m_groups[i] = AsWritten(NodeAt(document, p))
    BY <1>1, <2>1 DEF WrittenInv, GroupsAsWritten, InPlace
  <2>3. gid = atoi(NodeAt(document, p).id)
    BY <2>1, <2>2 DEF AsWritten
  <2>4. NamedAfter(document, gid, p)
    BY <1>1, <2>3, NamedAfterItself DEF DecidedInv
  <2>5. Stages(window)[k] \in RuleTypes
    BY <1>1, AfterIsNext DEF DecidedInv, MatchInv
  <2>6. SpeaksOf(NodeAt(document, p), window)
    BY <2>1, <2>2, <2>5, MatchSpeaks
  <2> QED BY <2>4, <2>6
<1>2. DecidedInv /\ WrittenInv /\ GroupFound => ShownUnderItsName
  BY <1>1 DEF ShownUnderItsName
<1> QED BY <1>2, DecidedInvariant, WrittenInvariant, GroupFoundInvariant, PTL
=============================================================================
