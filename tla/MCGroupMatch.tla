----------------------------- MODULE MCGroupMatch -----------------------------
(* Instances of GroupMatch for TLC.                                        *)
EXTENDS GroupMatch

Rule(type, text) == [name |-> "rule", type |-> type, text |-> text]
Comment == [name |-> "comment", type |-> "none", text |-> ""]
Element == [name |-> "other", type |-> "none", text |-> ""]

\* Rules of each type, two in a group, one without a text, one of no known type,
\* a comment, and an element of another name.
RuleLists == {<<>>,
              <<Rule("windowClassName", "xterm")>>,
              <<Rule("terminalProcessName", "vim"), Comment, Rule("windowClassName", "gvim")>>,
              <<Rule("processName", "vim"), Rule("title", "vim")>>,
              <<Rule("windowClassName", "")>>,
              <<Rule("processName", "")>>,
              <<Element>>}

NoId == [given |-> FALSE, leading |-> 0, numeric |-> FALSE, number |-> 0]
Number(n) == [given |-> TRUE, leading |-> n, numeric |-> TRUE, number |-> n]
Digits(n) == [NoId EXCEPT !.given = TRUE, !.leading = n]
Exponent == [Number(100) EXCEPT !.leading = 1]

Node(id, label, list) == [name |-> "group", plain |-> TRUE, id |-> id, label |-> label,
                          rules |-> list]
Prefixed(id, list) == [Node(id, "named", list) EXCEPT !.plain = FALSE]
Other(name) == [Node(NoId, "", <<>>) EXCEPT !.name = name]

\* Groups of two ids and of the id -1 with each list of rules, some with the id or
\* the name missing, a number too large or too small, one with letters after it, an
\* exponent, or in a namespace.
Nodes == {Node(Number(n), "named", list) : n \in {1, 2, -1}, list \in RuleLists}
         \cup {Node(id, "named", <<Rule("windowClassName", "gvim")>>) :
                   id \in {NoId, Number(257), Number(-257), Digits(3), Exponent}}
         \cup {Node(Number(3), "", <<Rule("processName", "vim")>>),
               Prefixed(Number(2), <<Rule("processName", "vim")>>),
               Other("comment"), Other("text")}

Document(root, list) == [wellFormed |-> TRUE, root |-> root, sections |-> list]
Groups(list) == [name |-> "application-groups", plain |-> TRUE, nodes |-> list]

\* The options of doc/sample-config, with one attribute missing and one misspelt.
Attributes == [debugState |-> "on", debugUseLogFile |-> "other", debugUseStdErr |-> "none"]
Options == [name |-> "options",
            nodes |-> <<[name |-> "debug", flags |-> Attributes, size |-> NoId],
                        [name |-> "cluster", flags |-> Attributes, size |-> Number(5)],
                        [name |-> "comment", flags |-> Attributes, size |-> NoId]>>]

\* Any two nodes, in one section or in two with the options between them.
MCDocuments ==
    {Document("keyfrog", <<Groups(<<m, n>>)>>) : m, n \in Nodes}
    \cup {Document("keyfrog", <<Groups(<<m>>), Options, Groups(<<n>>)>>) :
              m, n \in Nodes}
    \cup {Document("config", <<Groups(<<n>>)>>) : n \in Nodes}
    \cup {Document("keyfrog", <<[Groups(<<n>>) EXCEPT !.plain = FALSE]>>) : n \in Nodes}
    \cup {[Document("none", <<>>) EXCEPT !.wellFormed = FALSE]}

MCWindows == {[class |-> c, hasPid |-> TRUE, process |-> p, descendants |-> d] :
                  c \in {"", "xterm", "gvim"}, p \in {"", "vim"}, d \in {{}, {"vim", "sh"}}}
             \cup {[NoWindow EXCEPT !.class = c] : c \in {"", "xterm", "gvim"}}
MCTerminals == {"xterm"}
=============================================================================
