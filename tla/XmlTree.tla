------------------------------ MODULE XmlTree -------------------------------
(***************************************************************************)
(* The XML reader of docray-ooxml (xml.rs): the tree is built from the     *)
(* events of a pull parser under a limit of depth and of nodes, the        *)
(* namespace declarations stay in scope below their element, and           *)
(* mc:AlternateContent is replaced by one of its branches.                 *)
(*                                                                         *)
(* The environment writes the events of a part.  A name is "plain",        *)
(* "alternate", "choice" or "fallback"; a declaration of the one prefix    *)
(* that matters is <<uri>>, <<>> when there is none, and a choice requires *)
(* that prefix.  A node is [name, uri, at, texts, children]: at is the     *)
(* number of its first event, uri what the prefix means in it.             *)
(***************************************************************************)
EXTENDS Integers, Sequences, SequencesExt, FiniteSetsExt

CONSTANTS
    MaxDepth,       \* MAX_XML_DEPTH
    MaxNodes,       \* MAX_XML_NODES
    MaxBranches,    \* the depth of alternate content the callers allow
    Supported,      \* the URIs the extractor supports
    Grammar,        \* the elements a part may have in one of some name, "part" at the top
    MaxEvents,      \* bound: events of a part
    TextsWithin     \* bound: texts are among the first events

VARIABLES
    events,     \* history: what the parser was given, [is, name, declares]
    stack,      \* the open elements
    scopes,     \* namespace_stack: what the prefix means in each of them
    root,       \* <<>> or the root
    count,      \* node_count
    verdict     \* "reading", "accepted" or the error

vars == <<events, stack, scopes, root, count, verdict>>

Init ==
    /\ events = <<>> /\ stack = <<>> /\ scopes = <<>> /\ root = <<>>
    /\ count = 0 /\ verdict = "reading"

Unbound == "unbound"

\* namespaces_for_element: the scope of the parent unless the element declares.
Scope(declares) ==
    IF declares # <<>> THEN declares[1]
    ELSE IF scopes = <<>> THEN Unbound ELSE Last(scopes)

Node(name, declares) ==
    [name |-> name, uri |-> Scope(declares), at |-> Len(events'), texts |-> <<>>, children |-> <<>>]

Event(is, name, declares) ==
    /\ verdict = "reading" /\ Len(events) < MaxEvents
    /\ events' = Append(events, [is |-> is, name |-> name, declares |-> declares])

TooDeep == Len(stack) >= MaxDepth

Start(name, declares) ==
    /\ Event("start", name, declares)
    /\ count' = IF TooDeep THEN count ELSE count + 1
    /\ IF TooDeep \/ count' > MaxNodes
       THEN verdict' = "limit" /\ UNCHANGED <<stack, scopes>>
       ELSE /\ stack' = Append(stack, Node(name, declares))
            /\ scopes' = Append(scopes, Scope(declares))
            /\ UNCHANGED verdict
    /\ UNCHANGED root

\* attach: open is the stack without the node that is attached.
Attach(node, open) ==
    IF open # <<>>
    THEN /\ stack' = [open EXCEPT ![Len(open)].children = Append(@, node)]
         /\ UNCHANGED <<root, verdict>>
    ELSE /\ stack' = open /\ root' = <<node>>
         /\ verdict' = IF root # <<>> THEN "multiple roots" ELSE verdict

\* A self-closing element is not tested for its depth.
Empty(name, declares) ==
    /\ Event("empty", name, declares)
    /\ count' = count + 1
    /\ IF count' > MaxNodes THEN verdict' = "limit" /\ UNCHANGED <<stack, root>>
       ELSE Attach(Node(name, declares), stack)
    /\ UNCHANGED scopes

End ==
    /\ Event("end", "", <<>>)
    /\ IF stack = <<>> THEN verdict' = "malformed" /\ UNCHANGED <<stack, scopes, root>>
       ELSE Attach(Last(stack), Front(stack)) /\ scopes' = Front(scopes)
    /\ UNCHANGED count

\* Text outside of the root is dropped.
Text ==
    /\ Event("text", "", <<>>)
    /\ Len(events) < TextsWithin
    /\ stack' = IF stack = <<>> THEN stack
                ELSE [stack EXCEPT ![Len(stack)].texts = Append(@, Len(events'))]
    /\ UNCHANGED <<scopes, root, count, verdict>>

\* Everything is dropped with the error.
Dropped == events' = <<>> /\ stack' = <<>> /\ scopes' = <<>> /\ root' = <<>> /\ count' = 0

Malformed == verdict = "reading" /\ verdict' = "malformed" /\ Dropped

Eof ==
    /\ verdict = "reading"
    /\ verdict' = IF stack # <<>> THEN "unclosed" ELSE IF root = <<>> THEN "no root" ELSE "accepted"
    /\ IF verdict' = "accepted" THEN UNCHANGED <<events, stack, scopes, root, count>> ELSE Dropped

Inside == Grammar[IF stack = <<>> THEN "part" ELSE Last(stack).name]

Next ==
    \/ \E e \in Inside : Start(e.name, e.declares) \/ Empty(e.name, e.declares)
    \/ End \/ Text \/ Malformed \/ Eof

Spec == Init /\ [][Next]_vars
-----------------------------------------------------------------------------
\* Descendants: a stack with the next node on top, the children of a node
\* pushed in reverse; walk[k] is where it is after k nodes.
Visited(walk) ==
    IF walk.pending = <<>> THEN walk
    ELSE LET next == Last(walk.pending)
         IN  [met |-> Append(walk.met, next), pending |-> Front(walk.pending) \o Reverse(next.children)]

Descendants(node) ==
    LET walk[k \in 0 .. MaxNodes] ==
          IF k = 0 THEN [met |-> <<>>, pending |-> Reverse(node.children)] ELSE Visited(walk[k - 1])
    IN  walk[MaxNodes].met

Alternate(node) == node.name = "alternate"

\* The first choice that is supported, else the first fallback, else nothing.
Selected(node) ==
    LET First(Test(_)) ==
          LET found == SelectSeq(node.children, Test)
          IN  IF found = <<>> THEN <<>> ELSE <<found[1]>>
        choice == First(LAMBDA c : c.name = "choice" /\ c.uri \in Supported)
    IN  IF choice # <<>> THEN choice ELSE First(LAMBDA c : c.name = "fallback")

\* preprocess_node: what a node turns into, a sequence of nodes.
Preprocess(node) ==
    LET becomes[n \in {node} \cup Range(Descendants(node)), depth \in 0 .. MaxBranches] ==
          LET Flat(nodes, d) == FlattenSeq([i \in DOMAIN nodes |-> becomes[nodes[i], d]])
              branches == Selected(n)
          IN  IF ~ Alternate(n) THEN <<[n EXCEPT !.children = Flat(@, depth)]>>
              ELSE IF depth >= MaxBranches THEN <<>>
              ELSE FlattenSeq([i \in DOMAIN branches |-> Flat(branches[i].children, depth + 1)])
    IN  becomes[node, 0]

\* preprocess_alternate_content: of a root that is itself replaced by several
\* nodes the last one stays, of one replaced by none the root without children.
Resolved(node) ==
    LET nodes == Preprocess(node)
    IN  IF nodes = <<>> THEN [node EXCEPT !.children = <<>>] ELSE Last(nodes)
-----------------------------------------------------------------------------
Opens == {i \in DOMAIN events : events[i].is \in {"start", "empty"}}

\* How many elements are open before an event.
OpenBefore(i) ==
    Cardinality({j \in 1 .. i - 1 : events[j].is = "start"})
      - Cardinality({j \in 1 .. i - 1 : events[j].is = "end"})

\* The element an event lies in, 0 for none.
Around(i) ==
    LET open == {j \in 1 .. i - 1 : events[j].is = "start" /\ OpenBefore(j) = OpenBefore(i) - 1}
    IN  IF OpenBefore(i) = 0 THEN 0 ELSE Max(open)

\* What the prefix means in an element: the nearest declaration around it.
MeansAt(i) ==
    LET up[j \in 0 .. i] ==
          IF j = 0 THEN Unbound
          ELSE IF events[j].declares # <<>> THEN events[j].declares[1] ELSE up[Around(j)]
    IN  up[i]

InOrder(S) == SelectSeq([i \in DOMAIN events |-> i], LAMBDA i : i \in S)

(* A part is accepted exactly when it is one well-formed element, its      *)
(* nodes within the limit, nothing but self-closing elements deeper than   *)
(* the limit; the tree is then the part: a walk over it meets its elements *)
(* in document order, each under the element around it, with its own text  *)
(* and the nearest declaration of its prefix.                              *)
TreeExact ==
    LET whole == /\ \A i \in DOMAIN events : events[i].is = "end" => OpenBefore(i) > 0
                 /\ OpenBefore(Len(events) + 1) = 0
                 /\ Cardinality({i \in Opens : OpenBefore(i) = 0}) = 1
                 /\ Cardinality(Opens) <= MaxNodes
                 /\ \A i \in Opens : events[i].is = "start" => OpenBefore(i) < MaxDepth
    IN  /\ verdict = "reading" => (whole <=> stack = <<>> /\ root # <<>>)
        /\ verdict \in {"limit", "multiple roots"} => ~ whole
        /\ verdict = "accepted" => whole /\
             LET nodes == <<root[1]>> \o Descendants(root[1])
             IN  /\ [k \in DOMAIN nodes |-> nodes[k].at] = InOrder(Opens)
                 /\ \A k \in DOMAIN nodes :
                       /\ nodes[k].uri = MeansAt(nodes[k].at)
                       /\ nodes[k].texts = InOrder({i \in DOMAIN events :
                             events[i].is = "text" /\ Around(i) = nodes[k].at})
                       /\ \A c \in DOMAIN nodes[k].children : Around(nodes[k].children[c].at) = nodes[k].at

\* The branch of an alternate that counts, by its event; 0 for none.
Branch(i) ==
    LET inside(name) == {j \in Opens : Around(j) = i /\ events[j].name = name}
        choices == {j \in inside("choice") : MeansAt(j) \in Supported}
    IN  IF choices # {} THEN Min(choices)
        ELSE IF inside("fallback") # {} THEN Min(inside("fallback")) ELSE 0

\* The elements around an element, itself among them, from the root down.
Line(i) ==
    LET up[j \in 0 .. i] == IF j = 0 THEN <<>> ELSE Append(up[Around(j)], j) IN up[i]

\* An element stays unless an alternate above it counts another branch or is
\* nested too deep; alternates and the branches they count dissolve.
Stays(i) ==
    LET line == Line(i)
        alternates == {k \in DOMAIN line : events[line[k]].name = "alternate"}
    IN  /\ Cardinality(alternates) <= MaxBranches
        /\ \A k \in alternates : k < Len(line) - 1 /\ line[k + 1] = Branch(line[k])

(* Of every alternate one branch is shown, once and in place: what stays   *)
(* of the tree below a root are the elements no alternate hides, in their  *)
(* order, whatever else the alternates hold.                               *)
BranchesExact ==
    verdict = "accepted" /\ ~ Alternate(root[1]) =>
      LET nodes == Descendants(Resolved(root[1]))
      IN  [k \in DOMAIN nodes |-> nodes[k].at] = InOrder({i \in Opens : OpenBefore(i) > 0 /\ Stays(i)})
=============================================================================
