----------------------------- MODULE BuildGraph -----------------------------
(****************************************************************************)
(* A construction of the site by sitegen.buildAt: the nodes of a registry   *)
(* (module SiteGraph in the code), run by Registry.Run in stop mode, for    *)
(* the whole site or for the sections asked for.  Nodes hand each other     *)
(* their results, and they also share by pointers the data their            *)
(* predecessors returned and, by the directory of the build, the pages      *)
(* already written.                                                         *)
(*                                                                          *)
(* The dispatcher is that of module Pipeline without its channels: it goes  *)
(* back to them only when nothing more can start, and a node runs until the *)
(* dispatcher has read its arrival.                                         *)
(****************************************************************************)
EXTENDS Integers, Sequences, SequencesExt, FiniteSets, FiniteSetsExt, TLC

CONSTANTS
    Declared,       \* the nodes in the order of their declaration
    SectionNodes,   \* section -> the nodes that write its pages
    TopicPages,     \* the nodes whose pages the topics quote, in their order
    Requests,       \* what is asked for: a set of names, none for the whole site
    Limit,          \* Options.Concurrency
    MaxPath         \* no path of the graph has more nodes

NodeNames == {Declared[i].name : i \in DOMAIN Declared}

ASSUME BuildGraphAssumption ==
    /\ DOMAIN Declared = 1..Len(Declared) /\ Len(TopicPages) \in Nat
    /\ Limit \in Nat \ {0} /\ MaxPath \in Nat \ {0}
    /\ \A i \in DOMAIN Declared : Declared[i].deps \subseteq {Declared[k].name : k \in 1..(i - 1)}
    /\ \A i, k \in DOMAIN Declared : Declared[i].name = Declared[k].name => i = k
    /\ \A s \in DOMAIN SectionNodes : SectionNodes[s] \subseteq NodeNames

VARIABLES
    request,    \* the names asked for                                   (rigid)
    graph,      \* node of the closure -> its declaration                (rigid)
    priority,   \* node of the closure -> its rank in the plan           (rigid)
    running,    \* the nodes launched whose arrival is not read
    results,    \* the nodes that succeeded
    failed,     \* the nodes that failed
    quoted      \* how many of TopicPages the topics have read

plan == <<request, graph, priority>>
buildVars == <<plan, running, results, failed, quoted>>

Needed == DOMAIN graph
----------------------------------------------------------------------------
(* The plan                                                                 *)

\* ResolveTargets: a name that is no section is taken for a topic. A name that is both
\* is the section's: fpctl build topic passes nothing that would tell them apart.
ResolveTargets(names) ==
    IF names = {} THEN UNION {SectionNodes[s] : s \in DOMAIN SectionNodes}
    ELSE UNION {SectionNodes[IF s \in DOMAIN SectionNodes THEN s ELSE "comprendre"] : s \in names}

DepsIn(declared, names) ==
    UNION {declared[i].deps : i \in {k \in DOMAIN declared : declared[k].name \in names}}

\* closure: the targets, what they depend on, what that depends on, ...; of the nodes
\* that are declared.
Closure(declared, targets) ==
    NodeNames \intersect
        FoldSet(LAMBDA pass, reached : reached \union DepsIn(declared, reached),
                targets, 1..MaxPath)

\* MaxPath passes are enough: the closure holds the targets and what its nodes need.
ASSUME PathAssumption ==
    \A names \in Requests : \E closure \in {Closure(Declared, ResolveTargets(names))} :
        /\ ResolveTargets(names) \subseteq NodeNames => ResolveTargets(names) \subseteq closure
        /\ \A i \in DOMAIN Declared : Declared[i].name \in closure => Declared[i].deps \subseteq closure

\* Levels, one wave after the other: a wave takes the needed nodes whose dependencies
\* are in the waves before, in the order of their declaration.
NeededOrder(declared, needed) ==
    FoldSet(LAMBDA pass, waves :
                LET placed == ToSet(waves)
                    Takes(d) == d.name \in needed \ placed /\ d.deps \subseteq placed
                    wave == SelectSeq(declared, Takes)
                IN  waves \o [i \in DOMAIN wave |-> wave[i].name],
            <<>>, 1..MaxPath)

BuildInit ==
    /\ request \in Requests
    /\ \E needed \in {Closure(Declared, ResolveTargets(request))} :
       \E order \in {NeededOrder(Declared, needed)} :
          /\ graph = [n \in needed |-> Declared[CHOOSE i \in DOMAIN Declared : Declared[i].name = n]]
          /\ priority = [n \in needed |-> CHOOSE i \in DOMAIN order : order[i] = n]
    /\ running = {} /\ results = {} /\ failed = {}
    /\ quoted = 0
----------------------------------------------------------------------------
(* The dispatcher and the nodes                                             *)

Ready(n) == n \notin running \union results \union failed /\ graph[n].deps \subseteq results

Startable == {n \in Needed : failed = {} /\ Cardinality(running) < Limit /\ Ready(n)}

Launch ==
    \E n \in Startable :
        /\ \A m \in Startable : priority[n] <= priority[m]
        /\ running' = running \union {n}
        /\ UNCHANGED <<plan, results, failed, quoted>>

\* the node whose body ends with prepareTopics
TopicsNode == "sujets-data"

\* dataOfPage opens the next page; one that is not there is omitted.
Quote ==
    /\ TopicsNode \in running
    /\ quoted < Len(TopicPages)
    /\ quoted' = quoted + 1
    /\ UNCHANGED <<plan, running, results, failed>>

\* The dispatcher reads an arrival; it has launched what it could.
Arrival(n) ==
    /\ Startable = {}
    /\ running' = running \ {n}
    /\ UNCHANGED <<plan, quoted>>

Succeed(n) ==
    /\ Arrival(n)
    /\ n = TopicsNode => quoted = Len(TopicPages)
    /\ results' = results \union {n}
    /\ UNCHANGED failed

Fail(n) ==
    /\ Arrival(n)
    /\ failed' = failed \union {n}
    /\ UNCHANGED results

Over == running = {} /\ Startable = {}

BuildNext ==
    \/ Launch
    \/ \E n \in running : Succeed(n) \/ Fail(n)
    \/ Quote
    \/ Over /\ UNCHANGED buildVars

BuildSpec == BuildInit /\ [][BuildNext]_buildVars
----------------------------------------------------------------------------
(* Properties                                                               *)

\* The state keeps its shape: at most Limit nodes at once, each in one place.
BuildTypeOK ==
    /\ request \in Requests
    /\ graph \in [Needed -> ToSet(Declared)]
    /\ running \subseteq Needed /\ results \subseteq Needed /\ failed \subseteq Needed
    /\ IsFiniteSet(running) /\ Cardinality(running) <= Limit
    /\ running \intersect results = {} /\ failed \intersect (running \union results) = {}
    /\ quoted \in 0..Len(TopicPages)

\* Every body names only nodes that its own node depends on directly.
AsksAreDeclared == \A d \in ToSet(Declared) : d.asks \subseteq d.deps

\* A node finds every result that its body takes: dep (graphe.go:61) hands a zero
\* to a body that names a node it does not depend on directly, without a word.
NothingIsZero == \A n \in running : graph[n].asks \subseteq graph[n].deps \intersect results

\* The nodes that read or write shared data beside a writer that they do not wait
\* for (README, section 5): lieux rewrites the mandates of the persons that the list
\* of candidates and the search index show, communes and scrutin fill one map.
Unordered == {{"lieux", "candidats"}, {"lieux", "recherche"}, {"communes", "scrutin"}}

\* the declared nodes that write shared data, whether the plan needs them or not
Writers == {d \in ToSet(Declared) : d.writes # {}}

\* What a node reads through a pointer is complete, and nobody writes it at the same
\* time: every writer has run before a reader, and is not running beside a writer, the
\* named pairs excepted. Nothing is handed over whose absence would show: fiches has
\* its votes only because it waits for a node of which it takes no result.
SharedDataIsComplete ==
    \A n \in running : \A d \in Writers :
        \/ d.name = n
        \/ {n, d.name} \in Unordered
        \/ /\ graph[n].reads \intersect d.writes # {} => d.name \in results
           /\ graph[n].writes \intersect d.writes # {} => d.name \notin running

\* d writes pages that the request asks for, as ResolveTargets reads it: a name is a
\* section's if a section has it, and only then a topic's.
WritesAskedPages(d) ==
    \/ request = {} /\ d.sections # {}
    \/ d.sections \intersect request # {}
    \/ d.name = "comprendre" /\ ~(request \subseteq DOMAIN SectionNodes)

\* A build that succeeds has run every node that writes pages of a section it was
\* asked for, whatever writes pages of it besides: what sectionNodes is for
\* (graphe_sections.go:1138), as such nodes depend neither on each other nor on one that
\* was asked. For a name that no section has, it has run comprendre. It does not say that
\* the page of a topic is written: of the nine topics that share the name of a section,
\* `fpctl build topic` builds the section alone (README, section 5).
SectionIsWhole ==
    Over /\ failed = {} =>
        \A i \in DOMAIN Declared : WritesAskedPages(Declared[i]) => Declared[i].name \in results

\* In a build of the whole site, a topic reads a page of data that is written:
\* "Appelé après l'écriture des pages de données" (sujet_page.go:804).
PagesAreWritten ==
    [][request = {} /\ quoted' > quoted => TopicPages[quoted'] \in results]_buildVars
============================================================================
