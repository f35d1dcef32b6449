----------------------------- MODULE PathSearch -----------------------------
(***************************************************************************)
(* The generator routing.paths: a breadth-first search over partial paths  *)
(* that yields the simple paths from a client to a host.  route_to takes   *)
(* the first of them, has_alternative_path looks at two.  A search of the  *)
(* physical topology (operational=False) is a search with everything up.   *)
(***************************************************************************)
EXTENDS Routing, SequencesExt

CONSTANTS
    Client,    \* the nodes requests come from
    Sorted,    \* all links, in the order of their identifiers
    Limits,    \* the positive limits asked for; NoLimit stands for None
    NoLimit

ASSUME SearchAssumption ==
    /\ IsFiniteSet(Node) /\ Client \subseteq Node
    /\ Sorted \in Seq(Link) /\ IsInjective(Sorted) /\ Link = ToSet(Sorted)
    /\ Limits \subseteq (Nat \ {0}) \cup {NoLimit} /\ NoLimit \notin Nat

VARIABLES
    source, goal, nodesUp, linksUp, limit,   \* the question; goal is its host
    frontier,  \* the queue of partial paths still to be extended
    emitted,   \* the paths yielded so far
    done

searchVars == <<source, goal, nodesUp, linksUp, limit, frontier, emitted, done>>

Partial == [node : Node, path : Paths, visited : SUBSET Node]

SearchTypeOK ==
    /\ source \in Client /\ goal \in Node
    /\ nodesUp \subseteq Node /\ linksUp \subseteq Link /\ limit \in Limits
    /\ \A i \in DOMAIN frontier : frontier[i] \in Partial
    /\ \A i \in DOMAIN emitted : emitted[i] \in Paths
    /\ done \in BOOLEAN

SearchInit ==
    /\ source \in Client /\ goal \in Node
    /\ nodesUp \in SUBSET Node /\ linksUp \in SUBSET Link /\ limit \in Limits
    /\ frontier = IF {source, goal} \subseteq nodesUp
                  THEN <<[node |-> source, path |-> <<>>, visited |-> {source}]>>
                  ELSE <<>>
    /\ emitted = <<>> /\ done = FALSE

\* Mutated: a failed node is refused as an endpoint only.
UsableThroughDown(l, p) ==
    /\ l \in linksUp /\ p.node \in Ends[l]
    /\ Other(l, p.node) \notin p.visited

Usable(l, p) ==
    /\ l \in linksUp /\ p.node \in Ends[l]
    /\ Other(l, p.node) \in nodesUp /\ Other(l, p.node) \notin p.visited

\* The partial path p and the link l it goes on by.
Longer(p, l) ==
    LET n == Other(l, p.node)
    IN [node |-> n, path |-> Append(p.path, l), visited |-> p.visited \cup {n}]

Extend(p) ==
    LET extended[n \in 0 .. Len(Sorted)] ==
            IF n = 0 THEN <<>>
            ELSE IF Usable(Sorted[n], p) THEN Append(extended[n - 1], Longer(p, Sorted[n]))
            ELSE extended[n - 1]
    IN extended[Len(Sorted)]

Yield ==
    /\ ~done /\ frontier # <<>> /\ Head(frontier).node = goal
    /\ emitted' = Append(emitted, Head(frontier).path)
    /\ done' = (limit # NoLimit /\ Len(emitted') >= limit)
    /\ frontier' = Tail(frontier)
    /\ UNCHANGED <<source, goal, nodesUp, linksUp, limit>>

Visit ==
    /\ ~done /\ frontier # <<>> /\ Head(frontier).node # goal
    /\ frontier' = Tail(frontier) \o Extend(Head(frontier))
    /\ UNCHANGED <<source, goal, nodesUp, linksUp, limit, emitted, done>>

Exhaust ==
    /\ ~done /\ frontier = <<>>
    /\ done' = TRUE
    /\ UNCHANGED <<source, goal, nodesUp, linksUp, limit, frontier, emitted>>

SearchFinished == done /\ UNCHANGED searchVars

SearchNext == Yield \/ Visit \/ Exhaust \/ SearchFinished

SearchSpec == SearchInit /\ [][SearchNext]_searchVars

-----------------------------------------------------------------------------
Answers == OperationalPaths(source, goal, nodesUp, linksUp)

\* route_to takes the first path, has_alternative_path looks at two.
Alternative(current) == \E i \in DOMAIN emitted : emitted[i] # current

\* The generator and path_error describe the same working paths: every path it
\* yields is one, none comes twice, the shortest come first, and when it is done
\* it has found all of them or as many as it was asked for.  So no service is
\* called unreachable that is not, route_to answers as Routing says, and two
\* paths tell whether there is another one than the current, whatever that is.
SearchExact ==
    LET answers == Answers
    IN  /\ \A i \in DOMAIN emitted :
               ~path_error(emitted[i], source, goal, nodesUp, linksUp)
        /\ IsInjective(emitted)
        /\ \A i, j \in DOMAIN emitted : i < j => Len(emitted[i]) <= Len(emitted[j])
        /\ done =>
               /\ (limit = NoLimit \/ Len(emitted) < limit) => ToSet(emitted) = answers
               /\ limit # NoLimit => Len(emitted) <= limit
               /\ emitted # <<>> => Head(emitted) \in route_to(source, goal, nodesUp, linksUp)
               /\ limit = 2 => \A current \in Paths :
                      Alternative(current) <=> (\E p \in answers : p # current)
=============================================================================
