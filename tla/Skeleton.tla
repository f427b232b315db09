------------------------------ MODULE Skeleton ------------------------------
(***************************************************************************)
(* What the resolver promises of the graph it builds, without saying how:  *)
(* a store of nodes and links that is closed under its links, in which a   *)
(* node nobody declared is a hole, and which is closed for good only when  *)
(* every hole has been listed.                                             *)
(***************************************************************************)
VARIABLES
  nodes,   \* the ids of the graph
  holes,   \* the nodes that are placeholders or otherwise partial
  links,   \* the edges, records with at least the fields from and to
  listed,  \* the holes the unresolved report names
  closed   \* the artifacts are final

svars == <<nodes, holes, links, listed, closed>>

Ends(l) == {l.from, l.to}

Init ==
  /\ nodes = {}
  /\ holes = {}
  /\ links = {}
  /\ listed = {}
  /\ closed = FALSE

\* One new node, a hole or not.
Declare ==
  /\ \E n \in nodes' : n \notin nodes /\ nodes' = nodes \cup {n}
  /\ holes' \ holes \subseteq nodes' \ nodes
  /\ holes \subseteq holes'
  /\ UNCHANGED <<links, listed, closed>>

\* A new node that is no hole, with at most one link from it to an older node.
DeclareBound ==
  /\ \E n \in nodes' :
       /\ n \notin nodes
       /\ nodes' = nodes \cup {n}
       /\ \E l \in links' : /\ l.from = n /\ l.to \in nodes
                            /\ links' = links \cup {l}
  /\ UNCHANGED <<holes, listed, closed>>

\* A node turns out to have no body: a hole from now on, and listed as one.
MarkHole ==
  /\ \E n \in nodes \ listed :
       /\ holes' = holes \cup {n}
       /\ listed' = listed \cup {n}
  /\ UNCHANGED <<nodes, links, closed>>

\* A link; its endpoints that are not nodes yet become listed holes.
Link ==
  /\ \E l \in links' :
       LET new == Ends(l) \ nodes IN
         /\ links' = links \cup {l}
         /\ nodes' = nodes \cup new
         /\ holes' = holes \cup new
         /\ listed' = listed \cup new
  /\ UNCHANGED closed

\* Any links between nodes the graph already has.
Derive ==
  /\ links \subseteq links'
  /\ \A l \in links' \ links : Ends(l) \subseteq nodes
  /\ UNCHANGED <<nodes, holes, listed, closed>>

List ==
  /\ \E n \in holes \ listed : listed' = listed \cup {n}
  /\ UNCHANGED <<nodes, holes, links, closed>>

Close ==
  /\ listed = holes
  /\ closed' = TRUE
  /\ UNCHANGED <<nodes, holes, links, listed>>

Next ==
  /\ ~closed
  /\ \/ Declare
     \/ DeclareBound
     \/ MarkHole
     \/ Link
     \/ Derive
     \/ List
     \/ Close

Spec == Init /\ [][Next]_svars
=============================================================================
