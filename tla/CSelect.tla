------------------------------ MODULE CSelect ------------------------------
(***************************************************************************)
(* The descriptor set the server waits on (class CSelect).  The class      *)
(* keeps ListNodes, a vector of the descriptors it was given, the fd_set   *)
(* Master handed to pselect, and MaxDescriptor, from which the first       *)
(* argument of pselect is computed.                                        *)
(*                                                                         *)
(* The server never looks at the order of ListNodes, only at which         *)
(* descriptors it holds and how often, so the vector is a bag here: a      *)
(* function from descriptors to their number of occurrences.  A value of   *)
(* the class is a record [nodes, Master, MaxDescriptor].                   *)
(***************************************************************************)
EXTENDS Integers, FiniteSetsExt

\* What ListNodes holds: the descriptors that occur in it at least once.
NodesOf(nodes) == {f \in DOMAIN nodes : nodes[f] > 0}

\* MaxDescriptor over a set of descriptors: -1 when there is none.
MaxOver(F) == IF F = {} THEN -1 ELSE Max(F)

\* Mutant of UpdateMaxDescriptor: the first argument of pselect is kept,
\* not the descriptor.
UpdateMaxDescriptorNfds(max, f) == IF f + 1 > max THEN f + 1 ELSE max

\* UpdateMaxDescriptor(descriptor): keep the larger of the two.
UpdateMaxDescriptor(max, f) == IF f > max THEN f ELSE max

\* AddNode(descriptor): push_back, FD_SET, UpdateMaxDescriptor.
AddNode(sel, f) ==
    [ nodes         |-> [sel.nodes EXCEPT ![f] = @ + 1],
      Master        |-> sel.Master \cup {f},
      MaxDescriptor |-> UpdateMaxDescriptor(sel.MaxDescriptor, f) ]

\* Mutant of DelNode: the maximum stays as it was.
DelNodeStaleMax(sel, f) ==
    [sel EXCEPT !.nodes[f] = @ - 1, !.Master = @ \ {f}]

\* Mutant of DelNode: the maximum is reset and never computed again.
DelNodeLosesMax(sel, f) ==
    [sel EXCEPT !.nodes[f] = @ - 1, !.Master = @ \ {f}, !.MaxDescriptor = -1]

\* DelNode(descriptor): the maximum is computed again from the nodes that
\* stay; the first occurrence of the descriptor is erased and its bit is
\* cleared.  A descriptor that is no node only has the maximum recomputed.
DelNode(sel, f) ==
    LET rest == IF sel.nodes[f] > 0 THEN [sel.nodes EXCEPT ![f] = @ - 1] ELSE sel.nodes
    IN  [ nodes         |-> rest,
          Master        |-> IF sel.nodes[f] > 0 THEN sel.Master \ {f} ELSE sel.Master,
          MaxDescriptor |-> MaxOver(NodesOf(rest)) ]

\* DelNode for every descriptor of a set, one after the other.
DelNodes(sel, F) ==
    LET rest == [f \in DOMAIN sel.nodes |->
                    IF f \in F /\ sel.nodes[f] > 0 THEN sel.nodes[f] - 1 ELSE sel.nodes[f]]
    IN  [ nodes         |-> rest,
          Master        |-> sel.Master \ (F \cap NodesOf(sel.nodes)),
          MaxDescriptor |-> IF F = {} THEN sel.MaxDescriptor ELSE MaxOver(NodesOf(rest)) ]

\* Mutant of Activity: the caller looks at Master, not at Dup.
ActivityMaster(sel, readable) == sel.Master

\* Mutant of Activity: pselect is called with MaxDescriptor, not + 1.
ActivityBelowMax(sel, readable) ==
    {f \in sel.Master : f < sel.MaxDescriptor /\ f \in readable}

\* Wait(): Dup is Master restricted by pselect to the descriptors below
\* MaxDescriptor + 1 that are readable.
Activity(sel, readable) == {f \in sel.Master : f <= sel.MaxDescriptor /\ f \in readable}

-----------------------------------------------------------------------------
\* A CSelect over the descriptors 0..N.
SelectType(N) == [nodes : [0..N -> Nat], Master : SUBSET (0..N), MaxDescriptor : (0..N) \cup {-1}]

\* The scheduler waits on the descriptors of F, each once, on nothing else,
\* and pselect is told to look as far as the largest of them.
WaitsOn(sel, F) ==
    /\ sel.Master = F
    /\ \A f \in DOMAIN sel.nodes : sel.nodes[f] = IF f \in F THEN 1 ELSE 0
    /\ sel.MaxDescriptor \in F
    /\ \A f \in F : f <= sel.MaxDescriptor

=============================================================================
