------------------------------- MODULE GeoTree -------------------------------
(***************************************************************************)
(* The two readers of location databases.  A database is a binary tree in  *)
(* an array of nodes: a child below the number of nodes is a node, that    *)
(* number means nothing is known, anything above is a record.  Get follows *)
(* the bits of one address; WalkV4 visits every network with a stack.      *)
(* Nothing checks a file as a whole when it is opened: it may be cut       *)
(* short, have records that cannot be decoded, and nodes that lead back to *)
(* earlier ones.                                                           *)
(***************************************************************************)
EXTENDS RangeBasics

CONSTANTS NodeCount,  \* nodes of the tree
          Width,      \* bits of an address
          V4Path      \* the bits before an IPv4 address in an IPv6 tree

ASSUME TreeConstants ==
    /\ NodeCount \in Nat \ {0} /\ Width \in Nat \ {0}
    /\ V4Path \in Seq(0..1)

VARIABLES tree,     \* the two children read at the place of each number; only
                    \*   numbers below NodeCount are nodes
          present,  \* numbers whose place the file holds
          sound,    \* records that can be decoded
          stack,    \* WalkV4: nodes to visit, with prefix and depth
          visited,  \* the networks handed to the visitor
          walk      \* "new", "walking", "done" or "failed"

treeVars == <<tree, present, sound, stack, visited, walk>>

Nodes == 0..(NodeCount - 1)
Addresses == 0..(Pow2[Width] - 1)

\* The records: country, the country an address is registered in, and a code on its own.
Data == [d \in 1..4 |-> [country |-> <<"CN", "", "", "">>[d], registered |-> <<"US", "US", "", "">>[d],
                         flat |-> <<"", "", "HK", "">>[d]]]

Numbers == 0..(NodeCount + Cardinality(DOMAIN Data))

mmdbCountryCode(rec) ==
    IF rec.country # "" THEN rec.country ELSE IF rec.registered # "" THEN rec.registered ELSE rec.flat

OutOfRange == -1

\* readNode and record.
readNode(node, bit) == IF node \in 0..(present - 1) THEN tree[node][bit] ELSE OutOfRange

\* walk: the node reached by the bits from node; it stays where the tree ends.
Follow(node, bits) ==
    LET at[i \in 0..Len(bits)] ==
            IF i = 0 THEN node
            ELSE IF at[i-1] \in Nodes THEN readNode(at[i-1], bits[i]) ELSE at[i-1]
    IN at[Len(bits)]

v4Root == Follow(0, V4Path)

Bits(a) == [i \in 1..Width |-> (a \div Pow2[Width - i]) % 2]

\* Where the lookup of an address ends.
LookedUp(a) == Follow(0, V4Path \o Bits(a))

\* The code of a record, or an error.
Decode(child) == IF child - NodeCount \in sound THEN mmdbCountryCode(Data[child - NodeCount]) ELSE "error"

\* The code of an address, or an error.  (Of an IPDB file a record that cannot
\* be decoded is no error but an empty one.)
Get(a) == CASE LookedUp(a) = OutOfRange            -> "error"
            [] LookedUp(a) \in Nodes \cup {NodeCount} -> ""
            [] OTHER                               -> Decode(LookedUp(a))

\* WalkV4 takes a record that cannot be decoded for an empty one.  (It keeps the
\* codes it has decoded; a record is decoded the same way each time.)
decodeAt(child) == IF Decode(child) = "error" THEN "" ELSE Decode(child)

\* A file that ends inside its nodes has no records.
TreeInit ==
    /\ tree \in [Numbers -> [0..1 -> Numbers]]
    /\ present \in 1..(1 + NodeCount + Cardinality(DOMAIN Data))
    /\ sound \in SUBSET DOMAIN Data /\ (present <= NodeCount => sound = {})
    /\ stack = <<>>
    /\ visited = {}
    /\ walk = "new"

WalkBegins ==
    /\ walk = "new"
    /\ \/ /\ v4Root # OutOfRange
          /\ stack' = <<[node |-> v4Root, prefix |-> 0, depth |-> 0]>>
          /\ walk' = "walking"
       \/ /\ v4Root = OutOfRange
          /\ walk' = "failed"
          /\ UNCHANGED stack
    /\ UNCHANGED <<tree, present, sound, visited>>

\* A bit too far to the left.
valueShifted(item, bit) == IF item.depth <= Width THEN item.prefix + bit * Pow2[Width - item.depth] ELSE item.prefix

\* The first address of a child's network; a bit below the last is shifted out.
value(item, bit) == IF item.depth < Width THEN item.prefix + bit * Pow2[Width - 1 - item.depth] ELSE item.prefix

\* The network of the child at bit, unless nothing is known of it.
Found(item, bit) ==
    LET child == tree[item.node][bit]
    IN IF child > NodeCount /\ decodeAt(child) # ""
       THEN {[lo |-> value(item, bit), len |-> item.depth + 1, code |-> decodeAt(child)]} ELSE {}

Pushed(item, bit) ==
    LET child == tree[item.node][bit]
    IN IF child \in Nodes
       THEN <<[node |-> child, prefix |-> value(item, bit), depth |-> item.depth + 1]>> ELSE <<>>

\* One round of the loop: the last node of the stack, bit 1 before bit 0.
WalkV4 ==
    /\ walk = "walking"
    /\ stack # <<>>
    /\ LET item == stack[Len(stack)]
           rest == SubSeq(stack, 1, Len(stack) - 1)
       IN \/ /\ item.depth > Width
             /\ stack' = rest
             /\ UNCHANGED <<visited, walk>>
          \/ /\ item.depth <= Width /\ readNode(item.node, 1) = OutOfRange
             /\ walk' = "failed"
             /\ UNCHANGED <<stack, visited>>
          \/ /\ item.depth <= Width /\ readNode(item.node, 1) # OutOfRange
             /\ stack' = rest \o Pushed(item, 1) \o Pushed(item, 0)
             /\ visited' = visited \cup Found(item, 1) \cup Found(item, 0)
             /\ UNCHANGED walk
    /\ UNCHANGED <<tree, present, sound>>

WalkEnds ==
    /\ walk = "walking"
    /\ stack = <<>>
    /\ walk' = "done"
    /\ UNCHANGED <<tree, present, sound, stack, visited>>

TreeNext == WalkBegins \/ WalkV4 \/ WalkEnds

TreeSpec == TreeInit /\ [][TreeNext]_treeVars

\* The addresses of a network.  One longer than an address is no valid prefix,
\* and every visitor passes over it.
Network(n) == IF n.len <= Width THEN n.lo..(n.lo + Pow2[Width - n.len] - 1) ELSE {}

\* The walk and the lookups agree on every address: after a walk without error
\* an address is in a visited network with exactly the code Get returns, and in
\* none if Get returns nothing or cannot decode the record, and no lookup runs
\* out of the file; a walk fails only if some lookup does, or stays inside the
\* tree with its last bit.  If all IPv4 addresses have one record, or none, the
\* walk takes other bytes for a node, and nothing is said (MMDBReader and
\* IPDBReader: Get against WalkV4).
WalkMatchesGet ==
    v4Root \in Nodes \cup {OutOfRange} =>
        /\ walk = "done" => \A a \in Addresses :
               /\ {n.code : n \in {m \in visited : a \in Network(m)}} = {Get(a)} \ {"", "error"}
               /\ LookedUp(a) # OutOfRange
        /\ walk = "failed" => \E a \in Addresses : LookedUp(a) \in Nodes \cup {OutOfRange}
=============================================================================
