------------------------------ MODULE MCMarkPhase ------------------------------
(***************************************************************************)
(* Instances of MarkPhase for TLC: two nodes, of a type that is built from *)
(* every kind of type, and a leaf whose type has no references.            *)
(***************************************************************************)
EXTENDS MarkPhase, Traceable

CONSTANTS n1, n2, leaf   \* the values

MCObjects == {n1, n2, leaf}
MCNumBins == 2
MCBinOf == [o \in MCObjects |-> IF o = leaf THEN 2 ELSE 1]
MCSlots == <<<<n1, n2>>, <<leaf>>>>

\* struct Node { neighbors: Neighbors, #[trace(ignore)] last: Ref, owner: Root }
\* enum Neighbors { #[trace(ignore)] Past(Ref), Now(Vec<HashMap<Ref, u32>>) }
Neighbors == <<IgnoredVariant(<<RefMay>>), Variant(<<ListMay(MapMay(RefMay, SimpleMay))>>)>>
NodeFields == <<Field(EnumMay(Neighbors)), IgnoredField(RefMay), Field(RootMay)>>
\* struct Leaf(u32)
LeafFields == <<Field(SimpleMay)>>

MCMayContain == <<StructMay(NodeFields), StructMay(LeafFields)>>

\* A node whose neighbors are the keys of these maps, or a thing of the past.
Node(maps) ==
    LET MapOf(keys) == MapTrace([i \in DOMAIN keys |-> <<RefTrace(keys[i]), SimpleTrace>>])
        neighbors == IF maps = <<>> THEN EnumTrace(Neighbors[1], <<RefTrace(n1)>>)
                     ELSE EnumTrace(Neighbors[2],
                             <<ListTrace([i \in DOMAIN maps |-> MapOf(maps[i])])>>)
    IN  [traced |-> StructTrace(NodeFields, <<neighbors, RefTrace(n2), RootTrace>>),
         refs |-> UNION {ToSet(keys) : keys \in ToSet(maps)}]
Leaf == [traced |-> StructTrace(LeafFields, <<SimpleTrace>>), refs |-> {}]

MCValuesOf ==
    <<{Node(<<>>), Node(<<<<n2, leaf>>>>), Node(<<<<n1>>, <<leaf>>>>)}, {Leaf}>>
===============================================================================
