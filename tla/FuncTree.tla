------------------------------ MODULE FuncTree ------------------------------
(***************************************************************************)
(* The left-leaning red-black tree of functions (function.c): a lookup       *)
(* inserts the name it does not find and rebalances on the way up.  A node   *)
(* is identified by its name, and the empty name stands for NULL.            *)
(***************************************************************************)
EXTENDS FuncNames, SequencesExt

CONSTANT Pools  \* sets of names, each the names of one program

ASSUME PoolsAssumption == Pools \subseteq SUBSET Names

NULL  == <<>>
Red   == 0  \* the color of a node fresh from checkasm_mallocz()
Black == 1
Dirs  == {0, 1}

VARIABLES
    pool,  \* the names the program under way asks for
    node,  \* the nodes that were allocated, a function of their names
    root,  \* tree->root
    asked, \* the name checkasm_func_get() was last called with
    out    \* the node it returned

vars == <<pool, node, root, asked, out>>

Nodes == DOMAIN node
Size  == Cardinality(Nodes)

Init == pool \in Pools /\ node = <<>> /\ root = NULL /\ asked = NULL /\ out = NULL

-----------------------------------------------------------------------------
(* tree_balance() and tree_rotate() return all nodes and the one that took     *)
(* f's place.                                                                *)
IsRed(n, f) == f # NULL /\ n[f].color = Red

TreeRotate(n, f, dir) ==
    LET r == n[f].child[1 - dir]
    IN  [ nodes |-> [n EXCEPT ![f].child[1 - dir] = n[r].child[dir], ![f].color = Red,
                              ![r].child[dir] = f, ![r].color = n[f].color],
          top |-> r ]

NoBalance(n, f) == [ nodes |-> n, top |-> f ]  \* faulty: a plain search tree
TreeBalance(n, f) ==
    LET l == n[f].child[0]
        r == n[f].child[1]
    IN  IF IsRed(n, l) /\ IsRed(n, r)
        THEN [ nodes |-> [n EXCEPT ![f].color = 1 - n[f].color,
                                   ![l].color = Black, ![r].color = Black],
               top |-> f ]
        ELSE IF ~ IsRed(n, l) /\ IsRed(n, r) THEN TreeRotate(n, f, 0)
        ELSE IF IsRed(n, l) /\ IsRed(n, n[l].child[0]) THEN TreeRotate(n, f, 1)
        ELSE [ nodes |-> n, top |-> f ]

NewNode == [ child |-> [d \in Dirs |-> NULL], color |-> Red ]
Allocated(name) ==
    [ f \in Nodes \cup {name} |-> IF f = name THEN NewNode ELSE node[f] ]

(* func_get(): its result, the node in *out_func, and what tree_balance()     *)
(* returns too.  A path down has no more nodes than the tree.                 *)
Get(name) ==
    LET get[k \in 0 .. Size] ==
          [ f \in Nodes \cup {NULL} |->
              IF f = NULL \/ k = 0
              THEN [ nodes |-> Allocated(name), top |-> name,
                     out |-> name, inserted |-> TRUE ]
              ELSE IF CmpFuncNames(name, f) = 0
              THEN [ nodes |-> node, top |-> f, out |-> f, inserted |-> FALSE ]
              ELSE LET d == IF CmpFuncNames(name, f) > 0 THEN 1 ELSE 0
                       g == get[k - 1][node[f].child[d]]
                       h == TreeBalance([g.nodes EXCEPT ![f].child[d] = g.top], f)
                   IN  IF g.inserted
                       THEN [g EXCEPT !.nodes = h.nodes, !.top = h.top]
                       ELSE [g EXCEPT !.top = f] ]
    IN  get[Size][root]

(* checkasm_func_get() returns *out_func and keeps the new root to itself.     *)
TopFound(g) == g.top  \* faulty: what the rotations left on top
Found(g) == g.out

FuncGet(name) ==
    /\ name \in pool
    /\ LET g == Get(name)
       IN  /\ root' = g.top
           /\ node' = IF g.inserted THEN [g.nodes EXCEPT ![g.top].color = Black]
                      ELSE node
           /\ out' = Found(g)
    /\ asked' = name
    /\ UNCHANGED pool

(* checkasm_func_tree_uninit()                                               *)
TreeUninit ==
    /\ node' = <<>> /\ root' = NULL /\ asked' = NULL /\ out' = NULL
    /\ UNCHANGED pool

Next == (\E name \in pool : FuncGet(name)) \/ TreeUninit

Spec == Init /\ [][Next]_vars

-----------------------------------------------------------------------------
(* In order, from left to right, and how many black nodes lie on every path  *)
(* down from a node (-1 if the paths differ).  A subtree has no more levels  *)
(* than there are nodes.                                                     *)
InOrder ==
    LET walk[k \in 0 .. Size] ==
          [ f \in Nodes \cup {NULL} |->
              IF f = NULL \/ k = 0 THEN <<>>
              ELSE walk[k - 1][node[f].child[0]] \o <<f>>
                       \o walk[k - 1][node[f].child[1]] ]
    IN  walk[Size][root]

BlackHeight ==
    LET height[k \in 0 .. Size] ==
          [ f \in Nodes \cup {NULL} |->
              IF f = NULL THEN 0
              ELSE IF k = 0 THEN -1
              ELSE LET l == height[k - 1][node[f].child[0]]
                       r == height[k - 1][node[f].child[1]]
                   IN  IF l # r \/ l = -1 THEN -1
                       ELSE l + IF node[f].color = Black THEN 1 ELSE 0 ]
    IN  height[Size][root]

Sorted ==
    LET s == InOrder
    IN  /\ Len(s) = Size
        /\ \A i \in 1 .. Len(s) - 1 : NaturalLess(s[i], s[i + 1])

Balanced ==
    /\ BlackHeight # -1
    /\ \A f \in Nodes : \A d \in Dirs :
           ~ (node[f].color = Red /\ IsRed(node, node[f].child[d]))
    /\ root # NULL => node[root].color = Black

(* Whatever the order in which a program asks for its functions, every one is *)
(* in the tree exactly once, and the lists and reports that walk it show them  *)
(* in natural order; and it stays a red-black tree, so lookups stay            *)
(* logarithmic: the same number of black nodes on every path and no two red   *)
(* nodes in a row (function.c:68-113).                                       *)
SearchTree == Sorted /\ Balanced

(* The runner takes the tree for a function of the name (Versions): a lookup  *)
(* returns the node of the name it was called with and none that merely       *)
(* exists, a name once known is found again, and no lookup makes another     *)
(* function disappear (function.c:115-148).                                  *)
Registry == INSTANCE FuncSet WITH
    known <- ToSet(InOrder),
    asked <- asked,
    got   <- out
ImplementsFuncSet == Registry!Spec
=============================================================================
