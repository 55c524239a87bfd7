------------------------------ MODULE PipeGraph ------------------------------
(***************************************************************************)
(* The graph of a pipe: the definition that the client's builder makes of  *)
(* a Pipe and the processors added to it (processor.py, pipe.py), and the  *)
(* tree that the page draws of it (Pipe.ts, PipeView.vue).                 *)
(***************************************************************************)
EXTENDS UpipeEntities, FiniteSets

(* The builder.  children[p] holds the processors added to p, a set as add  *)
(* ignores a second child of one name.                                      *)

\* What map_proc visits: the processors below root, to any depth.
Reachable(children, root) ==
    LET Within[n \in Nat] ==
            IF n = 0 THEN {root}
            ELSE Within[n - 1] \cup UNION {children[p] : p \in Within[n - 1]}
    IN  Within[Cardinality(DOMAIN children)]

pipe_def(children, root) ==
    LET procs == Reachable(children, root)
    IN  APIPipe(root, {APIProcessor(p) : p \in procs},
                {APIQueue(pc[1], pc[2]) : pc \in
                    {pc \in procs \X procs : pc[2] \in children[pc[1]]}})

-----------------------------------------------------------------------------
(* The page *)

\* The processors that no queue feeds.
entryProcs(pipe) ==
    {p \in pipe.processors : \A q \in pipe.queues : q.to_p # p.id}

\* Mistaken variant: the other end of a queue, as in _get_processor_children.
ChildrenBackwards(pipe, node) == {q.from_p : q \in {q \in pipe.queues : q.from_p = node}}

ChildrenIn(pipe, node) == {q.to_p : q \in {q \in pipe.queues : q.from_p = node}}

\* A node of the tree is the path that leads to it: a processor with several
\* feeding queues is in the tree once for each path.
treeData(pipe) ==
    LET Level[n \in Nat] ==
            IF n = 0 THEN {<<pipe.id>>}
            ELSE UNION {{Append(path, c) : c \in ChildrenIn(pipe, path[Len(path)])}
                        : path \in Level[n - 1]}
    IN  UNION {Level[n] : n \in 0..Cardinality(pipe.processors)}

Parent(path) == SubSeq(path, 1, Len(path) - 1)

\* A line from each node but the first to its parent.
Links(tree) == {<<Parent(path), path>> : path \in {t \in tree : Len(t) > 1}}

SymbolOfType(type) ==
    IF type >= UPipeEntityType.PIPELINE THEN "diamond"
    ELSE IF type >= UPipeEntityType.PROCESSOR THEN "circle" ELSE "triangle"

\* The root of the tree is the pipe, the others are its processors.
Symbols(pipe) ==
    [path \in treeData(pipe) |->
        SymbolOfType(IF Len(path) = 1 THEN pipe.type ELSE UPipeEntityType.PROCESSOR)]

\* What render appends to the page.
Drawing(pipe) ==
    [nodes |-> treeData(pipe), links |-> Links(treeData(pipe)),
     symbols |-> Symbols(pipe)]
=============================================================================
