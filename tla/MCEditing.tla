----------------------------- MODULE MCEditing -----------------------------
EXTENDS Registry

MCKinds == {"para", "head", "quote", "rule", "bullet", "item", "tasks", "task"}
MCBlocks == {"para", "head", "quote", "rule", "bullet", "tasks"}
MCContentOf == [k \in MCKinds |-> CASE k \in {"para", "head"} -> "inline"
                                    [] k = "rule" -> "leaf" [] OTHER -> "blocks"]
\* A quote takes no heading, as a schema may say; lists take only their items.
MCAllowedIn == [k \in MCKinds |-> CASE k = "quote" -> MCBlocks \ {"head"}
                                    [] k \in {"item", "task"} -> MCBlocks
                                    [] k = "bullet" -> {"item"} [] k = "tasks" -> {"task"}
                                    [] OTHER -> {}]
MCListTypes == {[list |-> "bullet", item |-> "item"], [list |-> "tasks", item |-> "task"]}
MCExcludes == [m \in {"bold"} |-> {}]

Node(kind, parent, text, kids) ==
    [kind |-> kind, attr |-> 0, parent |-> parent, text |-> Plain(text, {}), kids |-> kids, rev |-> 0]
Doc(root, nodes) ==
    [nodes |-> nodes, root |-> root, next |-> Cardinality(DOMAIN nodes) + 1, version |-> 0, saves |-> <<>>]
Open(doc, selection) == [doc |-> doc, selection |-> selection, stored |-> None, composition |-> None]

Nested == Doc(<<1, 2, 6>>, (1 :> Node("head", 0, <<"a", "b">>, <<>>)) @@ (2 :> Node("quote", 0, <<>>, <<3, 4>>))
            @@ (3 :> Node("rule", 2, <<>>, <<>>)) @@ (4 :> Node("quote", 2, <<>>, <<5>>))
            @@ (5 :> Node("para", 4, <<"c">>, <<>>)) @@ (6 :> Node("para", 0, <<>>, <<>>)))
Quoted == Doc(<<1, 4>>, (1 :> Node("quote", 0, <<>>, <<2, 3>>)) @@ (2 :> Node("para", 1, <<"a">>, <<>>))
            @@ (3 :> Node("para", 1, <<>>, <<>>)) @@ (4 :> Node("head", 0, <<"b">>, <<>>)))
Listed == Doc(<<1, 9>>, (1 :> Node("bullet", 0, <<>>, <<2, 7>>)) @@ (2 :> Node("item", 1, <<>>, <<3, 4>>))
            @@ (3 :> Node("para", 2, <<"a">>, <<>>)) @@ (4 :> Node("bullet", 2, <<>>, <<5>>))
            @@ (5 :> Node("item", 4, <<>>, <<6>>)) @@ (6 :> Node("para", 5, <<"b">>, <<>>))
            @@ (7 :> Node("item", 1, <<>>, <<8>>)) @@ (8 :> Node("para", 7, <<>>, <<>>))
            @@ (9 :> Node("para", 0, <<"c">>, <<>>)))
Followed == Doc(<<1>>, (1 :> Node("bullet", 0, <<>>, <<2>>)) @@ (2 :> Node("item", 1, <<>>, <<3, 4, 7>>))
            @@ (3 :> Node("para", 2, <<"a">>, <<>>)) @@ (4 :> Node("bullet", 2, <<>>, <<5>>))
            @@ (5 :> Node("item", 4, <<>>, <<6>>)) @@ (6 :> Node("para", 5, <<"b">>, <<>>))
            @@ (7 :> Node("para", 2, <<"c">>, <<>>)))
Between == Doc(<<1, 4, 5>>, (1 :> Node("bullet", 0, <<>>, <<2>>)) @@ (2 :> Node("item", 1, <<>>, <<3>>))
            @@ (3 :> Node("para", 2, <<"a">>, <<>>)) @@ (4 :> Node("head", 0, <<"b">>, <<>>))
            @@ (5 :> Node("tasks", 0, <<>>, <<6, 8>>)) @@ (6 :> Node("task", 5, <<>>, <<7>>))
            @@ (7 :> Node("para", 6, <<>>, <<>>)) @@ (8 :> Node("task", 5, <<>>, <<9>>))
            @@ (9 :> Node("rule", 8, <<>>, <<>>)))
Short == Doc(<<1>>, 1 :> Node("para", 0, <<"#">>, <<>>))
Rule == Doc(<<1, 2>>, (1 :> Node("rule", 0, <<>>, <<>>)) @@ (2 :> Node("para", 0, <<>>, <<>>)))

Points(d) == {Point(b, o) : b \in {b \in Blocks(d) : IsText(d, b)}, o \in 0..2}
AllSelections(d) ==
    {s \in {TextSelection(p, q) : p, q \in {p \in Points(d) : p.offset <= TextLen(d, p.block)}} :
        PointBefore(d, s.anchor, s.head) \/ s.head.block = 1}
    \cup {s \in {BlockSelection(a, b) : a, b \in Blocks(d)} : Parent(d, s.first) = Parent(d, s.last)}

Bind(names) == {<<[do |-> n]>> : n \in names}
AllBindings ==
    {<<[do |-> "undoInputRule"], [do |-> "deleteBackward"]>>}
    \cup Bind({"deleteForward", "splitBlock", "liftBlock"})
    \cup {<<[do |-> "toggleMark", mark |-> "bold"]>>}
    \cup {<<[do |-> "setBlockType", kind |-> k, attr |-> 0]>> : k \in {"para", "head"}}
    \cup {<<[do |-> "setBlockAttrs", block |-> 1, attr |-> 1]>>}
    \cup {<<[do |-> d, kind |-> "quote"]>> : d \in {"wrapIn", "toggleWrap"}}
    \cup {<<[do |-> "insertLeaf", kind |-> "rule"]>>}
ListBindings ==
    {<<[do |-> "splitListItem", item |-> "item"], [do |-> "liftEmptyBlock"], [do |-> "splitBlock"]>>,
     <<[do |-> "joinListItem", item |-> "item"], [do |-> "deleteBackward"]>>,
     <<[do |-> "sinkListItem", item |-> "item"]>>, <<[do |-> "liftListItem", item |-> "item"]>>,
     <<[do |-> "selectAll"]>>, <<[do |-> "selectParent"]>>}
    \cup {<<[do |-> "toggleList", type |-> l]>> : l \in MCListTypes}
    \cup {<<[do |-> "moveCaret", dir |-> d, extend |-> e]>> : d \in {"backward", "forward"}, e \in BOOLEAN}

\* Commands: each document with each selection, every command.
CommandStarts == UNION {{Open(d, s) : s \in AllSelections(d)} : d \in {Nested, Quoted, Listed, Followed, Between}}
CommandClips ==
    {PlainSlice(<<<<"y">>, <<"z">>>>),
     SliceSelection(Open(Listed, TextSelection(Point(3, 0), Point(6, 1)))),
     SliceSelection(Open(Nested, BlockSelection(2, 2)))}
CommandSetup ==
    [starts |-> CommandStarts, bindings |-> AllBindings \cup ListBindings, chains |-> {},
     texts |-> {<<"x">>}, remote |-> {}, clips |-> CommandClips, selections |-> {},
     limit |-> 9, edits |-> 1]

\* Histories: one short line, and what interleaves with its undo steps.
HistorySetup ==
    [starts |-> {Open(Short, Caret(Point(1, 1))), Open(Rule, Caret(Point(2, 0)))},
     bindings |-> {<<[do |-> "undoInputRule"], [do |-> "deleteBackward"]>>,
                   <<[do |-> "insertLeaf", kind |-> "rule"]>>, <<[do |-> "splitBlock"]>>,
                   <<[do |-> "toggleMark", mark |-> "bold"]>>},
     chains |-> {<<[do |-> "toggleWrap", kind |-> "quote"], [do |-> "insertText", text |-> <<"y">>]>>},
     texts |-> {<<" ">>, <<"x">>},
     remote |-> {<<InsertInlineStep(1, 0, Plain(<<"z">>, {}))>>, <<RemoveBlocksStep(Root, 0, 1)>>},
     clips |-> {}, selections |-> {TextSelection(Point(1, 0), Point(1, 1))},
     limit |-> 2, edits |-> 4]

MCSetups == <<CommandSetup, HistorySetup>>
HashPrefix == <<"#">>
Space == <<" ">>
=============================================================================
