------------------------------ MODULE Motions ------------------------------
(***************************************************************************)
(* Moving and growing the selection (motion.rs, commands/select.rs), by    *)
(* one character or one atomic block at a time. Words, visual lines and    *)
(* the caret's affinity depend on text shaping and are left out.           *)
(***************************************************************************)
EXTENDS Commands

\* A stop is where a caret, or the selection of an atomic block, may land.
StopPoint(d, b, dir) == IF dir = "backward" THEN EndOf(d, b) ELSE Point(b, 0)

\* The last before, or the first after, of some blocks in document order.
Nearest(blocks, dir) ==
    IF blocks = <<>> THEN None ELSE Some(IF dir = "backward" THEN Last(blocks) ELSE Head(blocks))
Past(d, b, c, dir) ==
    IF dir = "backward" THEN OrderOf(d, c) < OrderOf(d, b) ELSE OrderOf(d, c) > OrderOf(d, b)

\* prev_stop and next_stop: the nearest stop outside block b, or none.
StopBeyond(d, b, dir) ==
    Nearest(Among(Stops(d), {c \in Blocks(d) :
                Past(d, b, c, dir) /\ (dir = "forward" => c \notin Subtree(d, b))}), dir)

\* skip_leaves: the nearest text past b, whatever atomic blocks lie between.
TextBeyond(d, b, dir) == Nearest(Among(TextBlocks(d), {c \in Blocks(d) : Past(d, b, c, dir)}), dir)

Landing(d, b, dir) ==
    IF IsText(d, b) THEN Caret(StopPoint(d, b, dir)) ELSE BlockSelection(b, b)

\* leave_blocks: into the selected blocks' own text, else past them.
LeaveBlocks(st, dir) ==
    LET d     == st.doc
        Inside(in) == Caret(IF dir = "backward" THEN Point(Head(in).block, 0)
                            ELSE Point(Last(in).block, Last(in).to))
        Edge(ids) == IF dir = "backward" THEN Head(ids) ELSE Last(ids)
        Land(past) == IF past = None THEN None ELSE Some(Landing(d, past[1], dir))
        Leave(in) ==
          IF in # <<>> THEN Some(Inside(in))
          ELSE Land(StopBeyond(d, Edge(SiblingIds(d, SelectedSiblings(d, st.selection)[1])), dir))
    IN  Leave(SelectedText(d, st.selection))

\* text_motion: to the next character, or across the block boundary.
MoveText(st, dir, extend) ==
    LET d == st.doc
        p == st.selection.head
        Go(q) == Some(IF extend THEN TextSelection(st.selection.anchor, q) ELSE Caret(q))
        Into(text) == IF text = None THEN None ELSE Go(StopPoint(d, text[1], dir))
        Across(past) ==
          IF past = None THEN None
          ELSE IF ~extend /\ IsLeaf(d, past[1]) THEN Some(BlockSelection(past[1], past[1]))
          ELSE Into(IF IsText(d, past[1]) THEN past ELSE TextBeyond(d, p.block, dir))
        To(offset) == IF 0 <= offset /\ offset <= TextLen(d, p.block) THEN Go(Point(p.block, offset))
                      ELSE Across(StopBeyond(d, p.block, dir))
    IN  To(IF dir = "backward" THEN p.offset - 1 ELSE p.offset + 1)

MoveCaret(st, dir, extend) ==
    LET Edge(r) == Caret(IF dir = "backward" THEN r.from ELSE r.to)
        Move(next) == IF next = None \/ next = Some(st.selection) THEN None
                      ELSE Plan(<<>>, With("Selection", next[1]))
    IN  Move(IF st.selection.sel = "blocks" THEN LeaveBlocks(st, dir)
             ELSE IF ~extend /\ ~IsCaret(st.selection) THEN Some(Edge(TextRange(st.doc, st.selection)))
             ELSE MoveText(st, dir, extend))

\* select_all: from the first text to the last when both ends are text.
SelectAll(st) ==
    LET d == st.doc
        All(first, last) == IF IsText(d, first) /\ IsText(d, last)
                            THEN TextSelection(Point(first, 0), EndOf(d, last))
                            ELSE BlockSelection(d.root[1], Last(d.root))
    IN  SetSelection(st, All(Among(DocOrder(d), {b \in Blocks(d) : Kids(d, b) = <<>>})[1], Last(DocOrder(d))))

\* select_parent: the blocks the text selection touches, then their container.
SelectParent(st) ==
    LET d == st.doc
        Ends(ids) == BlockSelection(Head(ids), Last(ids))
        Outer(b) == IF b = Root THEN None ELSE Some(BlockSelection(b, b))
        Touched(r) == IF r = None THEN None ELSE Some(Ends(SiblingIds(d, r[1])))
        Select(s) == IF s = None THEN None ELSE SetSelection(st, s[1])
    IN  Select(IF st.selection.sel = "blocks" THEN Outer(ParentOf(d, st.selection.first))
               ELSE Touched(SelectedSiblings(d, st.selection)))
=============================================================================
