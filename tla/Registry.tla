------------------------------ MODULE Registry ------------------------------
(***************************************************************************)
(* The commands extensions register by name (Editor::register), as the     *)
(* value of Editing's constant Command: the base keymap's, those of the    *)
(* lists and the moves of the caret.                                       *)
(***************************************************************************)
EXTENDS Editing, Lists, Motions

\* The transaction a command starts from: three of them begin by deleting the
\* selected text, once they know that they apply.
Started(st, cmd) ==
    LET Deletes == CASE cmd.do = "splitBlock"    -> st.selection.sel = "text"
                     [] cmd.do = "insertLeaf"    -> TakesLeaf(st, cmd.kind)
                     [] cmd.do = "splitListItem" -> InItem(st, cmd.item)
                     [] OTHER                    -> FALSE
    IN  IF Deletes THEN SelectedTextDeleted(st) ELSE NoCommit(st.doc)

PlanOf(st, d, cmd) ==
    CASE cmd.do = "insertText"     -> InsertText(st, cmd.text)
      [] cmd.do = "deleteBackward" -> DeleteBackward(st)
      [] cmd.do = "deleteForward"  -> DeleteForward(st)
      [] cmd.do = "splitBlock"     -> SplitBlock(st, d)
      [] cmd.do = "toggleMark"     -> ToggleMark(st, cmd.mark)
      [] cmd.do = "setBlockType"   -> SetBlockType(st, cmd.kind, cmd.attr)
      [] cmd.do = "setBlockAttrs"  -> SetBlockAttrs(st, cmd.block, cmd.attr)
      [] cmd.do = "wrapIn"         -> WrapIn(st, cmd.kind)
      [] cmd.do = "toggleWrap"     -> ToggleWrap(st, cmd.kind)
      [] cmd.do = "liftBlock"      -> LiftBlock(st)
      [] cmd.do = "insertLeaf"     -> InsertLeaf(st, d, cmd.kind)
      [] cmd.do = "liftEmptyBlock" -> LiftEmptyBlock(st)
      [] cmd.do = "splitListItem"  -> SplitListItem(st, d, cmd.item)
      [] cmd.do = "sinkListItem"   -> SinkListItem(st, cmd.item)
      [] cmd.do = "liftListItem"   -> LiftListItem(st, cmd.item)
      [] cmd.do = "joinListItem"   -> JoinListItemBackward(st, cmd.item)
      [] cmd.do = "toggleList"     -> ToggleList(st, cmd.type)
      [] cmd.do = "moveCaret"      -> MoveCaret(st, cmd.dir, cmd.extend)
      [] cmd.do = "selectAll"      -> SelectAll(st)
      [] cmd.do = "selectParent"   -> SelectParent(st)

Registered(c, cmd) ==
    LET Carry(t) == Change(c.state, t, PlanOf(c.state, t.doc, cmd))
    IN  IF cmd.do = "undoInputRule" THEN UndoInputRule(c) ELSE Carry(Started(c.state, cmd))
=============================================================================
