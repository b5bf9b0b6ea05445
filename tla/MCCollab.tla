------------------------------ MODULE MCCollab ------------------------------
(* Stories of Collab for TLC: small documents and a few edits of each peer. *)
EXTENDS Collab

MCKinds == {"para", "head", "quote", "box"}
MCContentOf == [k \in MCKinds |-> IF k \in {"para", "head"} THEN "inline" ELSE "blocks"]
\* A box takes no headings.
MCAllowedIn == [k \in MCKinds |-> CASE k = "quote" -> MCKinds [] k = "box" -> MCKinds \ {"head"} [] OTHER -> {}]
MCExcludes == [m \in {} |-> {}]

Node(kind, parent, text, kids) ==
    [kind |-> kind, attr |-> 0, parent |-> parent, text |-> text, kids |-> kids, rev |-> 0]
Leaf(kind, parent, text) == Node(kind, parent, text, <<>>)
Doc(root, nodes) == [nodes |-> nodes, root |-> root, next |-> 1, version |-> 0, saves |-> <<>>]

Type(b, at) == [do |-> "type", block |-> b, at |-> at]
Erase(b, at) == [do |-> "erase", block |-> b, at |-> at]
SplitAt(b, at) == [do |-> "split", block |-> b, at |-> at]
Carve(b, at) == [do |-> "carve", block |-> b, at |-> at]
JoinOf(b) == [do |-> "join", block |-> b]
Across(b, at) == [do |-> "across", block |-> b, at |-> at]
InsertAfter(b, k) == [do |-> "insert", block |-> b, kind |-> k]
RemoveIt(b) == [do |-> "remove", block |-> b]
Move(b, to, at) == [do |-> "move", block |-> b, to |-> to, at |-> at]
WrapIn(b, k) == [do |-> "wrap", block |-> b, kind |-> k]
Set(b, k, a) == [do |-> "set", block |-> b, kind |-> k, attr |-> a]
SetTwo(b, c, k) == [do |-> "sets", block |-> b, other |-> c, kind |-> k, attr |-> 0]

Tale(doc, may, commits, late, syncs) ==
    [doc |-> doc, may |-> may, commits |-> commits, late |-> late, syncs |-> syncs]

\* Two paragraphs.
Flat == Doc(<<1, 2>>, 1 :> Leaf("para", 0, <<1, 2>>) @@ 2 :> Leaf("para", 0, <<3>>))
\* A quote with a paragraph and an empty quote, and a paragraph after it.
Nest == Doc(<<1, 4>>, 1 :> Node("quote", 0, <<>>, <<2, 3>>) @@ 2 :> Leaf("para", 1, <<1>>)
                      @@ 3 :> Leaf("quote", 1, <<>>) @@ 4 :> Leaf("para", 0, <<2>>))
\* A quote with a paragraph, and a heading.
Headed == Doc(<<1, 3>>, 1 :> Node("quote", 0, <<>>, <<2>>) @@ 2 :> Leaf("para", 1, <<1>>)
                        @@ 3 :> Leaf("head", 0, <<2>>))
\* Two quotes with a paragraph each.
Quotes == Doc(<<1, 3>>, 1 :> Node("quote", 0, <<>>, <<2>>) @@ 2 :> Leaf("para", 1, <<1>>)
                        @@ 3 :> Node("quote", 0, <<>>, <<4>>) @@ 4 :> Leaf("para", 3, <<2>>))
\* A quote with a paragraph and a quote with a paragraph of its own.
Boxes == Doc(<<1, 5>>, 1 :> Node("quote", 0, <<>>, <<2, 3>>) @@ 2 :> Leaf("para", 1, <<1>>)
                       @@ 3 :> Node("quote", 1, <<>>, <<4>>) @@ 4 :> Leaf("para", 3, <<2>>)
                       @@ 5 :> Leaf("para", 0, <<>>))

\* Two peers type, erase and split in one paragraph.
Writing == {Type(1, 1), Type(1, 2), Erase(1, 1), SplitAt(1, 1), InsertAfter(1, "para"), Set(1, "head", 1)}
Writers == Tale(Flat, <<Writing, Writing>>, <<2, 2>>, {}, FALSE)

\* Two peers move, join, wrap and remove the paragraphs they type in.
Shuffling == {Type(1, 1), SplitAt(1, 1), Carve(1, 1), JoinOf(1), Across(1, 1), RemoveIt(2), Move(2, 0, 0),
              WrapIn(1, "quote"), Set(1, "para", 1)}
Shufflers == Tale(Flat, <<Shuffling, Shuffling>>, <<2, 1>>, {}, FALSE)

\* Two peers change what a container takes while its children change.
Nesting == {Set(2, "head", 0), Set(2, "para", 0), Set(1, "box", 0), Set(1, "quote", 0), Move(2, 3, 0),
            Move(4, 1, 1), Move(1, 0, 1), InsertAfter(2, "head"), WrapIn(2, "box")}
Nesters == Tale(Nest, <<Nesting, Nesting>>, <<2, 2>>, {}, FALSE)

\* Three peers, the third joining late, who also sync with each other.
Joining == {Type(2, 1), SplitAt(2, 1), Set(1, "box", 0), Set(2, "head", 0), Move(2, 0, 0), Move(2, 3, 0)}
Joiners == Tale(Nest, <<Joining, Joining, {Type(2, 0), Move(2, 0, 1), Set(1, "box", 0)}>>, <<1, 1, 1>>, {3}, TRUE)

\* Three peers move one block at once, into a container where it may be hidden.
Twins == Tale(Headed, <<{Set(1, "box", 0), Set(1, "quote", 0)},
                        {Move(3, 1, 0), Move(1, 0, 1), Set(3, "para", 0)},
                        {Move(3, 1, 1), Move(3, 0, 0), Type(3, 1)}>>, <<2, 1, 1>>, {}, FALSE)

\* Two peers move two containers into each other, and their children about.
Cyclers == Tale(Quotes, <<{Move(1, 3, 0), Move(2, 3, 0), Move(2, 0, 0), Set(3, "box", 0)},
                          {Move(3, 1, 0), Move(4, 1, 0), Move(4, 0, 0), Set(4, "head", 0)}>>, <<2, 2>>, {}, FALSE)

MCStories == {Writers, Shufflers, Nesters, Joiners, Twins, Cyclers}

\* Two peers move a paragraph at once; the one whose copy loses moves it again.
Overtaken == {Tale(Flat, <<{Move(2, 0, 0)}, {Move(2, 0, 0), Move(2, 0, 1)}>>, <<1, 2>>, {}, FALSE)}

\* Two peers move a container at once, and one who has seen the first move
\* takes a paragraph out of its copy.
Lost == {Tale(Nest, <<{Move(1, 0, 1)}, {Move(1, 0, 1)}, {Move(2, 0, 0)}>>, <<1, 1, 1>>, {}, FALSE)}

\* A container is removed after children of two containers in it were hidden.
Stale == {Tale(Boxes, <<{SetTwo(1, 3, "box"), RemoveIt(1)}, {SetTwo(2, 4, "head")}>>, <<2, 1>>, {}, FALSE)}
=============================================================================
