--------------------------- MODULE DoxygenText -----------------------------
(* How a file of doxygen becomes objects (the methods build of the generated *)
(* classes) and how a description becomes text (doxyxml/text.py).            *)
(*                                                                           *)
(* A node of a file is an element [tag, attrs, kids] or a text [tag, word],  *)
(* of tag "#text".  An object is [cls, attrs, text, parts]: its parts are    *)
(* the children kept, in the order of the file, each with the name of its    *)
(* element; a string is an object of class "str" with its words as text.     *)
EXTENDS DoxygenSchema, Sequences, SequencesExt

CONSTANT Bad       \* the value of an attribute that is not a number

IsText(node) == node.tag = "#text"

StringObject(words) ==
  [cls |-> "str", attrs |-> <<>>, text |-> words, parts |-> <<>>]

\* The text fields of a new object are empty strings, its lists are empty, and
\* its other fields are None: the arguments of the constructors in compound.py.
EmptyString == StringObject(<<>>)
NoObject == [StringObject(<<>>) EXCEPT !.cls = "None"]
Missing(how) == IF how = "string" THEN EmptyString ELSE NoObject

----------------------------------------------------------------------------
(* build *)

Taken(cls, node) ==
  IF IsText(node) THEN Schema[cls].text = "content"
                  ELSE node.tag \in DOMAIN Schema[cls].kids

ElementInText(node) == \E k \in Range(node.kids) : ~IsText(k)

\* build raises: an attribute that should be a number is none, or an element
\* whose text is taken holds another element, whose nodeValue is None.
RECURSIVE Fails(_, _)
Fails(cls, node) ==
  \/ \E a \in Schema[cls].ints \cap DOMAIN node.attrs : node.attrs[a] = Bad
  \/ \E k \in {n \in Range(node.kids) : ~IsText(n) /\ Taken(cls, n)} :
       LET child == Schema[cls].kids[k.tag]
       IN IF child.cls = "str" THEN ElementInText(k) ELSE Fails(child.cls, k)

\* The object of a node for which build does not raise: buildChildren for each
\* child in turn.
RECURSIVE buildChildren(_, _)
Build(cls, node) ==
  [cls |-> cls, attrs |-> node.attrs, text |-> <<>>,
   parts |-> buildChildren(cls, node.kids)]
buildChildren(cls, kids) ==
  LET k == Head(kids)
      child == Schema[cls].kids[k.tag]
      Part == IF IsText(k) THEN StringObject(<<k.word>>)
              ELSE IF child.cls = "str"
                   THEN StringObject([i \in DOMAIN k.kids |-> k.kids[i].word])
                   ELSE Build(child.cls, k)
  IN IF kids = <<>> THEN <<>>
     ELSE IF Taken(cls, k)
          THEN <<[name |-> k.tag, obj |-> Part]>> \o buildChildren(cls, Tail(kids))
          ELSE buildChildren(cls, Tail(kids))

\* A list of an object, and a field: the last element of the name replaces it.
List(o, n) ==
  LET Named(p) == p.name = n
      found == SelectSeq(o.parts, Named)
  IN [i \in DOMAIN found |-> found[i].obj]
Field(o, n) ==
  IF List(o, n) = <<>> THEN Missing(Schema[o.cls].kids[n].how) ELSE Last(List(o, n))

----------------------------------------------------------------------------
(* text.py *)

Break == <<>>                             \* the empty line after a paragraph

\* content or content_: text and the elements around it, not the lists beside it.
content(o) ==
  LET InText(p) == p.name = "#text" \/ Schema[o.cls].kids[p.name].how \in {"item", "inline"}
  IN SelectSeq(o.parts, InText)

\* description_bit has nothing to read: no content, no content_ and no value.
HasContent(o) == o.cls = "str" \/ Schema[o.cls].text = "content"
RECURSIVE Unreadable(_)
Unreadable(o) ==
  \/ ~HasContent(o)
  \/ \E p \in Range(content(o)) : Unreadable(p.obj)

\* description_bit of an object, and of its content in turn.
RECURSIVE description_bits(_)
description_bit(o) == o.text \o description_bits(content(o))
description_bits(parts) ==
  IF parts = <<>> THEN <<>>
  ELSE description_bit(Head(parts).obj)
       \o (IF Head(parts).name = "para" THEN <<Break>> ELSE <<>>)
       \o description_bits(Tail(parts))

\* The words of a text without the empty lines at its ends.
Strip(words) ==
  LET full == {i \in DOMAIN words : words[i] # Break}
  IN IF full = {} THEN <<>>
     ELSE SubSeq(words, CHOOSE i \in full : \A j \in full : i <= j,
                        CHOOSE i \in full : \A j \in full : j <= i)

description(o) == Strip(description_bit(o))
============================================================================
