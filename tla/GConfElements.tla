--------------------------- MODULE GConfElements ---------------------------
(***************************************************************************)
(* The elements of the XML files that the backends and gconftool write and *)
(* read, as libxml and GMarkup hand them over: a tag, the attributes the   *)
(* programs use (None when unset), the children and the text.  Escaping    *)
(* and layout are theirs; entities come back as the characters they stood  *)
(* for.                                                                    *)
(***************************************************************************)
EXTENDS GConfValues

Element(tag) ==
  [tag |-> tag, type |-> None, value |-> None, ltype |-> None, stype |-> None,
   owner |-> None, list_type |-> None, car_type |-> None, cdr_type |-> None,
   locale |-> None, short_desc |-> None, kids |-> <<>>, text |-> <<>>]

TextElement(tag, text) == [Element(tag) EXCEPT !.text = text]
Around(tag, kids) == [Element(tag) EXCEPT !.kids = kids]

KidsNamed(node, tag) == SelectSeq(node.kids, LAMBDA kid : kid.tag = tag)

(* Types are attributes unless they are invalid. *)
TypeProp(type) == IF type = "invalid" THEN None ELSE type
PropType(prop) == IF prop = None THEN "invalid" ELSE prop

(* A child for a field that is there. *)
KidIf(there, kid) == IF there THEN <<kid>> ELSE <<>>
=============================================================================
