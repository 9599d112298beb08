--------------------------- MODULE GConfXmlEntry ---------------------------
(***************************************************************************)
(* One entry of the XML backend (xml-entry.c): the element of the parse    *)
(* tree that is written to %gconf.xml, the value cached beside it, and the *)
(* flag that says that the element is older than the value.  A schema has  *)
(* one <local_schema> child per locale; the cached value is the schema as  *)
(* one of the locales sees it.                                             *)
(*                                                                         *)
(* An entry that does not exist is the new one.  Left out: the schema      *)
(* name, time and user of an entry.                                        *)
(***************************************************************************)
EXTENDS GConfElements

(* Setting an attribute to "" unsets it. *)
Prop(text) == IF text = <<>> THEN None ELSE text

(* The place of the child that holds the settings of a locale, 0 if none. *)
FindLocal(node, locale) ==
  LET at == {i \in 1 .. Len(node.kids) : /\ node.kids[i].tag = "local_schema"
                                         /\ node.kids[i].locale = locale}
  IN  IF at = {} THEN 0 ELSE CHOOSE i \in at : \A j \in at : i <= j

-----------------------------------------------------------------------------
(* Values to elements. *)

NodeSetBasic(node, value) ==
  IF value.type = "string"
  THEN [node EXCEPT !.type = "string", !.kids = <<TextElement("stringvalue", value.text)>>]
  ELSE [node EXCEPT !.type = value.type, !.kids = <<>>, !.value = ValueToString(value)]

(* A pair with an absent half is left with two empty children. *)
NodeSetPlain(node, value) ==
  CASE value.type = "list" ->
         [node EXCEPT !.type = "list", !.ltype = value.of,
                      !.kids = [i \in 1 .. Len(value.items) |->
                                  NodeSetBasic(Element("li"), value.items[i])]]
    [] value.type = "pair" ->
         [node EXCEPT !.type = "pair",
                      !.kids = IF value.car = None \/ value.cdr = None
                               THEN <<Element("car"), Element("cdr")>>
                               ELSE <<NodeSetBasic(Element("car"), value.car),
                                      NodeSetBasic(Element("cdr"), value.cdr)>>]
    [] OTHER -> NodeSetBasic(node, value)

(* The types and the owner are those of all locales; of the locales, only  *)
(* the schema's own child is replaced.                                     *)
NodeSetSchema(node, sc) ==
  LET local == [Element("local_schema") EXCEPT
                  !.locale = Prop(sc.locale),
                  !.short_desc = Prop(sc.short),
                  !.kids = (IF sc.default = None THEN <<>>
                            ELSE <<NodeSetPlain(Element("default"), sc.default)>>)
                           \o KidIf(sc.long # None, TextElement("longdesc", sc.long))]
      at == FindLocal(node, sc.locale)
      Types(type, old) == IF type = "invalid" THEN old ELSE type
  IN  [node EXCEPT !.type = "schema",
                   !.list_type = Types(sc.list_type, @),
                   !.car_type = Types(sc.car_type, @),
                   !.cdr_type = Types(sc.cdr_type, @),
                   !.value = None,
                   !.stype = TypeProp(sc.stype),
                   !.owner = Prop(sc.owner),
                   !.kids = IF at = 0 THEN Append(@, local) ELSE [@ EXCEPT ![at] = local]]

NodeSetValue(node, value) ==
  IF value.type = "schema" THEN NodeSetSchema(node, value) ELSE NodeSetPlain(node, value)

-----------------------------------------------------------------------------
(* Elements to values; None stands for the errors, which are only logged.  *)

ExtractBasic(node) ==
  LET strings == KidsNamed(node, "stringvalue")
  IN  CASE node.type \in {"int", "bool", "float"} ->
             IF node.value = None THEN None ELSE NewFromString(node.type, node.value)
        [] node.type = "string" ->
             IF strings = <<>> THEN None ELSE Basic("string", Head(strings).text)
        [] OTHER -> None

ExtractItems(node) ==
  LET lis == KidsNamed(node, "li")
  IN  SelectSeq([i \in 1 .. Len(lis) |-> ExtractBasic(lis[i])],
                LAMBDA v : v # None /\ v.type = node.ltype)

(* The first of the children with the tag. *)
ExtractHalf(node, tag) ==
  LET halves == KidsNamed(node, tag)
  IN  IF halves = <<>> THEN None ELSE ExtractBasic(Head(halves))

ExtractPlain(node) ==
  CASE node.type = "list" ->
         IF node.ltype \in {None, "list", "pair"} THEN None
         ELSE ListOf(node.ltype, ExtractItems(node))
    [] node.type = "pair" ->
         IF None \in {ExtractHalf(node, "car"), ExtractHalf(node, "cdr")} THEN None
         ELSE PairOf(ExtractHalf(node, "car"), ExtractHalf(node, "cdr"))
    [] OTHER -> ExtractBasic(node)

(* What one child adds to the schema. *)
ExtractLocal(local) ==
  LET defaults == KidsNamed(local, "default")
      longs == KidsNamed(local, "longdesc")
  IN  [locale |-> local.locale, short |-> local.short_desc,
       default |-> IF defaults = <<>> THEN None
                   ELSE ExtractPlain(Head(defaults)),
       long |-> IF longs = <<>> THEN None ELSE Head(longs).text]

(* The child of the best of the locales asked for, else the one of no      *)
(* locale, else the first child, whatever it is.                           *)
BestLocal(node, locales) ==
  LET known == SelectSeq(locales, LAMBDA l : FindLocal(node, l) # 0)
      at == IF known # <<>> THEN FindLocal(node, Head(known)) ELSE FindLocal(node, None)
  IN  IF at # 0 THEN node.kids[at]
      ELSE IF node.kids # <<>> THEN Head(node.kids)
      ELSE Element("local_schema")

ExtractSchema(node, locales) ==
  LET local == ExtractLocal(BestLocal(node, locales))
  IN  [type |-> "schema", stype |-> PropType(node.stype),
       list_type |-> PropType(node.list_type), car_type |-> PropType(node.car_type),
       cdr_type |-> PropType(node.cdr_type), owner |-> node.owner,
       locale |-> local.locale, short |-> local.short, long |-> local.long,
       default |-> local.default]

(* Readers that name no locale read "C". *)
NodeExtractValue(node, locales) ==
  IF node.type = "schema"
  THEN ExtractSchema(node, IF locales = None THEN << <<"C">> >> ELSE locales)
  ELSE ExtractPlain(node)

-----------------------------------------------------------------------------
(* The entry. *)

NewEntry == [node |-> Element("entry"), cached |-> None, dirty |-> TRUE]

(* All attributes are cleared first; the children of a schema stay. *)
SyncToNode(e) ==
  IF ~e.dirty THEN e
  ELSE [e EXCEPT !.dirty = FALSE,
                 !.node = IF e.cached = None THEN Element("entry")
                          ELSE NodeSetValue([Element("entry") EXCEPT !.kids = e.node.kids],
                                            e.cached)]

IsSchema(value) == value # None /\ value.type = "schema"

SyncNothing(e) == e
SyncIfNeeded(e) == IF IsSchema(e.cached) THEN SyncToNode(e) ELSE e

(* The cached schema is kept only if it is the one of the first locale     *)
(* asked for; otherwise it is replaced by what the element holds.          *)
ReadEntry(e, locales) ==
  LET synced == SyncIfNeeded(e)
      found == NodeExtractValue(synced.node, locales)
  IN  IF \/ ~IsSchema(e.cached)
         \/ locales # <<>> /\ e.cached.locale = Head(locales)
         \/ locales = <<>> /\ e.cached.locale = None
      THEN e
      ELSE [synced EXCEPT !.cached = IF found = None THEN @ ELSE found]

(* The schema cached before goes to the element, for its locale's sake. *)
WriteEntry(e, value) == [SyncIfNeeded(e) EXCEPT !.cached = value, !.dirty = TRUE]

(* Without a schema name the unset entry is useless and is destroyed. *)
UnsetEntry(e) == NewEntry

(* Loading a file: the new entry counts as dirty. *)
FillFromNode(node) ==
  [node |-> node, cached |-> NodeExtractValue(node, None), dirty |-> TRUE]
=============================================================================
