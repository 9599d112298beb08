----------------------------- MODULE GConfTool -----------------------------
(***************************************************************************)
(* gconftool's files (gconftool.c): how --dump prints a value, how --load  *)
(* reads it back, and how a schema file with its global part and its       *)
(* locales becomes one schema per locale.  The keys and the directories    *)
(* they are relative to are left out: one key is dumped and loaded.        *)
(***************************************************************************)
EXTENDS GConfElements

TypeElement(tag, type) == TextElement(tag, <<type>>)
ElementType(node) == Head(node.text)

-----------------------------------------------------------------------------
(* --dump *)

(* One blank is taken for layout, and printed as nothing. *)
PrintBasic(value) ==
  TextElement(value.type,
              IF value.type = "string" /\ value.text = <<" ">> THEN <<>>
              ELSE ValueToString(value))

PrintPart(value) == Around("value", <<PrintBasic(value)>>)

PrintList(value) ==
  [Around("list", [i \in 1 .. Len(value.items) |-> PrintPart(value.items[i])])
     EXCEPT !.type = value.of]

PrintPair(value) ==
  Around("pair", <<Around("car", <<PrintPart(value.car)>>),
                   Around("cdr", <<PrintPart(value.cdr)>>)>>)

PrintPlain(value) ==
  Around("value", <<CASE value.type = "list" -> PrintList(value)
                      [] value.type = "pair" -> PrintPair(value)
                      [] OTHER -> PrintBasic(value)>>)

(* Only the locale the schema was read in. *)
PrintSchema(sc) ==
  Around("schema",
    KidIf(sc.owner # None, TextElement("owner", sc.owner))
    \o <<TypeElement("type", sc.stype)>>
    \o (CASE sc.stype = "list" -> <<TypeElement("list_type", sc.list_type)>>
          [] sc.stype = "pair" -> <<TypeElement("car_type", sc.car_type),
                                    TypeElement("cdr_type", sc.cdr_type)>>
          [] OTHER -> <<>>)
    \o <<[Around("locale",
            (IF sc.default = None THEN <<>>
             ELSE <<Around("default_value", <<PrintPlain(sc.default)>>)>>)
            \o KidIf(sc.short # None, TextElement("short", sc.short))
            \o KidIf(sc.long # None, TextElement("long", sc.long)))
          EXCEPT !.locale = sc.locale]>>)

PrintValue(value) ==
  IF value.type = "schema" THEN Around("value", <<PrintSchema(value)>>)
  ELSE PrintPlain(value)

(* An entry's element; its value is left out where it is only a default    *)
(* and defaults are to be ignored.                                         *)
DumpEntry(entry, ignore_schema_defaults) ==
  Around("entry", IF entry.value = None \/ (ignore_schema_defaults /\ entry.is_default)
                  THEN <<>> ELSE <<PrintValue(entry.value)>>)

(* --set: a text and the types it is to be read as; no schemas, and lists  *)
(* and pairs of basic types only.                                          *)
ValueToSet(arguments) ==
  LET Primitive(type) == type \in {"string", "int", "float", "bool"}
  IN  CASE arguments.type = "list" /\ Primitive(arguments.list) ->
             NewListFromString(arguments.list, arguments.text)
        [] arguments.type = "pair" /\ Primitive(arguments.car) /\ Primitive(arguments.cdr) ->
             NewPairFromString(arguments.car, arguments.cdr, arguments.text)
        [] Primitive(arguments.type) -> NewFromString(arguments.type, arguments.text)
        [] OTHER -> None

(* --all-entries *)
ListPair(entry, ignore_schema_defaults) ==
  IF entry.value = None \/ (ignore_schema_defaults /\ entry.is_default) THEN None
  ELSE ValueToString(entry.value)

-----------------------------------------------------------------------------
(* The values in <value> elements. *)

(* A <value> that holds a basic value; None where it makes no sense. *)
GetPart(node) ==
  IF node.kids = <<>> \/ Head(node.kids).tag \notin {"int", "float", "string", "bool"}
  THEN None
  ELSE NewFromString(Head(node.kids).tag, Head(node.kids).text)

(* Parts that cannot be read, and those of another type, are left out. *)
GetListValue(node) ==
  LET parts == KidsNamed(node, "value")
  IN  IF node.type = None THEN None
      ELSE ListOf(node.type, SelectSeq([i \in 1 .. Len(parts) |-> GetPart(parts[i])],
                                       LAMBDA v : v # None /\ v.type = node.type))

GetHalf(node, tag) ==
  LET halves == KidsNamed(node, tag)
      values == KidsNamed(Last(halves), "value")
  IN  IF halves = <<>> \/ values = <<>> THEN None ELSE GetPart(Head(values))

GetPairValue(node) ==
  IF None \in {GetHalf(node, "car"), GetHalf(node, "cdr")} THEN None
  ELSE PairOf(GetHalf(node, "car"), GetHalf(node, "cdr"))

GetPlain(node) ==
  IF node.kids = <<>> THEN None
  ELSE CASE Head(node.kids).tag = "list" -> GetListValue(Head(node.kids))
         [] Head(node.kids).tag = "pair" -> GetPairValue(Head(node.kids))
         [] OTHER -> GetPart(node)

-----------------------------------------------------------------------------
(* The parts of a schema: what is global, and what is its locales'. *)

(* The text of a default makes a value of the schema's type, if it can. *)
FillDefaultFromString(info, text) ==
  CASE info.type = "list" ->
         IF info.list_type = "invalid" THEN None ELSE NewListFromString(info.list_type, text)
    [] info.type = "pair" ->
         IF "invalid" \in {info.car_type, info.cdr_type} THEN None
         ELSE NewPairFromString(info.car_type, info.cdr_type, text)
    [] info.type \in {"invalid", "schema"} -> None
    [] OTHER -> NewFromString(info.type, text)

DefaultValue(node) ==
  LET values == KidsNamed(node, "value")
  IN  IF values = <<>> THEN None ELSE GetPlain(Head(values))

(* The parts of lists and pairs are of basic types only. *)
PartType(node) ==
  IF ElementType(node) \in {"int", "float", "string", "bool"} THEN ElementType(node)
  ELSE "invalid"

ExtractGlobalInfo(node) ==
  LET Step(info, kid) ==
        CASE kid.tag = "key" -> [info EXCEPT !.key = kid.text]
          [] kid.tag = "owner" -> [info EXCEPT !.owner = kid.text]
          [] kid.tag = "type" -> [info EXCEPT !.type = ElementType(kid)]
          [] kid.tag = "list_type" -> [info EXCEPT !.list_type = PartType(kid)]
          [] kid.tag = "car_type" -> [info EXCEPT !.car_type = PartType(kid)]
          [] kid.tag = "cdr_type" -> [info EXCEPT !.cdr_type = PartType(kid)]
          [] OTHER -> info
      info == FoldLeft(Step, [key |-> None, owner |-> None, type |-> "invalid",
                              list_type |-> "invalid", car_type |-> "invalid",
                              cdr_type |-> "invalid", global_default |-> None],
                       node.kids)
      texts == KidsNamed(node, "default")
      values == KidsNamed(node, "default_value")
  IN  [info EXCEPT !.global_default =
         IF values # <<>> THEN DefaultValue(Last(values))
         ELSE IF texts # <<>> THEN FillDefaultFromString(info, Last(texts).text)
         ELSE None]

(* The global default is given to the locale "C" only. *)
ProcessLocaleInfo(node, info) ==
  LET start == [type |-> "schema", stype |-> info.type, list_type |-> info.list_type,
                car_type |-> info.car_type, cdr_type |-> info.cdr_type,
                owner |-> info.owner, locale |-> node.locale,
                short |-> None, long |-> None,
                default |-> IF node.locale = <<"C">> THEN info.global_default ELSE None]
      Given(value, old) == IF value = None THEN old ELSE value
      Step(sc, kid) ==
        CASE kid.tag = "default_value" ->
               [sc EXCEPT !.default = Given(DefaultValue(kid), @)]
          [] kid.tag = "default" ->
               [sc EXCEPT !.default = Given(FillDefaultFromString(info, kid.text), @)]
          [] kid.tag = "short" -> [sc EXCEPT !.short = kid.text]
          [] kid.tag = "long" -> [sc EXCEPT !.long = kid.text]
          [] OTHER -> sc
  IN  FoldLeft(Step, start, node.kids)

(* The schemas of a <schema> element, one per named locale, the first of   *)
(* each; none without a type.                                              *)
GetSchemas(node) ==
  LET info == ExtractGlobalInfo(node)
      locales == KidsNamed(node, "locale")
      firsts == {i \in 1 .. Len(locales) :
                   /\ locales[i].locale # None
                   /\ \A j \in 1 .. i - 1 : locales[j].locale # locales[i].locale}
  IN  IF info.type = "invalid" THEN {}
      ELSE {ProcessLocaleInfo(locales[i], info) : i \in firsts}

-----------------------------------------------------------------------------
(* --load and --install-schema-file *)

(* A <value> stands for one value or, if a schema, for one per locale. *)
GetValues(node) ==
  IF node.kids # <<>> /\ Head(node.kids).tag = "schema" THEN GetSchemas(Head(node.kids))
  ELSE {GetPlain(node)} \ {None}

(* What loading an entry sets, or unsets, its key to; the order is that of *)
(* a hash table.                                                           *)
ProcessEntry(node) ==
  LET values == KidsNamed(node, "value")
  IN  IF values = <<>> THEN {} ELSE GetValues(Last(values))

(* What a schema file installs; nothing without a key. *)
ProcessSchema(node) ==
  IF ExtractGlobalInfo(node).key = None THEN {} ELSE GetSchemas(node)
=============================================================================
