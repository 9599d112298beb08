-------------------------- MODULE GConfMarkupEntry --------------------------
(***************************************************************************)
(* One entry of the markup backend (markup-tree.c) and how it is written   *)
(* to and read from its files.  The value of a schema key holds what all   *)
(* locales share; the rest is kept per locale in local_schemas.            *)
(*                                                                         *)
(* An unmerged tree keeps everything in %gconf.xml.  A merged tree keeps   *)
(* the descriptions of the locales other than "C" in files of their own,   *)
(* %gconf-tree-LOCALE.xml: `available` are the ones found when the tree    *)
(* was loaded, `loaded` those read since, on demand.                       *)
(*                                                                         *)
(* Left out: the schema name, time and user of an entry, and files that    *)
(* the program did not write itself.                                       *)
(***************************************************************************)
EXTENDS GConfElements

IsSchema(value) == value # None /\ value.type = "schema"

Local(locale, short, long, default) ==
  [locale |-> locale, short |-> short, long |-> long, default |-> default]

NewMarkup(available) ==
  [value |-> None, local_schemas |-> <<>>, available |-> available, loaded |-> {}]

(* The place of a locale in the list, 0 if it has none. *)
LocalAt(locals, locale) ==
  LET at == {i \in 1 .. Len(locals) : locals[i].locale = locale}
  IN  IF at = {} THEN 0 ELSE CHOOSE i \in at : TRUE

-----------------------------------------------------------------------------
(* The files of the locales. *)

(* Reading a locale's file into an entry: a locale that is known already   *)
(* gets the short description and loses the long one.                      *)
ParseLocaleFile(m, locale, file) ==
  LET at == LocalAt(m.local_schemas, locale)
  IN  IF file = None \/ ~IsSchema(m.value) THEN m
      ELSE IF at # 0
      THEN [m EXCEPT !.local_schemas[at].short = file.short,
                     !.local_schemas[at].long = None]
      ELSE [m EXCEPT !.local_schemas = Append(@, Local(locale, file.short, file.long, None))]

EnsureLoaded(m, locale, files) ==
  IF locale \notin m.available \ m.loaded THEN m
  ELSE [ParseLocaleFile(m, locale, files[locale]) EXCEPT !.loaded = @ \cup {locale}]

-----------------------------------------------------------------------------
(* The operations. *)

MarkupSetPlain(m, value) == [m EXCEPT !.value = value, !.local_schemas = <<>>]

(* A new locale goes to the front.  What is not the locale's goes to the   *)
(* value, whatever the other locales were given for it.                    *)
MarkupSetSchema(m, sc, files) ==
  LET locale == IF sc.locale = None THEN <<"C">> ELSE sc.locale
      ready == EnsureLoaded(m, locale, files)
      local == Local(locale, sc.short, sc.long, sc.default)
      at == LocalAt(ready.local_schemas, locale)
  IN  [ready EXCEPT
         !.value = [sc EXCEPT !.locale = None, !.short = None, !.long = None,
                              !.default = None],
         !.local_schemas = IF at = 0 THEN <<local>> \o @ ELSE [@ EXCEPT ![at] = local]]

MarkupSet(m, value, files) ==
  IF IsSchema(value) THEN MarkupSetSchema(m, value, files) ELSE MarkupSetPlain(m, value)

(* Unsetting a schema reads the files of all the locales first. *)
MarkupUnset(m, files) ==
  IF ~IsSchema(m.value) THEN [m EXCEPT !.value = None]
  ELSE [m EXCEPT !.value = None, !.local_schemas = <<>>, !.loaded = m.available]

(* The first of the locales asked for that the entry knows. *)
BestAt(m, locales) ==
  LET known == SelectSeq(locales, LAMBDA l : LocalAt(m.local_schemas, l) # 0)
  IN  IF known = <<>> THEN 0 ELSE LocalAt(m.local_schemas, Head(known))

CAt(m) == LocalAt(m.local_schemas, <<"C">>)

(* Files are read until the best locale and "C" are both found. *)
MarkupConsult(m, locales, files) ==
  LET Step(st, i) ==
        IF BestAt(st, SubSeq(locales, 1, i - 1)) # 0 /\ CAt(st) # 0 THEN st
        ELSE EnsureLoaded(st, locales[i], files)
  IN  IF IsSchema(m.value)
      THEN FoldLeft(Step, m, [i \in 1 .. Len(locales) |-> i]) ELSE m

(* What a reader gets from an entry that has consulted its files: what the *)
(* best locale lacks is taken from "C", field by field.                    *)
MarkupValue(m, locales) ==
  LET blank == Local(<<"C">>, None, None, None)
      Of(at) == IF at = 0 THEN blank ELSE m.local_schemas[at]
      best == Of(BestAt(m, locales))
      c == Of(CAt(m))
      Field(own, other) == IF own # None THEN own ELSE other
  IN  IF ~IsSchema(m.value) THEN m.value
      ELSE [m.value EXCEPT !.locale = best.locale,
                           !.default = Field(best.default, c.default),
                           !.short = Field(best.short, c.short),
                           !.long = Field(best.long, c.long)]

-----------------------------------------------------------------------------
(* Writing. *)

WriteBasic(tag, value) ==
  IF value.type = "string"
  THEN [Element(tag) EXCEPT !.type = "string",
                            !.kids = <<TextElement("stringvalue", value.text)>>]
  ELSE [Element(tag) EXCEPT !.type = value.type, !.value = ValueToString(value)]

ListChildren(list) ==
  [i \in 1 .. Len(list.items) |-> WriteBasic("li", list.items[i])]

PairChildren(pair) ==
  (IF pair.car = None THEN <<>> ELSE <<WriteBasic("car", pair.car)>>)
  \o (IF pair.cdr = None THEN <<>> ELSE <<WriteBasic("cdr", pair.cdr)>>)

WriteValue(tag, value) ==
  CASE value.type = "list" ->
         [Element(tag) EXCEPT !.type = "list", !.ltype = value.of,
                              !.kids = ListChildren(value)]
    [] value.type = "pair" ->
         [Element(tag) EXCEPT !.type = "pair", !.kids = PairChildren(value)]
    [] OTHER -> WriteBasic(tag, value)

(* One locale: nothing at all without descriptions to write and a default. *)
WriteLocal(local, is_locale_file, write_descs) ==
  IF ~write_descs /\ local.default = None THEN <<>>
  ELSE <<[Element("local_schema") EXCEPT
            !.locale = IF is_locale_file THEN None ELSE local.locale,
            !.short_desc = IF write_descs THEN local.short ELSE None,
            !.kids = (IF is_locale_file \/ local.default = None THEN <<>>
                      ELSE <<WriteValue("default", local.default)>>)
                     \o KidIf(write_descs /\ local.long # None,
                           TextElement("longdesc", local.long))]>>

(* The types of the parts are written for lists and pairs only. *)
WriteSchema(m, merged) ==
  [Element("entry") EXCEPT
     !.type = "schema", !.stype = m.value.stype, !.owner = m.value.owner,
     !.list_type = IF m.value.stype = "list" THEN TypeProp(m.value.list_type) ELSE None,
     !.car_type = IF m.value.stype = "pair" THEN TypeProp(m.value.car_type) ELSE None,
     !.cdr_type = IF m.value.stype = "pair" THEN TypeProp(m.value.cdr_type) ELSE None,
     !.kids = FlattenSeq([i \in 1 .. Len(m.local_schemas) |->
                WriteLocal(m.local_schemas[i], FALSE,
                           ~merged \/ m.local_schemas[i].locale = <<"C">>)])]

(* None: an entry without a value is deleted by the sync. *)
WriteEntry(m, merged) ==
  IF m.value = None THEN None
  ELSE IF IsSchema(m.value) THEN WriteSchema(m, merged)
  ELSE WriteValue("entry", m.value)

(* A default that the reader could not match to the schema's type takes    *)
(* its whole locale with it.                                               *)
CleanOldLocals(m) ==
  LET Kept(local) == local.default = None \/ local.default.type = m.value.stype
  IN  IF IsSchema(m.value)
      THEN [m EXCEPT !.local_schemas = SelectSeq(@, Kept)]
      ELSE [m EXCEPT !.local_schemas = IF m.value = None THEN @ ELSE <<>>]

(* Only locales with both descriptions get a file; a file that is not      *)
(* written again stays as it is.                                           *)
NonCDescLocales(m) ==
  {m.local_schemas[i].locale : i \in
     {j \in 1 .. Len(m.local_schemas) : /\ m.local_schemas[j].locale # <<"C">>
                                        /\ m.local_schemas[j].short # None
                                        /\ m.local_schemas[j].long # None}}

LocaleFile(m, locale) ==
  Head(WriteLocal(m.local_schemas[LocalAt(m.local_schemas, locale)], TRUE, TRUE))

-----------------------------------------------------------------------------
(* Reading. *)

(* Text of nothing but blanks is taken for layout. *)
Blank(text) == \A i \in 1 .. Len(text) : text[i] = " "

ParseBasic(node) ==
  LET text == Head(KidsNamed(node, "stringvalue")).text
  IN  CASE node.type = "bool" ->
             Basic("bool", IF node.value = <<"t", "r", "u", "e">> THEN <<"t">> ELSE <<"f">>)
        [] node.type = "string" -> Basic("string", IF Blank(text) THEN <<>> ELSE text)
        [] OTHER -> NewFromString(node.type, node.value)

ParseHalf(node, tag) ==
  LET halves == KidsNamed(node, tag)
  IN  IF halves = <<>> THEN None ELSE ParseBasic(Head(halves))

ParseItems(node) == [i \in 1 .. Len(node.kids) |-> ParseBasic(node.kids[i])]

ParseValue(node) ==
  CASE node.type = "list" -> ListOf(node.ltype, ParseItems(node))
    [] node.type = "pair" -> PairOf(ParseHalf(node, "car"), ParseHalf(node, "cdr"))
    [] node.type = "schema" ->
         [type |-> "schema", stype |-> node.stype, owner |-> node.owner,
          list_type |-> PropType(node.list_type), car_type |-> PropType(node.car_type),
          cdr_type |-> PropType(node.cdr_type),
          locale |-> None, short |-> None, long |-> None, default |-> None]
    [] OTHER -> ParseBasic(node)

ParseLong(node) ==
  LET longs == KidsNamed(node, "longdesc")
  IN  IF longs = <<>> \/ Blank(Head(longs).text) THEN None ELSE Head(longs).text

ParseLocalTexts(node) == Local(node.locale, node.short_desc, ParseLong(node), None)

ParseLocal(node) ==
  LET defaults == KidsNamed(node, "default")
  IN  Local(node.locale, node.short_desc, ParseLong(node),
            IF defaults = <<>> THEN None ELSE ParseValue(Head(defaults)))

(* What a locale's file says, as ParseLocaleFile takes it. *)
ParseDescs(node) == [short |-> node.short_desc, long |-> ParseLong(node)]

(* A tree read from its main file; the locales' files are only listed. *)
ParseEntry(node, available) ==
  IF node = None THEN NewMarkup(available)
  ELSE [NewMarkup(available) EXCEPT
          !.value = ParseValue(node),
          !.local_schemas =
            LET locals == KidsNamed(node, "local_schema")
            IN  [i \in 1 .. Len(locals) |-> ParseLocal(locals[i])]]
=============================================================================
