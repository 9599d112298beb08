--------------------------- MODULE MCGConfSettings ---------------------------
(***************************************************************************)
(* Values chosen for the characters that the texts treat specially: blanks,*)
(* separators, brackets, quotes and backslashes; a float with more digits  *)
(* than its encoding keeps; and schemas of two locales that differ in what *)
(* they leave out.                                                         *)
(***************************************************************************)
EXTENDS GConfSettings

String(text) == Basic("string", text)
IntOf(digits) == Basic("int", digits)

D == <<"d">>
MCPreferences == {<<C>>, <<D, C>>}

AwkwardList == ListOf("string", << String(<<",", "]">>), String(<<"\\", "\"">>),
                                   String(<<"a", "[">>), String(<<>>) >>)

Schema(stype, list_type, locale, short, long, default) ==
  [type |-> "schema", stype |-> stype, list_type |-> list_type,
   car_type |-> "invalid", cdr_type |-> "invalid", locale |-> locale,
   short |-> short, long |-> long, default |-> default, owner |-> None]

PairSchema ==
  [Schema("pair", "invalid", C, <<"p">>, None,
          PairOf(String(<<"(", ")">>), Basic("float", <<"1", "2", "3">>)))
     EXCEPT !.car_type = "string", !.cdr_type = "float"]

MCValues ==
  { ListOf("string", << String(<<" ">>) >>),
    AwkwardList,
    PairOf(String(<<"\\", ",">>), Basic("float", <<"1", "2", "3">>)),
    [Schema("int", "invalid", C, <<"s">>, <<"l">>, IntOf(<<"1">>)) EXCEPT !.owner = <<"o">>],
    Schema("int", "invalid", D, <<"t">>, <<"m", "\"">>, None),
    Schema("list", "string", D, <<"u">>, None, AwkwardList),
    PairSchema,
    Schema("list", "invalid", C, None, None, None) }

(* A list that is not closed, one of numbers that are none, a pair.        *)
MCTyped ==
  { [type |-> "list", text |-> <<"[", "1">>, list |-> "int", car |-> None, cdr |-> None],
    [type |-> "list", text |-> <<"[", "1", ",", "a", "]">>, list |-> "int",
     car |-> None, cdr |-> None],
    [type |-> "pair", text |-> <<"(", "y", ",", "2", "a", ")">>, list |-> None,
     car |-> "bool", cdr |-> "int"] }

(* A list's schema with a default for all, one locale with its own; and    *)
(* one that names no key.                                                  *)
File(keys) ==
  Tool!Around("schema",
    keys \o << Tool!TypeElement("type", "list"), Tool!TypeElement("list_type", "int"),
               Tool!TextElement("default", <<"[", "1", ",", "2", "]">>),
               [Tool!Around("locale", << Tool!TextElement("short", <<"s">>),
                                         Tool!TextElement("long", <<" ">>) >>)
                  EXCEPT !.locale = C],
               [Tool!Around("locale", << Tool!TextElement("default", <<"[", "]">>),
                                         Tool!TextElement("long", <<"v">>) >>)
                  EXCEPT !.locale = D] >>)

MCSchemaFiles == { File(<<Tool!TextElement("key", <<"k">>)>>), File(<<>>) }
=============================================================================
