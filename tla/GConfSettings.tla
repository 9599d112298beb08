--------------------------- MODULE GConfSettings ---------------------------
(***************************************************************************)
(* One key on its whole way: a program or gconftool sets it over the bus,  *)
(* a backend keeps it, writes it to its files and reads them again after a *)
(* restart of gconfd, and programs of different locales read it, by a      *)
(* lookup or in a listing, which gconftool dumps and loads.                *)
(*                                                                         *)
(* The parts are modelled in modules of their own: values and their texts  *)
(* (GConfValues), messages (GConfWire), an entry of either backend         *)
(* (GConfXmlEntry, GConfMarkupEntry) and gconftool's files (GConfTool).    *)
(*                                                                         *)
(* The variable asked is history: what programs have asked the key to be.  *)
(* Left out: failing calls and files (GConfXmlCache, GConfMarkupTree),     *)
(* other keys, and pairs without one of their halves, which no caller can  *)
(* set without tripping over them (see GConfWire).                         *)
(***************************************************************************)
EXTENDS GConfWire, FiniteSets

CONSTANTS
  Values,       \* values that programs set the key to, of all types
  Typed,        \* arguments of gconftool --set
  SchemaFiles,  \* <schema> elements of files to install, by whoever wrote them
  Preferences,  \* the readers' locales, each best first
  MaxCalls      \* bound on the calls that set or unset the key

Xml == INSTANCE GConfXmlEntry
Markup == INSTANCE GConfMarkupEntry
Tool == INSTANCE GConfTool

VARIABLES
  backend,  \* which backend: "xml", "markup", or "merged", markup's merged tree
  entry,    \* the entry in gconfd's memory
  main,     \* its element in the main file, None if there is none
  descs,    \* what the files of the locales say about it, None without a file
  saved,    \* no call has changed the entry since it was saved
  todo,     \* the values gconftool has read from a file and not yet set
  calls,
  asked,    \* history: what was asked for
  kept      \* history: what had been asked for when the entry was saved

vars == <<backend, entry, main, descs, saved, todo, calls, asked, kept>>

C == <<"C">>
Locales == UNION {{p[i] : i \in 1 .. Len(p)} : p \in Preferences}

-----------------------------------------------------------------------------
(* History: the value last set, None if none; while it is a schema, the    *)
(* last one of each locale; the locales of schemas that another value has  *)
(* replaced since the key was unset; and whether all the defaults are of   *)
(* the type of the last schema.                                            *)
Nothing == [value |-> None, locals |-> <<>>, past |-> {}, steady |-> TRUE]

Asked(value) ==
  IF Xml!IsSchema(value)
  THEN LET locals == (value.locale :> value) @@ asked.locals
       IN  [asked EXCEPT !.value = value, !.locals = locals,
                         !.steady = @ /\ \A l \in DOMAIN locals :
                                          \/ locals[l].default = None
                                          \/ locals[l].default.type = value.stype]
  ELSE [value |-> value, locals |-> <<>>,
        past |-> asked.past \cup DOMAIN asked.locals, steady |-> TRUE]

-----------------------------------------------------------------------------
(* Reading. *)

(* The entry once it has been read, and the value that is read from it. *)
Consulted(e, locales) ==
  IF backend = "xml" THEN Xml!ReadEntry(e, locales)
  ELSE Markup!MarkupConsult(e, locales, descs)

ValueOf(e, locales) ==
  IF backend = "xml" THEN Consulted(e, locales).cached
  ELSE Markup!MarkupValue(Consulted(e, locales), locales)

Found(locales) == ValueOf(entry, locales)

FoundEntry(locales) == EntryOf(Found(locales), None, FALSE, TRUE)

(* What the program gets: the reply to a lookup, and to a listing. *)
LookedUp(locales) == GetEntry(AppendEntry(FoundEntry(locales)))
Listed(locales) == Head(GetEntries(AppendEntries(<<FoundEntry(locales)>>)))

Read(locales) ==
  /\ entry' = Consulted(entry, locales)
  /\ UNCHANGED <<backend, main, descs, saved, todo, calls, asked, kept>>

-----------------------------------------------------------------------------
(* Writing. *)

(* The value is checked by the caller's library and crosses the bus. *)
Store(value) ==
  LET arrived == GetValue(AppendValue(value))
  IN  /\ Valid(value)
      /\ entry' = IF backend = "xml" THEN Xml!WriteEntry(entry, arrived)
                  ELSE Markup!MarkupSet(entry, arrived, descs)
      /\ saved' = FALSE
      /\ asked' = Asked(value)
      /\ UNCHANGED <<backend, main, descs, kept>>

Call == calls < MaxCalls /\ calls' = calls + 1

Set(value) == Call /\ Store(value) /\ UNCHANGED todo

(* gconftool --set: nothing is set where the text makes no value. *)
SetText(arguments) ==
  /\ Tool!ValueToSet(arguments) # None
  /\ Set(Tool!ValueToSet(arguments))

Unset ==
  /\ Call
  /\ entry' = IF backend = "xml" THEN Xml!UnsetEntry(entry)
              ELSE Markup!MarkupUnset(entry, descs)
  /\ saved' = FALSE
  /\ asked' = Nothing
  /\ UNCHANGED <<backend, main, descs, todo, kept>>

(* gconftool --dump and then --load: what the dump says is set once it has *)
(* been read, and other calls may come first.                              *)
Transfer(locales) ==
  /\ Call
  /\ todo = {}
  /\ Found(locales) # None
  /\ entry' = Consulted(entry, locales)
  /\ todo' = Tool!ProcessEntry(Tool!DumpEntry(Listed(locales), FALSE))
  /\ UNCHANGED <<backend, main, descs, saved, asked, kept>>

(* gconftool --install-schema-file *)
InstallSchemas(file) ==
  /\ Call
  /\ todo = {}
  /\ todo' = Tool!ProcessSchema(file)
  /\ UNCHANGED <<backend, entry, main, descs, saved, asked, kept>>

(* In the order of a hash table. *)
LoadNext(value) ==
  /\ value \in todo
  /\ Store(value)
  /\ todo' = todo \ {value}
  /\ UNCHANGED calls

-----------------------------------------------------------------------------
(* Files. *)

SaveXml ==
  /\ entry' = IF entry.cached = None THEN entry ELSE Xml!SyncToNode(entry)
  /\ main' = IF entry.cached = None THEN None ELSE entry'.node
  /\ UNCHANGED descs

(* Files of locales that have nothing more to say stay. *)
SaveMarkup ==
  LET merged == backend = "merged"
      cleaned == Markup!CleanOldLocals(entry)
  IN  /\ entry' = cleaned
      /\ main' = Markup!WriteEntry(cleaned, merged)
      /\ descs' = [l \in Locales |->
                     IF merged /\ Markup!IsSchema(cleaned.value)
                               /\ l \in Markup!NonCDescLocales(cleaned)
                     THEN Markup!ParseDescs(Markup!LocaleFile(cleaned, l))
                     ELSE descs[l]]

Save ==
  /\ ~saved
  /\ IF backend = "xml" THEN SaveXml ELSE SaveMarkup
  /\ saved' = TRUE
  /\ kept' = asked
  /\ UNCHANGED <<backend, todo, calls, asked>>

(* gconfd ends, or dies with unsaved changes, and starts again. *)
Loaded ==
  IF backend = "xml"
  THEN IF main = None THEN Xml!NewEntry ELSE Xml!FillFromNode(main)
  ELSE Markup!ParseEntry(main, {l \in Locales : descs[l] # None})

Restart ==
  /\ entry' = Loaded
  /\ saved' = TRUE
  /\ asked' = kept
  /\ UNCHANGED <<backend, main, descs, todo, calls, kept>>

-----------------------------------------------------------------------------
Init ==
  /\ backend \in {"xml", "markup", "merged"}
  /\ entry = IF backend = "xml" THEN Xml!NewEntry ELSE Markup!NewMarkup({})
  /\ main = None
  /\ descs = [l \in Locales |-> None]
  /\ saved = TRUE
  /\ todo = {}
  /\ calls = 0
  /\ asked = Nothing
  /\ kept = Nothing

Next ==
  \/ \E locales \in Preferences : Read(locales) \/ Transfer(locales)
  \/ \E value \in Values : Set(value)
  \/ \E arguments \in Typed : SetText(arguments)
  \/ \E file \in SchemaFiles : InstallSchemas(file)
  \/ \E value \in todo : LoadNext(value)
  \/ Unset
  \/ Save
  \/ Restart

Spec == Init /\ [][Next]_vars

-----------------------------------------------------------------------------
(* The properties compare with a reference: what should come out of a      *)
(* value, part by part.                                                    *)

Parts(value, F(_)) ==
  CASE value = None -> None
    [] value.type = "list" ->
         [value EXCEPT !.items = [i \in 1 .. Len(value.items) |-> F(value.items[i])]]
    [] value.type = "pair" -> [value EXCEPT !.car = F(@), !.cdr = F(@)]
    [] value.type = "schema" -> value
    [] OTHER -> F(value)

(* Digits that encoding a float loses. *)
Shortened(value) ==
  LET Short(v) == IF v.type = "float" /\ Len(v.text) > FloatDigits
                  THEN [v EXCEPT !.text = SubSeq(@, 1, FloatDigits)] ELSE v
  IN  Parts(value, Short)

(* Strings of blanks that the markup files lose. *)
Trimmed(value) ==
  LET Trim(v) == IF v.type = "string" /\ Markup!Blank(v.text)
                 THEN [v EXCEPT !.text = <<>>] ELSE v
  IN  Parts(value, Trim)

Alike(got, want) == got = want \/ (backend # "xml" /\ got = Trimmed(want))

AlikeText(got, want) ==
  \/ OrEmpty(got) = OrEmpty(want)
  \/ backend # "xml" /\ got = None /\ Markup!Blank(want)

SameTypes(got, want) ==
  /\ got.stype = want.stype
  /\ got.stype = "list" => got.list_type = want.list_type
  /\ got.stype = "pair" => got.car_type = want.car_type /\ got.cdr_type = want.cdr_type

(* The best of the locales that schemas were set in. *)
Best(locales) ==
  LET known == SelectSeq(locales, LAMBDA l : l \in DOMAIN asked.locals)
  IN  IF known = <<>> THEN None ELSE Head(known)

(* What a reader should see of a field: the best locale's own setting; in  *)
(* markup the setting of "C" where the best locale has none.               *)
Owed(field, best) ==
  LET own == asked.locals[best][field]
      c == IF C \in DOMAIN asked.locals THEN asked.locals[C][field] ELSE None
  IN  IF backend = "xml" THEN {own}
      ELSE IF own = None THEN {c}
      ELSE IF field # "default" /\ Markup!Blank(own) THEN {own, c}
      ELSE {own}

SchemaAsAsked(got, locales) ==
  LET best == Best(locales)
      descs_of_best == backend # "merged" \/ Head(locales) = C
  IN  /\ SameTypes(got, asked.value)
      /\ OrEmpty(got.owner) = OrEmpty(asked.value.owner)
      /\ (/\ best # None
          /\ IF backend = "xml" THEN Head(locales) \in {best} \cup (Locales \ asked.past)
             ELSE asked.steady)
         => /\ \E want \in Owed("default", best) : Alike(got.default, Shortened(want))
            /\ descs_of_best =>
                 /\ got.locale = best
                 /\ \E want \in Owed("short", best) : AlikeText(got.short, want)
                 /\ \E want \in Owed("long", best) : AlikeText(got.long, want)

AsAsked(got, locales) ==
  CASE asked.value = None -> got = None
    [] Xml!IsSchema(asked.value) -> Xml!IsSchema(got) /\ SchemaAsAsked(got, locales)
    [] OTHER -> Alike(got, asked.value)

(* A lookup returns what was last asked for, through any number of saves,  *)
(* restarts, reads in other locales, dumps and loads: the value; or a      *)
(* schema with the types and the owner of the last one, and the settings   *)
(* that the best of the reader's locales was last given, whatever the      *)
(* others were given since.  Where the backends fall short of this, the    *)
(* README says so: a locale of a schema that another value had replaced    *)
(* comes back in the XML backend, a schema set with another type loses     *)
(* locales in markup, and a merged tree keeps other locales' descriptions  *)
(* only when there are two of them and no default, and keeps them too long.*)
ReadsAreSettings ==
  \A locales \in Preferences : AsAsked(LookedUp(locales).value, locales)

-----------------------------------------------------------------------------
SameReading(got, want) ==
  IF ~Xml!IsSchema(want) THEN Alike(got, want)
  ELSE /\ Xml!IsSchema(got)
       /\ SameTypes(got, want)
       /\ OrEmpty(got.owner) = OrEmpty(want.owner)
       /\ Alike(got.default, want.default)
       /\ (backend = "merged" => want.locale = C /\ got.locale = C) =>
            /\ got.locale = want.locale
            /\ AlikeText(got.short, want.short)
            /\ AlikeText(got.long, want.long)

(* What is saved outlives gconfd: after a restart every reader sees what   *)
(* it saw before, in each locale, although files hold elements and memory  *)
(* holds the schema of one locale (XML) or a list of them (markup).        *)
RestartKeepsReadings ==
  [][Restart /\ saved =>
       \A locales \in Preferences :
         SameReading(ValueOf(entry', locales), Found(locales))]_vars

Encoded(value) ==
  IF Xml!IsSchema(value)
  THEN [value EXCEPT !.locale = OrEmpty(@), !.short = OrEmpty(@), !.long = OrEmpty(@),
                     !.owner = None, !.default = Shortened(@)]
  ELSE Shortened(value)

Retyped(value) ==
  CASE value.type = "list" -> ListFromPrimitive(value.of, ListToPrimitive(value, value.of))
    [] value.type = "pair" ->
         PairFromPrimitive(value.car.type, value.cdr.type,
                           PairToPrimitive(value, value.car.type, value.cdr.type))
    [] OTHER -> value

RepliesAgree(found, looked_up, listed) ==
  /\ listed = Encoded(found)
  /\ looked_up = IF Xml!IsSchema(found)
                 THEN [found EXCEPT !.default = Shortened(@)] ELSE found
  /\ Retyped(looked_up) = looked_up

(* A listing and a lookup of the same entry agree, though one sends text   *)
(* and the other a struct: all but the owner of a schema, absent texts,    *)
(* and the digits of floats.  A typed getter of the same list or pair      *)
(* yields the primitives that make it again.                               *)
ListingsAgree ==
  \A locales \in Preferences :
    \/ Found(locales) = None
    \/ RepliesAgree(Found(locales), LookedUp(locales).value, Listed(locales).value)

-----------------------------------------------------------------------------
Has(value, P(_)) ==
  CASE value = None -> FALSE
    [] value.type = "list" -> \E i \in 1 .. Len(value.items) : P(value.items[i])
    [] value.type = "pair" -> P(value.car) \/ P(value.cdr)
    [] OTHER -> P(value)

(* The types of parts are dumped for lists and pairs only. *)
Relevant(sc) ==
  [sc EXCEPT !.list_type = IF sc.stype = "list" THEN @ ELSE "invalid",
             !.car_type = IF sc.stype = "pair" THEN @ ELSE "invalid",
             !.cdr_type = IF sc.stype = "pair" THEN @ ELSE "invalid"]

(* The text of a list, a pair or a basic value, as --all-entries prints it *)
(* and --set takes it. *)
FromText(value, text) ==
  Tool!ValueToSet([type |-> value.type, text |-> text,
                   list |-> IF value.type = "list" THEN value.of ELSE None,
                   car |-> IF value.type = "pair" THEN value.car.type ELSE None,
                   cdr |-> IF value.type = "pair" THEN value.cdr.type ELSE None])

OneBlank(v) == v.type = "string" /\ v.text = <<" ">>

(* The texts that make the list empty for its reader. *)
SeemsEmpty(value, text) ==
  value.type = "list" /\ value.items # <<>> /\ text[Len(text) - 1] = "["

TextRestores(value, text) == SeemsEmpty(value, text) \/ FromText(value, text) = value

Reloads(value, loaded) ==
  IF Xml!IsSchema(value)
  THEN Has(value.default, OneBlank) \/ loaded = {Relevant(value)}
  ELSE Has(value, OneBlank) \/ loaded = {value}

(* What gconftool prints it can read: the text of a value gives the value  *)
(* back, whatever separators, quotes and backslashes its parts hold, and   *)
(* loading a dump sets the key to what it was.  Exceptions, by the code:   *)
(* one blank and nothing else is dumped as nothing; a list whose text ends *)
(* in "[]" reads as the empty list.                                        *)
TextsRestore ==
  \A listing \in {Listed(locales) : locales \in Preferences} :
    listing.value # None =>
      /\ Reloads(listing.value, Tool!ProcessEntry(Tool!DumpEntry(listing, FALSE)))
      /\ Xml!IsSchema(listing.value)
         \/ TextRestores(listing.value, Tool!ListPair(listing, FALSE))
=============================================================================
