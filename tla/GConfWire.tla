----------------------------- MODULE GConfWire -----------------------------
(***************************************************************************)
(* How values and entries cross the bus (gconf-dbus-utils.c).  A struct of *)
(* a message is a sequence of arguments.  Two forms of an entry exist:     *)
(* replies to a lookup and notifications carry the value as a struct, the  *)
(* reply to a listing carries it as encoded text.                          *)
(*                                                                         *)
(* A pair without a car is never sent here: its reader would go past the   *)
(* end of the struct.  Nor is a list of schemas, whose array has no valid  *)
(* signature, or a pair of them.                                           *)
(***************************************************************************)
EXTENDS GConfValues

AppendOptional(text) == <<text # None, OrEmpty(text)>>

GetOptional(args, at) == IF args[at] THEN args[at + 1] ELSE None

AppendSchema(sc) ==
  <<sc.stype, sc.list_type, sc.car_type, sc.cdr_type>>
  \o AppendOptional(sc.locale) \o AppendOptional(sc.short)
  \o AppendOptional(sc.long) \o AppendOptional(sc.owner)
  \o <<IF sc.default = None THEN <<>> ELSE EncodePlain(sc.default)>>

GetSchema(args) ==
  [type |-> "schema", stype |-> args[1], list_type |-> args[2],
   car_type |-> args[3], cdr_type |-> args[4],
   locale |-> GetOptional(args, 5), short |-> GetOptional(args, 7),
   long |-> GetOptional(args, 9), owner |-> GetOptional(args, 11),
   default |-> IF args[13] = <<>> THEN None ELSE DecodePlain(args[13])]

AppendFundamental(value) == value.text

GetFundamental(type, arg) == Basic(type, arg)

HalfType(half) == IF half = None THEN "invalid" ELSE half.type

(* The types of the halves, and the halves there are. *)
AppendPair(pair) ==
  <<HalfType(pair.car), HalfType(pair.cdr)>>
  \o (IF pair.car = None THEN <<>> ELSE <<AppendFundamental(pair.car)>>)
  \o (IF pair.cdr = None THEN <<>> ELSE <<AppendFundamental(pair.cdr)>>)

(* The second half is looked for behind the first, present or not. *)
GetPair(args) ==
  PairOf(IF args[1] = "invalid" THEN None ELSE GetFundamental(args[1], args[3]),
         IF args[2] = "invalid" THEN None ELSE GetFundamental(args[2], args[4]))

AppendList(list) ==
  <<list.of, [i \in 1 .. Len(list.items) |-> AppendFundamental(list.items[i])]>>

GetList(args) ==
  ListOf(args[1], [i \in 1 .. Len(args[2]) |-> GetFundamental(args[1], args[2][i])])

AppendValue(value) ==
  IF value = None THEN <<"invalid">>
  ELSE <<value.type, CASE value.type = "list" -> AppendList(value)
                       [] value.type = "pair" -> AppendPair(value)
                       [] value.type = "schema" -> AppendSchema(value)
                       [] OTHER -> AppendFundamental(value)>>

GetValue(args) ==
  CASE args[1] = "invalid" -> None
    [] args[1] = "list" -> GetList(args[2])
    [] args[1] = "pair" -> GetPair(args[2])
    [] args[1] = "schema" -> GetSchema(args[2])
    [] OTHER -> GetFundamental(args[1], args[2])

-----------------------------------------------------------------------------
(* Entries: the value, the schema name and the two flags. *)

EntryOf(value, schema_name, is_default, is_writable) ==
  [value |-> value, schema_name |-> schema_name,
   is_default |-> is_default, is_writable |-> is_writable]

AppendEntry(entry) ==
  <<AppendValue(entry.value)>> \o AppendOptional(entry.schema_name)
  \o <<entry.is_default, entry.is_writable>>

GetEntry(args) == EntryOf(GetValue(args[1]), GetOptional(args, 2), args[4], args[5])

AppendEntryStringified(entry) ==
  <<IF entry.value = None THEN <<>> ELSE Encode(entry.value)>>
  \o AppendOptional(entry.schema_name) \o <<entry.is_default, entry.is_writable>>

GetEntryStringified(args) ==
  EntryOf(IF args[1] = <<>> THEN None ELSE Decode(args[1]),
          GetOptional(args, 2), args[4], args[5])

(* A listing: the reader puts each entry in front of those before it. *)
AppendEntries(entries) ==
  [i \in 1 .. Len(entries) |-> AppendEntryStringified(entries[i])]

GetEntries(array) ==
  Reverse([i \in 1 .. Len(array) |-> GetEntryStringified(array[i])])
=============================================================================
