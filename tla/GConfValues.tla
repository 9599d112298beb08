---------------------------- MODULE GConfValues ----------------------------
(***************************************************************************)
(* GConf's values and the two ways they become text: the readable form of  *)
(* gconf-value.c ("[a,b]", "(1,2)"), which gconftool dumps and loads, and  *)
(* the encoded form of gconf-internals.c (type bytes and quoted parts), in *)
(* which listings and the defaults of schemas cross the bus.               *)
(*                                                                         *)
(* A text is a sequence of one-character strings, because both forms are   *)
(* about single characters: quotes, backslashes, commas and brackets.  A   *)
(* number is the text of its digits; a bool is <<"t">> or <<"f">>; None    *)
(* stands for NULL, be it a value or a text.  Lists and pairs hold basic   *)
(* values, and the default of a schema is a plain value, no schema: the    *)
(* code's recursion goes no deeper for what programs give it.              *)
(***************************************************************************)
EXTENDS Integers, Sequences, SequencesExt

CONSTANTS
  None,        \* NULL
  FloatDigits  \* the digits "%g" prints (six in the code)

ASSUME FloatDigitsAssumption == FloatDigits \in Nat \ {0}

Digits == {"0", "1", "2", "3"}

Basic(type, text) == [type |-> type, text |-> text]
ListOf(type, items) == [type |-> "list", of |-> type, items |-> items]
PairOf(car, cdr) == [type |-> "pair", car |-> car, cdr |-> cdr]

OrEmpty(text) == IF text = None THEN <<>> ELSE text

-----------------------------------------------------------------------------
(* The readable form. *)

(* How far strtol or strtod reads. *)
Number(text) ==
  LET stops == {i \in 1 .. Len(text) : text[i] \notin Digits}
  IN  IF stops = {} THEN text
      ELSE SubSeq(text, 1, (CHOOSE i \in stops : \A j \in stops : i <= j) - 1)

(* The value a text stands for, None where the text makes no sense. *)
NewFromString(type, text) ==
  CASE type \in {"int", "float"} ->
         IF Number(text) = <<>> THEN None ELSE Basic(type, Number(text))
    [] type = "string" -> Basic("string", text)
    [] type = "bool" ->
         IF text = <<>> THEN None
         ELSE IF Head(text) \in {"t", "T", "1", "y", "Y"} THEN Basic("bool", <<"t">>)
         ELSE IF Head(text) \in {"f", "F", "0", "n", "N"} THEN Basic("bool", <<"f">>)
         ELSE None

EscapeSpecial(text, special) ==
  FlattenSeq([i \in 1 .. Len(text) |->
                IF text[i] \in special THEN <<"\\", text[i]>> ELSE <<text[i]>>])

Escape(text, special) ==
  FlattenSeq([i \in 1 .. Len(text) |->
                IF text[i] \in special \cup {"\\"} THEN <<"\\", text[i]>>
                                                   ELSE <<text[i]>>])

(* The parts between unescaped separators, each of its type: both parsers  *)
(* walk the characters behind the opening bracket with the part read so    *)
(* far, whether the last character was a backslash, and whether the walk   *)
(* failed.                                                                 *)
Parse(text, close, types) ==
  LET last == Len(text)
      Step(st, i) ==
        LET c == text[i]
            ends == ~st.escaped /\ c \in {",", close}
        IN  IF st.bad THEN st
            ELSE IF ends /\ Len(st.parts) = Len(types) THEN [st EXCEPT !.bad = TRUE]
            ELSE IF ends
            THEN LET part == NewFromString(types[Len(st.parts) + 1], st.word)
                 IN  [st EXCEPT !.parts = Append(@, part),
                                !.word = <<>>,
                                !.pending = FALSE,
                                !.bad = part = None \/ (c = close /\ i # last)]
            ELSE IF ~st.escaped /\ c = "\\"
            THEN [st EXCEPT !.escaped = TRUE, !.pending = TRUE]
            ELSE [st EXCEPT !.escaped = FALSE, !.pending = TRUE,
                            !.word = Append(@, c)]
  IN  FoldLeft(Step,
               [parts |-> <<>>, word |-> <<>>, escaped |-> FALSE,
                pending |-> FALSE, bad |-> FALSE],
               [i \in 1 .. last - 1 |-> i + 1])

Bracketed(text, open, close) == text # <<>> /\ Head(text) = open /\ Last(text) = close

(* "[]" anywhere in the text makes the list empty. *)
NewListFromString(type, text) ==
  LET read == Parse(text, "]", [i \in 1 .. Len(text) |-> type])
  IN  IF ~Bracketed(text, "[", "]") THEN None
      ELSE IF \E i \in 1 .. Len(text) - 1 : text[i] = "[" /\ text[i + 1] = "]"
      THEN ListOf(type, <<>>)
      ELSE IF read.bad \/ read.pending THEN None ELSE ListOf(type, read.parts)

NewPairFromString(car, cdr, text) ==
  LET read == Parse(text, ")", <<car, cdr>>)
  IN  IF \/ ~Bracketed(text, "(", ")") \/ read.bad \/ read.pending
         \/ Len(read.parts) # 2
      THEN None
      ELSE PairOf(read.parts[1], read.parts[2])

(* Lists and pairs hold basic values only; an absent half is "nil". *)
BasicToString(value) ==
  CASE value = None -> <<"n", "i", "l">>
    [] value.type = "bool" -> IF value.text = <<"t">> THEN <<"t", "r", "u", "e">>
                              ELSE <<"f", "a", "l", "s", "e">>
    [] OTHER -> value.text

ValueToString(value) ==
  CASE value.type = "list" ->
         IF value.items = <<>> THEN <<"[", "]">>
         ELSE <<"[">> \o FlattenSeq([i \in 1 .. Len(value.items) |->
                           (IF i = 1 THEN <<>> ELSE <<",">>)
                           \o Escape(BasicToString(value.items[i]), {",", "]"})])
              \o <<"]">>
    [] value.type = "pair" ->
         <<"(">> \o Escape(BasicToString(value.car), {",", ")"})
         \o <<",">> \o Escape(BasicToString(value.cdr), {",", ")"}) \o <<")">>
    [] OTHER -> BasicToString(value)

-----------------------------------------------------------------------------
(* The encoded form. *)

QuoteVerbatim(text) == <<"\"">> \o text \o <<"\"">>

Quote(text) == <<"\"">> \o Escape(text, {"\""}) \o <<"\"">>

(* The text in quotes at the start and what follows it.  A text that does  *)
(* not begin with a quote is handed back whole, and nothing is consumed.   *)
Unquote(text) ==
  LET Step(st, i) ==
        LET c == text[i]
        IN  IF st.end # 0 THEN st
            ELSE IF st.slash
            THEN [st EXCEPT !.slash = FALSE,
                            !.out = @ \o (IF c \in {"\"", "\\"} THEN <<c>>
                                          ELSE <<"\\", c>>)]
            ELSE CASE c = "\\" -> [st EXCEPT !.slash = TRUE]
                   [] c = "\"" -> [st EXCEPT !.end = i]
                   [] OTHER -> [st EXCEPT !.out = Append(@, c)]
      read == FoldLeft(Step, [out |-> <<>>, slash |-> FALSE, end |-> 0],
                       [i \in 1 .. Len(text) - 1 |-> i + 1])
  IN  IF text = <<>> \/ Head(text) # "\"" THEN [text |-> text, rest |-> text]
      ELSE [text |-> read.out,
            rest |-> IF read.end = 0 THEN <<>>
                     ELSE SubSeq(text, read.end + 1, Len(text))]

TypeByte(type) ==
  CASE type = "int" -> "i"    [] type = "bool" -> "b"   [] type = "float" -> "f"
    [] type = "string" -> "s" [] type = "schema" -> "c" [] type = "list" -> "l"
    [] type = "pair" -> "p"   [] type = "invalid" -> "v"

ByteType(text) ==
  LET types == {t \in {"int", "bool", "float", "string", "schema", "list", "pair"} :
                  text # <<>> /\ TypeByte(t) = Head(text)}
  IN  IF types = {} THEN "invalid" ELSE CHOOSE t \in types : TRUE

Skip(text) == IF text = <<>> THEN <<>> ELSE Tail(text)

EncodeBasic(value) ==
  <<TypeByte(value.type)>>
  \o (IF value.type = "float" /\ Len(value.text) > FloatDigits
      THEN SubSeq(value.text, 1, FloatDigits) ELSE value.text)

(* An absent half ends the string that is put together, so that an absent  *)
(* car takes the cdr with it.                                              *)
EncodePlain(value) ==
  CASE value.type = "list" ->
         <<"l", TypeByte(value.of)>>
         \o FlattenSeq([i \in 1 .. Len(value.items) |->
                          <<",">> \o Quote(EncodeBasic(value.items[i]))])
    [] value.type = "pair" ->
         <<"p">>
         \o (IF value.car = None THEN <<>>
             ELSE Quote(EncodeBasic(value.car)) \o <<",">>
                  \o (IF value.cdr = None THEN <<>> ELSE Quote(EncodeBasic(value.cdr))))
    [] OTHER -> EncodeBasic(value)

Encode(value) ==
  IF value.type # "schema" THEN EncodePlain(value)
  ELSE <<"c", TypeByte(value.stype), TypeByte(value.list_type),
         TypeByte(value.car_type), TypeByte(value.cdr_type), ",">>
       \o Quote(OrEmpty(value.locale)) \o <<",">>
       \o Quote(OrEmpty(value.short)) \o <<",">>
       \o Quote(OrEmpty(value.long)) \o <<",">>
       \o Quote(IF value.default = None THEN <<>> ELSE EncodePlain(value.default))

(* A number that is none is 0. *)
DecodeBasic(text) ==
  LET s == Skip(text)
      type == ByteType(text)
  IN  CASE type \in {"int", "float"} ->
             Basic(type, IF Number(s) = <<>> THEN <<"0">> ELSE Number(s))
        [] type = "bool" ->
             Basic("bool", IF s # <<>> /\ Head(s) = "t" THEN <<"t">> ELSE <<"f">>)
        [] type = "string" -> Basic("string", s)
        [] OTHER -> None

(* What cannot be decoded is left out: so is the part before the comma     *)
(* that follows the type of a list.  The walk holds the items and the rest.*)
DecodeItems(text) ==
  LET Step(st, i) ==
        LET part == Unquote(st.rest)
            item == DecodeBasic(part.text)
        IN  IF st.rest = <<>> THEN st
            ELSE [items |-> IF item = None THEN st.items ELSE Append(st.items, item),
                  rest |-> IF part.rest # <<>> /\ Head(part.rest) = ","
                           THEN Tail(part.rest) ELSE <<>>]
  IN  FoldLeft(Step, [items |-> <<>>, rest |-> text], text).items

DecodePlain(text) ==
  LET s == Skip(text)
      car == Unquote(s)
      cdr == Unquote(IF car.rest # <<>> /\ Head(car.rest) = ","
                     THEN Tail(car.rest) ELSE car.rest)
  IN  CASE ByteType(text) = "list" -> ListOf(ByteType(s), DecodeItems(Skip(s)))
        [] ByteType(text) = "pair" -> PairOf(DecodeBasic(car.text), DecodeBasic(cdr.text))
        [] OTHER -> DecodeBasic(text)

(* None for a text that begins with no type.  A schema comes back without  *)
(* its owner, and with empty texts for absent ones.                        *)
Decode(text) ==
  LET Type(i) == ByteType(SubSeq(text, i, Len(text)))
      locale == Unquote(SubSeq(text, 7, Len(text)))
      short == Unquote(Skip(locale.rest))
      long == Unquote(Skip(short.rest))
      default == Unquote(Skip(long.rest))
  IN  IF ByteType(text) # "schema" THEN DecodePlain(text)
      ELSE [type |-> "schema", stype |-> Type(2), list_type |-> Type(3),
            car_type |-> Type(4), cdr_type |-> Type(5),
            locale |-> locale.text, short |-> short.text, long |-> long.text,
            default |-> DecodePlain(default.text), owner |-> None]

-----------------------------------------------------------------------------
(* The typed conversions behind gconf_engine_get_list and get_pair and     *)
(* their setters: a value of any other type than the one asked for is a    *)
(* mismatch, and the primitives are the contents of the value.             *)
ListToPrimitive(value, type) ==
  IF value.type # "list" \/ value.of # type THEN None
  ELSE [i \in 1 .. Len(value.items) |-> value.items[i].text]

ListFromPrimitive(type, primitives) ==
  ListOf(type, [i \in 1 .. Len(primitives) |-> Basic(type, primitives[i])])

PairToPrimitive(value, car, cdr) ==
  IF \/ value.type # "pair" \/ value.car = None \/ value.cdr = None
     \/ value.car.type # car \/ value.cdr.type # cdr
  THEN None
  ELSE <<value.car.text, value.cdr.text>>

PairFromPrimitive(car, cdr, primitives) ==
  PairOf(Basic(car, primitives[1]), Basic(cdr, primitives[2]))

(* gconf_value_validate, on valid text: a list or pair schema must name    *)
(* the types of the parts.                                                 *)
Valid(value) ==
  value.type = "schema" =>
    /\ value.stype = "list" => value.list_type # "invalid"
    /\ value.stype = "pair" => value.car_type # "invalid" /\ value.cdr_type # "invalid"
=============================================================================
