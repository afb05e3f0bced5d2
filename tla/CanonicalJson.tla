---------------------------- MODULE CanonicalJson ----------------------------
(***************************************************************************)
(* What a signature is computed from: the canonical text of a JSON value,  *)
(* as canonical_json of the daemon writes it (style "rust") and as         *)
(* CanonicalJson of the client does (style "net").  A text is a sequence   *)
(* of tokens.  HMAC-SHA256 is taken to tell any two texts apart.           *)
(***************************************************************************)
EXTENDS Naturals, Sequences, SequencesExt

CONSTANTS
  ByteOrder,     \* keys in the order of their bytes: Vec::sort
  CultureOrder   \* the same keys in the order of the client's culture: OrderBy

Styles == {"rust", "net"}

(* Both orders are orders of the same keys.                                *)
ASSUME KeysAssumption ==
  /\ ByteOrder \in Seq(STRING) /\ CultureOrder \in Seq(STRING)
  /\ \A order \in {ByteOrder, CultureOrder} :
       \A i, j \in 1 .. Len(order) : order[i] = order[j] => i = j
  /\ ToSet(ByteOrder) = ToSet(CultureOrder)

(* Characters, by what the two serializers and an XML parser make of them: *)
(* a letter stands for all that nobody escapes, the scheme for "file://",  *)
(* which nobody escapes either; "wide" is not ASCII.                       *)
PlainChars == {"letter", "scheme"}
ShortChars == {"newline", "backslash"}
HtmlChars  == {"amp", "lt", "gt", "apos", "grave"}
Characters == PlainChars \cup {"quote", "control", "wide"} \cup ShortChars \cup HtmlChars

(* Values: texts are sequences of characters; a number is whole or needs   *)
(* an exponent; an object is a function of its keys.                       *)
Null         == [kind |-> "null"]
True         == [kind |-> "true"]
Text(chars)  == [kind |-> "text", chars |-> chars]
Number(form) == [kind |-> "number", form |-> form]
Object(f)    == [kind |-> "object", fields |-> f]
Array(items) == [kind |-> "array", items |-> items]

(* How a character of a string is written.  System.Text.Json escapes       *)
(* quotes, what HTML gives a meaning to and what is not ASCII as \uXXXX;   *)
(* serde_json escapes only what it must, its \u digits are in lower case.  *)
Escaped(style, c) ==
  CASE c \in PlainChars -> <<"verbatim", c>>
    [] c \in ShortChars -> <<"short", c>>
    [] c = "control" -> <<IF style = "net" THEN "upper" ELSE "lower", c>>
    [] c = "quote" -> <<IF style = "net" THEN "upper" ELSE "short", c>>
    [] OTHER -> <<IF style = "net" THEN "upper" ELSE "verbatim", c>>

String(style, chars) ==
  <<"open">> \o [i \in DOMAIN chars |-> Escaped(style, chars[i])] \o <<"close">>

(* Faulty: the client signs the number as it would parse and print it, the *)
(* way of its other serializer (100.0).                                    *)
SpelledAlways(style, writer, form) ==
  IF style = "net" THEN <<writer, form>> ELSE <<"rust", form>>

(* A number is written by `writer' on the wire.  The client takes the text *)
(* it finds there (GetRawText); the daemon prints what it has parsed.  The *)
(* two print whole numbers alike, and "1E-05" or "1e-5" otherwise.         *)
Spelled(style, writer, form) ==
  IF form = "whole" THEN <<"number", form>>
  ELSE IF style = "net" THEN <<writer, form>> ELSE <<"rust", form>>

Scalar(style, writer, v) ==
  CASE v.kind = "text" -> String(style, v.chars)
    [] v.kind = "number" -> Spelled(style, writer, v.form)
    [] OTHER -> <<v.kind>>

(* The members of s that are in S, in their order: SelectSeq for a set in  *)
(* the place of a predicate.                                               *)
Keep(s, S) ==
  FlattenSeq([i \in DOMAIN s |-> IF s[i] \in S THEN <<s[i]>> ELSE <<>>])

SortedKeys(style, keys) ==
  Keep(IF style = "net" THEN CultureOrder ELSE ByteOrder, keys)

(* One level of a value.  The parameters of the methods nest three levels  *)
(* deep: a toast has an array of actions, which are objects of strings.    *)
(* Inner writes what is inside of a level.                                 *)
Level(style, writer, v, Inner(_)) ==
  CASE v.kind = "array" -> <<"[">> \o [i \in DOMAIN v.items |-> Inner(v.items[i])]
    [] v.kind = "object" ->
         LET keys == SortedKeys(style, DOMAIN v.fields)
         IN  [i \in DOMAIN keys |-> <<keys[i], Inner(v.fields[keys[i]])>>]
    [] OTHER -> Scalar(style, writer, v)

Item(style, writer, v) ==
  Level(style, writer, v, LAMBDA part : Scalar(style, writer, part))
Member(style, writer, v) ==
  Level(style, writer, v, LAMBDA item : Item(style, writer, item))
Canonical(style, writer, v) ==
  Level(style, writer, v, LAMBDA member : Member(style, writer, member))

(* `signer' signs a value that `writer' has put on the wire, `verifier'    *)
(* computes the text again; method and timestamp go into it verbatim.      *)
Agrees(signer, verifier, writer, v) ==
  Canonical(signer, writer, v) = Canonical(verifier, writer, v)

-----------------------------------------------------------------------------
(* What is free of everything the two serializers treat differently:       *)
(* special characters, exponents, keys whose order the culture changes.    *)

PlainText(chars) == \A i \in DOMAIN chars : chars[i] \in PlainChars \cup ShortChars

PlainScalar(v) ==
  /\ v.kind = "text" => PlainText(v.chars)
  /\ v.kind = "number" => v.form = "whole"

PlainLevel(v, Inner(_)) ==
  /\ v.kind = "array" => \A i \in DOMAIN v.items : Inner(v.items[i])
  /\ v.kind = "object" =>
       /\ SortedKeys("net", DOMAIN v.fields) = SortedKeys("rust", DOMAIN v.fields)
       /\ \A key \in DOMAIN v.fields : Inner(v.fields[key])
  /\ PlainScalar(v)

PlainItem(v) == PlainLevel(v, LAMBDA part : PlainScalar(part))
PlainMember(v) == PlainLevel(v, LAMBDA item : PlainItem(item))
PlainValue(v) == PlainLevel(v, LAMBDA member : PlainMember(member))
=============================================================================
