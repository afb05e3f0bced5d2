-------------------------------- MODULE Toast --------------------------------
(***************************************************************************)
(* toast/manager.rs and the two handlers that use it: parameters to a      *)
(* toast, the toast to XML, and what Windows keeps of it in its history,   *)
(* which is external and modelled as its documentation and the calls here  *)
(* imply.                                                                  *)
(***************************************************************************)
EXTENDS CanonicalJson

CONSTANT WindowsTexts   \* texts of Windows errors, which may be localized

VARIABLE shown          \* the history: a sequence of toasts

(* The AppUserModelId the handlers use, as a text.                         *)
AppId == <<"PCL-Community.PCL">>

Ok == [ok |-> TRUE, message |-> <<>>]
Err(message) == [ok |-> FALSE, message |-> message]

-----------------------------------------------------------------------------
(* parse_toast_params: serde_json::from_value.  A field that is not there  *)
(* is taken for an empty one.                                              *)

Has(v, key) == v.kind = "object" /\ key \in DOMAIN v.fields
HasText(v, key) == Has(v, key) /\ v.fields[key].kind = "text"

Field(v, key) == IF HasText(v, key) THEN v.fields[key].chars ELSE <<>>

Actions(v) == IF Has(v, "actions") THEN v.fields["actions"].items ELSE <<>>

ToastOf(v) ==
  [title |-> Field(v, "title"), body |-> Field(v, "body"),
   tag |-> Field(v, "tag"), image |-> Field(v, "image_path"),
   actions |-> Actions(v)]

(* What serde says of parameters it does not take.  Of a missing field or  *)
(* of a value of the wrong type it says the name or the value, between     *)
(* grave accents; of null only that it is null.                            *)
ParseErrors(v) ==
  IF v.kind # "object" THEN {<<"letter">>}
  ELSE IF \/ \E key \in DOMAIN v.fields \cap {"title", "body", "tag", "image_path"} :
               v.fields[key].kind \notin {"text", "null"}
          \/ \E i \in DOMAIN Actions(v) :
               \E key \in {"text", "arguments"} : ~HasText(Actions(v)[i], key)
       THEN {<<"letter", "grave">>}
       ELSE {}

-----------------------------------------------------------------------------
(* build_toast_xml, and the XML parser of Windows.                         *)

Replace(chars, c, by) ==
  FlattenSeq([i \in DOMAIN chars |-> IF chars[i] = c THEN by ELSE <<chars[i]>>])

(* "&amp;" is an ampersand and what follows it.                            *)
Entities == {"amp", "lt", "gt", "quote", "apos"}
NameOf(c) ==
  CASE c = "amp" -> "amp;" [] c = "lt" -> "lt;" [] c = "gt" -> "gt;"
    [] c = "quote" -> "quot;" [] c = "apos" -> "apos;"
Names == {NameOf(c) : c \in Entities}
NamedBy(name) == CHOOSE c \in Entities : NameOf(c) = name

Escape(c, chars) == Replace(chars, c, <<"amp", NameOf(c)>>)

(* Faulty: ampersands last, when there are more of them.                   *)
EscapeXmlAmpLast(chars) ==
  Escape("amp", Escape("apos", Escape("quote", Escape("gt", Escape("lt", chars)))))

EscapeXml(chars) ==
  Escape("apos", Escape("quote", Escape("gt", Escape("lt", Escape("amp", chars)))))

(* A path that is a URI is taken as it is.  An empty path stands for none, *)
(* and then there is no image.                                             *)
ImageUri(path) ==
  IF path = <<>> \/ Head(path) = "scheme" THEN path
  ELSE <<"scheme", "slash">> \o Replace(path, "backslash", <<"slash">>)

BuildToastXml(t) ==
  [title |-> EscapeXml(t.title), body |-> EscapeXml(t.body),
   image |-> EscapeXml(ImageUri(t.image)),
   actions |-> [i \in DOMAIN t.actions |->
                  <<EscapeXml(Field(t.actions[i], "text")),
                    EscapeXml(Field(t.actions[i], "arguments"))>>]]

(* LoadXml: no bare "<" or "&", no character XML forbids.                  *)
WellFormed(text) ==
  \A i \in DOMAIN text :
    /\ text[i] \notin {"lt", "control"}
    /\ text[i] = "amp" => i < Len(text) /\ text[i + 1] \in Names

Decoded(text, i) ==
  IF text[i] = "amp" THEN <<>>
  ELSE IF i > 1 /\ text[i - 1] = "amp"
       THEN <<NamedBy(text[i])>>
       ELSE <<text[i]>>

Unescaped(text) == FlattenSeq([i \in DOMAIN text |-> Decoded(text, i)])

(* In an attribute a newline is a space.                                   *)
Attribute(text) == Replace(Unescaped(text), "newline", <<"letter">>)

Loads(xml) ==
  /\ WellFormed(xml.title) /\ WellFormed(xml.body) /\ WellFormed(xml.image)
  /\ \A i \in DOMAIN xml.actions :
       WellFormed(xml.actions[i][1]) /\ WellFormed(xml.actions[i][2])

(* What the user sees, and what a click hands back.                        *)
Displayed(xml) ==
  [title |-> Unescaped(xml.title), body |-> Unescaped(xml.body),
   image |-> Attribute(xml.image),
   actions |-> [i \in DOMAIN xml.actions |->
                  <<Attribute(xml.actions[i][1]), Attribute(xml.actions[i][2])>>]]

(* What a toast should look like: what was asked, but for the path of an   *)
(* image, which is made a URI, and newlines in attributes.                 *)
FaceOf(v) ==
  LET t == ToastOf(v)
      Flat(chars) == Replace(chars, "newline", <<"letter">>)
  IN  [title |-> t.title, body |-> t.body, image |-> Flat(ImageUri(t.image)),
       actions |-> [i \in DOMAIN t.actions |->
         <<Flat(Field(t.actions[i], "text")), Flat(Field(t.actions[i], "arguments"))>>]]

Texts(v) ==
  {Field(v, key) : key \in {"title", "body", "tag", "image_path"}}
    \cup UNION {{Field(Actions(v)[i], "text"), Field(Actions(v)[i], "arguments")} :
                  i \in DOMAIN Actions(v)}

-----------------------------------------------------------------------------
(* ToastManager: show, clear_by_tag, clear_all.                            *)

(* Windows replaces a toast of the same application, group and tag.        *)
Show(t, outcome) ==
  LET xml == BuildToastXml(t)
      toast == [app |-> AppId, group |-> <<>>, tag |-> t.tag, face |-> Displayed(xml)]
  IN  \/ /\ Loads(xml)
         /\ outcome = Ok
         /\ shown' = Append(Keep(shown, {old \in ToSet(shown) :
                                           t.tag = <<>> \/ old.tag # t.tag}), toast)
      \/ /\ outcome \in {Err(m) : m \in WindowsTexts}
         /\ UNCHANGED shown

(* ToastNotificationHistory.RemoveGroup(group, applicationId).             *)
RemoveGroupWithId(group, app) ==
  shown' = Keep(shown, {toast \in ToSet(shown) : ~(toast.group = group /\ toast.app = app)})

ClearByTag(tag, outcome) ==
  \/ outcome = Ok /\ RemoveGroupWithId(AppId, tag)
  \/ outcome \in {Err(m) : m \in WindowsTexts} /\ UNCHANGED shown

(* ClearWithId; no handler calls it, but the user and Windows clear, too.  *)
ClearAll ==
  shown # <<>> /\ shown' = Keep(shown, {toast \in ToSet(shown) : toast.app # AppId})

-----------------------------------------------------------------------------
(* handle_toast_show and handle_toast_clear.                               *)

HandleToastShow(params, outcome) ==
  \/ /\ outcome \in {Err(m) : m \in ParseErrors(params)}
     /\ UNCHANGED shown
  \/ ParseErrors(params) = {} /\ Show(ToastOf(params), outcome)

(* "missing 'tag' field"                                                   *)
HandleToastClear(params, outcome) ==
  \/ /\ ~HasText(params, "tag")
     /\ outcome = Err(<<"letter", "apos">>)
     /\ UNCHANGED shown
  \/ HasText(params, "tag") /\ ClearByTag(Field(params, "tag"), outcome)
=============================================================================
