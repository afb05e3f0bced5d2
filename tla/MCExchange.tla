----------------------------- MODULE MCExchange -----------------------------
(***************************************************************************)
(* The calls of the run: for each way a call can go, one that goes it.     *)
(***************************************************************************)
EXTENDS Exchange

Bytewise == <<"B", "a", "actions", "arguments", "body", "code", "image_path",
              "message", "ok", "position_sec", "tag", "text", "title">>
Cultural == <<"a", "actions", "arguments", "B", "body", "code", "image_path",
              "message", "ok", "position_sec", "tag", "text", "title">>

ErrorTexts == {<<"letter">>, <<"wide">>}

T(c) == Text(<<c>>)

Req(method, signer, params) ==
  [method |-> method, name |-> <<"letter">>, params |-> params, size |-> 1,
   signer |-> signer]

Show1(c) == Object([title |-> T(c), tag |-> T("letter")])

Markup == Object([title |-> Text(<<"amp", "lt", "letter">>), tag |-> T("letter"),
                  image_path |-> Text(<<"backslash", "apos">>),
                  actions |-> Array(<<Object([text |-> T("quote"),
                                              arguments |-> T("newline")])>>)])

NoArguments == Object([title |-> T("letter"),
                       actions |-> Array(<<Object([text |-> T("letter")])>>)])

SomeRequests ==
  {Req("system/ping", "net", Null),
   Req("toast/show", "net", Show1("letter")),
   Req("toast/show", "net", Show1("apos")),
   Req("toast/show", "net", Object([title |-> T("newline"),
                                        image_path |-> Text(<<"scheme", "backslash">>)])),
   Req("toast/show", "rust", Markup),
   Req("toast/show", "rust", Show1("control")),
   Req("toast/show", "net", NoArguments),
   Req("toast/show", "net", Null),
   Req("toast/clear", "net", Object([tag |-> T("letter")])),
   Req("toast/clear", "net", Null),
   Req("smtc/setTimeline", "net", Object([position_sec |-> Number("whole")])),
   Req("smtc/setTimeline", "net", Object([position_sec |-> Number("exponent")])),
   Req("smtc/setTimeline", "net", Object([a |-> T("letter"), B |-> T("letter")])),
   [Req("unknown", "net", Null) EXCEPT !.name = <<"letter", "quote">>],
   [Req("unknown", "net", Null) EXCEPT !.size = 2],
   [Req("toast/show", "net", Show1("letter")) EXCEPT !.size = 3],
   Req("malformed", "rust", Null),
   [Req("malformed", "rust", Null) EXCEPT !.size = 0]}
=============================================================================
