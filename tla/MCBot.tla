------------------------------- MODULE MCBot -------------------------------
(***************************************************************************)
(* Bot for TLC: configurations with items or sections left out, libraries  *)
(* that cannot be opened, lack a symbol or come twice, and requests that   *)
(* differ from a good one in one place.                                    *)
(***************************************************************************)
EXTENDS Bot, FiniteSetsExt, TLC

CONSTANTS
  Size      \* the number of bytes of the smallest text

(* An item in the text, or none. *)
Item(k, v) == << <<k, "=">> \o v >>
Items(k, vs) == {<<>>} \cup {Item(k, v) : v \in vs}
Section(tag, body) == << <<"<", tag, ">">> >> \o body \o << <<"<", "/", tag, ">">> >>
Sections(tag, bodies) == {<<>>} \cup {Section(tag, b) : b \in bodies}

Some == {<<"x">>}
LogBodies == {a \o b : a \in Items("stderr", Some \cup {<<>>}), b \in Items("mode", Some)}
LibPair(names) == {Item(k, <<p>>) : k \in names, p \in {"p", "q", "r", "absent"}}
LibBodies == {a \o b : a \in LibPair({"l1"}), b \in LibPair({"l1", "l2"})}

TheLog == Section("log", Item("stderr", <<"x">>) \o Item("mode", <<"x">>))
ThePort == Section("http", Item("port", <<"x">>))
Names == Item("bot_name", <<"x">>) \o Item("webhook", <<"x">>)
TwoMakers == Section("libs", Item("l1", <<"p">>) \o Item("l2", <<"p">>))

(* Everything but the libraries varies, or the libraries, or the secrets. *)
MCFiles ==
  {Section(top, n \o w \o l \o h \o Section("libs", Item("l1", <<"q">>))) :
     top \in {"root", "other"}, n \in Items("bot_name", Some), w \in Items("webhook", Some),
     l \in Sections("log", LogBodies), h \in Sections("http", Items("port", Some))}
  \cup {Section("root", Names \o TheLog \o ThePort \o l) : l \in Sections("libs", LibBodies)}
  \cup {Section("root", Names \o TheLog \o ThePort \o t \o k \o TwoMakers) :
          t \in Items("token", {<<"token">>, <<"other">>}),
          k \in Items("encoding_aes_key", {<<"key">>, <<"key2">>, <<"short">>})}
  \cup {Section("root", Names) \o Section("root", TheLog \o ThePort),
        Names, <<>>, << <<"<", "/", ">">> >>, << <<"<", "root", ">">>, <<"root">> >>}

MCSymbols == STRING

MCImage ==
  (<<"p">> :> [symbols |-> {"DB_DllName", "DB_Bind"}, jobs |-> 1, makers |-> 1])
  @@ (<<"q">> :> [symbols |-> {"DB_DllName", "DB_Bind"}, jobs |-> 2, makers |-> 0])
  @@ (<<"r">> :> [symbols |-> {"DB_Bind"}, jobs |-> 1, makers |-> 1])

MCModes == {"daemon", "foreground"}
MCLibNames == {<<"l1">>, <<"l3">>}
None == {}

-----------------------------------------------------------------------------
MCEncodingKeys == {<<"key">>, <<"key2">>}
MCGenRandStr == [i \in 1 .. kRandEncryptStrLen |-> 33]

(* Of what the wrong key makes of two blocks: no padding, one byte of it,  *)
(* and a length of the message that is beyond all bounds.                  *)
Bytes(n, b) == [i \in 1 .. n |-> b]
MCScrambled ==
  {Bytes(n, 0) : n \in {32, 64}} \cup {Bytes(n, 1) : n \in {32, 64}}
  \cup {Bytes(16, 5) \o htonl(2) \o Bytes(43, 5) \o <<1>>,
        Bytes(16, 5) \o Bytes(4, Radix - 1) \o Bytes(43, 5) \o <<1>>}

Common ==
  [f \in {"WebhookUrl", "ChatId", "GetChatInfoUrl", "MsgId", "From", "From/UserId",
          "From/Name", "From/Alias"} |-> "x"] @@ ("ChatType" :> "single")
TextDoc == Common @@ ("MsgType" :> "text")
           @@ [f \in {"Text", "Text/Content"} |-> "x"]
EventDoc == Common @@ ("MsgType" :> "event")
            @@ [f \in {"AppVersion", "Event"} |-> "x"] @@ ("Event/EventType" :> "enter_chat")
AttachmentDoc == Common @@ ("MsgType" :> "attachment")
  @@ [f \in {"Attachment", "Attachment/CallbackId", "Attachment/Actions",
             "Attachment/Actions/Name", "Attachment/Actions/Value"} |-> "x"]

(* A document without f (and what is in it), without a text in it, or with *)
(* another one.                                                            *)
Parents == {"From", "Text", "Event", "Attachment", "Attachment/Actions"}
Inside(f) ==
  CASE f = "From" -> {"From/UserId", "From/Name", "From/Alias"}
    [] f = "Text" -> {"Text/Content"}
    [] f = "Event" -> {"Event/EventType"}
    [] f = "Attachment/Actions" -> {"Attachment/Actions/Name", "Attachment/Actions/Value"}
    [] f = "Attachment" -> {"Attachment/CallbackId", "Attachment/Actions",
                            "Attachment/Actions/Name", "Attachment/Actions/Value"}
    [] OTHER -> {}
Deviations(doc, fields) ==
  {doc}
  \cup {[g \in DOMAIN doc \ ({f} \cup Inside(f)) |-> doc[g]] : f \in fields}
  \cup {[doc EXCEPT ![f] = ""] : f \in fields \ Parents}
  \cup {[doc EXCEPT ![f] = "y"] : f \in fields \cap {"ChatType", "MsgType", "Event/EventType"}}
Docs ==
  FoldSet(LAMBDA doc, docs : Append(docs, doc), <<>>,
          Deviations(TextDoc, DOMAIN TextDoc)
          \cup Deviations(EventDoc, DOMAIN EventDoc \ DOMAIN Common)
          \cup Deviations(AttachmentDoc, DOMAIN AttachmentDoc \ DOMAIN Common))

(* The text of document i; documents differ in the number of bytes, so     *)
(* that a frame may fill its blocks, or lack or exceed a byte of it.       *)
XmlText(i) == <<i \div Radix, i % Radix>> \o Bytes(Size + (i % 3), 60)
DocTexts == [i \in DOMAIN Docs |-> XmlText(i)]
MCXml == [t \in Range(DocTexts) |-> Docs[SelectInSeq(DocTexts, LAMBDA u : u = t)]]
MCReplies == {<<>>} \cup {Bytes(n, 61) : n \in {1, 11, 12, 13}}

-----------------------------------------------------------------------------
(* What the platform sends.                                                *)

Sends(text, key, receiver) ==
  EncodeBase64([key |-> key, of |-> Pad(GenNeedEncryptData(text, MCGenRandStr, receiver))])[1]

Query(signature, timestamp, nonce, echostr) ==
  [msg_signature |-> signature, timestamp |-> timestamp, nonce |-> nonce, echostr |-> echostr]

Good(message) ==
  Query(ComputeSignature(<<"token">>, <<"time">>, <<"nonce">>, message),
        << <<"time">>, <<"late">> >>, << <<"nonce">> >>, <<message>>)

Request(uri, method, query, encrypted) ==
  [URI |-> uri, Method |-> method, query |-> query, Encrypt |-> encrypted]
ToBot(method, query, encrypted) == Request("/callback", method, query, encrypted)

OneText == DocTexts[SelectInSeq(Docs, LAMBDA d : d = TextDoc)]
One == Sends(OneText, <<"key">>, <<>>)
OtherOne == Sends(OneText, <<"key">>, <<7>>)
NoXml == Sends(Bytes(12, 9), <<"key">>, <<>>)
Nothing == Sends(<<>>, <<"key">>, <<>>)
Cut == [One EXCEPT !.chars = @ - 1]
ShortCipher == EncodeBase64([key |-> <<"key">>, of |-> Bytes(16, 1)])[1]

MCRequests ==
  {ToBot("POST", Good(m), <<m>>) :
     m \in {Sends(DocTexts[i], <<"key">>, <<>>) : i \in DOMAIN Docs}
           \cup {OtherOne, NoXml, Nothing, Cut, ShortCipher}}
  \cup {ToBot("GET", Good(m), <<>>) : m \in {One, OtherOne, NoXml, Nothing, Cut, ShortCipher}}
  \cup {ToBot(method, q, <<One>>) : method \in {"GET", "POST"},
          q \in {[Good(One) EXCEPT !.msg_signature = Good(NoXml).msg_signature],
                 [Good(One) EXCEPT !.msg_signature = <<>>],
                 [Good(One) EXCEPT !.timestamp = <<>>],
                 [Good(One) EXCEPT !.timestamp = << <<"nonce">> >>, !.nonce = << <<"time">> >>],
                 [Good(One) EXCEPT !.timestamp = << <<"late">>, <<"time">> >>],
                 [Good(One) EXCEPT !.echostr = <<>>]}}
  \cup {ToBot("POST", Good(One), <<>>), ToBot("HEAD", Good(One), <<>>),
        Request("/ping", "GET", Good(One), <<>>), Request("/", "POST", Good(One), <<>>)}
=============================================================================
