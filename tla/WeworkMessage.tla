--------------------------- MODULE WeworkMessage ---------------------------
(***************************************************************************)
(* The messages a library builds: text, news, markdown and image.  A copy  *)
(* of a message shares its PImpl with the original, but not the ChatID nor *)
(* the raw image; AddArticle hands out a pointer into a std::vector that   *)
(* moves when it grows.  GetJson is the sequence of calls of the rapidjson *)
(* Writer.                                                                 *)
(***************************************************************************)
EXTENDS Integers, Sequences, SequencesExt

CONSTANTS
  Handle,              \* WeworkMessage objects
  Kinds,               \* kinds of messages built
  Texts,               \* strings that are set and added
  Articles,            \* articles that are added and written
  MAX_LENGTH,          \* 2048 bytes of content
  MAX_ARTICLE_COUNT,   \* 8
  MaxBuilds            \* bound: calls

Strings == Texts \cup {<<>>}
Article == [title : Strings, description : Strings, url : Strings, picurl : Strings]

ASSUME WeworkAssumption ==
  /\ Kinds \subseteq {"text", "news", "markdown", "image"}
  /\ Texts \subseteq Seq(STRING)
  /\ Articles \subseteq Article
  /\ MAX_LENGTH \in Nat /\ MAX_ARTICLE_COUNT \in 0 .. 8 /\ MaxBuilds \in Nat

VARIABLES
  message,     \* the objects: kind, ChatID, the PImpl they share, raw image
  impls,       \* the PImpls, in the order of construction
  pointer,     \* the last Article* handed out
  written      \* calls so far

weworkVars == <<message, impls, pointer, written>>

NoMessage == [kind |-> "none", chatid |-> <<>>, impl |-> 0, raw |-> <<>>]
Impl == [content |-> <<>>, mentioned |-> <<>>, mobile |-> <<>>,
         articles |-> <<>>, capacity |-> 0, moves |-> 0, attachments |-> <<>>]
NoArticle == [title |-> <<>>, description |-> <<>>, url |-> <<>>, picurl |-> <<>>]
NoPointer == [impl |-> 0, index |-> 0, moves |-> 0, wild |-> FALSE]

WeworkInit ==
  /\ message = [h \in Handle |-> NoMessage]
  /\ impls = <<>>
  /\ pointer = NoPointer
  /\ written = 0

Built(h) == message[h].kind # "none"
ImplOf(h) == impls[message[h].impl]
Calls(h, kinds) == written < MaxBuilds /\ written' = written + 1 /\ message[h].kind \in kinds

(* A call that changes the PImpl of h. *)
Update(h, i) ==
  /\ impls' = [impls EXCEPT ![message[h].impl] = i]
  /\ UNCHANGED message

New(h, kind) ==
  /\ Calls(h, {"none"})
  /\ impls' = Append(impls, Impl)
  /\ message' = [message EXCEPT ![h] = [NoMessage EXCEPT !.kind = kind, !.impl = Len(impls) + 1]]
  /\ UNCHANGED pointer

Copy(h, g) ==
  /\ Calls(h, {"none"})
  /\ Built(g)
  /\ message' = [message EXCEPT ![h] = message[g]]
  /\ UNCHANGED <<impls, pointer>>

SetChatID(h, id) ==
  /\ Calls(h, Kinds)
  /\ message' = [message EXCEPT ![h].chatid = id]
  /\ UNCHANGED <<impls, pointer>>

(* Content that is too long is refused. *)
SetContent(h, c) ==
  /\ Calls(h, {"text", "markdown"})
  /\ IF Len(c) > MAX_LENGTH THEN UNCHANGED <<impls, message>>
     ELSE Update(h, [ImplOf(h) EXCEPT !.content = c])
  /\ UNCHANGED pointer

AddMentioned(h, m) ==
  /\ Calls(h, {"text"})
  /\ Update(h, [ImplOf(h) EXCEPT !.mentioned = Append(@, m)])
  /\ UNCHANGED pointer

AddMentionedMobile(h, m) ==
  /\ Calls(h, {"text"})
  /\ Update(h, [ImplOf(h) EXCEPT !.mobile = Append(@, m)])
  /\ UNCHANGED pointer

(* emplace_back: a full vector moves to one of twice the size. *)
WithArticle(i, article) ==
  IF Len(i.articles) < i.capacity
  THEN [i EXCEPT !.articles = Append(@, article)]
  ELSE [i EXCEPT !.articles = Append(@, article), !.moves = @ + 1,
                 !.capacity = IF @ = 0 THEN 1 ELSE 2 * @]

AddArticle(h, article) ==
  /\ Calls(h, {"news"})
  /\ IF Len(ImplOf(h).articles) >= MAX_ARTICLE_COUNT THEN UNCHANGED <<impls, message>>
     ELSE Update(h, WithArticle(ImplOf(h), article))
  /\ UNCHANGED pointer

(* Mutant: the pointer is taken before the vector may move. *)
AddArticlePointerEarly(h) ==
  /\ Calls(h, {"news"})
  /\ Len(ImplOf(h).articles) < MAX_ARTICLE_COUNT
  /\ LET i == WithArticle(ImplOf(h), NoArticle) IN
     /\ Update(h, i)
     /\ pointer' = [impl |-> message[h].impl, index |-> Len(i.articles),
                    moves |-> ImplOf(h).moves, wild |-> FALSE]

(* AddArticle(void): an empty article and a pointer to it, or nullptr. *)
AddArticlePointer(h) ==
  /\ Calls(h, {"news"})
  /\ Len(ImplOf(h).articles) < MAX_ARTICLE_COUNT
  /\ LET i == WithArticle(ImplOf(h), NoArticle) IN
     /\ Update(h, i)
     /\ pointer' = [impl |-> message[h].impl, index |-> Len(i.articles),
                    moves |-> i.moves, wild |-> FALSE]

(* The library fills the article in; the memory may be gone. *)
WriteArticle(article) ==
  /\ pointer.impl # 0 /\ ~pointer.wild
  /\ written < MaxBuilds
  /\ written' = written + 1
  /\ IF pointer.moves = impls[pointer.impl].moves
     THEN impls' = [impls EXCEPT ![pointer.impl].articles[pointer.index] = article]
          /\ UNCHANGED pointer
     ELSE pointer' = [pointer EXCEPT !.wild = TRUE] /\ UNCHANGED impls
  /\ UNCHANGED message

(* An attachment is its buttons, and a button its ReplaceText: the other   *)
(* fields are written whatever they hold.  The library keeps pointers to   *)
(* both, which own them.                                                   *)
AddAttachment(h) ==
  /\ Calls(h, {"markdown"})
  /\ Update(h, [ImplOf(h) EXCEPT !.attachments = Append(@, <<>>)])
  /\ UNCHANGED pointer

AddButtonAction(h) ==
  /\ Calls(h, {"markdown"})
  /\ \E a \in DOMAIN ImplOf(h).attachments :
       Update(h, [ImplOf(h) EXCEPT !.attachments[a] = Append(@, <<>>)])
  /\ UNCHANGED pointer

SetReplaceText(h, t) ==
  /\ Calls(h, {"markdown"})
  /\ \E a \in DOMAIN ImplOf(h).attachments :
       \E b \in DOMAIN ImplOf(h).attachments[a] :
         Update(h, [ImplOf(h) EXCEPT !.attachments[a][b] = t])
  /\ UNCHANGED pointer

SetRawImage(h, bytes) ==
  /\ Calls(h, {"image"})
  /\ message' = [message EXCEPT ![h].raw = bytes]
  /\ UNCHANGED <<impls, pointer>>

(* The body of the response, whatever it is; nothing if the request failed.*)
SetHttpImage(h) == \E body \in Texts \cup {<<>>} : SetRawImage(h, body)

WeworkNext ==
  \/ \E h \in Handle :
       \/ \E k \in Kinds : New(h, k)
       \/ \E g \in Handle : Copy(h, g)
       \/ \E t \in Texts : \/ SetChatID(h, t) \/ SetContent(h, t) \/ AddMentioned(h, t)
                           \/ AddMentionedMobile(h, t) \/ SetReplaceText(h, t)
                           \/ SetRawImage(h, t)
       \/ \E article \in Articles : AddArticle(h, article)
       \/ SetHttpImage(h) \/ AddArticlePointer(h) \/ AddAttachment(h) \/ AddButtonAction(h)
  \/ \E article \in Articles : WriteArticle(article)

WeworkSpec == WeworkInit /\ [][WeworkNext]_weworkVars

-----------------------------------------------------------------------------
(* GetJson, as the calls of the Writer.                                    *)

Begin(b) == [call |-> b, text |-> <<>>]
StartObject == Begin("{")
EndObject == Begin("}")
StartArray == Begin("[")
EndArray == Begin("]")
Name(k) == [call |-> "key", text |-> <<k>>]
Str(s) == [call |-> "string", text |-> s]

(* The parts of a message: a key that is left out with an empty value, a   *)
(* list of strings that is left out when empty.                            *)
Optional(k, s) == IF s = <<>> THEN <<>> ELSE <<Name(k), Str(s)>>
StringList(k, list) ==
  IF list = <<>> THEN <<>>
  ELSE <<Name(k), StartArray>> \o [i \in DOMAIN list |-> Str(list[i])] \o <<EndArray>>

(* Mutant: the name picurl is written whether or not there is a value. *)
ArticleNamesPicture(x) ==
  <<StartObject, Name("title"), Str(x.title)>> \o Optional("description", x.description)
  \o <<Name("url"), Str(x.url), Name("picurl")>>
  \o (IF x.picurl = <<>> THEN <<>> ELSE <<Str(x.picurl)>>) \o <<EndObject>>

ArticleJson(x) ==
  <<StartObject, Name("title"), Str(x.title)>> \o Optional("description", x.description)
  \o <<Name("url"), Str(x.url)>> \o Optional("picurl", x.picurl) \o <<EndObject>>

ButtonJson(replaceText) ==
  <<StartObject>>
  \o FlattenSeq([i \in 1 .. 6 |->
       <<Name(<<"type", "name", "text", "border_color", "text_color", "value">>[i]), Str(<<>>)>>])
  \o Optional("replace_text", replaceText) \o <<EndObject>>

(* The array of the attachments gets their keys and values as elements. *)
AttachmentsJson(list) ==
  <<StartArray>>
  \o FlattenSeq([i \in DOMAIN list |->
       <<Name("callback_id"), Str(<<>>), Name("actions"), StartArray>>
       \o FlattenSeq([b \in DOMAIN list[i] |-> ButtonJson(list[i][b])]) \o <<EndArray>>])
  \o <<EndArray>>

TextJson(i) ==
  <<Name("text"), StartObject, Name("content"), Str(i.content)>>
  \o StringList("mentioned_list", i.mentioned)
  \o StringList("mentioned_mobile_list", i.mobile) \o <<EndObject>>

NewsJson(i) ==
  <<Name("news"), StartObject, Name("articles"), StartArray>>
  \o FlattenSeq([n \in DOMAIN i.articles |-> ArticleJson(i.articles[n])])
  \o <<EndArray, EndObject>>

MarkdownJson(i) ==
  <<Name("content"), Str(i.content), Name("attachments")>> \o AttachmentsJson(i.attachments)

ImageJson(m) ==
  <<Name("image"), StartObject, Name("base64"), Str(m.raw), Name("md5"), Str(m.raw), EndObject>>

Body(m, i) ==
  CASE m.kind = "text" -> TextJson(i)
    [] m.kind = "news" -> NewsJson(i)
    [] m.kind = "markdown" -> MarkdownJson(i)
    [] m.kind = "image" -> ImageJson(m)

GetJson(m, i) ==
  <<StartObject>> \o Optional("chatid", m.chatid)
  \o <<Name("msgtype"), Str(<<m.kind>>)>> \o Body(m, i) \o <<EndObject>>

-----------------------------------------------------------------------------
(* Properties.                                                             *)

(* The types of the messages and what they share. *)
ImplType == [content : Strings, mentioned : Seq(Texts), mobile : Seq(Texts),
             articles : Seq(Article), capacity : Nat, moves : Nat,
             attachments : Seq(Seq(Strings))]

WeworkTypeOK ==
  /\ message \in [Handle -> [kind : Kinds \cup {"none"}, chatid : Strings, impl : Nat,
                             raw : Strings]]
  /\ impls \in Seq(ImplType)
  /\ \A h \in Handle : Built(h) => message[h].impl \in DOMAIN impls
  /\ pointer \in [impl : DOMAIN impls \cup {0}, index : Nat, moves : Nat, wild : BOOLEAN]
  /\ written \in 0 .. MaxBuilds

(* The state of a reader of JSON: what it is inside of, innermost last; in *)
(* an object it wants a name or, after one, a value.                       *)
ReadCall(inside, c) ==
  LET in == IF inside = <<>> THEN "top" ELSE Last(inside)
      valueRead == IF in = "value" THEN Append(Front(inside), "name") ELSE inside
  IN  IF inside # <<>> /\ Head(inside) = "error" THEN inside
      ELSE IF c.call = "key" /\ in = "name" THEN Append(Front(inside), "value")
      ELSE IF c.call \in {"key", "string"} /\ in \in {"value", "["} THEN valueRead
      ELSE IF c.call = "{" /\ in \in {"value", "[", "top"} THEN Append(valueRead, "name")
      ELSE IF c.call = "[" /\ in \in {"value", "["} THEN Append(valueRead, "[")
      ELSE IF c.call = "}" /\ in = "name" THEN Front(inside)
      ELSE IF c.call = "]" /\ in = "[" THEN Front(inside)
      ELSE <<"error">>

ReadJson(calls) ==
  LET read[i \in 0 .. Len(calls)] == IF i = 0 THEN <<>> ELSE ReadCall(read[i - 1], calls[i])
  IN  read[Len(calls)]

(* What GetJson writes is one JSON object, for any message: everything     *)
(* opened is closed and every name of an object has one value.             *)
JsonIsWellFormed ==
  \A h \in Handle : Built(h) => ReadJson(GetJson(message[h], ImplOf(h))) = <<>>

(* AddArticle(void): the pointer is good for as long as the vector holds   *)
(* no more articles than the least power of two that the article fits in;  *)
(* with any more it points to freed memory.                                *)
PointerOutlivesNoGrowth ==
  pointer.impl # 0 =>
    LET n == Len(impls[pointer.impl].articles)
        fits == CHOOSE p \in {1, 2, 4, 8} :
                  p >= pointer.index /\ \A q \in {1, 2, 4, 8} : q >= pointer.index => p <= q
    IN  pointer.moves = impls[pointer.impl].moves <=> n <= fits
=============================================================================
