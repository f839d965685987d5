------------------------------ MODULE Callback ------------------------------
(***************************************************************************)
(* What a worker of the HTTP server does with a request: the address of a  *)
(* callback is verified (GET), or a message is decrypted, extracted from   *)
(* its XML and shown to the reply makers one after the other (POST).  The  *)
(* makers are called while other threads may unload their libraries.       *)
(***************************************************************************)
EXTENDS MsgCrypt, SequencesExt

CONSTANTS
  Requests,      \* requests of clients
  Xml,           \* texts that are well-formed XML -> the document
  Replies,       \* GetXml() of what a reply maker returns; empty for most kinds
  GenRandStr,    \* the printable characters that begin a frame
  MaxHandled     \* bound: requests handled

ASSUME CallbackAssumption ==
  /\ DOMAIN Xml \subseteq Seq(Byte) /\ Replies \subseteq Seq(Byte)
  /\ GenRandStr \in Seq(Byte) /\ Len(GenRandStr) = kRandEncryptStrLen
  /\ <<>> \notin Requests        \* which stands for no request
  /\ MaxHandled \in Nat

VARIABLES
  hpc,        \* where the worker is: "idle", "asking", "crashed"
  request,    \* the SimpleHttpMessage it has
  document,   \* the document the CallbackMessage was extracted from
  asked,      \* position in ReplyMakerList
  response,   \* ResponseBody
  reply,      \* history: the text the reply maker returned
  handled     \* requests so far

callbackVars == <<hpc, request, document, asked, response, reply, handled>>

(* Response bodies: none (501), a text of the code, echostr, or XML. *)
NotImplemented == [none |-> TRUE]
Text(t) == [text |-> t]
Empty == Text("")
Echo(bytes) == [echo |-> bytes]
Sealed(xml) == [xml |-> xml]

CallbackInit ==
  /\ hpc = "idle"
  /\ request = <<>>
  /\ document = <<>>
  /\ asked = 0
  /\ response = Empty
  /\ reply = <<>>
  /\ handled = 0

-----------------------------------------------------------------------------
(* The constructors of CallbackMessage: the elements in the order in which *)
(* they are looked for.  A document gives every element that is there its  *)
(* text, "" if GetText() returns a null pointer.  The text of an element   *)
(* is used without a test, and so is the element From.                     *)

MsgTypes == {"text", "event", "attachment"}
Anything == {}

Step(field, absent, reads, values) ==
  [field |-> field, absent |-> absent, reads |-> reads, values |-> values]

Value(field) == Step(field, "error", TRUE, Anything)
OneOf(field, values) == Step(field, "error", TRUE, values)
Parent(field) == Step(field, "error", FALSE, Anything)

CommonSteps ==
  <<Value("WebhookUrl"), Value("ChatId"), Step("GetChatInfoUrl", "next", TRUE, Anything),
    Value("MsgId"), OneOf("ChatType", {"single", "group"}), OneOf("MsgType", MsgTypes),
    Step("From", "crash", FALSE, Anything),
    Value("From/UserId"), Value("From/Name"), Value("From/Alias")>>

(* Mutant: the element Text is used without a test, as From is. *)
StepsOfUntested(type) ==
  IF type = "text" THEN <<Step("Text", "crash", FALSE, Anything), Value("Text/Content")>>
  ELSE IF type = "event"
  THEN <<Value("AppVersion"), Parent("Event"),
         OneOf("Event/EventType", {"add_to_chat", "delete_from_chat", "enter_chat"})>>
  ELSE <<Parent("Attachment"), Value("Attachment/CallbackId"), Parent("Attachment/Actions"),
         Value("Attachment/Actions/Name"), Value("Attachment/Actions/Value")>>

(* Mutant: the content of a text may be missing, as GetChatInfoUrl may. *)
StepsOfOptional(type) ==
  IF type = "text" THEN <<Parent("Text"), Step("Text/Content", "next", TRUE, Anything)>>
  ELSE IF type = "event"
  THEN <<Value("AppVersion"), Parent("Event"),
         OneOf("Event/EventType", {"add_to_chat", "delete_from_chat", "enter_chat"})>>
  ELSE <<Parent("Attachment"), Value("Attachment/CallbackId"), Parent("Attachment/Actions"),
         Value("Attachment/Actions/Name"), Value("Attachment/Actions/Value")>>

StepsOf(type) ==
  IF type = "text" THEN <<Parent("Text"), Value("Text/Content")>>
  ELSE IF type = "event"
  THEN <<Value("AppVersion"), Parent("Event"),
         OneOf("Event/EventType", {"add_to_chat", "delete_from_chat", "enter_chat"})>>
  ELSE <<Parent("Attachment"), Value("Attachment/CallbackId"), Parent("Attachment/Actions"),
         Value("Attachment/Actions/Name"), Value("Attachment/Actions/Value")>>

Look(doc, step) ==
  IF step.field \notin DOMAIN doc THEN step.absent
  ELSE IF ~step.reads THEN "next"
  ELSE IF doc[step.field] = "" THEN "crash"
  ELSE IF step.values # Anything /\ doc[step.field] \notin step.values THEN "error"
  ELSE "next"

(* The first step that does not let the constructor go on decides. *)
Follow(doc, steps) ==
  LET stop == SelectInSeq(steps, LAMBDA step : Look(doc, step) # "next")
  IN  IF stop = 0 THEN "next" ELSE Look(doc, steps[stop])

(* OnMessageReceived looks at MsgType first, to choose the constructor. *)
Extract(doc) ==
  LET type == Look(doc, OneOf("MsgType", MsgTypes))
  IN  IF type = "next" THEN Follow(doc, CommonSteps \o StepsOf(doc["MsgType"])) ELSE type

-----------------------------------------------------------------------------
(* A request comes to its end, with the body. *)
Respond(body) ==
  /\ response' = body
  /\ hpc' = "idle"
  /\ UNCHANGED <<document, asked>>

DoVerifyURL(r, token, key) ==
  \E text \in VerifyURL(r.query, token, key) :
    Respond(IF text = <<>> THEN Empty ELSE Echo(text))

OnMessageReceived(r, token, key) ==
  \E message \in DecryptMsg(r.query, r.Encrypt, token, key) :
    IF message = Failed THEN Respond(Text("Decrypt failed!"))
    ELSE IF message[1] \notin DOMAIN Xml THEN Respond(Text("XML parse failed!"))
    ELSE LET verdict == Extract(Xml[message[1]]) IN
         \/ verdict = "error" /\ Respond(Text("Invalid request"))
         \/ /\ verdict = "crash"
            /\ hpc' = "crashed"
            /\ response' = Empty
            /\ UNCHANGED <<document, asked>>
         \/ /\ verdict = "next"
            /\ hpc' = "asking"
            /\ document' = Xml[message[1]]
            /\ asked' = 1
            /\ response' = Empty

(* A worker takes a request: CallbackHandler, or the answer to /ping.      *)
HandleRequest(token, key) ==
  /\ hpc = "idle"
  /\ handled < MaxHandled
  /\ handled' = handled + 1
  /\ reply' = <<>>
  /\ \E r \in Requests :
       /\ request' = r
       /\ \/ r.URI = "/ping" /\ Respond(Text("PONG!"))
          \/ r.URI \notin {"/ping", "/callback"} /\ Respond(NotImplemented)
          \/ r.URI = "/callback" /\ r.Method = "GET" /\ DoVerifyURL(r, token, key)
          \/ r.URI = "/callback" /\ r.Method = "POST" /\ OnMessageReceived(r, token, key)
          \/ r.URI = "/callback" /\ r.Method \notin {"GET", "POST"} /\ Respond(Empty)

(* The next reply maker is created and asked.  Nobody tests whether its    *)
(* library was unloaded: its code may then be gone, or still be there.     *)
Maker(makers) == hpc = "asking" /\ asked <= Len(makers)

MakerGone(makers, gone) ==
  /\ Maker(makers)
  /\ makers[asked] \in gone
  /\ hpc' = "crashed"
  /\ UNCHANGED <<request, document, asked, response, reply, handled>>

WillNotReply(makers) ==
  /\ Maker(makers)
  /\ asked' = asked + 1
  /\ UNCHANGED <<hpc, request, document, response, reply, handled>>

(* The first that will reply is the last that is asked.  Without a message *)
(* or without XML of it the body stays empty: EncryptMsg's code is not     *)
(* looked at.                                                              *)
WillReply(makers, token, key) ==
  /\ Maker(makers)
  /\ \/ reply' = <<>> /\ Respond(Empty)
     \/ \E text \in Replies :
          LET xml == EncryptMsg(text, GenRandStr, request.query, token, key, <<>>) IN
          reply' = <<text>> /\ Respond(IF xml = Failed THEN Empty ELSE Sealed(xml[1]))
  /\ UNCHANGED <<request, handled>>

NobodyReplies(makers) ==
  /\ hpc = "asking"
  /\ asked > Len(makers)
  /\ Respond(Empty)
  /\ UNCHANGED <<request, reply, handled>>

CallbackNext(makers, gone, token, key) ==
  \/ HandleRequest(token, key)
  \/ MakerGone(makers, gone)
  \/ WillNotReply(makers)
  \/ WillReply(makers, token, key)
  \/ NobodyReplies(makers)
=============================================================================
