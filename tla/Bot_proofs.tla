----------------------------- MODULE Bot_proofs -----------------------------
(***************************************************************************)
(* That a daemon that runs has the configuration it needs and the          *)
(* libraries it names; that its reply makers are asked only for signed and *)
(* whole messages, and that their replies can be read back; what unloading *)
(* a library takes with it, and what kills the process that serves: for    *)
(* every text of the configuration, every library, every request and any   *)
(* number of them.                                                         *)
(***************************************************************************)
EXTENDS Bot, ConfigCodec_proofs, MsgCrypt_proofs, FiniteSetTheorems

-----------------------------------------------------------------------------
(* What main() has found in the tree when it gets to each place.           *)

Named == HasSection(nodes, SecRoot) /\ HasKV(nodes, SecRoot, <<"bot_name">>)

Logged == /\ GetKV(nodes, SecLog, <<"stderr">>) # <<>>
          /\ HasKV(nodes, SecLog, <<"mode">>)

Needed == {SecRoot, SecHttp} \cup (IF mode = "daemon" THEN {SecLog} ELSE {})

(* The places of main() after each of its tests. *)
AfterParse == {"name", "log", "load", "libs", "port", "running"}
AfterName == AfterParse \ {"name"}
AfterLog == AfterName \ {"log"}
AfterWebhook == {"port", "running"}

StartInv ==
  /\ pc \in AfterParse => status = "SUCCESS"
  /\ pc \in {"name", "log"} => mode = "daemon"
  /\ pc \in AfterName /\ mode = "daemon" => Named
  /\ pc \in AfterLog /\ mode = "daemon" => Logged
  /\ pc \in AfterWebhook => Found(nodes, SecRoot, <<"webhook">>) = <<webhook>>
  /\ pc = "running" => HasKV(nodes, SecHttp, <<"port">>)
  /\ pc = "crashed" => status = "wild" \/ \E s \in Needed : ~HasSection(nodes, s)

(* Before the HTTP server runs no request was handled.                     *)
ServeInv ==
  /\ AskedOnlyIfSigned
  /\ pc # "running" => hpc = "idle" /\ response = Empty /\ reply = <<>>

-----------------------------------------------------------------------------
(* The start.                                                              *)

LEMMA StartInvInit ==
  ASSUME BotInit
  PROVE  StartInv
BY DEF BotInit, Init, StartInv, AfterParse, AfterName, AfterLog, AfterWebhook

LEMMA StartInvHolds ==
  ASSUME StartInv
  PROVE  RunningIsConfigured
<1> USE DEF StartInv, AfterParse, AfterName, AfterLog, AfterWebhook
<1>1. pc = "running" =>
        /\ status = "SUCCESS"
        /\ Found(nodes, SecRoot, <<"webhook">>) = <<webhook>>
        /\ HasKV(nodes, SecHttp, <<"port">>)
        /\ mode = "daemon" => Named /\ Logged
  OBVIOUS
<1>2. QED
  BY <1>1 DEF RunningIsConfigured, Named, Logged, Needed

LEMMA StartInvStep ==
  ASSUME StartInv, [BotNext]_botVars
  PROVE  StartInv'
<1> USE DEF AfterParse, AfterName, AfterLog, AfterWebhook
<1>1. CASE StartStep /\ Parse
  <2>1. pc = "parse" /\ pc' = pc
    BY <1>1 DEF Parse, bootVars
  <2>2. QED
    BY <2>1 DEF StartInv
<1>2. CASE StartStep /\ Boot
  <2> USE DEF Goto
  <2>1. UNCHANGED <<nodes, status, mode>>
    BY <1>2 DEF Boot, Parsed, CheckBotName, CheckLog, LoadSharedObjects, LoadNext,
                InitializeBotEngine, BindPort, Lookup, codecVars
  <2>2. /\ UNCHANGED Named /\ UNCHANGED Logged /\ UNCHANGED Needed
        /\ \A s : HasSection(nodes, s)' = HasSection(nodes, s)
    BY <2>1 DEF Named, Logged, Needed
  <2> /\ SecRoot \in Needed /\ SecHttp \in Needed
      /\ mode = "daemon" => SecLog \in Needed
    BY DEF Needed
  <2>3. CASE Parsed
    BY <2>1, <2>2, <2>3 DEF Parsed, StartInv
  <2>4. CASE CheckBotName
    BY <2>1, <2>2, <2>4 DEF CheckBotName, Lookup, StartInv, Named
  <2>5. CASE CheckLog
    BY <2>1, <2>2, <2>5 DEF CheckLog, Lookup, StartInv, Logged
  <2>6. CASE LoadSharedObjects
    BY <2>1, <2>2, <2>6 DEF LoadSharedObjects, StartInv
  <2>7. CASE LoadNext
    BY <2>1, <2>2, <2>7 DEF LoadNext, StartInv
  <2>8. CASE InitializeBotEngine
    BY <2>1, <2>2, <2>8 DEF InitializeBotEngine, Lookup, StartInv, Found
  <2>9. CASE BindPort
    BY <2>1, <2>2, <2>9 DEF BindPort, Lookup, StartInv
  <2>10. QED
    BY <1>2, <2>3, <2>4, <2>5, <2>6, <2>7, <2>8, <2>9 DEF Boot
<1>3. CASE Serve \/ LibraryCall \/ UNCHANGED botVars
  <2>1. UNCHANGED <<pc, nodes, status, mode, webhook>>
    BY <1>3 DEF Serve, LibraryCall, Reconfigure, botVars, allVars, codecVars, bootVars
  <2>2. QED
    BY <2>1 DEF StartInv, Named, Logged, Needed
<1>4. QED
  BY <1>1, <1>2, <1>3 DEF BotNext, StartStep

(* A daemon that runs was started from a text that parses and has every    *)
(* item its parts use; where the process is killed instead, a section it   *)
(* needs is missing, or the parser ran wild.  For every text and library.  *)
THEOREM RunningWasConfigured == BotSpec => []RunningIsConfigured
<1>1. BotInit => StartInv
  BY StartInvInit
<1>2. StartInv /\ [BotNext]_botVars => StartInv'
  BY StartInvStep
<1>3. StartInv => RunningIsConfigured
  BY StartInvHolds
<1>4. QED
  BY <1>1, <1>2, <1>3, PTL DEF BotSpec

-----------------------------------------------------------------------------
(* The handler.                                                            *)

LEMMA FramesAreSigned ==
  ASSUME NEW query, NEW encrypted, NEW token, NEW key,
         NEW frame \in Frames(query, encrypted, token, key), frame # Failed
  PROVE  encrypted # <<>> /\ ValidateSignature(query, token, encrypted[1])
BY DEF Frames

(* What ValidateSignature accepts carries the signature of its own parts. *)
LEMMA ValidatedIsComputed ==
  ASSUME NEW query, NEW token, NEW message, ValidateSignature(query, token, message)
  PROVE  /\ query.msg_signature # <<>>
         /\ ComputeSignature(token, First(query.timestamp), First(query.nonce), message)
              = <<query.msg_signature[1]>>
<1> DEFINE signature ==
      ComputeSignature(token, First(query.timestamp), First(query.nonce), message)
<1>1. /\ signature # Failed
      /\ query.msg_signature # <<>>
      /\ query.msg_signature[1] = signature[1]
  BY DEF ValidateSignature
<1>2. signature = Failed \/ \E x : signature = <<x>>
  BY DEF ComputeSignature
<1>3. signature = <<signature[1]>>
  BY <1>1, <1>2
<1>4. QED
  BY <1>1, <1>3

LEMMA VerifiedIsSigned ==
  ASSUME NEW query, NEW token, NEW key,
         NEW text \in VerifyURL(query, token, key), text # <<>>
  PROVE  query.echostr # <<>> /\ ValidateSignature(query, token, query.echostr[1])
<1>1. PICK frame \in Frames(query, query.echostr, token, key) :
        text = IF frame = Failed THEN <<>> ELSE frame[1].message
  BY DEF VerifyURL
<1>2. frame # Failed
  BY <1>1
<1>3. QED
  BY <1>2, FramesAreSigned

LEMMA DecryptedIsSigned ==
  ASSUME NEW query, NEW encrypted, NEW token, NEW key,
         NEW message \in DecryptMsg(query, encrypted, token, key), message # Failed
  PROVE  encrypted # <<>> /\ ValidateSignature(query, token, encrypted[1])
<1>1. PICK frame \in Frames(query, encrypted, token, key) :
        message = IF frame = Failed THEN Failed ELSE <<frame[1].message>>
  BY DEF DecryptMsg
<1>2. frame # Failed
  BY <1>1
<1>3. QED
  BY <1>2, FramesAreSigned

(* Bodies with nothing of a message in them. *)
LEMMA PlainBodies ==
  /\ {"echo", "xml"} \cap DOMAIN NotImplemented = {}
  /\ \A t : {"echo", "xml"} \cap DOMAIN Text(t) = {}
BY DEF NotImplemented, Text

LEMMA ServeInvStep ==
  ASSUME ServeInv, [BotNext]_botVars
  PROVE  ServeInv'
<1>1. CASE StartStep
  <2>1. UNCHANGED callbackVars
    BY <1>1 DEF StartStep
  <2>2. pc # "running"
    BY <1>1 DEF StartStep, Parse, Boot, Parsed, CheckBotName, CheckLog, LoadSharedObjects,
                LoadNext, InitializeBotEngine, BindPort
  <2>3. hpc = "idle" /\ response = Empty /\ reply = <<>>
    BY <2>2 DEF ServeInv
  <2>4. hpc' = "idle" /\ response' = Empty /\ reply' = <<>>
    BY <2>1, <2>3 DEF callbackVars
  <2>5. QED
    BY <2>4, PlainBodies DEF ServeInv, AskedOnlyIfSigned, Empty
<1>2. CASE Serve
  <2>1. pc' = "running" /\ UNCHANGED nodes
    BY <1>2 DEF Serve, allVars, codecVars, bootVars
  <2>2. UNCHANGED Token
    BY <2>1 DEF Token
  <2>3. CASE HandleRequest(Token, EncodingKey)
    <3> SUFFICES AskedOnlyIfSigned'
      BY <2>1 DEF ServeInv
    <3>1. PICK r \in Requests :
            /\ request' = r
            /\ \/ r.URI = "/ping" /\ Respond(Text("PONG!"))
               \/ r.URI \notin {"/ping", "/callback"} /\ Respond(NotImplemented)
               \/ r.URI = "/callback" /\ r.Method = "GET" /\ DoVerifyURL(r, Token, EncodingKey)
               \/ /\ r.URI = "/callback" /\ r.Method = "POST"
                  /\ OnMessageReceived(r, Token, EncodingKey)
               \/ r.URI = "/callback" /\ r.Method \notin {"GET", "POST"} /\ Respond(Empty)
      BY <2>3 DEF HandleRequest
    <3>2. hpc = "idle" /\ reply' = <<>>
      BY <2>3 DEF HandleRequest
    <3> DEFINE Silent(body) == {"echo", "xml"} \cap DOMAIN body = {}
    <3>3. ASSUME NEW body, Silent(body), Respond(body)
          PROVE  AskedOnlyIfSigned'
      BY <3>2, <3>3 DEF Respond, AskedOnlyIfSigned
    <3>4. CASE r.URI = "/callback" /\ r.Method = "GET" /\ DoVerifyURL(r, Token, EncodingKey)
      <4>1. PICK text \in VerifyURL(r.query, Token, EncodingKey) :
              Respond(IF text = <<>> THEN Empty ELSE Echo(text))
        BY <3>4 DEF DoVerifyURL
      <4>2. CASE text = <<>>
        BY <3>3, <4>1, <4>2, PlainBodies DEF Empty
      <4>3. CASE text # <<>>
        <5>1. /\ r.query.echostr # <<>>
              /\ ValidateSignature(r.query, Token, r.query.echostr[1])
          BY <4>3, VerifiedIsSigned
        <5>2. Signed'
          BY <2>2, <3>1, <3>4, <5>1, ValidatedIsComputed, CallbackAssumption DEF Signed
        <5>3. QED
          BY <5>2 DEF AskedOnlyIfSigned
      <4>4. QED
        BY <4>2, <4>3
    <3>5. CASE /\ r.URI = "/callback" /\ r.Method = "POST"
               /\ OnMessageReceived(r, Token, EncodingKey)
      <4>1. PICK message \in DecryptMsg(r.query, r.Encrypt, Token, EncodingKey) :
              IF message = Failed THEN Respond(Text("Decrypt failed!"))
              ELSE IF message[1] \notin DOMAIN Xml THEN Respond(Text("XML parse failed!"))
              ELSE LET verdict == Extract(Xml[message[1]]) IN
                   \/ verdict = "error" /\ Respond(Text("Invalid request"))
                   \/ /\ verdict = "crash"
                      /\ hpc' = "crashed"
                      /\ response' = Empty
                      /\ UNCHANGED <<document, asked>>
                   \/ /\ verdict = "next"
                      /\ hpc' = "asking"
                      /\ document' = Xml[message[1]]
                      /\ asked' = 1
                      /\ response' = Empty
        BY <3>5 DEF OnMessageReceived
      <4>2. CASE message = Failed
        BY <3>3, <4>1, <4>2, PlainBodies
      <4>3. CASE message # Failed
        <5>1. r.Encrypt # <<>> /\ ValidateSignature(r.query, Token, r.Encrypt[1])
          BY <4>3, DecryptedIsSigned
        <5>2. Signed'
          BY <2>2, <3>1, <3>5, <5>1, ValidatedIsComputed, CallbackAssumption DEF Signed
        <5>3. QED
          BY <5>2 DEF AskedOnlyIfSigned
      <4>4. QED
        BY <4>2, <4>3
    <3>6. QED
      BY <3>1, <3>3, <3>4, <3>5, PlainBodies DEF Empty
  <2>4. ASSUME hpc = "asking", UNCHANGED request
        PROVE  ServeInv'
    <3>1. Signed'
      BY <2>2, <2>4 DEF ServeInv, AskedOnlyIfSigned, Signed
    <3>2. QED
      BY <2>1, <3>1 DEF ServeInv, AskedOnlyIfSigned
  <2>5. QED
    BY <1>2, <2>3, <2>4
       DEF Serve, CallbackNext, Maker, MakerGone, WillNotReply, WillReply, NobodyReplies
<1>3. CASE LibraryCall \/ UNCHANGED botVars
  <2>1. UNCHANGED <<callbackVars, pc, nodes>>
    BY <1>3 DEF LibraryCall, Reconfigure, botVars, allVars, codecVars, bootVars
  <2>2. QED
    BY <2>1 DEF callbackVars, ServeInv, AskedOnlyIfSigned, Signed, Token
<1>4. QED
  BY <1>1, <1>2, <1>3 DEF BotNext

(* A reply maker is asked, and anything of a message sent back, only for a *)
(* request that carries the signature made with the token, for any         *)
(* requests in any order, libraries, and results of the wrong key.         *)
THEOREM OnlySignedAreServed == BotSpec => []AskedOnlyIfSigned
<1>1. BotInit => ServeInv
  BY PlainBodies DEF BotInit, CallbackInit, ServeInv, AskedOnlyIfSigned, Empty
<1>2. ServeInv /\ [BotNext]_botVars => ServeInv'
  BY ServeInvStep
<1>3. ServeInv => AskedOnlyIfSigned
  BY DEF ServeInv
<1>4. QED
  BY <1>1, <1>2, <1>3, PTL DEF BotSpec

-----------------------------------------------------------------------------
(* The constructors of CallbackMessage.                                    *)

Fields ==
  {"WebhookUrl", "ChatId", "GetChatInfoUrl", "MsgId", "ChatType", "MsgType", "From",
   "From/UserId", "From/Name", "From/Alias", "Text", "Text/Content", "AppVersion", "Event",
   "Event/EventType", "Attachment", "Attachment/CallbackId", "Attachment/Actions",
   "Attachment/Actions/Name", "Attachment/Actions/Value"}

Domains ==
  {Anything, MsgTypes, {"single", "group"}, {"add_to_chat", "delete_from_chat", "enter_chat"}}

(* Every step but the one for From reports an element that is not there.   *)
Steps ==
  {s \in [field : Fields, absent : {"error", "next", "crash"}, reads : BOOLEAN,
          values : Domains] : s.absent = "crash" => s.field = "From"}

LEMMA StepIs ==
  ASSUME NEW field \in Fields, NEW absent \in {"error", "next", "crash"},
         NEW reads \in BOOLEAN, NEW values \in Domains,
         absent = "crash" => field = "From"
  PROVE  Step(field, absent, reads, values) \in Steps
BY DEF Step, Steps

LEMMA StepsAre ==
  /\ CommonSteps \in Seq(Steps) /\ Len(CommonSteps) = 10
  /\ \A type : StepsOf(type) \in Seq(Steps)
  /\ OneOf("MsgType", MsgTypes) \in Steps
<1>1. Anything \in Domains /\ MsgTypes \in Domains
  BY DEF Domains
<1>2. \A f \in Fields : Value(f) \in Steps /\ Parent(f) \in Steps
  BY <1>1, StepIs DEF Value, Parent
<1>3. \A f \in Fields : \A v \in Domains : OneOf(f, v) \in Steps
  BY StepIs DEF OneOf
<1>4. OneOf("MsgType", MsgTypes) \in Steps
  BY <1>1, <1>3 DEF Fields
<1>5. CommonSteps \in Seq(Steps) /\ Len(CommonSteps) = 10
  <2> DEFINE oneOf == OneOf("ChatType", {"single", "group"})
             type == OneOf("MsgType", MsgTypes)
             url == Step("GetChatInfoUrl", "next", TRUE, Anything)
             from == Step("From", "crash", FALSE, Anything)
  <2>1. oneOf \in Steps
    BY <1>3 DEF Fields, Domains
  <2>2. type \in Steps
    BY <1>4
  <2>3. url \in Steps
    BY <1>1, StepIs DEF Fields
  <2>4. from \in Steps
    BY <1>1, StepIs DEF Fields
  <2> HIDE DEF oneOf, type, url, from
  <2>5. ASSUME NEW a \in Steps, NEW b \in Steps, NEW c \in Steps, NEW d \in Steps,
               NEW e \in Steps, NEW f \in Steps
        PROVE  /\ <<a, b, url, c, oneOf, type, from, d, e, f>> \in Seq(Steps)
               /\ Len(<<a, b, url, c, oneOf, type, from, d, e, f>>) = 10
    BY <2>1, <2>2, <2>3, <2>4
  <2>6. CommonSteps = <<Value("WebhookUrl"), Value("ChatId"), url, Value("MsgId"), oneOf, type,
                        from, Value("From/UserId"), Value("From/Name"), Value("From/Alias")>>
    BY Zenon DEF CommonSteps, oneOf, type, url, from
  <2>7. /\ Value("WebhookUrl") \in Steps /\ Value("ChatId") \in Steps
        /\ Value("MsgId") \in Steps /\ Value("From/UserId") \in Steps
        /\ Value("From/Name") \in Steps /\ Value("From/Alias") \in Steps
    BY <1>2 DEF Fields
  <2>8. QED
    BY <2>5, <2>6, <2>7
<1>6. ASSUME NEW type
      PROVE  StepsOf(type) \in Seq(Steps)
  <2> DEFINE oneOf == OneOf("Event/EventType", {"add_to_chat", "delete_from_chat", "enter_chat"})
  <2>1. oneOf \in Steps
    BY <1>3 DEF Fields, Domains
  <2> HIDE DEF oneOf
  <2>2. ASSUME NEW a \in Steps, NEW b \in Steps, NEW c \in Steps, NEW d \in Steps,
               NEW e \in Steps
        PROVE  /\ <<a, b>> \in Seq(Steps)
               /\ <<a, b, c>> \in Seq(Steps)
               /\ <<a, b, c, d, e>> \in Seq(Steps)
    OBVIOUS
  <2>3. /\ Parent("Text") \in Steps /\ Value("Text/Content") \in Steps
        /\ Value("AppVersion") \in Steps /\ Parent("Event") \in Steps
        /\ Parent("Attachment") \in Steps /\ Value("Attachment/CallbackId") \in Steps
        /\ Parent("Attachment/Actions") \in Steps
        /\ Value("Attachment/Actions/Name") \in Steps
        /\ Value("Attachment/Actions/Value") \in Steps
    BY <1>2 DEF Fields
  <2>4. /\ <<Parent("Text"), Value("Text/Content")>> \in Seq(Steps)
        /\ <<Value("AppVersion"), Parent("Event"), oneOf>> \in Seq(Steps)
        /\ <<Parent("Attachment"), Value("Attachment/CallbackId"), Parent("Attachment/Actions"),
             Value("Attachment/Actions/Name"), Value("Attachment/Actions/Value")>> \in Seq(Steps)
    BY <2>1, <2>2, <2>3
  <2>5. QED
    BY <2>4, Zenon DEF StepsOf, oneOf
<1>7. QED
  BY <1>4, <1>5, <1>6

LEMMA FollowIs ==
  ASSUME NEW doc, NEW steps, Len(steps) \in Nat
  PROVE  \/ /\ Follow(doc, steps) = "next"
            /\ \A i \in 1 .. Len(steps) : Look(doc, steps[i]) = "next"
         \/ /\ Follow(doc, steps) # "next"
            /\ \E i \in 1 .. Len(steps) : Follow(doc, steps) = Look(doc, steps[i])
<1> DEFINE I == {i \in 1 .. Len(steps) : Look(doc, steps[i]) # "next"}
           stop == IF I # {} THEN Min(I) ELSE 0
<1>1. Follow(doc, steps) = IF stop = 0 THEN "next" ELSE Look(doc, steps[stop])
  BY DEF Follow, SelectInSeq
<1>2. CASE I = {}
  BY <1>1, <1>2
<1>3. CASE I # {}
  <2>1. Min(I) \in I
    <3>1. I \in SUBSET Nat
      OBVIOUS
    <3> HIDE DEF I
    <3>2. QED
      BY <1>3, <3>1, MinIsLeast
  <2>2. stop \in 1 .. Len(steps) /\ Look(doc, steps[stop]) # "next"
    BY <1>3, <2>1
  <2> HIDE DEF stop
  <2>3. stop # 0
    BY <2>2
  <2>4. QED
    BY <1>1, <2>2, <2>3
<1>4. QED
  BY <1>2, <1>3

(* What the steps of two sequences make of a document.                     *)
LEMMA FollowBoth ==
  ASSUME NEW doc, NEW s \in Seq(Steps), NEW t \in Seq(Steps)
  PROVE  LET verdict == Follow(doc, s \o t) IN
         /\ verdict = "next" =>
              /\ \A i \in 1 .. Len(s) : Look(doc, s[i]) = "next"
              /\ \A i \in 1 .. Len(t) : Look(doc, t[i]) = "next"
         /\ verdict # "next" => \E step \in Steps : verdict = Look(doc, step)
<1> DEFINE u == s \o t
<1>1. /\ u \in Seq(Steps) /\ Len(s) \in Nat /\ Len(t) \in Nat /\ Len(u) = Len(s) + Len(t)
      /\ \A i \in 1 .. Len(s) : u[i] = s[i]
      /\ \A i \in 1 .. Len(t) : u[Len(s) + i] = t[i]
  OBVIOUS
<1>2. Len(u) \in Nat /\ \A i \in 1 .. Len(u) : u[i] \in Steps
  <2> HIDE DEF u
  <2>1. QED
    BY <1>1
<1>3. ASSUME \A i \in 1 .. Len(u) : Look(doc, u[i]) = "next"
      PROVE  /\ \A i \in 1 .. Len(s) : Look(doc, s[i]) = "next"
             /\ \A i \in 1 .. Len(t) : Look(doc, t[i]) = "next"
  <2> HIDE DEF u
  <2>1. /\ \A i \in 1 .. Len(s) : i \in 1 .. Len(u)
        /\ \A i \in 1 .. Len(t) : Len(s) + i \in 1 .. Len(u)
    BY <1>1
  <2>2. QED
    BY <1>1, <1>3, <2>1, Zenon
<1> HIDE DEF u
<1>4. QED
  BY <1>2, <1>3, FollowIs DEF u

(* An element whose text is used is there and has one.                     *)
Read(doc, field) == field \in DOMAIN doc /\ doc[field] # ""

LEMMA LookReads ==
  ASSUME NEW doc, NEW field
  PROVE  /\ Look(doc, Value(field)) = "next" => Read(doc, field)
         /\ \A values : values # {} /\ Look(doc, OneOf(field, values)) = "next" =>
              Read(doc, field) /\ doc[field] \in values
BY DEF Look, Value, OneOf, Step, Anything, Read

(* The elements in which a message is read as a whole.                     *)
LEMMA ExtractedIsWhole ==
  ASSUME NEW doc, Extract(doc) = "next"
  PROVE  Whole(doc)
<1> DEFINE type == doc["MsgType"]
<1>1. /\ Look(doc, OneOf("MsgType", MsgTypes)) = "next"
      /\ Follow(doc, CommonSteps \o StepsOf(type)) = "next"
  BY DEF Extract
<1>2. Read(doc, "MsgType") /\ type \in MsgTypes
  <2>1. MsgTypes # {}
    BY DEF MsgTypes
  <2>2. QED
    BY <1>1, <2>1, LookReads
<1> HIDE DEF type
<1>3. /\ \A i \in 1 .. 10 : Look(doc, CommonSteps[i]) = "next"
      /\ \A i \in 1 .. Len(StepsOf(type)) : Look(doc, StepsOf(type)[i]) = "next"
  <2>1. CommonSteps \in Seq(Steps) /\ StepsOf(type) \in Seq(Steps) /\ Len(CommonSteps) = 10
    BY StepsAre
  <2> DEFINE t == StepsOf(type)
  <2>2. Follow(doc, CommonSteps \o t) = "next"
    BY <1>1 DEF type
  <2> HIDE DEF t
  <2>3. /\ \A i \in 1 .. Len(CommonSteps) : Look(doc, CommonSteps[i]) = "next"
        /\ \A i \in 1 .. Len(t) : Look(doc, t[i]) = "next"
    BY <2>1, <2>2, FollowBoth DEF t
  <2>4. QED
    BY <2>1, <2>3 DEF t
<1>4. \A f \in {"WebhookUrl", "ChatId", "MsgId", "From/UserId", "From/Name", "From/Alias"} :
        Read(doc, f)
  <2>1. /\ CommonSteps[1] = Value("WebhookUrl") /\ CommonSteps[2] = Value("ChatId")
        /\ CommonSteps[4] = Value("MsgId") /\ CommonSteps[8] = Value("From/UserId")
        /\ CommonSteps[9] = Value("From/Name") /\ CommonSteps[10] = Value("From/Alias")
    BY DEF CommonSteps
  <2>2. /\ Look(doc, Value("WebhookUrl")) = "next" /\ Look(doc, Value("ChatId")) = "next"
        /\ Look(doc, Value("MsgId")) = "next" /\ Look(doc, Value("From/UserId")) = "next"
        /\ Look(doc, Value("From/Name")) = "next" /\ Look(doc, Value("From/Alias")) = "next"
    BY <1>3, <2>1
  <2>3. QED
    BY <2>2, LookReads
<1>5. Read(doc, "ChatType") /\ doc["ChatType"] \in {"single", "group"}
  <2>1. CommonSteps[5] = OneOf("ChatType", {"single", "group"})
    BY DEF CommonSteps
  <2>2. Look(doc, OneOf("ChatType", {"single", "group"})) = "next"
    BY <1>3, <2>1
  <2>3. QED
    BY <2>2, LookReads
<1>6. \A f \in Required(type) : Read(doc, f)
  <2>1. CASE type = "text"
    <3>1. StepsOf(type) = <<Parent("Text"), Value("Text/Content")>>
      BY <2>1 DEF StepsOf
    <3>2. Look(doc, Value("Text/Content")) = "next"
      BY <1>3, <3>1
    <3>3. QED
      BY <1>2, <1>4, <1>5, <2>1, <3>2, LookReads DEF Required
  <2>2. CASE type = "event"
    <3>1. /\ Len(StepsOf(type)) = 3
          /\ StepsOf(type)[1] = Value("AppVersion")
          /\ StepsOf(type)[3] =
               OneOf("Event/EventType", {"add_to_chat", "delete_from_chat", "enter_chat"})
      BY <2>2 DEF StepsOf
    <3>2. /\ Look(doc, Value("AppVersion")) = "next"
          /\ Look(doc, OneOf("Event/EventType",
                             {"add_to_chat", "delete_from_chat", "enter_chat"})) = "next"
      BY <1>3, <3>1
    <3>3. Read(doc, "AppVersion") /\ Read(doc, "Event/EventType")
      BY <3>2, LookReads
    <3>4. QED
      BY <1>2, <1>4, <1>5, <2>2, <3>3 DEF Required
  <2>3. CASE type = "attachment"
    <3>1. /\ Len(StepsOf(type)) = 5
          /\ StepsOf(type)[2] = Value("Attachment/CallbackId")
          /\ StepsOf(type)[4] = Value("Attachment/Actions/Name")
          /\ StepsOf(type)[5] = Value("Attachment/Actions/Value")
      BY <2>3 DEF StepsOf
    <3>2. /\ Look(doc, Value("Attachment/CallbackId")) = "next"
          /\ Look(doc, Value("Attachment/Actions/Name")) = "next"
          /\ Look(doc, Value("Attachment/Actions/Value")) = "next"
      BY <1>3, <3>1
    <3>3. QED
      BY <1>2, <1>4, <1>5, <2>3, <3>2, LookReads DEF Required
  <2>4. QED
    BY <1>2, <2>1, <2>2, <2>3 DEF MsgTypes
<1>7. QED
  BY <1>2, <1>5, <1>6 DEF Whole, Read, type

(* Only an element without a text, or no From, kills the process.          *)
LEMMA ExtractCrashes ==
  ASSUME NEW doc, Extract(doc) = "crash"
  PROVE  "From" \notin DOMAIN doc \/ \E f \in DOMAIN doc : doc[f] = ""
<1>1. \E step \in Steps : Look(doc, step) = "crash"
  <2>1. CASE Look(doc, OneOf("MsgType", MsgTypes)) = "next"
    <3> DEFINE t == StepsOf(doc["MsgType"])
    <3>1. Follow(doc, CommonSteps \o t) = "crash"
      BY <2>1 DEF Extract
    <3>2. CommonSteps \in Seq(Steps) /\ t \in Seq(Steps)
      BY StepsAre
    <3> HIDE DEF t
    <3>3. QED
      BY <3>1, <3>2, FollowBoth
  <2>2. CASE Look(doc, OneOf("MsgType", MsgTypes)) # "next"
    BY <2>2, StepsAre DEF Extract
  <2>3. QED
    BY <2>1, <2>2
<1>2. QED
  BY <1>1 DEF Steps, Look

-----------------------------------------------------------------------------
(* What a request can do, in the words the invariants need.                *)

LEMMA HandledHow ==
  ASSUME NEW token, NEW key, HandleRequest(token, key)
  PROVE  /\ hpc = "idle" /\ reply' = <<>>
         /\ \/ /\ hpc' = "idle" /\ UNCHANGED <<document, asked>>
               /\ "xml" \notin DOMAIN response'
            \/ /\ hpc' \in {"crashed", "asking"} /\ response' = Empty
               /\ \E message \in DecryptMsg(request'.query, request'.Encrypt, token, key) :
                    /\ message # Failed
                    /\ IF hpc' = "crashed" THEN Extract(Xml[message[1]]) = "crash"
                       ELSE /\ Extract(Xml[message[1]]) = "next"
                            /\ document' = Xml[message[1]] /\ asked' = 1
<1>1. PICK r \in Requests :
        /\ request' = r
        /\ \/ r.URI = "/ping" /\ Respond(Text("PONG!"))
           \/ r.URI \notin {"/ping", "/callback"} /\ Respond(NotImplemented)
           \/ r.URI = "/callback" /\ r.Method = "GET" /\ DoVerifyURL(r, token, key)
           \/ r.URI = "/callback" /\ r.Method = "POST" /\ OnMessageReceived(r, token, key)
           \/ r.URI = "/callback" /\ r.Method \notin {"GET", "POST"} /\ Respond(Empty)
  BY DEF HandleRequest
<1>2. hpc = "idle" /\ reply' = <<>>
  BY DEF HandleRequest
<1>3. \A text : /\ "xml" \notin DOMAIN Text(text) /\ "xml" \notin DOMAIN Echo(text)
                /\ "xml" \notin DOMAIN NotImplemented
  BY DEF Text, Echo, NotImplemented
<1>4. ASSUME NEW body, Respond(body), "xml" \notin DOMAIN body
      PROVE  /\ hpc' = "idle" /\ UNCHANGED <<document, asked>>
             /\ "xml" \notin DOMAIN response'
  BY <1>4 DEF Respond
<1>5. CASE DoVerifyURL(r, token, key)
  <2>1. PICK text : Respond(IF text = <<>> THEN Empty ELSE Echo(text))
    BY <1>5 DEF DoVerifyURL
  <2>2. "xml" \notin DOMAIN (IF text = <<>> THEN Empty ELSE Echo(text))
    BY <1>3 DEF Empty
  <2>3. QED
    BY <1>2, <1>4, <2>1, <2>2
<1>6. CASE OnMessageReceived(r, token, key)
  <2>1. PICK message \in DecryptMsg(r.query, r.Encrypt, token, key) :
          IF message = Failed THEN Respond(Text("Decrypt failed!"))
          ELSE IF message[1] \notin DOMAIN Xml THEN Respond(Text("XML parse failed!"))
          ELSE LET verdict == Extract(Xml[message[1]]) IN
               \/ verdict = "error" /\ Respond(Text("Invalid request"))
               \/ /\ verdict = "crash"
                  /\ hpc' = "crashed"
                  /\ response' = Empty
                  /\ UNCHANGED <<document, asked>>
               \/ /\ verdict = "next"
                  /\ hpc' = "asking"
                  /\ document' = Xml[message[1]]
                  /\ asked' = 1
                  /\ response' = Empty
    BY <1>6 DEF OnMessageReceived
  <2>2. CASE \E text : Respond(Text(text))
    BY <1>2, <1>3, <1>4, <2>2
  <2>3. CASE ~\E text : Respond(Text(text))
    <3>1. message # Failed
      BY <2>1, <2>3
    <3>2. \/ Extract(Xml[message[1]]) = "crash" /\ hpc' = "crashed" /\ response' = Empty
          \/ /\ Extract(Xml[message[1]]) = "next" /\ hpc' = "asking" /\ response' = Empty
             /\ document' = Xml[message[1]] /\ asked' = 1
      BY <2>1, <2>3
    <3>3. QED
      BY <1>1, <1>2, <2>1, <3>1, <3>2
  <2>4. QED
    BY <2>2, <2>3
<1>7. QED
  BY <1>1, <1>2, <1>3, <1>4, <1>5, <1>6 DEF Empty

(* The steps of a reply maker change nothing of the request at hand.       *)
LEMMA AskedHow ==
  ASSUME NEW list, NEW gone, NEW token, NEW key,
         CallbackNext(list, gone, token, key), ~HandleRequest(token, key)
  PROVE  hpc = "asking" /\ UNCHANGED <<request, document>>
BY DEF CallbackNext, Maker, MakerGone, WillNotReply, WillReply, NobodyReplies, Respond

(* A reply maker sees only messages that have every field of their type,   *)
(* for every document: what the constructors of CallbackMessage test and   *)
(* what they read comes to that, whatever else is in the document.         *)
THEOREM OnlyWholeAreAsked == BotSpec => []AskedOnlyIfWhole
<1>1. BotInit => AskedOnlyIfWhole
  BY DEF BotInit, CallbackInit, AskedOnlyIfWhole
<1>2. AskedOnlyIfWhole /\ [BotNext]_botVars => AskedOnlyIfWhole'
  <2> SUFFICES ASSUME AskedOnlyIfWhole, [BotNext]_botVars
               PROVE  AskedOnlyIfWhole'
    OBVIOUS
  <2>1. CASE UNCHANGED callbackVars
    BY <2>1 DEF callbackVars, AskedOnlyIfWhole
  <2>2. CASE Serve /\ HandleRequest(Token, EncodingKey)
    <3>1. CASE hpc' = "asking"
      <4>1. PICK doc : Extract(doc) = "next" /\ document' = doc
        BY <2>2, <3>1, HandledHow
      <4>2. Whole(document')
        BY <4>1, ExtractedIsWhole
      <4>3. QED
        BY <4>2 DEF AskedOnlyIfWhole
    <3>2. CASE hpc' # "asking"
      BY <2>2, <3>2, HandledHow DEF AskedOnlyIfWhole
    <3>3. QED
      BY <3>1, <3>2
  <2>3. CASE Serve /\ ~HandleRequest(Token, EncodingKey)
    <3>1. hpc = "asking" /\ UNCHANGED document
      BY <2>3, AskedHow DEF Serve
    <3>2. Whole(document)'
      BY <3>1 DEF AskedOnlyIfWhole
    <3>3. QED
      BY <3>2 DEF AskedOnlyIfWhole
  <2>4. QED
    BY <2>1, <2>2, <2>3 DEF BotNext, StartStep, LibraryCall, botVars
<1>3. QED
  BY <1>1, <1>2, PTL DEF BotSpec

(* What a reply maker returned can be verified and decrypted with the      *)
(* token and the key of the configuration, and is that text, for every     *)
(* request and every reply that base64 and the length in the frame can     *)
(* hold: 749999979 bytes, as Radix is 256.                                 *)
THEOREM RepliesAreReadBack ==
  ASSUME \A text \in Replies :
           Countable(text) /\ Encodable(GenNeedEncryptData(text, GenRandStr, <<>>))
  PROVE  BotSpec => []RepliesReadBack
<1> DEFINE IInv == ServeInv /\ RepliesReadBack
           Answer(xml) == [msg_signature |-> <<xml.MsgSignature>>,
                           timestamp |-> <<xml.TimeStamp>>, nonce |-> <<xml.Nonce>>]
<1>1. \A t : "xml" \notin DOMAIN Text(t)
  BY DEF Text
<1>2. BotInit => IInv
  <2>1. BotInit => ServeInv
    BY PlainBodies DEF BotInit, CallbackInit, ServeInv, AskedOnlyIfSigned, Empty
  <2>2. BotInit => "xml" \notin DOMAIN response
    BY <1>1 DEF BotInit, CallbackInit, Empty
  <2>3. QED
    BY <2>1, <2>2 DEF RepliesReadBack
<1>3. IInv /\ [BotNext]_botVars => IInv'
  <2> SUFFICES ASSUME IInv, [BotNext]_botVars
               PROVE  RepliesReadBack'
    BY ServeInvStep
  <2>1. ASSUME "xml" \notin DOMAIN response'
        PROVE  RepliesReadBack'
    BY <2>1 DEF RepliesReadBack
  <2>2. ASSUME UNCHANGED <<response, reply, nodes>>
        PROVE  RepliesReadBack'
    <3>1. UNCHANGED Token /\ UNCHANGED EncodingKey
      BY <2>2 DEF Token, EncodingKey
    <3>2. QED
      BY <2>2, <3>1 DEF RepliesReadBack
  <2>3. CASE StartStep
    <3>1. pc # "running" /\ UNCHANGED response
      BY <2>3 DEF StartStep, Parse, Boot, Parsed, CheckBotName, CheckLog, LoadSharedObjects,
                  LoadNext, InitializeBotEngine, BindPort, callbackVars
    <3>2. response' = Empty
      BY <3>1 DEF ServeInv
    <3>3. QED
      BY <1>1, <2>1, <3>2 DEF Empty
  <2>4. CASE LibraryCall \/ UNCHANGED botVars
    BY <2>2, <2>4 DEF LibraryCall, Reconfigure, botVars, allVars, codecVars, callbackVars
  <2>5. CASE Serve
    <3>1. UNCHANGED nodes /\ UNCHANGED Token /\ UNCHANGED EncodingKey
      BY <2>5 DEF Serve, allVars, codecVars, Token, EncodingKey
    <3>2. CASE HandleRequest(Token, EncodingKey)
      BY <1>1, <2>1, <3>2, HandledHow DEF Empty
    <3>3. CASE MakerGone(makers, Gone) \/ WillNotReply(makers)
      BY <2>2, <3>1, <3>3 DEF MakerGone, WillNotReply
    <3>4. CASE NobodyReplies(makers)
      BY <1>1, <2>1, <3>4 DEF NobodyReplies, Respond, Empty
    <3>5. CASE WillReply(makers, Token, EncodingKey)
      <4>1. CASE response' = Empty
        BY <1>1, <2>1, <4>1 DEF Empty
      <4>2. CASE response' # Empty
        <5> DEFINE sealed(text) ==
              EncryptMsg(text, GenRandStr, request.query, Token, EncodingKey, <<>>)
        <5>1. PICK text \in Replies :
                /\ sealed(text) # Failed
                /\ reply' = <<text>> /\ response' = Sealed(sealed(text)[1])
          BY <3>5, <4>2 DEF WillReply, Respond
        <5>2. DecryptMsg(Answer(sealed(text)[1]), <<sealed(text)[1].Encrypt>>,
                         Token, EncodingKey) = {<<text>>}
          <6>1. /\ text \in Seq(Byte) /\ GenRandStr \in Seq(Byte)
                /\ Len(GenRandStr) = kRandEncryptStrLen /\ <<>> \in Seq(Byte)
            BY CallbackAssumption
          <6>2. Countable(text) /\ Encodable(GenNeedEncryptData(text, GenRandStr, <<>>))
            OBVIOUS
          <6>3. sealed(text) # Failed
            BY <5>1
          <6>4. \A query, token, key :
                  LET xml == EncryptMsg(text, GenRandStr, query, token, key, <<>>) IN
                  xml # Failed =>
                    DecryptMsg(Answer(xml[1]), <<xml[1].Encrypt>>, token, key) = {<<text>>}
            <7> DEFINE none == <<>>
            <7>1. none \in Seq(Byte) /\ Encodable(GenNeedEncryptData(text, GenRandStr, none))
              BY ONLY <6>1, <6>2
            <7> HIDE DEF none
            <7>2. ASSUME NEW query, NEW token, NEW key,
                         EncryptMsg(text, GenRandStr, query, token, key, none) # Failed
                  PROVE  LET xml == EncryptMsg(text, GenRandStr, query, token, key, none)
                         IN  DecryptMsg(Answer(xml[1]), <<xml[1].Encrypt>>, token, key)
                               = {<<text>>}
              BY ONLY <6>1, <6>2, <7>1, <7>2, ReplyOpens
            <7>3. QED
              BY ONLY <7>2 DEF none
          <6>5. QED
            BY <6>3, <6>4
        <5> HIDE DEF sealed
        <5>3. response'.xml = sealed(text)[1]
          BY <5>1 DEF Sealed
        <5>4. QED
          BY <3>1, <5>1, <5>2, <5>3 DEF RepliesReadBack
      <4>3. QED
        BY <4>1, <4>2
    <3>6. QED
      BY <2>5, <3>2, <3>3, <3>4, <3>5 DEF Serve, CallbackNext
  <2>6. QED
    BY <2>3, <2>4, <2>5 DEF BotNext
<1>4. QED
  BY <1>2, <1>3, PTL DEF BotSpec

-----------------------------------------------------------------------------
(* Lists of library ids.                                                   *)

Once(s, x) == \A a, b \in 1 .. Len(s) : s[a] = x /\ s[b] = x => a = b

(* What is left of a list. *)
Left(t, s) ==
  /\ t \in Seq(Nat)
  /\ \A k \in 1 .. Len(t) : \E j \in 1 .. Len(s) : s[j] = t[k]
  /\ \A x : Once(s, x) => Once(t, x)

Rounds == [list : Seq(Nat), again : BOOLEAN]

(* The recursion of DestroyRound: there is such a function.                *)
IsRound(g, s, id) ==
  /\ g \in [0 .. Len(s) -> Rounds]
  /\ g[0] = [list |-> <<>>, again |-> FALSE]
  /\ \A i \in 1 .. Len(s) :
        g[i] = IF g[i - 1].again \/ s[i] # id
               THEN [list |-> Append(g[i - 1].list, s[i]), again |-> FALSE]
               ELSE [list |-> g[i - 1].list, again |-> TRUE]

LEMMA RoundIs ==
  ASSUME NEW s \in Seq(Nat), NEW id
  PROVE  \E g : IsRound(g, s, id) /\ DestroyRound(s, id) = g[Len(s)]
<1> DEFINE a == [list |-> <<>>, again |-> FALSE]
           step(i, x) == IF x.again \/ s[i] # id
                         THEN [list |-> Append(x.list, s[i]), again |-> FALSE]
                         ELSE [list |-> x.list, again |-> TRUE]
           F == [i \in 1 .. Len(s) |-> [x \in Rounds |-> step(i, x)]]
           body(g) == [i \in 0 .. Len(s) |-> IF i = 0 THEN a ELSE step(i, g[i - 1])]
<1>1. \A i \in 1 .. Len(s) : \A x \in Rounds : step(i, x) \in Rounds
  BY DEF Rounds
<1>2. F \in [1 .. Len(s) -> [Rounds -> Rounds]] /\ a \in Rounds /\ Len(s) \in Nat
  <2>1. a \in Rounds /\ Len(s) \in Nat
    BY DEF Rounds
  <2> HIDE DEF step
  <2>2. QED
    BY <1>1, <2>1
<1>3. \E g : g = body(g)
  <2>1. PICK g : Computes(g, Len(s), Rounds, a, F)
    <3> HIDE DEF F, a
    <3>1. QED
      BY <1>2, Iteration
  <2>2. /\ g \in [0 .. Len(s) -> Rounds] /\ g[0] = a
        /\ \A i \in 1 .. Len(s) : g[i] = step(i, g[i - 1])
    <3> HIDE DEF step
    <3>1. \A i \in 1 .. Len(s) : g[i - 1] \in Rounds
      <4> HIDE DEF F, a
      <4>1. g \in [0 .. Len(s) -> Rounds] /\ Len(s) \in Nat
        BY <1>2, <2>1 DEF Computes
      <4>2. QED
        BY <4>1
    <3>2. QED
      BY <2>1, <3>1 DEF Computes
  <2>3. g = body(g)
    <3> HIDE DEF step, a
    <3>1. QED
      BY <2>1, <2>2
  <2>4. QED
    BY <2>3, Zenon
<1> DEFINE g == CHOOSE h : h = body(h)
<1>4. g = body(g)
  BY <1>3, Zenon
<1>5. DestroyRound(s, id) = g[Len(s)]
  BY Zenon DEF DestroyRound
<1> HIDE DEF g
<1>6. g[0] = a /\ \A i \in 1 .. Len(s) : g[i] = step(i, g[i - 1])
  <2> DEFINE rhs == body(g)
  <2> HIDE DEF step, a
  <2>1. rhs[0] = a /\ \A i \in 1 .. Len(s) : rhs[i] = step(i, g[i - 1])
    BY <1>2
  <2> HIDE DEF rhs
  <2>2. QED
    BY <1>4, <2>1 DEF rhs
<1>7. \A i \in 0 .. Len(s) : g[i] \in Rounds
  <2> DEFINE S == {i \in 0 .. Len(s) : g[i] \in Rounds}
  <2>1. 0 \in S /\ \A i \in 1 .. Len(s) : i - 1 \in S => i \in S
    <3> HIDE DEF step, a
    <3>1. QED
      BY <1>1, <1>2, <1>6
  <2> HIDE DEF S
  <2>2. \A i \in 0 .. Len(s) : i \in S
    BY <1>2, <2>1, Climb
  <2>3. QED
    BY <2>2 DEF S
<1>8. g \in [0 .. Len(s) -> Rounds]
  <2> HIDE DEF step, a
  <2>1. QED
    BY <1>4, <1>7
<1>9. IsRound(g, s, id)
  BY <1>6, <1>8 DEF IsRound
<1>10. QED
  BY <1>5, <1>9

LEMMA AppendIs ==
  ASSUME NEW t \in Seq(Nat), NEW x \in Nat
  PROVE  /\ Append(t, x) \in Seq(Nat)
         /\ \A k \in 1 .. Len(Append(t, x)) :
              \/ k \in 1 .. Len(t) /\ Append(t, x)[k] = t[k]
              \/ k = Len(t) + 1 /\ Append(t, x)[k] = x
OBVIOUS

(* One round leaves a part of the list, and nothing of an id that is there *)
(* once.                                                                   *)
LEMMA RoundLeaves ==
  ASSUME NEW s \in Seq(Nat), NEW id
  PROVE  /\ DestroyRound(s, id) \in Rounds
         /\ Left(DestroyRound(s, id).list, s)
         /\ Once(s, id) =>
              \A k \in 1 .. Len(DestroyRound(s, id).list) : DestroyRound(s, id).list[k] # id
<1>1. PICK g : IsRound(g, s, id) /\ DestroyRound(s, id) = g[Len(s)]
  BY RoundIs
<1>2. Len(s) \in Nat /\ \A i \in 0 .. Len(s) : /\ g[i] \in Rounds /\ g[i].list \in Seq(Nat)
                                             /\ Len(g[i].list) \in Nat /\ g[i].again \in BOOLEAN
  <2>1. g \in [0 .. Len(s) -> Rounds]
    BY <1>1 DEF IsRound
  <2>2. QED
    BY <2>1 DEF Rounds
<1>3. ASSUME NEW i \in 1 .. Len(s)
      PROVE  IF g[i - 1].again \/ s[i] # id
             THEN g[i].list = Append(g[i - 1].list, s[i]) /\ g[i].again = FALSE
             ELSE g[i].list = g[i - 1].list /\ g[i].again = TRUE
  <2> DEFINE appended == [list |-> Append(g[i - 1].list, s[i]), again |-> FALSE]
             kept == [list |-> g[i - 1].list, again |-> TRUE]
  <2>1. g[i] = IF g[i - 1].again \/ s[i] # id THEN appended ELSE kept
    BY <1>1 DEF IsRound
  <2>2. /\ appended.list = Append(g[i - 1].list, s[i]) /\ appended.again = FALSE
        /\ kept.list = g[i - 1].list /\ kept.again = TRUE
    OBVIOUS
  <2> HIDE DEF appended, kept
  <2>3. QED
    BY <2>1, <2>2
<1> DEFINE t(i) == g[i].list
           From(i) == \A k \in 1 .. Len(t(i)) : \E j \in 1 .. i : s[j] = t(i)[k]
           Same(i) == \A x : Once(s, x) => Once(t(i), x)
           Spared(i) == Once(s, id) => /\ \A k \in 1 .. Len(t(i)) : t(i)[k] # id
                                       /\ g[i].again => i > 0 /\ s[i] = id
           S == {i \in 0 .. Len(s) : From(i) /\ Same(i) /\ Spared(i)}
<1>4. 0 \in S
  <2>1. t(0) = <<>> /\ g[0].again = FALSE /\ 0 \in 0 .. Len(s)
    BY <1>1, <1>2 DEF IsRound
  <2>2. From(0) /\ Same(0) /\ Spared(0)
    <3> HIDE DEF t
    <3>1. QED
      BY <2>1 DEF Once
  <2> HIDE DEF From, Same, Spared
  <2>3. QED
    BY <2>1, <2>2
<1>5. ASSUME NEW i \in 1 .. Len(s), i - 1 \in S
      PROVE  i \in S
  <2>1. /\ i \in 0 .. Len(s) /\ i - 1 \in 0 .. Len(s)
        /\ From(i - 1) /\ Same(i - 1) /\ Spared(i - 1)
    BY <1>2, <1>5
  <2>2. /\ t(i) \in Seq(Nat) /\ t(i - 1) \in Seq(Nat) /\ g[i - 1].again \in BOOLEAN
        /\ g[i].again \in BOOLEAN /\ s[i] \in Nat /\ Len(t(i - 1)) \in Nat
    BY <1>2, <2>1
  <2>3. CASE g[i - 1].again \/ s[i] # id
    <3>1. t(i) = Append(t(i - 1), s[i]) /\ g[i].again = FALSE
      BY <1>3, <2>3
    <3> HIDE DEF t
    <3>2. \A k \in 1 .. Len(t(i)) :
            \/ k \in 1 .. Len(t(i - 1)) /\ t(i)[k] = t(i - 1)[k]
            \/ k = Len(t(i - 1)) + 1 /\ t(i)[k] = s[i]
      BY <2>2, <3>1, AppendIs
    <3>3. From(i)
      <4>1. \A j \in 1 .. i - 1 : j \in 1 .. i
        OBVIOUS
      <4>2. QED
        BY <2>1, <3>2, <4>1
    <3>4. Same(i)
      <4> SUFFICES ASSUME NEW x, Once(s, x), NEW a \in 1 .. Len(t(i)), NEW b \in 1 .. Len(t(i)),
                          t(i)[a] = x, t(i)[b] = x
                   PROVE  a = b
        BY DEF Once
      <4>1. Once(t(i - 1), x)
        BY <2>1
      <4>2. ASSUME x = s[i], NEW c \in 1 .. Len(t(i - 1)), t(i - 1)[c] = x
            PROVE  FALSE
        <5>1. PICK j \in 1 .. i - 1 : s[j] = x
          BY <2>1, <4>2
        <5>2. j \in 1 .. Len(s) /\ j # i
          BY <1>2
        <5>3. QED
          BY <4>2, <5>1, <5>2 DEF Once
      <4>3. CASE a \in 1 .. Len(t(i - 1)) /\ b \in 1 .. Len(t(i - 1))
        <5>1. ASSUME NEW c \in 1 .. Len(t(i)), t(i)[c] = x, c \in 1 .. Len(t(i - 1))
              PROVE  t(i - 1)[c] = x
          <6>1. c # Len(t(i - 1)) + 1
            BY <2>2, <5>1
          <6>2. QED
            BY <3>2, <5>1, <6>1
        <5>2. QED
          BY <4>1, <4>3, <5>1, t(i)[a] = x, t(i)[b] = x DEF Once
      <4>4. CASE ~(a \in 1 .. Len(t(i - 1)) /\ b \in 1 .. Len(t(i - 1)))
        BY <3>2, <4>2, <4>4
      <4>5. QED
        BY <4>3, <4>4
    <3>5. Spared(i)
      <4> SUFFICES ASSUME Once(s, id)
                   PROVE  \A k \in 1 .. Len(t(i)) : t(i)[k] # id
        BY <3>1
      <4>1. s[i] # id
        <5> SUFFICES ASSUME s[i] = id
                     PROVE  FALSE
          OBVIOUS
        <5>1. g[i - 1].again
          BY <2>3
        <5>2. i - 1 > 0 /\ s[i - 1] = id
          BY <2>1, <5>1
        <5>3. i - 1 \in 1 .. Len(s) /\ i - 1 # i
          BY <1>2, <5>2
        <5>4. QED
          BY <5>2, <5>3 DEF Once
      <4>2. \A k \in 1 .. Len(t(i - 1)) : t(i - 1)[k] # id
        BY <2>1
      <4>3. QED
        BY <3>2, <4>1, <4>2
    <3> HIDE DEF From, Same, Spared
    <3>6. QED
      BY <2>1, <3>3, <3>4, <3>5
  <2>4. CASE ~(g[i - 1].again \/ s[i] # id)
    <3>1. t(i) = t(i - 1) /\ g[i].again = TRUE /\ s[i] = id
      BY <1>3, <2>4
    <3> HIDE DEF t
    <3>2. From(i) /\ Same(i) /\ Spared(i)
      <4>1. Len(t(i - 1)) \in Nat
        BY <2>2
      <4>2. \A j \in 1 .. i - 1 : j \in 1 .. i
        OBVIOUS
      <4>3. QED
        BY <2>1, <3>1, <4>1, <4>2
    <3> HIDE DEF From, Same, Spared
    <3>3. QED
      BY <2>1, <3>2
  <2>5. QED
    BY <2>3, <2>4
<1>6. Len(s) \in S
  <2> HIDE DEF S
  <2>1. \A i \in 0 .. Len(s) : i \in S
    BY <1>2, <1>4, <1>5, Climb
  <2>2. QED
    BY <1>2, <2>1
<1>7. From(Len(s)) /\ Same(Len(s)) /\ Spared(Len(s)) /\ t(Len(s)) \in Seq(Nat)
  BY <1>2, <1>6
<1>8. g[Len(s)] \in Rounds
  BY <1>2
<1>9. Left(t(Len(s)), s)
  <2> HIDE DEF t
  <2>1. QED
    BY <1>7 DEF Left
<1>10. QED
  BY <1>1, <1>7, <1>8, <1>9

(* The recursion of DestroyCronJobs.                                       *)
IsLoop(g, s, id) ==
  /\ g \in [0 .. Len(s) + 1 -> Rounds]
  /\ g[0] = [list |-> s, again |-> TRUE]
  /\ \A i \in 1 .. Len(s) + 1 :
       g[i] = IF g[i - 1].again THEN DestroyRound(g[i - 1].list, id) ELSE g[i - 1]

LEMMA LoopIs ==
  ASSUME NEW s \in Seq(Nat), NEW id
  PROVE  \E g : IsLoop(g, s, id) /\ DestroyCronJobs(s, id) = g[Len(s) + 1].list
<1> DEFINE n == Len(s) + 1
           a == [list |-> s, again |-> TRUE]
           step(x) == IF x.again THEN DestroyRound(x.list, id) ELSE x
           F == [i \in 1 .. n |-> [x \in Rounds |-> step(x)]]
           body(g) == [i \in 0 .. n |-> IF i = 0 THEN a ELSE step(g[i - 1])]
<1>1. \A x \in Rounds : step(x) \in Rounds
  BY RoundLeaves DEF Rounds
<1>2. F \in [1 .. n -> [Rounds -> Rounds]] /\ a \in Rounds /\ n \in Nat
  <2>1. a \in Rounds /\ n \in Nat
    BY DEF Rounds
  <2> HIDE DEF step
  <2>2. QED
    BY <1>1, <2>1
<1>3. DestroyCronJobs(s, id) = (CHOOSE h : h = body(h))[n].list
  BY Zenon DEF DestroyCronJobs
<1> HIDE DEF n
<1>4. \E g : g = body(g)
  <2>1. PICK g : Computes(g, n, Rounds, a, F)
    <3> HIDE DEF F, a
    <3>1. QED
      BY <1>2, Iteration
  <2>2. /\ g \in [0 .. n -> Rounds] /\ g[0] = a
        /\ \A i \in 1 .. n : g[i] = step(g[i - 1])
    <3> HIDE DEF step
    <3>1. \A i \in 1 .. n : g[i - 1] \in Rounds
      BY <1>2, <2>1 DEF Computes
    <3>2. QED
      BY <2>1, <3>1 DEF Computes
  <2>3. g = body(g)
    <3> HIDE DEF step, a
    <3>1. QED
      BY <2>2
  <2>4. QED
    BY <2>3, Zenon
<1> DEFINE g == CHOOSE h : h = body(h)
<1>5. g = body(g)
  BY <1>4, Zenon
<1>6. DestroyCronJobs(s, id) = g[n].list
  BY <1>3
<1> HIDE DEF g
<1>7. g[0] = a /\ \A i \in 1 .. n : g[i] = step(g[i - 1])
  <2> DEFINE rhs == body(g)
  <2> HIDE DEF step, a
  <2>1. rhs[0] = a /\ \A i \in 1 .. n : rhs[i] = step(g[i - 1])
    BY <1>2
  <2> HIDE DEF rhs
  <2>2. QED
    BY <1>5, <2>1 DEF rhs
<1>8. \A i \in 0 .. n : g[i] \in Rounds
  <2> DEFINE S == {i \in 0 .. n : g[i] \in Rounds}
  <2>1. 0 \in S /\ \A i \in 1 .. n : i - 1 \in S => i \in S
    <3> HIDE DEF step, a
    <3>1. QED
      BY <1>1, <1>2, <1>7
  <2> HIDE DEF S
  <2>2. \A i \in 0 .. n : i \in S
    BY <1>2, <2>1, Climb
  <2>3. QED
    BY <2>2 DEF S
<1>9. g \in [0 .. n -> Rounds]
  <2> HIDE DEF step, a
  <2>1. QED
    BY <1>5, <1>8
<1>10. IsLoop(g, s, id)
  BY <1>7, <1>9 DEF n, IsLoop
<1>11. QED
  BY <1>6, <1>10 DEF n

(* DestroyCronJobs leaves a part of the list, and nothing of an id that is *)
(* there once, however often it begins again.                              *)
LEMMA DestroyLeaves ==
  ASSUME NEW s \in Seq(Nat), NEW id
  PROVE  /\ Left(DestroyCronJobs(s, id), s)
         /\ Once(s, id) =>
              \A k \in 1 .. Len(DestroyCronJobs(s, id)) : DestroyCronJobs(s, id)[k] # id
<1>1. PICK g : IsLoop(g, s, id) /\ DestroyCronJobs(s, id) = g[Len(s) + 1].list
  BY LoopIs
<1> DEFINE n == Len(s) + 1
           Free(t) == \A k \in 1 .. Len(t) : t[k] # id
           S == {i \in 0 .. n : /\ Left(g[i].list, s)
                                /\ Once(s, id) /\ i > 0 => Free(g[i].list)
                                /\ i = 0 => g[i].again}
<1>2. n \in Nat /\ n > 0
  OBVIOUS
<1>3. 0 \in S
  <2>1. Left(s, s)
    BY DEF Left
  <2>2. QED
    BY <1>1, <1>2, <2>1 DEF IsLoop
<1>4. ASSUME NEW i \in 1 .. n, i - 1 \in S
      PROVE  i \in S
  <2>1. Left(g[i - 1].list, s) /\ i \in 0 .. n /\ i > 0
    BY <1>2, <1>4
  <2> DEFINE t == g[i - 1].list
  <2>2. CASE g[i - 1].again
    <3>1. g[i] = DestroyRound(t, id)
      BY <1>1, <2>2 DEF IsLoop
    <3>2. /\ Left(g[i].list, t) /\ (Once(t, id) => Free(g[i].list))
      <4>1. t \in Seq(Nat)
        BY <2>1 DEF Left
      <4> HIDE DEF t
      <4>2. QED
        BY <3>1, <4>1, RoundLeaves
    <3>3. Left(g[i].list, s)
      <4> HIDE DEF t
      <4>1. Left(t, s)
        BY <2>1 DEF t
      <4>2. QED
        BY <3>2, <4>1 DEF Left
    <3>4. Once(s, id) => Free(g[i].list)
      BY <2>1, <3>2 DEF Left
    <3> HIDE DEF Free
    <3>5. QED
      BY <2>1, <3>3, <3>4
  <2>3. CASE ~g[i - 1].again
    <3>1. g[i] = g[i - 1] /\ i - 1 > 0
      BY <1>1, <1>2, <1>4, <2>3 DEF IsLoop
    <3> HIDE DEF Free
    <3>2. QED
      BY <1>4, <2>1, <3>1
  <2>4. QED
    BY <2>2, <2>3
<1>5. n \in S
  <2> HIDE DEF S
  <2>1. \A i \in 0 .. n : i \in S
    BY <1>2, <1>3, <1>4, Climb
  <2>2. QED
    BY <1>2, <2>1
<1>6. QED
  BY <1>1, <1>2, <1>5

-----------------------------------------------------------------------------
(* The libraries.                                                          *)

(* Every registration is of a library that was loaded, every library has   *)
(* an id of its own, and a path without a handle has been closed by an     *)
(* unload of one of its names.                                             *)
LibInv ==
  /\ AI_LibID \in Nat \ {0}
  /\ jobs \in Seq(Nat) /\ makers \in Seq(Nat)
  /\ handles \in [DOMAIN Image -> Nat]
  /\ unloaded \subseteq DOMAIN Map
  /\ \A n \in DOMAIN Map : Map[n].path \in DOMAIN Image /\ Map[n].id \in 1 .. AI_LibID - 1
  /\ \A m, n \in DOMAIN Map : Map[m].id = Map[n].id => m = n
  /\ \A n \in DOMAIN Map :
       handles[Map[n].path] = 0 => \E m \in unloaded : Map[m].path = Map[n].path
  /\ \A k \in 1 .. Len(jobs) : \E n \in DOMAIN Map : Map[n].id = jobs[k]
  /\ \A k \in 1 .. Len(makers) : \E n \in DOMAIN Map : Map[n].id = makers[k]
  /\ \A n \in DOMAIN Map : Image[Map[n].path].jobs <= 1 => Once(jobs, Map[n].id)
  /\ \A n \in unloaded :
       Image[Map[n].path].jobs <= 1 => \A k \in 1 .. Len(jobs) : jobs[k] # Map[n].id

(* The registrations of one library, at the end of a list. *)
LEMMA BoundIs ==
  ASSUME NEW s \in Seq(Nat), NEW k \in Nat, NEW id \in Nat
  PROVE  LET t == s \o [i \in 1 .. k |-> id] IN
         /\ t \in Seq(Nat)
         /\ \A i \in 1 .. Len(t) : IF i \in 1 .. Len(s) THEN t[i] = s[i]
                                    ELSE t[i] = id /\ i \in Len(s) + 1 .. Len(s) + k
<1> DEFINE u == [i \in 1 .. k |-> id]
<1>1. u \in Seq(Nat) /\ Len(u) = k /\ \A i \in 1 .. k : u[i] = id
  OBVIOUS
<1> HIDE DEF u
<1>2. /\ s \o u \in Seq(Nat) /\ Len(s \o u) = Len(s) + k /\ Len(s) \in Nat
      /\ \A i \in 1 .. Len(s) + k :
           (s \o u)[i] = IF i <= Len(s) THEN s[i] ELSE u[i - Len(s)]
  BY <1>1
<1>3. QED
  BY <1>1, <1>2 DEF u

LEMMA LoadKeepsLibInv ==
  ASSUME LibInv, NEW path, NEW name, LoadLibrary(path, name),
         Bind(path, name) \/ UNCHANGED <<jobs, makers>>
  PROVE  LibInv'
<1> DEFINE id == AI_LibID
<1>1. /\ name \notin DOMAIN Map /\ path \in DOMAIN Image
      /\ DOMAIN Map' = DOMAIN Map \cup {name}
      /\ Map'[name].id = id /\ Map'[name].path = path
      /\ \A n \in DOMAIN Map : n # name /\ Map'[n] = Map[n]
      /\ AI_LibID' = id + 1 /\ unloaded' = unloaded
      /\ id \in Nat \ {0}
  BY DEF LoadLibrary, LibInv
<1>2. /\ handles' \in [DOMAIN Image -> Nat] /\ handles'[path] > 0
      /\ \A p \in DOMAIN Image : p # path => handles'[p] = handles[p]
  BY <1>1 DEF LoadLibrary, LibInv
<1> DEFINE Added(t, s, k) ==
             /\ t \in Seq(Nat)
             /\ \A i \in 1 .. Len(t) : IF i \in 1 .. Len(s) THEN t[i] = s[i]
                                        ELSE t[i] = id /\ i \in Len(s) + 1 .. Len(s) + k
<1>3. /\ Added(jobs', jobs, Image[path].jobs)
      /\ Added(makers', makers, Image[path].makers)
  <2>1. Image[path].jobs \in Nat /\ Image[path].makers \in Nat
    BY <1>1, LibrariesAssumption
  <2>2. jobs \in Seq(Nat) /\ makers \in Seq(Nat)
    BY DEF LibInv
  <2>3. CASE UNCHANGED <<jobs, makers>>
    BY <2>2, <2>3
  <2>4. CASE /\ jobs' = jobs \o [i \in 1 .. Image[path].jobs |-> id]
             /\ makers' = makers \o [i \in 1 .. Image[path].makers |-> id]
    <3>1. \A u \in Seq(Nat) : \A k \in Nat : Added(u \o [i \in 1 .. k |-> id], u, k)
      BY <1>1, BoundIs
    <3> HIDE DEF Added, id
    <3>2. QED
      BY <2>1, <2>2, <2>4, <3>1
  <2>5. GetLibraryID(Map', name) = id
    BY <1>1 DEF GetLibraryID
  <2>6. QED
    BY <2>3, <2>4, <2>5 DEF Bind
<1> HIDE DEF Added
<1>4. \A n \in DOMAIN Map : Map[n].id # id
  BY <1>1 DEF LibInv
<1>5. ASSUME NEW k \in 1 .. Len(jobs)
      PROVE  jobs[k] # id
  BY <1>4 DEF LibInv
<1>6. \A m, n \in DOMAIN Map' : Map'[m].id = Map'[n].id => m = n
  BY <1>1, <1>4 DEF LibInv
<1>7. \A n \in DOMAIN Map' : Map'[n].path \in DOMAIN Image /\ Map'[n].id \in 1 .. AI_LibID' - 1
  <2>1. \A i \in 1 .. id - 1 : i \in 1 .. (id + 1) - 1
    BY <1>1
  <2>2. id \in 1 .. (id + 1) - 1
    BY <1>1
  <2>3. QED
    BY <1>1, <2>1, <2>2 DEF LibInv
<1>8. \A n \in DOMAIN Map' :
        handles'[Map'[n].path] = 0 => \E m \in unloaded' : Map'[m].path = Map'[n].path
  <2> SUFFICES ASSUME NEW n \in DOMAIN Map', handles'[Map'[n].path] = 0
               PROVE  \E m \in unloaded' : Map'[m].path = Map'[n].path
    OBVIOUS
  <2>1. /\ n \in DOMAIN Map /\ Map'[n] = Map[n] /\ Map[n].path # path
        /\ Map[n].path \in DOMAIN Image
    BY <1>1, <1>2 DEF LibInv
  <2>2. handles[Map[n].path] = 0
    BY <1>2, <2>1
  <2>3. PICK m \in unloaded : Map[m].path = Map[n].path
    BY <2>1, <2>2 DEF LibInv
  <2>4. QED
    BY <1>1, <2>1, <2>3 DEF LibInv
<1>9. ASSUME NEW s, NEW t, NEW k, Added(t, s, k),
             \A i \in 1 .. Len(s) : \E n \in DOMAIN Map : Map[n].id = s[i],
             NEW i \in 1 .. Len(t)
      PROVE  \E n \in DOMAIN Map' : Map'[n].id = t[i]
  <2>1. IF i \in 1 .. Len(s) THEN t[i] = s[i] ELSE t[i] = id
    BY <1>9 DEF Added
  <2>2. CASE i \in 1 .. Len(s)
    <3>1. PICK n \in DOMAIN Map : Map[n].id = s[i]
      BY <1>9, <2>2
    <3>2. QED
      BY <1>1, <2>1, <2>2, <3>1
  <2>3. CASE i \notin 1 .. Len(s)
    BY <1>1, <2>1, <2>3
  <2>4. QED
    BY <2>2, <2>3
<1>10. \A n \in DOMAIN Map' : Image[Map'[n].path].jobs <= 1 => Once(jobs', Map'[n].id)
  <2> SUFFICES ASSUME NEW n \in DOMAIN Map', Image[Map'[n].path].jobs <= 1,
                      NEW a \in 1 .. Len(jobs'), NEW b \in 1 .. Len(jobs'),
                      jobs'[a] = Map'[n].id, jobs'[b] = Map'[n].id
               PROVE  a = b
    BY DEF Once
  <2>1. CASE n = name
    <3>1. a \notin 1 .. Len(jobs) /\ b \notin 1 .. Len(jobs)
      BY <1>1, <1>3, <1>5, <2>1 DEF Added
    <3>2. /\ a \in Len(jobs) + 1 .. Len(jobs) + Image[path].jobs
          /\ b \in Len(jobs) + 1 .. Len(jobs) + Image[path].jobs
      BY <1>3, <3>1 DEF Added
    <3>3. Image[path].jobs \in Nat /\ Image[path].jobs <= 1 /\ Len(jobs) \in Nat
      BY <1>1, <2>1, LibrariesAssumption DEF LibInv
    <3>4. QED
      BY <3>2, <3>3
  <2>2. CASE n # name
    <3>1. n \in DOMAIN Map /\ Map'[n] = Map[n] /\ Map[n].id # id
      BY <1>1, <1>4, <2>2
    <3>2. a \in 1 .. Len(jobs) /\ b \in 1 .. Len(jobs) /\ jobs[a] = Map[n].id /\ jobs[b] = Map[n].id
      BY <1>3, <3>1 DEF Added
    <3>3. Once(jobs, Map[n].id)
      BY <3>1 DEF LibInv
    <3>4. QED
      BY <3>2, <3>3 DEF Once
  <2>3. QED
    BY <2>1, <2>2
<1>11. \A n \in unloaded' :
         Image[Map'[n].path].jobs <= 1 => \A k \in 1 .. Len(jobs') : jobs'[k] # Map'[n].id
  <2> SUFFICES ASSUME NEW n \in unloaded, Image[Map[n].path].jobs <= 1,
                      NEW k \in 1 .. Len(jobs'), jobs'[k] = Map[n].id
               PROVE  FALSE
    BY <1>1 DEF LibInv
  <2>1. k \in 1 .. Len(jobs) /\ jobs[k] = Map[n].id
    BY <1>3, <1>4 DEF Added, LibInv
  <2>2. QED
    BY <2>1 DEF LibInv
<1>12. unloaded' \subseteq DOMAIN Map' /\ AI_LibID' \in Nat \ {0}
  BY <1>1 DEF LibInv
<1>13. /\ \A k \in 1 .. Len(jobs') : \E n \in DOMAIN Map' : Map'[n].id = jobs'[k]
       /\ \A k \in 1 .. Len(makers') : \E n \in DOMAIN Map' : Map'[n].id = makers'[k]
  <2>1. /\ \A k \in 1 .. Len(jobs) : \E n \in DOMAIN Map : Map[n].id = jobs[k]
        /\ \A k \in 1 .. Len(makers) : \E n \in DOMAIN Map : Map[n].id = makers[k]
    BY DEF LibInv
  <2>2. QED
    BY <1>3, <1>9, <2>1
<1>14. jobs' \in Seq(Nat) /\ makers' \in Seq(Nat)
  BY <1>3 DEF Added
<1>15. QED
  BY <1>2, <1>6, <1>7, <1>8, <1>10, <1>11, <1>12, <1>13, <1>14 DEF LibInv

LEMMA UnloadKeepsLibInv ==
  ASSUME LibInv, NEW name, UnloadLibrary(name)
  PROVE  LibInv'
<1> DEFINE id == Map[name].id
           path == Map[name].path
<1>1. /\ name \in DOMAIN Map /\ UNCHANGED <<Map, AI_LibID, makers>>
      /\ unloaded' = unloaded \cup {name} /\ jobs' = DestroyCronJobs(jobs, id)
      /\ path \in DOMAIN Image
  BY DEF UnloadLibrary, LibInv
<1>2. /\ handles' \in [DOMAIN Image -> Nat]
      /\ \A p \in DOMAIN Image : p # path => handles'[p] = handles[p]
  BY <1>1 DEF UnloadLibrary, Dlclose, LibInv
<1>3. /\ Left(jobs', jobs)
      /\ Once(jobs, id) => \A k \in 1 .. Len(jobs') : jobs'[k] # id
  BY <1>1, DestroyLeaves DEF LibInv
<1> HIDE DEF id
<1>4. \A n \in DOMAIN Map' :
        handles'[Map'[n].path] = 0 => \E m \in unloaded' : Map'[m].path = Map'[n].path
  BY <1>1, <1>2 DEF LibInv
<1>5. \A k \in 1 .. Len(jobs') : \E n \in DOMAIN Map' : Map'[n].id = jobs'[k]
  BY <1>1, <1>3 DEF LibInv, Left
<1>6. \A n \in DOMAIN Map' : Image[Map'[n].path].jobs <= 1 => Once(jobs', Map'[n].id)
  BY <1>1, <1>3 DEF LibInv, Left
<1>7. ASSUME NEW n \in unloaded', Image[Map'[n].path].jobs <= 1,
             NEW k \in 1 .. Len(jobs'), jobs'[k] = Map'[n].id
      PROVE  FALSE
  <2>1. CASE n = name
    <3>1. Once(jobs, id)
      BY <1>1, <1>7, <2>1 DEF LibInv, id
    <3>2. QED
      BY <1>1, <1>3, <1>7, <2>1, <3>1 DEF id
  <2>2. CASE n \in unloaded
    <3>1. PICK j \in 1 .. Len(jobs) : jobs[j] = jobs'[k]
      BY <1>3 DEF Left
    <3>2. QED
      BY <1>1, <1>7, <2>2, <3>1 DEF LibInv
  <2>3. QED
    BY <1>1, <1>7, <2>1, <2>2
<1>8. jobs' \in Seq(Nat) /\ unloaded' \subseteq DOMAIN Map'
  BY <1>1, <1>3 DEF LibInv, Left
<1>9. QED
  BY <1>1, <1>2, <1>4, <1>5, <1>6, <1>7, <1>8 DEF LibInv

LEMMA LibInvStep ==
  ASSUME LibInv, [BotNext]_botVars
  PROVE  LibInv'
<1>1. CASE UNCHANGED libVars
  BY <1>1 DEF libVars, LibInv
<1>2. CASE LoadNext
  BY <1>1, <1>2, LoadKeepsLibInv DEF LoadNext, LoadAndBind
<1>3. CASE Reconfigure
  BY <1>3, LoadKeepsLibInv, UnloadKeepsLibInv DEF Reconfigure, ReloadLibrary
<1>4. QED
  BY <1>1, <1>2, <1>3
     DEF BotNext, StartStep, Parse, Boot, Parsed, CheckBotName, CheckLog, LoadSharedObjects,
         InitializeBotEngine, BindPort, Serve, LibraryCall, allVars, botVars

LEMMA LibInvInit ==
  ASSUME BotInit
  PROVE  LibInv
<1>1. DOMAIN Map = {} /\ unloaded = {} /\ jobs = <<>> /\ makers = <<>> /\ AI_LibID = 1
  BY DEF BotInit, Init, LibInit
<1>2. handles \in [DOMAIN Image -> Nat]
  BY DEF BotInit, Init, LibInit
<1>3. QED
  BY <1>1, <1>2 DEF LibInv

(* Every registration is of exactly one library that was loaded, whatever  *)
(* is unloaded and loaded, and an unload leaves no job of its library that *)
(* registered only one: for every library and any calls in any order, and  *)
(* however often DestroyCronJobs begins its list again.                    *)
THEOREM UnloadsTakeTheirJobs == BotSpec => []UnloadTakesItsJobs
<1>1. BotInit => LibInv
  BY LibInvInit
<1>2. LibInv /\ [BotNext]_botVars => LibInv'
  BY LibInvStep
<1>3. LibInv => UnloadTakesItsJobs
  <2> SUFFICES ASSUME LibInv
               PROVE  UnloadTakesItsJobs
    OBVIOUS
  <2>1. /\ \A i \in Range(jobs) : \E k \in 1 .. Len(jobs) : i = jobs[k]
        /\ \A i \in Range(makers) : \E k \in 1 .. Len(makers) : i = makers[k]
    BY DEF LibInv, Range
  <2>2. ASSUME NEW i \in Range(jobs) \cup Range(makers)
        PROVE  \E n \in DOMAIN Map : Map[n].id = i
    <3>1. CASE i \in Range(jobs)
      <4>1. PICK k \in 1 .. Len(jobs) : i = jobs[k]
        BY <2>1, <3>1
      <4>2. QED
        BY <4>1 DEF LibInv
    <3>2. CASE i \in Range(makers)
      <4>1. PICK k \in 1 .. Len(makers) : i = makers[k]
        BY <2>1, <3>2
      <4>2. QED
        BY <4>1 DEF LibInv
    <3>3. QED
      BY <2>2, <3>1, <3>2
  <2>3. \A i : \A m, n \in DOMAIN Map : Map[m].id = i /\ Map[n].id = i => m = n
    BY DEF LibInv
  <2>4. ASSUME NEW n \in unloaded, Image[Map[n].path].jobs <= 1, Map[n].id \in Range(jobs)
        PROVE  FALSE
    <3>1. PICK k \in 1 .. Len(jobs) : Map[n].id = jobs[k]
      BY <2>1, <2>4
    <3>2. QED
      BY <2>4, <3>1 DEF LibInv
  <2>5. QED
    BY <2>2, <2>3, <2>4 DEF UnloadTakesItsJobs
<1>4. QED
  BY <1>1, <1>2, <1>3, PTL DEF BotSpec

(* The process is killed in the handler only by a signed message with an   *)
(* element that has no text or no From, or by a reply maker of a library   *)
(* whose file was unloaded: no path is closed but by an unload.            *)
CrashInv ==
  /\ LibInv
  /\ CrashesAreExplained
  /\ hpc = "asking" => asked \in Nat \ {0}
  /\ pc # "running" => hpc = "idle"

LEMMA CrashInvStep ==
  ASSUME CrashInv, [BotNext]_botVars
  PROVE  CrashInv'
<1>1. LibInv'
  BY LibInvStep DEF CrashInv
<1>2. CASE StartStep
  <2>1. pc # "running"
    BY <1>2 DEF StartStep, Parse, Boot, Parsed, CheckBotName, CheckLog, LoadSharedObjects,
                LoadNext, InitializeBotEngine, BindPort
  <2>2. hpc' = "idle"
    BY <1>2, <2>1 DEF CrashInv, StartStep, callbackVars
  <2>3. QED
    BY <1>1, <2>2 DEF CrashInv, CrashesAreExplained
<1>3. CASE LibraryCall
  <2>1. hpc # "crashed" /\ UNCHANGED <<hpc, asked, pc>>
    BY <1>3 DEF LibraryCall, Reconfigure, callbackVars
  <2>2. QED
    BY <1>1, <2>1 DEF CrashInv, CrashesAreExplained
<1>4. CASE UNCHANGED botVars
  <2>1. UNCHANGED <<nodes, Map, unloaded, makers, pc, hpc, asked, request>>
    BY <1>4 DEF botVars, allVars, callbackVars, codecVars, libVars, bootVars
  <2>2. UNCHANGED Token /\ UNCHANGED EncodingKey
    BY <2>1 DEF Token, EncodingKey
  <2>3. QED
    BY <1>1, <2>1, <2>2 DEF CrashInv, CrashesAreExplained
<1>5. CASE Serve
  <2>1. /\ pc = "running" /\ pc' = pc /\ hpc # "crashed"
        /\ UNCHANGED <<nodes, Map, unloaded, makers, handles>>
        /\ UNCHANGED Token /\ UNCHANGED EncodingKey
    BY <1>5 DEF Serve, allVars, codecVars, libVars, bootVars, Token, EncodingKey
  <2>2. CASE HandleRequest(Token, EncodingKey)
    <3>1. CASE hpc' = "idle"
      BY <1>1, <2>1, <3>1 DEF CrashInv, CrashesAreExplained
    <3>2. CASE hpc' = "asking"
      <4>1. asked' = 1
        <5>1. hpc' # "idle" /\ hpc' # "crashed"
          BY <3>2
        <5>2. QED
          BY <2>2, <5>1, HandledHow, Zenon
      <4>2. CrashesAreExplained'
        BY <3>2 DEF CrashesAreExplained
      <4>3. QED
        BY <1>1, <2>1, <3>2, <4>1, <4>2 DEF CrashInv
    <3>3. CASE hpc' = "crashed"
      <4>1. PICK m \in DecryptMsg(request'.query, request'.Encrypt, Token, EncodingKey) :
              m # Failed /\ Extract(Xml[m[1]]) = "crash"
        BY <2>2, <3>3, HandledHow
      <4>2. \/ "From" \notin DOMAIN Xml[m[1]]
            \/ \E f \in DOMAIN Xml[m[1]] : Xml[m[1]][f] = ""
        BY <4>1, ExtractCrashes
      <4>3. CrashesAreExplained'
        BY <2>1, <4>1, <4>2 DEF CrashesAreExplained
      <4>4. QED
        BY <1>1, <2>1, <3>3, <4>3 DEF CrashInv
    <3>4. QED
      BY <2>2, <3>1, <3>2, <3>3, HandledHow
  <2>3. CASE MakerGone(makers, Gone)
    <3>1. /\ hpc = "asking" /\ asked <= Len(makers) /\ makers[asked] \in Gone
          /\ hpc' = "crashed" /\ UNCHANGED asked
      BY <2>3 DEF MakerGone, Maker
    <3>2. asked \in DOMAIN makers
      BY <3>1 DEF CrashInv, LibInv
    <3>3. PICK n \in DOMAIN Map : handles[Map[n].path] = 0 /\ Map[n].id = makers[asked]
      BY <3>1 DEF Gone
    <3>4. \E m \in unloaded : Map[m].path = Map[n].path
      BY <3>3 DEF CrashInv, LibInv
    <3>5. CrashesAreExplained'
      BY <2>1, <3>1, <3>2, <3>3, <3>4 DEF CrashesAreExplained
    <3>6. QED
      BY <1>1, <2>1, <3>1, <3>5 DEF CrashInv
  <2>4. CASE WillNotReply(makers)
    <3>1. hpc = "asking" /\ hpc' = hpc /\ asked' = asked + 1
      BY <2>4 DEF WillNotReply, Maker
    <3>2. QED
      BY <1>1, <2>1, <3>1 DEF CrashInv, CrashesAreExplained
  <2>5. CASE WillReply(makers, Token, EncodingKey) \/ NobodyReplies(makers)
    <3>1. hpc' = "idle"
      BY <2>5 DEF WillReply, NobodyReplies, Respond
    <3>2. QED
      BY <1>1, <2>1, <3>1 DEF CrashInv, CrashesAreExplained
  <2>6. QED
    BY <1>5, <2>2, <2>3, <2>4, <2>5 DEF Serve, CallbackNext
<1>6. QED
  BY <1>2, <1>3, <1>4, <1>5 DEF BotNext

(* A request ends the process only if it is signed and its message lacks   *)
(* a text or its From, which CallbackMessage dereferences without a test,  *)
(* or if the handler asks a reply maker whose library was unloaded.        *)
THEOREM CrashesHaveCauses == BotSpec => []CrashesAreExplained
<1>1. BotInit => CrashInv
  BY LibInvInit DEF BotInit, CallbackInit, CrashInv, CrashesAreExplained
<1>2. CrashInv /\ [BotNext]_botVars => CrashInv'
  BY CrashInvStep
<1>3. CrashInv => CrashesAreExplained
  BY DEF CrashInv
<1>4. QED
  BY <1>1, <1>2, <1>3, PTL DEF BotSpec

-----------------------------------------------------------------------------
(* LoadSharedObjects.                                                      *)

(* What the first k pairs register. *)
PartTo(p, what, k) == [i \in 1 .. k |-> Registered(p, i, what)]

(* The first k of the pairs p are loaded, the others are still in libs. *)
LoadedUpTo(p, k) ==
  /\ p \in Seq(PairType) /\ k \in 0 .. Len(p)
  /\ libs \in Seq(PairType) /\ Len(libs) = Len(p) - k
  /\ \A j \in 1 .. Len(libs) : libs[j] = p[k + j]
  /\ \A name : name \in DOMAIN Map <=> \E j \in 1 .. k : p[j].key = name /\ Loadable(p[j])
  /\ AI_LibID = LibID(p, k) + 1
  /\ jobs = FlattenSeq(PartTo(p, "jobs", k))
  /\ makers = FlattenSeq(PartTo(p, "makers", k))

BoundInv ==
  /\ calls \in Nat /\ (pc \in {"parse", "name", "log", "load", "libs"} => calls = 0)
  /\ pc \in {"parse", "name", "log", "load"} =>
       Map = <<>> /\ AI_LibID = 1 /\ jobs = <<>> /\ makers = <<>>
  /\ pc = "libs" => \E k \in Nat : LoadedUpTo(LibPairs, k)
  /\ BoundAsConfigured

LEMMA LibIDIs ==
  ASSUME NEW p \in Seq(PairType), NEW k \in 0 .. Len(p)
  PROVE  /\ LibID(p, k) \in Nat /\ LibID(p, 0) = 0
         /\ k < Len(p) => LibID(p, k + 1) = IF k + 1 \in Loaded(p) THEN LibID(p, k) + 1 ELSE LibID(p, k)
<1> DEFINE Upto(i) == {j \in Loaded(p) : j <= i}
<1>1. Len(p) \in Nat /\ Loaded(p) \subseteq 1 .. Len(p)
  BY DEF Loaded
<1>2. \A i : IsFiniteSet(Upto(i))
  <2>1. IsFiniteSet(1 .. Len(p))
    BY <1>1, FS_Interval
  <2>2. \A i : Upto(i) \subseteq 1 .. Len(p)
    BY <1>1
  <2> HIDE DEF Upto
  <2>3. QED
    BY <2>1, <2>2, FS_Subset
<1>3. Upto(0) = {}
  BY <1>1
<1>4. k < Len(p) /\ k + 1 \in Loaded(p) =>
        Upto(k + 1) = Upto(k) \cup {k + 1} /\ k + 1 \notin Upto(k)
  BY <1>1
<1>5. k < Len(p) /\ k + 1 \notin Loaded(p) => Upto(k + 1) = Upto(k)
  BY <1>1
<1>6. \A i : LibID(p, i) = Cardinality(Upto(i))
  BY DEF LibID
<1> HIDE DEF Upto
<1>7. Cardinality(Upto(k)) \in Nat /\ Cardinality(Upto(0)) = 0
  BY <1>2, <1>3, FS_CardinalityType, FS_EmptySet
<1>8. k < Len(p) /\ k + 1 \in Loaded(p) => Cardinality(Upto(k + 1)) = Cardinality(Upto(k)) + 1
  BY <1>2, <1>4, FS_AddElement
<1>9. QED
  BY <1>5, <1>6, <1>7, <1>8

LEMMA RegisteredTyped ==
  ASSUME NEW p \in Seq(PairType), NEW i \in 1 .. Len(p), NEW what \in {"jobs", "makers"}
  PROVE  Registered(p, i, what) \in Seq(Nat)
<1>1. LibID(p, i) \in Nat
  BY LibIDIs
<1>2. CASE i \in Loaded(p)
  <2>1. Image[p[i].value][what] \in Nat
    BY <1>2, LibrariesAssumption DEF Loaded, Loadable
  <2>2. QED
    BY <1>1, <2>1 DEF Registered
<1>3. CASE i \notin Loaded(p)
  BY <1>3 DEF Registered
<1>4. QED
  BY <1>2, <1>3

LEMMA PartIs ==
  ASSUME NEW p \in Seq(PairType), NEW k \in 0 .. Len(p) - 1, NEW what \in {"jobs", "makers"}
  PROVE  /\ FlattenSeq(PartTo(p, what, k + 1))
              = FlattenSeq(PartTo(p, what, k)) \o Registered(p, k + 1, what)
         /\ FlattenSeq(PartTo(p, what, k)) \in Seq(Nat)
<1> DEFINE s == PartTo(p, what, k)
           x == Registered(p, k + 1, what)
<1>1. k \in Nat /\ Len(p) \in Nat /\ k + 1 \in 1 .. Len(p)
  OBVIOUS
<1>2. x \in Seq(Nat)
  BY <1>1, RegisteredTyped
<1>3. \A i \in 1 .. k : Registered(p, i, what) \in Seq(Nat)
  <2>1. \A i \in 1 .. k : i \in 1 .. Len(p)
    BY <1>1
  <2>2. QED
    BY <2>1, RegisteredTyped
<1>4. s \in Seq(Seq(Nat)) /\ Len(s) = k
  BY <1>1, <1>3 DEF PartTo
<1>5. PartTo(p, what, k + 1) = Append(s, x)
  <2>1. /\ PartTo(p, what, k + 1) = [i \in 1 .. k + 1 |-> Registered(p, i, what)]
        /\ \A i \in 1 .. k : s[i] = Registered(p, i, what)
    BY DEF PartTo
  <2> HIDE DEF s, x
  <2>2. Append(s, x) = [i \in 1 .. k + 1 |-> IF i = k + 1 THEN x ELSE s[i]]
    <3>1. PICK t : t = Append(s, x)
      OBVIOUS
    <3>2. /\ t \in Seq(Seq(Nat)) /\ Len(t) = k + 1 /\ t[k + 1] = x
          /\ \A i \in 1 .. k : t[i] = s[i]
      BY <1>1, <1>2, <1>4, <3>1, AppendProperties
    <3>3. t = [i \in 1 .. k + 1 |-> t[i]]
      BY <1>1, <3>2
    <3>4. \A i \in 1 .. k + 1 : i = k + 1 \/ i \in 1 .. k
      BY <1>1
    <3>5. \A i \in 1 .. k + 1 : t[i] = IF i = k + 1 THEN x ELSE s[i]
      BY <3>2, <3>4
    <3>6. QED
      BY <3>1, <3>3, <3>5
  <2>3. \A i \in 1 .. k + 1 : i = k + 1 \/ i \in 1 .. k
    BY <1>1
  <2>4. \A i \in 1 .. k + 1 : Registered(p, i, what) = IF i = k + 1 THEN x ELSE s[i]
    BY <2>1, <2>3 DEF x
  <2>5. QED
    BY <2>1, <2>2, <2>4
<1>6. QED
  <2> HIDE DEF s, x
  <2>1. FlattenSeq(Append(s, x)) = FlattenSeq(s) \o x /\ FlattenSeq(s) \in Seq(Nat)
    BY <1>2, <1>4, FlattenAppend, FlattenTyped
  <2>2. QED
    BY <1>5, <2>1 DEF s, x

(* One round of the loop of LoadSharedObjects.                             *)
LEMMA LoadsNext ==
  ASSUME NEW p, NEW k, LoadedUpTo(p, k), LoadNext
  PROVE  LoadedUpTo(p, k + 1)'
<1>1. /\ p \in Seq(PairType) /\ k \in 0 .. Len(p) /\ Len(p) \in Nat
      /\ libs \in Seq(PairType) /\ Len(libs) = Len(p) - k /\ libs # <<>>
      /\ \A j \in 1 .. Len(libs) : libs[j] = p[k + j]
  BY DEF LoadedUpTo, LoadNext
<1>2. PICK i : i = k + 1
  OBVIOUS
<1>3. i \in 1 .. Len(p) /\ k \in 0 .. Len(p) - 1 /\ Head(libs) = p[i]
  <2>1. Len(libs) > 0 /\ Head(libs) = libs[1]
    BY <1>1
  <2>2. libs[1] = p[k + 1]
    BY <1>1, <2>1
  <2>3. QED
    BY <1>1, <1>2, <2>1, <2>2
<1>4. /\ libs' \in Seq(PairType) /\ Len(libs') = Len(p) - i
      /\ \A j \in 1 .. Len(libs') : libs'[j] = p[i + j]
  <2>1. libs' = Tail(libs)
    BY DEF LoadNext
  <2>2. /\ libs' \in Seq(PairType) /\ Len(libs') = Len(libs) - 1
        /\ \A j \in 1 .. Len(libs) - 1 : libs'[j] = libs[j + 1]
    BY <1>1, <2>1
  <2>3. ASSUME NEW j \in 1 .. Len(libs')
        PROVE  libs'[j] = p[i + j]
    <3>1. j + 1 \in 1 .. Len(libs) /\ k + (j + 1) = i + j
      BY <1>1, <1>2, <2>2
    <3>2. libs[j + 1] = p[k + (j + 1)]
      BY <1>1, <3>1
    <3>3. QED
      BY <2>2, <3>1, <3>2
  <2>4. QED
    BY <1>1, <1>2, <2>2, <2>3
<1> DEFINE name == p[i].key
           path == p[i].value
<1>5. \A n : n \in DOMAIN Map <=> \E j \in 1 .. k : p[j].key = n /\ Loadable(p[j])
  BY DEF LoadedUpTo
<1>6. \A n : (\E j \in 1 .. i : p[j].key = n /\ Loadable(p[j]))
               <=> n \in DOMAIN Map \/ (n = name /\ Loadable(p[i]))
  <2>1. \A j \in 1 .. i : j = i \/ j \in 1 .. k
    BY <1>1, <1>2
  <2>2. \A j \in 1 .. k : j \in 1 .. i
    BY <1>1, <1>2
  <2>3. i \in 1 .. i
    BY <1>3
  <2>4. QED
    BY <1>5, <2>1, <2>2, <2>3
<1>7. i \in Loaded(p) <=> Loadable(p[i]) /\ name \notin DOMAIN Map
  <2>1. i - 1 = k /\ DOMAIN p = 1 .. Len(p)
    BY <1>1, <1>2
  <2>2. QED
    BY <1>3, <1>5, <2>1 DEF Loaded
<1>8. LibID(p, i) = (IF i \in Loaded(p) THEN LibID(p, k) + 1 ELSE LibID(p, k)) /\ LibID(p, k) \in Nat
  BY <1>1, <1>2, <1>3, LibIDIs
<1>9. /\ AI_LibID = LibID(p, k) + 1
      /\ jobs = FlattenSeq(PartTo(p, "jobs", k)) /\ makers = FlattenSeq(PartTo(p, "makers", k))
  BY DEF LoadedUpTo
<1>10. /\ FlattenSeq(PartTo(p, "jobs", i)) = jobs \o Registered(p, i, "jobs")
       /\ FlattenSeq(PartTo(p, "makers", i)) = makers \o Registered(p, i, "makers")
       /\ jobs \in Seq(Nat) /\ makers \in Seq(Nat)
  BY <1>1, <1>2, <1>3, <1>9, PartIs
<1>11. LoadAndBind(path, name)
  BY <1>3 DEF LoadNext
<1>12. /\ \A n : n \in DOMAIN Map' <=> \E j \in 1 .. i : p[j].key = n /\ Loadable(p[j])
       /\ AI_LibID' = LibID(p, i) + 1
       /\ jobs' = jobs \o Registered(p, i, "jobs")
       /\ makers' = makers \o Registered(p, i, "makers")
  <2>1. CASE LoadThrows(path, name) /\ UNCHANGED libVars
    <3>1. UNCHANGED <<Map, AI_LibID, jobs, makers>> /\ i \notin Loaded(p)
      BY <1>7, <2>1 DEF LoadThrows, libVars, Loadable
    <3>2. Registered(p, i, "jobs") = <<>> /\ Registered(p, i, "makers") = <<>>
      BY <3>1 DEF Registered
    <3>3. jobs \o <<>> = jobs /\ makers \o <<>> = makers
      BY <1>10
    <3>4. \A n : n \in DOMAIN Map' <=> \E j \in 1 .. i : p[j].key = n /\ Loadable(p[j])
      BY <1>6, <1>7, <3>1
    <3>5. QED
      BY <1>8, <1>9, <3>1, <3>2, <3>3, <3>4
  <2>2. CASE LoadLibrary(path, name) /\ Bind(path, name)
    <3>1. /\ name \notin DOMAIN Map /\ Loadable(p[i]) /\ i \in Loaded(p)
          /\ AI_LibID' = AI_LibID + 1 /\ DOMAIN Map' = DOMAIN Map \cup {name}
          /\ Map'[name].id = AI_LibID
      BY <1>7, <2>2 DEF LoadLibrary, Loadable
    <3>2. GetLibraryID(Map', name) = LibID(p, i)
      BY <1>8, <1>9, <3>1 DEF GetLibraryID
    <3>3. \A n : n \in DOMAIN Map' <=> \E j \in 1 .. i : p[j].key = n /\ Loadable(p[j])
      BY <1>6, <3>1
    <3>4. CASE {"DB_DllName", "DB_Bind"} \subseteq Image[path].symbols
      BY <1>8, <1>9, <2>2, <3>1, <3>2, <3>3, <3>4 DEF Bind, Registered
    <3>5. CASE ~({"DB_DllName", "DB_Bind"} \subseteq Image[path].symbols)
      <4>1. UNCHANGED <<jobs, makers>>
        BY <2>2, <3>5 DEF Bind
      <4>2. Registered(p, i, "jobs") = <<>> /\ Registered(p, i, "makers") = <<>>
        BY <3>5 DEF Registered
      <4>3. jobs \o <<>> = jobs /\ makers \o <<>> = makers
        BY <1>10
      <4>4. QED
        BY <1>8, <1>9, <3>1, <3>3, <4>1, <4>2, <4>3
    <3>6. QED
      BY <3>4, <3>5
  <2>3. QED
    BY <1>11, <2>1, <2>2 DEF LoadAndBind
<1>13. LoadedUpTo(p, i)'
  <2>1. /\ i \in 0 .. Len(p)
        /\ jobs' = FlattenSeq(PartTo(p, "jobs", i))
        /\ makers' = FlattenSeq(PartTo(p, "makers", i))
    BY <1>3, <1>10, <1>12, SMTT(20)
  <2>2. \A n : n \in DOMAIN Map' <=> \E j \in 1 .. i : p[j].key = n /\ Loadable(p[j])
    BY <1>12
  <2>3. AI_LibID' = LibID(p, i) + 1
    BY <1>12
  <2>4. QED
    BY <1>1, <1>4, <2>1, <2>2, <2>3, Zenon DEF LoadedUpTo
<1>14. QED
  BY <1>2, <1>13

(* The pairs of root\libs.                                                 *)
LEMMA LibPairsTyped ==
  ASSUME CodecInv
  PROVE  LibPairs \in Seq(PairType)
<1>1. SecLibs \in Words
  BY StartupAssumption DEF SecLibs, Words
<1>2. PICK n : n = GetSectionPointer(nodes, SecLibs)
  OBVIOUS
<1>3. n \in 0 .. Len(nodes) /\ IsTree(nodes)
  BY <1>1, <1>2, PointerIs DEF CodecInv
<1>4. CASE n = NoNode
  <2>1. LibPairs = <<>>
    BY <1>2, <1>4 DEF LibPairs, HasSection
  <2>2. QED
    BY <2>1
<1>5. CASE n # NoNode
  <2>1. n \in 1 .. Len(nodes)
    BY <1>3, <1>5, TreeIs DEF NoNode
  <2>2. LibPairs = nodes[n].pairs
    BY <1>2, <1>5 DEF LibPairs, HasSection
  <2>3. QED
    BY <1>3, <2>1, <2>2, TreeIs DEF Pairs, PairType
<1>6. QED
  BY <1>4, <1>5

LEMMA AllLoaded ==
  ASSUME NEW k, LoadedUpTo(LibPairs, k), libs = <<>>
  PROVE  jobs = Registrations("jobs") /\ makers = Registrations("makers")
<1>1. PICK p : p = LibPairs
  OBVIOUS
<1>2. LoadedUpTo(p, k)
  BY <1>1
<1>3. p \in Seq(PairType) /\ k = Len(p) /\ DOMAIN p = 1 .. Len(p)
  BY <1>2 DEF LoadedUpTo
<1>4. \A what : Registrations(what) = FlattenSeq(PartTo(p, what, k))
  BY <1>1, <1>3 DEF Registrations, PartTo
<1>5. QED
  BY <1>2, <1>4 DEF LoadedUpTo

LEMMA LoadsFirst ==
  ASSUME CodecInv, LoadSharedObjects,
         Map = <<>> /\ AI_LibID = 1 /\ jobs = <<>> /\ makers = <<>>
  PROVE  \E k \in Nat : LoadedUpTo(LibPairs, k)'
<1>1. PICK p : p = LibPairs
  OBVIOUS
<1>2. p \in Seq(PairType) /\ Len(p) \in Nat
  BY <1>1, LibPairsTyped
<1>3. libs' = p /\ UNCHANGED <<nodes, Map, AI_LibID, jobs, makers>>
  BY <1>1 DEF LoadSharedObjects, Goto, codecVars, libVars
<1>4. LibPairs' = p
  BY <1>1, <1>3 DEF LibPairs
<1>5. LibID(p, 0) = 0
  BY <1>2, LibIDIs
<1>6. \A what : FlattenSeq(PartTo(p, what, 0)) = <<>>
  <2>1. \A what : PartTo(p, what, 0) = <<>>
    BY DEF PartTo
  <2>2. <<>> \in Seq(Seq(Nat)) /\ Len(<<>>) = 0
    OBVIOUS
  <2>3. PICK g : IsFlat(g, <<>>, Nat)
    BY <2>2, FlatExists
  <2>4. FlattenSeq(<<>>) = g[0] /\ g[0] = <<>>
    BY <2>2, <2>3, FlattenIs DEF IsFlat
  <2>5. QED
    BY <2>1, <2>4
<1>7. LoadedUpTo(p, 0)'
  BY <1>2, <1>3, <1>5, <1>6 DEF LoadedUpTo
<1>8. QED
  BY <1>4, <1>7

LEMMA BoundInvStep ==
  ASSUME CodecInv, BoundInv, [BotNext]_botVars
  PROVE  BoundInv'
<1> USE DEF Goto
<1>1. CASE UNCHANGED <<allVars>>
  BY <1>1 DEF allVars, codecVars, libVars, bootVars, BoundInv, LoadedUpTo, LibPairs,
              BoundAsConfigured, Registrations, Started
<1>2. CASE Parse
  <2>1. pc = "parse" /\ pc' = "parse" /\ UNCHANGED <<libVars, calls>>
    BY <1>2 DEF Parse, bootVars
  <2>2. QED
    BY <2>1 DEF BoundInv, libVars, BoundAsConfigured, Started
<1>3. CASE Parsed \/ CheckBotName \/ CheckLog
  <2>1. /\ pc \in {"parse", "name", "log"}
        /\ pc' \in {"crashed", "exited", "name", "load", "log"}
        /\ UNCHANGED <<libVars, calls>>
    BY <1>3 DEF Parsed, CheckBotName, CheckLog, Lookup
  <2>2. QED
    BY <2>1 DEF BoundInv, libVars, BoundAsConfigured, Started
<1>4. CASE LoadSharedObjects
  <2>1. pc = "load" /\ pc' = "libs" /\ UNCHANGED calls
    BY <1>4 DEF LoadSharedObjects
  <2>2. \E k \in Nat : LoadedUpTo(LibPairs, k)'
    BY <1>4, <2>1, LoadsFirst DEF BoundInv
  <2>3. QED
    BY <2>1, <2>2 DEF BoundInv, BoundAsConfigured, Started
<1>5. CASE LoadNext
  <2>1. pc = "libs" /\ pc' = "libs" /\ UNCHANGED <<calls, nodes>>
    BY <1>5 DEF LoadNext, codecVars
  <2>2. PICK k \in Nat : LoadedUpTo(LibPairs, k)
    BY <2>1 DEF BoundInv
  <2>3. PICK p : p = LibPairs
    OBVIOUS
  <2>4. LibPairs' = p
    BY <2>1, <2>3 DEF LibPairs
  <2>5. LoadedUpTo(p, k + 1)'
    BY <1>5, <2>2, <2>3, LoadsNext
  <2>6. \E m \in Nat : LoadedUpTo(LibPairs, m)'
    BY <2>2, <2>4, <2>5
  <2>7. QED
    BY <2>1, <2>6 DEF BoundInv, BoundAsConfigured, Started
<1>6. CASE InitializeBotEngine
  <2>1. /\ pc = "libs" /\ pc' \in {"crashed", "port", "terminated"} /\ libs = <<>>
        /\ UNCHANGED <<calls, nodes, libVars>>
    BY <1>6 DEF InitializeBotEngine, Lookup, codecVars
  <2>2. jobs = Registrations("jobs") /\ makers = Registrations("makers")
    BY <2>1, AllLoaded DEF BoundInv
  <2>3. BoundAsConfigured'
    BY <2>1, <2>2 DEF BoundAsConfigured, Registrations, LibPairs, libVars
  <2>4. QED
    BY <2>1, <2>3 DEF BoundInv
<1>7. CASE BindPort
  <2>1. /\ pc = "port" /\ pc' \in {"crashed", "running", "terminated"}
        /\ UNCHANGED <<calls, nodes, libVars>>
    BY <1>7 DEF BindPort, Lookup, codecVars
  <2>2. BoundAsConfigured'
    BY <2>1 DEF BoundInv, BoundAsConfigured, Started, Registrations, LibPairs, libVars
  <2>3. QED
    BY <2>1, <2>2 DEF BoundInv
<1>8. CASE Reconfigure
  <2>1. pc \in {"port", "running"} /\ pc' = pc /\ calls' = calls + 1
    BY <1>8 DEF Reconfigure
  <2>2. QED
    BY <2>1 DEF BoundInv, BoundAsConfigured
<1>9. QED
  BY <1>1, <1>2, <1>3, <1>4, <1>5, <1>6, <1>7, <1>8
     DEF BotNext, StartStep, Boot, Serve, LibraryCall, botVars

LEMMA CodecInvOfBot ==
  ASSUME CodecInv, [BotNext]_botVars
  PROVE  CodecInv'
<1>1. ParseImpl \/ UNCHANGED codecVars
  BY DEF BotNext, StartStep, Parse, Boot, Parsed, CheckBotName, CheckLog, LoadSharedObjects,
         LoadNext, InitializeBotEngine, BindPort, Lookup, Goto, Serve, LibraryCall, Reconfigure,
         allVars, botVars
<1>2. QED
  BY <1>1, CodecInvStep DEF CodecNext

(* A daemon that runs has the jobs and the reply makers of the libraries   *)
(* in its configuration, in the order of the text: those of the first pair *)
(* of each name that dlopen can open, if it has both symbols, each under   *)
(* an id of its own.  For every text and every set of libraries.           *)
THEOREM LibrariesAreBound == BotSpec => []BoundAsConfigured
<1>1. BotInit => CodecInv /\ BoundInv
  <2>1. BotInit => CodecInv
    BY CodecInvInit DEF BotInit, Init
  <2>2. BotInit => BoundInv
    BY DEF BotInit, Init, LibInit, BoundInv, BoundAsConfigured, Started
  <2>3. QED
    BY <2>1, <2>2
<1>2. CodecInv /\ [BotNext]_botVars => CodecInv'
  BY CodecInvOfBot
<1>3. CodecInv /\ BoundInv /\ [BotNext]_botVars => BoundInv'
  BY BoundInvStep
<1>4. BoundInv => BoundAsConfigured
  BY DEF BoundInv
<1>5. QED
  BY <1>1, <1>2, <1>3, <1>4, PTL DEF BotSpec
=============================================================================
