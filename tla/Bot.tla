-------------------------------- MODULE Bot --------------------------------
(***************************************************************************)
(* The daemon from the text of its configuration to its responses: Startup *)
(* decides whether there is an HTTP server, with which token, key and      *)
(* reply makers, and then Callback handles requests, while the code of the *)
(* libraries unloads and reloads libraries.                                *)
(***************************************************************************)
EXTENDS Startup, Callback

botVars == <<allVars, callbackVars>>

(* SetupCryptor: an item that is missing is empty; no receiver id. *)
Token == GetKV(nodes, SecRoot, <<"token">>)
EncodingKey == GetKV(nodes, SecRoot, <<"encoding_aes_key">>)

(* The libraries whose code dlclose may have taken away. *)
Gone == {Map[n].id : n \in {m \in DOMAIN Map : handles[Map[m].path] = 0}}

BotInit == Init /\ CallbackInit

StartStep == (Parse \/ Boot) /\ UNCHANGED callbackVars

Serve ==
  /\ pc = "running"
  /\ hpc # "crashed"
  /\ CallbackNext(makers, Gone, Token, EncodingKey)
  /\ UNCHANGED allVars

LibraryCall == hpc # "crashed" /\ Reconfigure /\ UNCHANGED callbackVars

BotNext == StartStep \/ Serve \/ LibraryCall

BotSpec == BotInit /\ [][BotNext]_botVars

-----------------------------------------------------------------------------
(* Properties.                                                             *)

(* EncryptMsg and DecryptMsg: what a reply maker returned, if the response *)
(* carries it, can be verified and decrypted with the token and the key of *)
(* the configuration, and is that text; without both of them there is no   *)
(* response that carries anything.                                         *)
RepliesReadBack ==
  LET xml == response.xml
      query == [msg_signature |-> <<xml.MsgSignature>>, timestamp |-> <<xml.TimeStamp>>,
                nonce |-> <<xml.Nonce>>]
  IN  "xml" \in DOMAIN response =>
        DecryptMsg(query, <<xml.Encrypt>>, Token, EncodingKey) = {reply}

Required(type) ==
  {"WebhookUrl", "ChatId", "MsgId", "ChatType", "MsgType", "From/UserId", "From/Name",
   "From/Alias"}
  \cup (IF type = "text" THEN {"Text/Content"}
        ELSE IF type = "event" THEN {"AppVersion", "Event/EventType"}
        ELSE {"Attachment/CallbackId", "Attachment/Actions/Name", "Attachment/Actions/Value"})

Whole(doc) ==
  /\ "MsgType" \in DOMAIN doc
  /\ \A f \in Required(doc["MsgType"]) : f \in DOMAIN doc /\ doc[f] # ""
  /\ doc["ChatType"] \in {"single", "group"}
  /\ doc["MsgType"] \in MsgTypes

Signed ==
  /\ request # <<>>
  /\ request.URI = "/callback"
  /\ LET message == IF request.Method = "GET" THEN request.query.echostr ELSE request.Encrypt
         query == request.query
     IN  /\ message # <<>> /\ query.msg_signature # <<>>
         /\ ComputeSignature(Token, First(query.timestamp), First(query.nonce), message[1])
              = <<query.msg_signature[1]>>

(* A reply maker is asked, and echostr or its answer sent back, only for   *)
(* the request at hand and only if that carries the signature made with    *)
(* the token of the configuration, whatever the request before it was.     *)
AskedOnlyIfSigned ==
  /\ hpc = "asking" \/ reply # <<>> => Signed
  /\ {"echo", "xml"} \cap DOMAIN response # {} => Signed

(* A reply maker sees only messages that have every field of their type.   *)
AskedOnlyIfWhole == hpc = "asking" \/ reply # <<>> => Whole(document)

(* The process is killed in the handler only by a signed message with an   *)
(* element that has no text or no From, or by a reply maker that an unload *)
(* of its library has left behind.                                         *)
CrashesAreExplained ==
  hpc = "crashed" =>
    \/ \E m \in DecryptMsg(request.query, request.Encrypt, Token, EncodingKey) :
         /\ m # Failed
         /\ \/ "From" \notin DOMAIN Xml[m[1]]
            \/ \E f \in DOMAIN Xml[m[1]] : Xml[m[1]][f] = ""
    \/ asked \in DOMAIN makers /\ \E n \in DOMAIN Map : Map[n].id = makers[asked]
          /\ \E m \in unloaded : Map[m].path = Map[n].path
=============================================================================
