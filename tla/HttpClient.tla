----------------------------- MODULE HttpClient -----------------------------
(***************************************************************************)
(* The HTTP requests of the SDK, made by detached jobs and reply makers on *)
(* several threads: CurlHttpRequest, which for a request without a proxy   *)
(* adds the host to the process-wide variable no_proxy and takes it away   *)
(* again, and SendMessage, which turns the response into a return value.   *)
(* ResponseCode is not initialised, and not written when a request fails.  *)
(***************************************************************************)
EXTENDS Integers, Sequences, SequencesExt

CONSTANTS
  Caller,      \* threads that make requests
  Item,        \* what may be between the commas of no_proxy
  Hosts,       \* hosts of the URLs
  NoProxies,   \* what no_proxy may be when the process starts
  Garbage,     \* what an uninitialised ResponseCode may hold
  Answers,     \* what the server may answer
  MaxCalls     \* bound: requests

(* An answer: the response code, which HTTP never lets be 0, and what      *)
(* rapidjson finds in the body.                                            *)
Answer == [code : Int \ {0},
           body : {"no JSON", "object", "other JSON"},
           errcode : {"0", "42", "none", "no int"},
           errmsg : {"none", "text", "no text"}]
NoAnswer == [code |-> 0, body |-> "no JSON", errcode |-> "none", errmsg |-> "none"]

(* no_proxy: whether it is set, and its items. *)
Unset == [set |-> FALSE, items |-> <<>>]

ASSUME ClientAssumption ==
  /\ NoProxies \subseteq [set : BOOLEAN, items : Seq(Item)]
  /\ \A e \in NoProxies : ~e.set => e = Unset
  /\ Hosts \subseteq Item /\ Hosts # {} /\ "" \in Item
  /\ Garbage \subseteq Int
  /\ Answers \subseteq Answer
  /\ MaxCalls \in Nat

VARIABLES
  environ,     \* no_proxy of the process
  origin,      \* history: no_proxy when the process started
  cpc,         \* where each caller is
  proxy,       \* the argument of the call
  host,        \* the host of the URL
  env_no_proxy,\* the copy of no_proxy a caller took
  code,        \* HttpResponse::ResponseCode
  answer,      \* the response to the request; NoAnswer if it failed
  result,      \* what SendMessage returned
  requests,    \* calls so far
  overlapped   \* history: two calls without a proxy overlapped

clientVars == <<environ, origin, cpc, proxy, host, env_no_proxy, code, answer, result,
                requests, overlapped>>

ClientInit ==
  /\ environ \in NoProxies
  /\ origin = environ
  /\ cpc = [c \in Caller |-> "idle"]
  /\ proxy = [c \in Caller |-> TRUE]
  /\ host = [c \in Caller |-> CHOOSE h \in Hosts : TRUE]
  /\ env_no_proxy = [c \in Caller |-> Unset]
  /\ code = [c \in Caller |-> 0]
  /\ answer = [c \in Caller |-> NoAnswer]
  /\ result = [c \in Caller |-> 0]
  /\ requests = 0
  /\ overlapped = FALSE

(* Between the getenv and the last setenv of a call without a proxy. *)
Exempting(c) == ~proxy[c] /\ cpc[c] \in {"set", "perform", "restore"}

At(c, from, to) == cpc[c] = from /\ cpc' = [cpc EXCEPT ![c] = to]

(* HttpGetRequest, HttpPostRequest; curl_easy_init may fail, and then the  *)
(* function returns with nothing written.                                  *)
Request(c, h, p) ==
  /\ requests < MaxCalls
  /\ requests' = requests + 1
  /\ \/ At(c, "idle", IF p THEN "perform" ELSE "get")
     \/ At(c, "idle", "answer")
  /\ proxy' = [proxy EXCEPT ![c] = p]
  /\ host' = [host EXCEPT ![c] = h]
  /\ \E g \in Garbage : code' = [code EXCEPT ![c] = g]
  /\ answer' = [answer EXCEPT ![c] = NoAnswer]
  /\ UNCHANGED <<environ, origin, env_no_proxy, result, overlapped>>

(* getenv("no_proxy"), copied. *)
Getenv(c) ==
  /\ At(c, "get", "set")
  /\ env_no_proxy' = [env_no_proxy EXCEPT ![c] = environ]
  /\ overlapped' = (overlapped \/ \E d \in Caller : Exempting(d))
  /\ UNCHANGED <<environ, origin, proxy, host, code, answer, result, requests>>

(* Mutant: the host replaces what the variable holds. *)
SetenvOnly(c) ==
  /\ At(c, "set", "perform")
  /\ environ' = [set |-> TRUE, items |-> <<host[c]>>]
  /\ UNCHANGED <<origin, proxy, host, env_no_proxy, code, answer, result, requests, overlapped>>

(* The copy with the host appended, or the host alone if the variable was  *)
(* not set; an empty variable becomes an empty item and the host.          *)
Setenv(c) ==
  /\ At(c, "set", "perform")
  /\ LET e == env_no_proxy[c] IN
     environ' = [set |-> TRUE,
                 items |-> Append(IF e.set /\ e.items = <<>> THEN <<"">> ELSE e.items, host[c])]
  /\ UNCHANGED <<origin, proxy, host, env_no_proxy, code, answer, result, requests, overlapped>>

(* curl_easy_perform, and curl_easy_getinfo if it succeeds. *)
Perform(c) ==
  /\ At(c, "perform", IF proxy[c] THEN "answer" ELSE "restore")
  /\ \/ UNCHANGED <<code, answer>>
     \/ \E a \in Answers : /\ answer' = [answer EXCEPT ![c] = a]
                           /\ code' = [code EXCEPT ![c] = a.code]
  /\ UNCHANGED <<environ, origin, proxy, host, env_no_proxy, result, requests, overlapped>>

(* Mutant: the variable is restored only after a success. *)
RestoreOnSuccess(c) ==
  /\ At(c, "restore", "answer")
  /\ environ' = IF answer[c] = NoAnswer THEN environ
                ELSE [env_no_proxy[c] EXCEPT !.set = env_no_proxy[c].items # <<>>]
  /\ UNCHANGED <<origin, proxy, host, env_no_proxy, code, answer, result, requests, overlapped>>

(* RETURN: the copy is put back; an empty one unsets the variable, also    *)
(* if it was set and empty when it was copied.                             *)
Restore(c) ==
  /\ At(c, "restore", "answer")
  /\ environ' = [env_no_proxy[c] EXCEPT !.set = env_no_proxy[c].items # <<>>]
  /\ UNCHANGED <<origin, proxy, host, env_no_proxy, code, answer, result, requests, overlapped>>

(* What SendMessage returns for a response it cannot read. *)
NotJson == -8964
NoErrcode == -8965
NoErrmsg == -8966

(* Mutant: the response code is not looked at. *)
ReturnValueOfBody(a, responseCode) ==
  IF a.body = "no JSON" THEN NotJson
  ELSE IF a.errcode = "none" THEN NoErrcode
  ELSE IF a.errcode = "0" THEN 0
  ELSE IF a.errmsg = "none" THEN NoErrmsg ELSE 42

(* The return value of SendMessage. *)
ReturnValue(a, responseCode) ==
  IF responseCode # 200 THEN -responseCode
  ELSE IF a.body = "no JSON" THEN NotJson
  ELSE IF a.errcode = "none" THEN NoErrcode
  ELSE IF a.errcode = "0" THEN 0
  ELSE IF a.errmsg = "none" THEN NoErrmsg ELSE 42

(* rapidjson asserts that a value has the type it is read as. *)
Asserts(a, responseCode) ==
  /\ responseCode = 200
  /\ a.body # "no JSON"
  /\ \/ a.body = "other JSON"
     \/ a.errcode = "no int"
     \/ a.errcode = "42" /\ a.errmsg = "no text"

(* A call with a proxy is a SendMessage: it uses HttpPostRequest's default.*)
Return(c) ==
  /\ \/ /\ proxy[c] => ~Asserts(answer[c], code[c])
        /\ At(c, "answer", "idle")
        /\ result' = IF proxy[c] THEN [result EXCEPT ![c] = ReturnValue(answer[c], code[c])]
                     ELSE result
     \/ /\ proxy[c] /\ Asserts(answer[c], code[c])
        /\ At(c, "answer", "aborted")
        /\ UNCHANGED result
  /\ UNCHANGED <<environ, origin, proxy, host, env_no_proxy, code, answer, requests, overlapped>>

ClientNext ==
  \E c \in Caller :
    \/ \E h \in Hosts, p \in BOOLEAN : Request(c, h, p)
    \/ Getenv(c) \/ Setenv(c) \/ Perform(c) \/ Restore(c) \/ Return(c)

ClientSpec == ClientInit /\ [][ClientNext]_clientVars

-----------------------------------------------------------------------------
(* Properties.                                                             *)

(* The types of the variables of the callers and of the process. *)
ClientTypeOK ==
  /\ environ \in [set : BOOLEAN, items : Seq(Item)]
  /\ cpc \in [Caller -> {"idle", "get", "set", "perform", "restore", "answer", "aborted"}]
  /\ proxy \in [Caller -> BOOLEAN]
  /\ host \in [Caller -> Hosts]
  /\ env_no_proxy \in [Caller -> [set : BOOLEAN, items : Seq(Item)]]
  /\ code \in [Caller -> Int]
  /\ answer \in [Caller -> Answers \cup {NoAnswer}]
  /\ result \in [Caller -> Int]

(* A variable that was set and empty may have been unset: the copy of an   *)
(* empty variable is that of none.                                         *)
PutBack(e) == e = origin \/ (origin.items = <<>> /\ e = Unset)

(* CurlHttpRequest borrows no_proxy: unless two calls without a proxy      *)
(* overlapped, the variable is as it was, set or not and with the same     *)
(* items, whenever no such call is under way (but for an empty variable,   *)
(* see PutBack), and a call that is performed finds its own host in it.    *)
NoProxyIsBorrowed ==
  ~overlapped =>
    /\ (\A c \in Caller : ~Exempting(c)) => PutBack(environ)
    /\ \A c \in Caller : Exempting(c) /\ cpc[c] = "perform" =>
         host[c] \in Range(environ.items)

(* However the calls overlap, the items no_proxy had at the start are      *)
(* never lost, not even while another call restores what it had copied.    *)
UsersItemsSurvive == IsPrefix(origin.items, environ.items)

(* SendMessage returns 0 exactly for a message the webhook has accepted,   *)
(* provided that the response code was written: after a request that       *)
(* failed it returns what the uninitialised code happens to be.            *)
ZeroMeansAccepted ==
  \A c \in Caller :
    cpc[c] = "idle" /\ proxy[c] /\ answer[c] # NoAnswer =>
      (result[c] = 0 <=>
         answer[c].code = 200 /\ answer[c].body = "object" /\ answer[c].errcode = "0")
=============================================================================
