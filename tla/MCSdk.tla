------------------------------- MODULE MCSdk -------------------------------
(***************************************************************************)
(* The SDK for TLC.                                                        *)
(***************************************************************************)
EXTENDS Sdk

CONSTANTS c1, c2, m1, m2

MCParts == {"CronConfig", "TfcConfigCodec", "BotEngine", "WeworkMessage"}

(* CronConfig: the ends of every range and EVERY; the times are the ends   *)
(* of the ranges of struct tm, one between, and all the days of the week.  *)
EndsAndEvery ==
  [f \in Fields |->
     CASE f = "Minute" -> {0, 59, EVERY}
       [] f = "Hour" -> {23, EVERY}
       [] f = "Day" -> {1, 31, EVERY}
       [] f = "Month" -> {1, 12, EVERY}
       [] f = "DayOfWeek" -> {1, 6, 7, EVERY}]

EndTimes == [tm_min : {0, 59}, tm_hour : {0, 23}, tm_mday : {1, 15, 31},
             tm_mon : {0, 11}, tm_wday : 0 .. 6]

(* TfcConfigCodec: two texts that are edited, one with comments at every   *)
(* place, one with a key twice and sections left open; and every text of   *)
(* up to four of nine lines.                                               *)
Lines ==
  {<<>>, <<"#">>, <<"<", "a", ">">>, <<"<", "b", ">">>, <<"<", "/", "a", ">">>,
   <<"<", "/", ">">>, <<"a", "=", "x">>, <<"b", "=", "=">>, <<"a">>}

MCSymbols == STRING

MCEdited ==
  {<< <<"<", "a", ">">>, <<"a", "=", "x">>, <<"#">>, <<"b", "=">>, <<"<", "b", ">">>,
      <<"#", "b">>, <<"a", "=", "y">>, <<"<", "/", "b", ">">>, <<"#", "c">>,
      <<"<", "/", "a", ">">> >>,
   << <<"<", "a", ">">>, <<"a", "=", "x">>, <<"a", "=", "y">>, <<"<", "/", "a", ">">>,
      <<"<", "b", ">">>, <<"<", "a", ">">> >>}

MCFiles == MCEdited \cup UNION {[1 .. n -> Lines] : n \in 0 .. 4}
MCPaths == {<<>>, <<"a">>, <<"a", "\\">>, <<"a", "\\", "b">>, <<"b">>}

(* Keys, raw lines and tags: the second one makes the line of a pair or a  *)
(* raw line a comment, the last one has a = as a key, ends a section as a  *)
(* tag, and cannot be named in a path.                                     *)
MCKeys == {<<"a">>, <<"#">>, <<"/", "\\", "=">>}
MCValues == {<<"z">>}

(* BotEngine: two threads, two hosts. *)
MCCallers == {c1, c2}
MCHosts == {"h1", "h2"}
MCItems == MCHosts \cup {"", "u"}
MCNoProxies == {Unset, [set |-> TRUE, items |-> <<>>], [set |-> TRUE, items |-> <<"u">>]}
MCGarbage == {0, 200}
MCAnswers ==
  {[code |-> 200, body |-> "object", errcode |-> "0", errmsg |-> "none"],
   [code |-> 404, body |-> "object", errcode |-> "0", errmsg |-> "none"],
   [code |-> 200, body |-> "other JSON", errcode |-> "none", errmsg |-> "none"],
   [code |-> 200, body |-> "object", errcode |-> "42", errmsg |-> "text"]}

(* WeworkMessage: two objects; articles with and without each optional text.*)
MCHandles == {m1, m2}
MCKinds == {"text", "news", "markdown", "image"}
MCTexts == {<<>>, <<"t">>, <<"t", "t">>}
MCArticles ==
  {[title |-> <<"t">>, description |-> d, url |-> <<"t">>, picurl |-> p] :
     d, p \in {<<>>, <<"t">>}}
=============================================================================
