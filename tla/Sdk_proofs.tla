----------------------------- MODULE Sdk_proofs -----------------------------
(***************************************************************************)
(* What TLC checks of the classes of the SDK for a few calls, proved for   *)
(* any number of them: CronConfig, the HTTP requests and SendMessage, the  *)
(* Wework messages, and the SDK as a whole.  (TfcConfigCodec has a module  *)
(* of its own.)                                                            *)
(***************************************************************************)
EXTENDS Sdk, ConfigCodec_proofs


-----------------------------------------------------------------------------
(* GetJson.  A reader that is inside of an object or an array comes back   *)
(* to where it was after every part of a message.                          *)

LEMMA CallRead ==
  ASSUME NEW s, NEW c, s # <<>>, Head(s) # "error"
  PROVE  /\ c.call = "key" /\ Last(s) = "name" =>
              ReadCall(s, c) = Append(Front(s), "value")
         /\ c.call \in {"key", "string"} /\ Last(s) = "value" =>
              ReadCall(s, c) = Append(Front(s), "name")
         /\ c.call \in {"key", "string"} /\ Last(s) = "[" =>
              ReadCall(s, c) = s
         /\ c.call = "{" /\ Last(s) = "value" =>
              ReadCall(s, c) = Append(Append(Front(s), "name"), "name")
         /\ c.call = "{" /\ Last(s) = "[" =>
              ReadCall(s, c) = Append(s, "name")
         /\ c.call = "[" /\ Last(s) = "value" =>
              ReadCall(s, c) = Append(Append(Front(s), "name"), "[")
         /\ c.call = "[" /\ Last(s) = "[" =>
              ReadCall(s, c) = Append(s, "[")
         /\ c.call = "}" /\ Last(s) = "name" =>
              ReadCall(s, c) = Front(s)
         /\ c.call = "]" /\ Last(s) = "[" =>
              ReadCall(s, c) = Front(s)
<1>1. c.call = "key" /\ Last(s) = "name" =>
        ReadCall(s, c) = Append(Front(s), "value")
  BY Zenon DEF ReadCall
<1>2. c.call \in {"key", "string"} /\ Last(s) = "value" =>
        ReadCall(s, c) = Append(Front(s), "name")
  BY Zenon DEF ReadCall
<1>3. c.call \in {"key", "string"} /\ Last(s) = "[" =>
        ReadCall(s, c) = s
  BY Zenon DEF ReadCall
<1>4. c.call = "{" /\ Last(s) = "value" =>
        ReadCall(s, c) = Append(Append(Front(s), "name"), "name")
  BY Zenon DEF ReadCall
<1>5. c.call = "{" /\ Last(s) = "[" =>
        ReadCall(s, c) = Append(s, "name")
  BY Zenon DEF ReadCall
<1>6. c.call = "[" /\ Last(s) = "value" =>
        ReadCall(s, c) = Append(Append(Front(s), "name"), "[")
  BY Zenon DEF ReadCall
<1>7. c.call = "[" /\ Last(s) = "[" =>
        ReadCall(s, c) = Append(s, "[")
  BY Zenon DEF ReadCall
<1>8. c.call = "}" /\ Last(s) = "name" =>
        ReadCall(s, c) = Front(s)
  BY Zenon DEF ReadCall
<1>9. c.call = "]" /\ Last(s) = "[" =>
        ReadCall(s, c) = Front(s)
  BY Zenon DEF ReadCall
<1>10. QED
  BY <1>1, <1>2, <1>3, <1>4, <1>5, <1>6, <1>7, <1>8, <1>9

LEMMA ObjectBegins == ReadCall(<<>>, StartObject) = Append(<<>>, "name")
<1>1. StartObject.call = "{"
  BY DEF StartObject, Begin
<1>2. QED
  BY <1>1, Zenon DEF ReadCall

(* Where the reader is: in the objects and arrays around, b, and then in   *)
(* an object, at a name or at a value, or in an array.                     *)
Stacks == Seq({"name", "value", "["})

AtName(b) == Append(b, "name")
AtValue(b) == Append(b, "value")
InArray(b) == Append(b, "[")

LEMMA StackIs ==
  ASSUME NEW b \in Stacks, NEW x \in {"name", "value", "["}
  PROVE  /\ Append(b, x) \in Stacks /\ Append(b, x) # <<>>
         /\ Last(Append(b, x)) = x /\ Front(Append(b, x)) = b
         /\ Head(Append(b, x)) # "error"
<1> DEFINE s == Append(b, x)
<1>1. s \in Stacks /\ Len(s) = Len(b) + 1 /\ s[Len(b) + 1] = x
      /\ Len(b) \in Nat /\ \A i \in 1 .. Len(b) : s[i] = b[i]
  BY DEF Stacks
<1>2. Last(s) = x /\ s # <<>>
  BY <1>1 DEF Last
<1>3. s[1] \in {"name", "value", "["}
  BY <1>1 DEF Stacks
<1>4. Head(s) = s[1]
  BY <1>1 DEF Stacks
<1>5. Front(s) = b
  <2>1. /\ Front(s) \in Stacks /\ Len(Front(s)) = Len(b)
        /\ \A i \in 1 .. Len(b) : Front(s)[i] = s[i]
    BY <1>1 DEF Front, Stacks
  <2>2. \A i \in 1 .. Len(b) : Front(s)[i] = b[i]
    BY <1>1, <2>1
  <2>3. QED
    BY <2>1, <2>2, SeqEqual DEF Stacks
<1>6. QED
  BY <1>1, <1>2, <1>3, <1>4, <1>5

LEMMA Calling ==
  ASSUME NEW k, NEW t
  PROVE  /\ Name(k).call = "key" /\ Str(t).call = "string"
         /\ StartObject.call = "{" /\ EndObject.call = "}"
         /\ StartArray.call = "[" /\ EndArray.call = "]"
  BY DEF Name, Str, StartObject, EndObject, StartArray, EndArray, Begin

LEMMA InObject ==
  ASSUME NEW b \in Stacks, NEW k, NEW t
  PROVE  /\ AtName(b) \in Stacks /\ AtValue(b) \in Stacks /\ InArray(b) \in Stacks
         /\ ReadCall(AtName(b), Name(k)) = AtValue(b)
         /\ ReadCall(AtName(b), EndObject) = b
         /\ ReadCall(AtValue(b), Str(t)) = AtName(b)
         /\ ReadCall(AtValue(b), StartObject) = AtName(AtName(b))
         /\ ReadCall(AtValue(b), StartArray) = InArray(AtName(b))
<1>1. /\ AtName(b) \in Stacks /\ AtName(b) # <<>> /\ Last(AtName(b)) = "name"
      /\ Front(AtName(b)) = b /\ Head(AtName(b)) # "error"
  BY StackIs DEF AtName
<1>2. /\ AtValue(b) \in Stacks /\ AtValue(b) # <<>> /\ Last(AtValue(b)) = "value"
      /\ Front(AtValue(b)) = b /\ Head(AtValue(b)) # "error"
  BY StackIs DEF AtValue
<1>3. InArray(b) \in Stacks
  BY StackIs DEF InArray
<1>4. ReadCall(AtName(b), Name(k)) = AtValue(b)
  BY <1>1, Calling, CallRead DEF AtValue
<1>5. ReadCall(AtName(b), EndObject) = b
  BY <1>1, Calling, CallRead
<1>6. ReadCall(AtValue(b), Str(t)) = AtName(b)
  BY <1>2, Calling, CallRead DEF AtName
<1>7. ReadCall(AtValue(b), StartObject) = AtName(AtName(b))
  BY <1>2, Calling, CallRead DEF AtName
<1>8. ReadCall(AtValue(b), StartArray) = InArray(AtName(b))
  BY <1>2, Calling, CallRead DEF AtName, InArray
<1>9. QED
  BY <1>1, <1>2, <1>3, <1>4, <1>5, <1>6, <1>7, <1>8

LEMMA InAnArray ==
  ASSUME NEW b \in Stacks, NEW k, NEW t
  PROVE  /\ ReadCall(InArray(b), Name(k)) = InArray(b)
         /\ ReadCall(InArray(b), Str(t)) = InArray(b)
         /\ ReadCall(InArray(b), StartObject) = AtName(InArray(b))
         /\ ReadCall(InArray(b), StartArray) = InArray(InArray(b))
         /\ ReadCall(InArray(b), EndArray) = b
<1>1. /\ InArray(b) # <<>> /\ Last(InArray(b)) = "["
      /\ Front(InArray(b)) = b /\ Head(InArray(b)) # "error"
  BY StackIs DEF InArray
<1>2. ReadCall(InArray(b), Name(k)) = InArray(b)
  BY <1>1, Calling, CallRead
<1>3. ReadCall(InArray(b), Str(t)) = InArray(b)
  BY <1>1, Calling, CallRead
<1>4. ReadCall(InArray(b), StartObject) = AtName(InArray(b))
  BY <1>1, Calling, CallRead DEF AtName
<1>5. ReadCall(InArray(b), StartArray) = InArray(InArray(b))
  BY <1>1, Calling, CallRead DEF InArray
<1>6. ReadCall(InArray(b), EndArray) = b
  BY <1>1, Calling, CallRead
<1>7. QED
  BY <1>2, <1>3, <1>4, <1>5, <1>6

(* Sequences of calls.                                                    *)
IsSeq(s) == \E S : s \in Seq(S)

LEMMA SeqIs ==
  ASSUME NEW s, IsSeq(s)
  PROVE  Len(s) \in Nat /\ DOMAIN s = 1 .. Len(s) /\ s \in Seq(Range(s))
<1>1. PICK S : s \in Seq(S)
  BY DEF IsSeq
<1>2. Len(s) \in Nat /\ DOMAIN s = 1 .. Len(s) /\ s = [i \in 1 .. Len(s) |-> s[i]]
  BY <1>1
<1>3. \A i \in 1 .. Len(s) : s[i] \in Range(s)
  BY <1>2 DEF Range
<1>4. [i \in 1 .. Len(s) |-> s[i]] \in Seq(Range(s))
  BY <1>2, <1>3
<1>5. QED
  BY <1>2, <1>4

LEMMA JoinedIs ==
  ASSUME NEW s, NEW t, IsSeq(s), IsSeq(t)
  PROVE  /\ IsSeq(s \o t) /\ Len(s \o t) = Len(s) + Len(t)
         /\ \A i \in 1 .. Len(s) : (s \o t)[i] = s[i]
         /\ \A i \in 1 .. Len(t) : (s \o t)[Len(s) + i] = t[i]
<1>1. PICK S : s \in Seq(S)
  BY DEF IsSeq
<1>2. PICK T : t \in Seq(T)
  BY DEF IsSeq
<1>3. s \in Seq(S \cup T) /\ t \in Seq(S \cup T)
  BY <1>1, <1>2
<1>4. /\ s \o t \in Seq(S \cup T) /\ Len(s \o t) = Len(s) + Len(t)
      /\ \A i \in 1 .. Len(s) + Len(t) :
           (s \o t)[i] = IF i <= Len(s) THEN s[i] ELSE t[i - Len(s)]
      /\ Len(s) \in Nat /\ Len(t) \in Nat
  BY <1>3, ConcatProperties
<1>5. ASSUME NEW i \in 1 .. Len(t)
      PROVE  (s \o t)[Len(s) + i] = t[i]
  <2>1. Len(s) + i \in 1 .. Len(s) + Len(t) /\ ~(Len(s) + i <= Len(s)) /\ (Len(s) + i) - Len(s) = i
    BY <1>4
  <2>2. QED
    BY <1>4, <2>1
<1>6. \A i \in 1 .. Len(s) : (s \o t)[i] = s[i]
  BY <1>4
<1>7. QED
  BY <1>4, <1>5, <1>6 DEF IsSeq

Joins(x, y, z) ==
  /\ IsSeq(x) /\ IsSeq(y) /\ IsSeq(z) /\ Len(z) = Len(x) + Len(y)
  /\ \A i \in 1 .. Len(x) : z[i] = x[i]
  /\ \A i \in 1 .. Len(y) : z[Len(x) + i] = y[i]

LEMMA JoinTo ==
  ASSUME NEW x, NEW y, NEW z, Joins(x, y, z)
  PROVE  x \o y = z
<1>0. /\ IsSeq(x) /\ IsSeq(y) /\ IsSeq(z) /\ Len(z) = Len(x) + Len(y)
      /\ \A i \in 1 .. Len(x) : z[i] = x[i]
      /\ \A i \in 1 .. Len(y) : z[Len(x) + i] = y[i]
  BY DEF Joins
<1>1. PICK w : w = x \o y
  OBVIOUS
<1>2. /\ IsSeq(w) /\ Len(w) = Len(x) + Len(y) /\ \A i \in 1 .. Len(x) : w[i] = x[i]
      /\ \A i \in 1 .. Len(y) : w[Len(x) + i] = y[i]
  BY <1>0, <1>1, JoinedIs
<1>3. Len(x) \in Nat /\ Len(y) \in Nat
  BY <1>0, SeqIs
<1>4. ASSUME NEW i \in 1 .. Len(w)
      PROVE  w[i] = z[i]
  <2>1. CASE i \in 1 .. Len(x)
    BY <1>0, <1>2, <2>1
  <2>2. CASE i \notin 1 .. Len(x)
    <3>1. PICK j \in 1 .. Len(y) : i = Len(x) + j
      <4>1. i - Len(x) \in 1 .. Len(y) /\ i = Len(x) + (i - Len(x))
        BY <1>2, <1>3, <2>2
      <4>2. QED
        BY <4>1
    <3>2. w[Len(x) + j] = y[j] /\ z[Len(x) + j] = y[j]
      BY <1>0, <1>2
    <3>3. QED
      BY <3>1, <3>2, Zenon
  <2>3. QED
    BY <2>1, <2>2
<1>5. w \in Seq(Range(w) \cup Range(z)) /\ z \in Seq(Range(w) \cup Range(z))
  <2>1. w \in Seq(Range(w)) /\ z \in Seq(Range(z))
    BY <1>0, <1>2, SeqIs
  <2>2. QED
    BY <2>1
<1>6. w = z
  BY <1>0, <1>2, <1>4, <1>5, SeqEqual
<1>7. QED
  BY <1>1, <1>6

LEMMA TupleIs ==
  ASSUME NEW c, NEW d, NEW e, NEW f
  PROVE  /\ IsSeq(<<c>>) /\ Len(<<c>>) = 1
         /\ IsSeq(<<c, d>>) /\ Len(<<c, d>>) = 2
         /\ IsSeq(<<c, d, e>>) /\ Len(<<c, d, e>>) = 3
         /\ IsSeq(<<c, d, e, f>>) /\ Len(<<c, d, e, f>>) = 4
<1>1. /\ <<c>> \in Seq({c, d, e, f}) /\ <<c, d>> \in Seq({c, d, e, f})
      /\ <<c, d, e>> \in Seq({c, d, e, f}) /\ <<c, d, e, f>> \in Seq({c, d, e, f})
  OBVIOUS
<1>2. QED
  BY <1>1 DEF IsSeq

LEMMA JoinTwo == ASSUME NEW c, NEW d PROVE <<c>> \o <<d>> = <<c, d>>
<1>1. PICK x : x = <<c>>
  OBVIOUS
<1>2. PICK y : y = <<d>>
  OBVIOUS
<1>3. PICK z : z = <<c, d>>
  OBVIOUS
<1>4. IsSeq(x) /\ IsSeq(y) /\ IsSeq(z) /\ Len(x) = 1 /\ Len(y) = 1 /\ Len(z) = 2
  BY <1>1, <1>2, <1>3, TupleIs, Zenon
<1>5. z[1] = x[1] /\ z[2] = y[1]
  BY <1>1, <1>2, <1>3
<1>6. \A i \in 1 .. 1 : i = 1
  OBVIOUS
<1>7. Joins(x, y, z)
  <2>1. \A i \in 1 .. 1 : z[i] = x[i]
    BY <1>5, <1>6
  <2>2. \A i \in 1 .. 1 : i = 1 /\ 1 + i = 2
    OBVIOUS
  <2>3. \A i \in 1 .. 1 : z[1 + i] = y[i]
    BY <1>5, <2>2
  <2>4. 2 = 1 + 1
    OBVIOUS
  <2>5. QED
    BY <1>4, <2>1, <2>3, <2>4 DEF Joins
<1>8. QED
  BY <1>1, <1>2, <1>3, <1>7, JoinTo, Zenon

LEMMA JoinThree == ASSUME NEW c, NEW d, NEW e PROVE <<c, d>> \o <<e>> = <<c, d, e>>
<1>1. PICK x : x = <<c, d>>
  OBVIOUS
<1>2. PICK y : y = <<e>>
  OBVIOUS
<1>3. PICK z : z = <<c, d, e>>
  OBVIOUS
<1>4. IsSeq(x) /\ IsSeq(y) /\ IsSeq(z) /\ Len(x) = 2 /\ Len(y) = 1 /\ Len(z) = 3
  BY <1>1, <1>2, <1>3, TupleIs, Zenon
<1>5. z[1] = x[1] /\ z[2] = x[2] /\ z[3] = y[1]
  BY <1>1, <1>2, <1>3
<1>6. \A i \in 1 .. 2 : i = 1 \/ i = 2
  OBVIOUS
<1>7. Joins(x, y, z)
  <2>1. \A i \in 1 .. 2 : z[i] = x[i]
    BY <1>5, <1>6
  <2>2. \A i \in 1 .. 1 : i = 1 /\ 2 + i = 3
    OBVIOUS
  <2>3. \A i \in 1 .. 1 : z[2 + i] = y[i]
    BY <1>5, <2>2
  <2>4. 3 = 2 + 1
    OBVIOUS
  <2>5. QED
    BY <1>4, <2>1, <2>3, <2>4 DEF Joins
<1>8. QED
  BY <1>1, <1>2, <1>3, <1>7, JoinTo, Zenon

LEMMA JoinFour == ASSUME NEW c, NEW d, NEW e, NEW f PROVE <<c, d, e>> \o <<f>> = <<c, d, e, f>>
<1>1. PICK x : x = <<c, d, e>>
  OBVIOUS
<1>2. PICK y : y = <<f>>
  OBVIOUS
<1>3. PICK z : z = <<c, d, e, f>>
  OBVIOUS
<1>4. IsSeq(x) /\ IsSeq(y) /\ IsSeq(z) /\ Len(x) = 3 /\ Len(y) = 1 /\ Len(z) = 4
  BY <1>1, <1>2, <1>3, TupleIs, Zenon
<1>5. z[1] = x[1] /\ z[2] = x[2] /\ z[3] = x[3] /\ z[4] = y[1]
  BY <1>1, <1>2, <1>3
<1>6. \A i \in 1 .. 3 : i = 1 \/ i = 2 \/ i = 3
  OBVIOUS
<1>7. Joins(x, y, z)
  <2>1. \A i \in 1 .. 3 : z[i] = x[i]
    BY <1>5, <1>6
  <2>2. \A i \in 1 .. 1 : i = 1 /\ 3 + i = 4
    OBVIOUS
  <2>3. \A i \in 1 .. 1 : z[3 + i] = y[i]
    BY <1>5, <2>2
  <2>4. 4 = 3 + 1
    OBVIOUS
  <2>5. QED
    BY <1>4, <2>1, <2>3, <2>4 DEF Joins
<1>8. QED
  BY <1>1, <1>2, <1>3, <1>7, JoinTo, Zenon

(* The states of a reader that begins with a reads the calls s in.         *)
IsTrace(g, a, s) ==
  g = [i \in 0 .. Len(s) |-> IF i = 0 THEN a ELSE ReadCall(g[i - 1], s[i])]

Reads(a, s, b) == IsSeq(s) /\ \E g : IsTrace(g, a, s) /\ g[Len(s)] = b

LEMMA TraceAt ==
  ASSUME NEW g, NEW a, NEW s, IsTrace(g, a, s), Len(s) \in Nat
  PROVE  g[0] = a /\ \A i \in 1 .. Len(s) : g[i] = ReadCall(g[i - 1], s[i])
<1>1. 0 \in 0 .. Len(s) /\ \A i \in 1 .. Len(s) : i \in 0 .. Len(s) /\ i # 0
  OBVIOUS
<1>2. \A i \in 0 .. Len(s) : g[i] = IF i = 0 THEN a ELSE ReadCall(g[i - 1], s[i])
  BY Zenon DEF IsTrace
<1>3. g[0] = a
  BY <1>1, <1>2, Zenon
<1>4. ASSUME NEW i \in 1 .. Len(s)
      PROVE  g[i] = ReadCall(g[i - 1], s[i])
  BY <1>1, <1>2, Zenon
<1>5. QED
  BY <1>3, <1>4, Zenon

LEMMA TraceIs ==
  ASSUME NEW g, NEW a, NEW s, Len(s) \in Nat, g = [i \in 0 .. Len(s) |-> g[i]],
         g[0] = a, \A i \in 1 .. Len(s) : g[i] = ReadCall(g[i - 1], s[i])
  PROVE  IsTrace(g, a, s)
<1>1. \A i \in 0 .. Len(s) : i = 0 \/ i \in 1 .. Len(s)
  OBVIOUS
<1>2. \A i \in 0 .. Len(s) : g[i] = IF i = 0 THEN a ELSE ReadCall(g[i - 1], s[i])
  BY <1>1, Zenon
<1>3. QED
  BY <1>2, Zenon DEF IsTrace

LEMMA NothingRead ==
  ASSUME NEW a
  PROVE  Reads(a, <<>>, a)
<1> DEFINE g == [i \in 0 .. 0 |-> a]
<1>1. IsSeq(<<>>) /\ Len(<<>>) = 0
  BY DEF IsSeq
<1>2. g[0] = a /\ g = [i \in 0 .. Len(<<>>) |-> g[i]]
  BY <1>1
<1>3. IsTrace(g, a, <<>>)
  BY <1>1, <1>2, TraceIs
<1> HIDE DEF g
<1>4. QED
  BY <1>1, <1>2, <1>3 DEF Reads

LEMMA OneRead ==
  ASSUME NEW a, NEW c, NEW b, b = ReadCall(a, c)
  PROVE  Reads(a, <<c>>, b)
<1> DEFINE s == <<c>>
           g == [i \in 0 .. 1 |-> IF i = 0 THEN a ELSE b]
<1>1. IsSeq(s) /\ Len(s) = 1 /\ s[1] = c
  <2>1. <<c>> \in Seq({c})
    OBVIOUS
  <2>2. QED
    BY <2>1 DEF IsSeq
<1> HIDE DEF s
<1>2. g = [i \in 0 .. Len(s) |-> g[i]] /\ g[0] = a /\ g[1] = b
  BY <1>1
<1> HIDE DEF g
<1>3. \A i \in 1 .. Len(s) : g[i] = ReadCall(g[i - 1], s[i])
  <2>1. \A i \in 1 .. Len(s) : i = 1 /\ i - 1 = 0
    BY <1>1
  <2>2. QED
    BY <1>1, <1>2, <2>1
<1>4. IsTrace(g, a, s)
  BY <1>1, <1>2, <1>3, TraceIs
<1>5. Reads(a, s, b)
  BY <1>1, <1>2, <1>4 DEF Reads
<1>6. QED
  BY <1>5 DEF s

LEMMA ReadOn ==
  ASSUME NEW a, NEW s, NEW b, NEW t, NEW c, Reads(a, s, b), Reads(b, t, c)
  PROVE  Reads(a, s \o t, c)
<1>1. IsSeq(s) /\ IsSeq(t)
  BY DEF Reads
<1>2. PICK g : IsTrace(g, a, s) /\ g[Len(s)] = b
  BY DEF Reads
<1>3. PICK h : IsTrace(h, b, t) /\ h[Len(t)] = c
  BY DEF Reads
<1>4. PICK m \in Nat : m = Len(s)
  BY <1>1, SeqIs
<1>5. PICK n \in Nat : n = Len(t)
  BY <1>1, SeqIs
<1>6. PICK u : u = s \o t
  OBVIOUS
<1>7. /\ IsSeq(u) /\ Len(u) = m + n
      /\ \A i \in 1 .. m : u[i] = s[i]
      /\ \A i \in 1 .. n : u[m + i] = t[i]
  BY <1>1, <1>4, <1>5, <1>6, JoinedIs
<1>8. /\ g[0] = a /\ \A i \in 1 .. m : g[i] = ReadCall(g[i - 1], s[i])
      /\ h[0] = b /\ \A i \in 1 .. n : h[i] = ReadCall(h[i - 1], t[i])
  BY <1>2, <1>3, <1>4, <1>5, TraceAt
<1> DEFINE k == [i \in 0 .. m + n |-> IF i <= m THEN g[i] ELSE h[i - m]]
<1>9. /\ k = [i \in 0 .. Len(u) |-> k[i]]
      /\ \A i \in 0 .. m : k[i] = g[i]
      /\ \A i \in 0 .. n : k[m + i] = h[i]
  <2>1. \A i \in 0 .. m : i \in 0 .. m + n /\ i <= m
    OBVIOUS
  <2>2. \A i \in 1 .. n : m + i \in 0 .. m + n /\ ~(m + i <= m) /\ (m + i) - m = i
    OBVIOUS
  <2>3. \A i \in 1 .. n : k[m + i] = h[i]
    BY <2>2
  <2>4. k[m] = g[m] /\ g[m] = h[0]
    BY <1>2, <1>4, <1>8, <2>1
  <2>5. \A i \in 0 .. n : i = 0 \/ i \in 1 .. n
    OBVIOUS
  <2>6. m + 0 = m
    OBVIOUS
  <2>7. \A i \in 0 .. n : k[m + i] = h[i]
    BY <2>3, <2>4, <2>5, <2>6
  <2>8. \A i \in 0 .. m : k[i] = g[i]
    BY <2>1
  <2>9. k = [i \in 0 .. Len(u) |-> k[i]]
    BY <1>7
  <2>10. QED
    BY <2>7, <2>8, <2>9
<1> HIDE DEF k
<1>10. ASSUME NEW i \in 1 .. Len(u)
       PROVE  k[i] = ReadCall(k[i - 1], u[i])
  <2>1. CASE i <= m
    <3>1. i \in 1 .. m /\ i \in 0 .. m /\ i - 1 \in 0 .. m
      BY <2>1
    <3>2. k[i] = g[i] /\ k[i - 1] = g[i - 1] /\ u[i] = s[i]
      BY <1>7, <1>9, <3>1
    <3>3. g[i] = ReadCall(g[i - 1], s[i])
      BY <1>8, <3>1, Zenon
    <3>4. QED
      BY <3>2, <3>3, Zenon
  <2>2. CASE ~(i <= m)
    <3>1. PICK j \in 1 .. n : i = m + j
      <4>1. i - m \in 1 .. n /\ i = m + (i - m)
        BY <1>7, <2>2
      <4>2. QED
        BY <4>1
    <3>2. j \in 0 .. n /\ j - 1 \in 0 .. n /\ i - 1 = m + (j - 1)
      BY <3>1
    <3>3. k[i] = h[j] /\ k[i - 1] = h[j - 1] /\ u[i] = t[j]
      BY <1>7, <1>9, <3>1, <3>2
    <3>4. h[j] = ReadCall(h[j - 1], t[j])
      BY <1>8, <3>1, Zenon
    <3>5. QED
      BY <3>3, <3>4, Zenon
  <2>3. QED
    BY <2>1, <2>2
<1>11. IsTrace(k, a, u)
  <2>1. Len(u) \in Nat
    BY <1>7
  <2>2. 0 \in 0 .. m
    OBVIOUS
  <2>3. k[0] = a
    BY <1>8, <1>9, <2>2, Zenon
  <2>4. QED
    BY <1>9, <1>10, <2>1, <2>3, TraceIs
<1>12. k[Len(u)] = c
  <2>1. n \in 0 .. n
    OBVIOUS
  <2>2. QED
    BY <1>3, <1>5, <1>7, <1>9, <2>1
<1>13. QED
  BY <1>6, <1>7, <1>11, <1>12 DEF Reads

(* A part that is repeated.                                                *)
LEMMA AllRead ==
  ASSUME NEW a, NEW n \in Nat, NEW f, f = [i \in 1 .. n |-> f[i]],
         \A i \in 1 .. n : Reads(a, f[i], a)
  PROVE  Reads(a, FlattenSeq(f), a)
<1> DEFINE S == UNION {Range(f[i]) : i \in 1 .. n}
<1>1. \A i \in 1 .. n : f[i] \in Seq(S)
  <2>1. ASSUME NEW i \in 1 .. n
        PROVE  f[i] \in Seq(S)
    <3>1. PICK x : x = f[i]
      OBVIOUS
    <3>2. IsSeq(x)
      BY <3>1 DEF Reads
    <3>3. x \in Seq(Range(x)) /\ Range(x) \subseteq S
      BY <3>1, <3>2, SeqIs
    <3> HIDE DEF S
    <3>4. QED
      BY <3>1, <3>3
  <2>2. QED
    BY <2>1
<1> HIDE DEF S
<1>2. f \in Seq(Seq(S)) /\ Len(f) = n
  <2>1. [i \in 1 .. n |-> f[i]] \in Seq(Seq(S)) /\ Len([i \in 1 .. n |-> f[i]]) = n
    BY <1>1
  <2>2. QED
    BY <2>1, Zenon
<1>3. PICK g : IsFlat(g, f, S)
  BY <1>2, FlatExists
<1>4. FlattenSeq(f) = g[n]
  BY <1>2, <1>3, FlattenIs
<1> DEFINE T == {i \in 0 .. n : Reads(a, g[i], a)}
<1>5. 0 \in T
  <2>1. g[0] = <<>>
    BY <1>3 DEF IsFlat
  <2>2. QED
    BY <2>1, NothingRead
<1>6. ASSUME NEW i \in 1 .. n, i - 1 \in T
      PROVE  i \in T
  <2>1. g[i] = g[i - 1] \o f[i]
    BY <1>2, <1>3, Zenon DEF IsFlat
  <2>2. Reads(a, g[i - 1], a)
    BY <1>6
  <2>3. Reads(a, g[i - 1] \o f[i], a)
    BY <2>2, ReadOn
  <2>4. Reads(a, g[i], a)
    BY <2>1, <2>3, Zenon
  <2>5. i \in 0 .. n
    OBVIOUS
  <2>6. QED
    BY <2>4, <2>5
<1>7. \A i \in 0 .. n : i \in T
  <2> HIDE DEF T
  <2>1. QED
    BY <1>5, <1>6, Climb
<1>8. n \in 0 .. n
  OBVIOUS
<1>9. QED
  BY <1>4, <1>7, <1>8

LEMMA EachRead ==
  ASSUME NEW a, NEW n \in Nat, NEW s, s = [i \in 1 .. n |-> s[i]],
         \A i \in 1 .. n : ReadCall(a, s[i]) = a
  PROVE  Reads(a, s, a)
<1> DEFINE g == [i \in 0 .. n |-> a]
<1>1. s \in Seq({s[i] : i \in 1 .. n}) /\ Len(s) = n
  <2>1. \A i \in 1 .. n : s[i] \in {s[j] : j \in 1 .. n}
    OBVIOUS
  <2> DEFINE S == {s[j] : j \in 1 .. n}
  <2> HIDE DEF S
  <2>2. \A i \in 1 .. n : s[i] \in S
    BY <2>1 DEF S
  <2>3. [i \in 1 .. n |-> s[i]] \in Seq(S) /\ Len([i \in 1 .. n |-> s[i]]) = n
    BY <2>2
  <2>4. QED
    BY <2>3, Zenon DEF S
<1>2. IsSeq(s)
  BY <1>1 DEF IsSeq
<1>3. g = [i \in 0 .. Len(s) |-> g[i]] /\ \A i \in 0 .. n : g[i] = a
  BY <1>1
<1> HIDE DEF g
<1>4. ASSUME NEW i \in 1 .. Len(s)
      PROVE  g[i] = ReadCall(g[i - 1], s[i])
  <2>1. i \in 0 .. n /\ i - 1 \in 0 .. n
    BY <1>1
  <2>2. g[i] = a /\ g[i - 1] = a
    BY <1>3, <2>1
  <2>3. ReadCall(a, s[i]) = a
    BY <1>1
  <2>4. QED
    BY <2>2, <2>3
<1>5. 0 \in 0 .. n /\ n \in 0 .. n
  OBVIOUS
<1>6. g[0] = a /\ g[n] = a
  BY <1>3, <1>5
<1>7. IsTrace(g, a, s)
  BY <1>1, <1>3, <1>4, <1>6, TraceIs
<1>8. QED
  BY <1>1, <1>2, <1>6, <1>7 DEF Reads

(* What ReadJson computes is what is read.                                 *)
LEMMA ReadJsonIs ==
  ASSUME NEW s, NEW b, Reads(<<>>, s, b)
  PROVE  ReadJson(s) = b
<1>1. PICK g : IsTrace(g, <<>>, s) /\ g[Len(s)] = b
  BY DEF Reads
<1>2. PICK n \in Nat : n = Len(s)
  BY SeqIs DEF Reads
<1>3. PICK h : h = CHOOSE r : IsTrace(r, <<>>, s)
  OBVIOUS
<1>4. IsTrace(h, <<>>, s)
  BY <1>1, <1>3, Zenon
<1>5. ReadJson(s) = h[n]
  BY <1>2, <1>3, Zenon DEF ReadJson, IsTrace
<1>6. /\ g[0] = <<>> /\ \A i \in 1 .. n : g[i] = ReadCall(g[i - 1], s[i])
      /\ h[0] = <<>> /\ \A i \in 1 .. n : h[i] = ReadCall(h[i - 1], s[i])
  BY <1>1, <1>2, <1>4, TraceAt
<1> DEFINE T == {i \in 0 .. n : h[i] = g[i]}
<1>7. 0 \in T
  BY <1>6
<1>8. ASSUME NEW i \in 1 .. n, i - 1 \in T
      PROVE  i \in T
  <2>1. g[i] = ReadCall(g[i - 1], s[i]) /\ h[i] = ReadCall(h[i - 1], s[i])
    BY <1>6, Zenon
  <2>2. h[i - 1] = g[i - 1]
    BY <1>8
  <2>3. h[i] = g[i]
    BY <2>1, <2>2, Zenon
  <2>4. QED
    BY <2>3
<1>9. \A i \in 0 .. n : i \in T
  <2> HIDE DEF T
  <2>1. QED
    BY <1>7, <1>8, Climb
<1>10. n \in 0 .. n
  OBVIOUS
<1>11. QED
  BY <1>1, <1>2, <1>5, <1>9, <1>10

LEMMA TwoRead ==
  ASSUME NEW a, NEW c, NEW d
  PROVE  Reads(a, <<c, d>>, ReadCall(ReadCall(a, c), d))
<1>1. Reads(a, <<c>>, ReadCall(a, c))
  BY OneRead
<1>2. Reads(ReadCall(a, c), <<d>>, ReadCall(ReadCall(a, c), d))
  BY OneRead
<1>3. <<c>> \o <<d>> = <<c, d>>
  BY JoinTwo, Zenon
<1>4. Reads(a, <<c>> \o <<d>>, ReadCall(ReadCall(a, c), d))
  BY <1>1, <1>2, ReadOn
<1>5. QED
  BY <1>3, <1>4

LEMMA ThreeRead ==
  ASSUME NEW a, NEW c, NEW d, NEW e
  PROVE  Reads(a, <<c, d, e>>, ReadCall(ReadCall(ReadCall(a, c), d), e))
<1>1. PICK b : b = ReadCall(ReadCall(a, c), d)
  OBVIOUS
<1>2. Reads(a, <<c, d>>, b)
  BY <1>1, TwoRead
<1>3. Reads(b, <<e>>, ReadCall(b, e))
  BY OneRead
<1>4. <<c, d>> \o <<e>> = <<c, d, e>>
  BY JoinThree, Zenon
<1>5. Reads(a, <<c, d>> \o <<e>>, ReadCall(b, e))
  BY <1>2, <1>3, ReadOn
<1>6. QED
  BY <1>1, <1>4, <1>5

LEMMA FourRead ==
  ASSUME NEW a, NEW c, NEW d, NEW e, NEW f
  PROVE  Reads(a, <<c, d, e, f>>, ReadCall(ReadCall(ReadCall(ReadCall(a, c), d), e), f))
<1>1. PICK b : b = ReadCall(ReadCall(ReadCall(a, c), d), e)
  OBVIOUS
<1>2. Reads(a, <<c, d, e>>, b)
  BY <1>1, ThreeRead
<1>3. Reads(b, <<f>>, ReadCall(b, f))
  BY OneRead
<1>4. <<c, d, e>> \o <<f>> = <<c, d, e, f>>
  BY JoinFour, Zenon
<1>5. Reads(a, <<c, d, e>> \o <<f>>, ReadCall(b, f))
  BY <1>2, <1>3, ReadOn
<1>6. QED
  BY <1>1, <1>4, <1>5

(* What the parts of a message are: members of an object or elements of an *)
(* array, as many as they may be.                                          *)
Members(s) == \A b \in Stacks : Reads(AtName(b), s, AtName(b))
Elements(s) == \A b \in Stacks : Reads(InArray(b), s, InArray(b))

LEMMA OptionalIsRead == ASSUME NEW k, NEW s PROVE Members(Optional(k, s))
<1>1. SUFFICES ASSUME NEW b \in Stacks
               PROVE  Reads(AtName(b), Optional(k, s), AtName(b))
  BY DEF Members
<1>2. Reads(AtName(b), <<>>, AtName(b))
  BY NothingRead
<1>3. Reads(AtName(b), <<Name(k), Str(s)>>, AtName(b))
  BY InObject, TwoRead
<1>4. QED
  BY <1>2, <1>3 DEF Optional

LEMMA StringListIsRead ==
  ASSUME NEW k, NEW S, NEW list \in Seq(S)
  PROVE  Members(StringList(k, list))
<1>1. SUFFICES ASSUME NEW b \in Stacks
               PROVE  Reads(AtName(b), StringList(k, list), AtName(b))
  BY DEF Members
<1>2. Reads(AtName(b), <<>>, AtName(b))
  BY NothingRead
<1>3. PICK n \in Nat : n = Len(list)
  OBVIOUS
<1> DEFINE s == [i \in 1 .. n |-> Str(list[i])]
           c == InArray(AtName(b))
<1>4. AtName(b) \in Stacks
  BY InObject
<1>5. Reads(AtName(b), <<Name(k), StartArray>>, c)
  BY InObject, TwoRead
<1>6. Reads(c, s, c)
  <2>1. \A i \in 1 .. n : ReadCall(c, s[i]) = c
    BY <1>4, InAnArray
  <2>2. s = [i \in 1 .. n |-> s[i]]
    OBVIOUS
  <2> HIDE DEF s, c
  <2>3. QED
    BY <2>1, <2>2, EachRead
<1>7. Reads(c, <<EndArray>>, AtName(b))
  BY <1>4, InAnArray, OneRead
<1>8. DOMAIN list = 1 .. n
  BY <1>3
<1>9. [i \in DOMAIN list |-> Str(list[i])] = s
  BY <1>8, Zenon
<1> HIDE DEF s, c
<1>10. Reads(AtName(b), <<Name(k), StartArray>> \o s, c)
  BY <1>5, <1>6, ReadOn
<1>11. Reads(AtName(b), <<Name(k), StartArray>> \o s \o <<EndArray>>, AtName(b))
  BY <1>7, <1>10, ReadOn
<1>12. QED
  BY <1>2, <1>9, <1>11, Zenon DEF StringList

LEMMA ArticleIsRead == ASSUME NEW x PROVE Elements(ArticleJson(x))
<1>1. SUFFICES ASSUME NEW b \in Stacks
               PROVE  Reads(InArray(b), ArticleJson(x), InArray(b))
  BY DEF Elements
<1> DEFINE c == AtName(InArray(b))
<1>2. InArray(b) \in Stacks
  BY InObject
<1>3. Reads(InArray(b), <<StartObject, Name("title"), Str(x.title)>>, c)
  BY <1>2, InObject, InAnArray, ThreeRead
<1>4. /\ Reads(c, Optional("description", x.description), c)
      /\ Reads(c, Optional("picurl", x.picurl), c)
  BY <1>2, OptionalIsRead DEF Members
<1>5. Reads(c, <<Name("url"), Str(x.url)>>, c)
  BY <1>2, InObject, TwoRead
<1>6. Reads(c, <<EndObject>>, InArray(b))
  BY <1>2, InObject, OneRead
<1> DEFINE s == <<StartObject, Name("title"), Str(x.title)>> \o Optional("description", x.description)
<1> HIDE DEF c
<1>7. Reads(InArray(b), s, c)
  BY <1>3, <1>4, ReadOn
<1>8. Reads(InArray(b), s \o <<Name("url"), Str(x.url)>>, c)
  BY <1>5, <1>7, ReadOn
<1>9. Reads(InArray(b), s \o <<Name("url"), Str(x.url)>> \o Optional("picurl", x.picurl), c)
  BY <1>4, <1>8, ReadOn
<1>10. QED
  BY <1>6, <1>9, ReadOn DEF ArticleJson

LEMMA ButtonIsRead == ASSUME NEW t PROVE Elements(ButtonJson(t))
<1>1. SUFFICES ASSUME NEW b \in Stacks
               PROVE  Reads(InArray(b), ButtonJson(t), InArray(b))
  BY DEF Elements
<1> DEFINE c == AtName(InArray(b))
           N(i) == <<"type", "name", "text", "border_color", "text_color", "value">>[i]
           f == [i \in 1 .. 6 |-> <<Name(N(i)), Str(<<>>)>>]
<1> HIDE DEF N
<1>2. InArray(b) \in Stacks
  BY InObject
<1>3. Reads(InArray(b), <<StartObject>>, c)
  BY InAnArray, OneRead
<1>4. \A i \in 1 .. 6 : Reads(c, f[i], c)
  <2>1. ASSUME NEW i \in 1 .. 6
        PROVE  Reads(c, f[i], c)
    <3>1. Reads(c, <<Name(N(i)), Str(<<>>)>>, c)
      BY <1>2, InObject, TwoRead
    <3>2. QED
      BY <3>1
  <2>2. QED
    BY <2>1
<1>5. f = [i \in 1 .. 6 |-> f[i]]
  OBVIOUS
<1>6. Reads(c, Optional("replace_text", t), c)
  BY <1>2, OptionalIsRead DEF Members
<1>7. Reads(c, <<EndObject>>, InArray(b))
  BY <1>2, InObject, OneRead
<1>8. ButtonJson(t) = <<StartObject>> \o FlattenSeq(f) \o Optional("replace_text", t)
                      \o <<EndObject>>
  BY Zenon DEF ButtonJson, N
<1> HIDE DEF c, f
<1>9. Reads(c, FlattenSeq(f), c)
  BY <1>4, <1>5, AllRead
<1>10. Reads(InArray(b), <<StartObject>> \o FlattenSeq(f), c)
  BY <1>3, <1>9, ReadOn
<1>11. Reads(InArray(b), <<StartObject>> \o FlattenSeq(f) \o Optional("replace_text", t), c)
  BY <1>6, <1>10, ReadOn
<1>12. QED
  BY <1>7, <1>8, <1>11, ReadOn

(* The keys and values of an attachment, in the array around.              *)
AttachmentCalls(buttons) ==
  <<Name("callback_id"), Str(<<>>), Name("actions"), StartArray>>
  \o FlattenSeq([b \in DOMAIN buttons |-> ButtonJson(buttons[b])]) \o <<EndArray>>

LEMMA AttachmentIsRead ==
  ASSUME NEW S, NEW buttons \in Seq(S)
  PROVE  Elements(AttachmentCalls(buttons))
<1>1. SUFFICES ASSUME NEW b \in Stacks
               PROVE  Reads(InArray(b), AttachmentCalls(buttons), InArray(b))
  BY DEF Elements
<1> DEFINE c == InArray(InArray(b))
           f == [i \in DOMAIN buttons |-> ButtonJson(buttons[i])]
           s == <<Name("callback_id"), Str(<<>>), Name("actions"), StartArray>>
<1>2. InArray(b) \in Stacks
  BY InObject
<1>3. Reads(InArray(b), s, c)
  BY InAnArray, FourRead
<1>4. PICK n \in Nat : n = Len(buttons)
  OBVIOUS
<1>5. DOMAIN buttons = 1 .. n
  BY <1>4
<1>6. f = [i \in 1 .. n |-> f[i]] /\ \A i \in 1 .. n : Reads(c, f[i], c)
  BY <1>2, <1>5, ButtonIsRead DEF Elements
<1>7. Reads(c, <<EndArray>>, InArray(b))
  BY <1>2, InAnArray, OneRead
<1>8. AttachmentCalls(buttons) = s \o FlattenSeq(f) \o <<EndArray>>
  BY Zenon DEF AttachmentCalls
<1> HIDE DEF c, f, s
<1>9. Reads(c, FlattenSeq(f), c)
  BY <1>6, AllRead
<1>10. Reads(InArray(b), s \o FlattenSeq(f), c)
  BY <1>3, <1>9, ReadOn
<1>11. QED
  BY <1>7, <1>8, <1>10, ReadOn

LEMMA AttachmentsAreRead ==
  ASSUME NEW S, NEW list \in Seq(Seq(S)), NEW b \in Stacks
  PROVE  Reads(AtValue(b), AttachmentsJson(list), AtName(b))
<1> DEFINE c == InArray(AtName(b))
           f == [i \in DOMAIN list |-> AttachmentCalls(list[i])]
<1>1. PICK n \in Nat : n = Len(list)
  OBVIOUS
<1>2. DOMAIN list = 1 .. n /\ \A i \in 1 .. n : list[i] \in Seq(S)
  BY <1>1
<1>3. AtName(b) \in Stacks
  BY InObject
<1>4. Reads(AtValue(b), <<StartArray>>, c)
  BY InObject, OneRead
<1>5. f = [i \in 1 .. n |-> f[i]] /\ \A i \in 1 .. n : Reads(c, f[i], c)
  BY <1>2, <1>3, AttachmentIsRead DEF Elements
<1>6. Reads(c, <<EndArray>>, AtName(b))
  BY <1>3, InAnArray, OneRead
<1>7. AttachmentsJson(list) = <<StartArray>> \o FlattenSeq(f) \o <<EndArray>>
  BY Zenon DEF AttachmentsJson, AttachmentCalls
<1> HIDE DEF c, f
<1>8. Reads(c, FlattenSeq(f), c)
  BY <1>5, AllRead
<1>9. Reads(AtValue(b), <<StartArray>> \o FlattenSeq(f), c)
  BY <1>4, <1>8, ReadOn
<1>10. Reads(AtValue(b), <<StartArray>> \o FlattenSeq(f) \o <<EndArray>>, AtName(b))
  BY <1>6, <1>9, ReadOn
<1>11. QED
  BY <1>7, <1>10

LEMMA TextIsRead ==
  ASSUME NEW S, NEW i, i.mentioned \in Seq(S), i.mobile \in Seq(S)
  PROVE  Members(TextJson(i))
<1>1. SUFFICES ASSUME NEW b \in Stacks
               PROVE  Reads(AtName(b), TextJson(i), AtName(b))
  BY DEF Members
<1> DEFINE c == AtName(AtName(b))
           s == <<Name("text"), StartObject, Name("content"), Str(i.content)>>
           l == StringList("mentioned_list", i.mentioned)
           m == StringList("mentioned_mobile_list", i.mobile)
<1>2. AtName(b) \in Stacks
  BY InObject
<1>3. Reads(AtName(b), s, c)
  BY <1>2, InObject, FourRead
<1>4. Reads(c, l, c) /\ Reads(c, m, c)
  BY <1>2, StringListIsRead DEF Members
<1>5. Reads(c, <<EndObject>>, AtName(b))
  BY <1>2, InObject, OneRead
<1>6. TextJson(i) = s \o l \o m \o <<EndObject>>
  BY DEF TextJson
<1> HIDE DEF c, s, l, m
<1>7. Reads(AtName(b), s \o l, c)
  BY <1>3, <1>4, ReadOn
<1>8. Reads(AtName(b), s \o l \o m, c)
  BY <1>4, <1>7, ReadOn
<1>9. QED
  BY <1>5, <1>6, <1>8, ReadOn

LEMMA NewsIsRead ==
  ASSUME NEW S, NEW i, i.articles \in Seq(S)
  PROVE  Members(NewsJson(i))
<1>1. SUFFICES ASSUME NEW b \in Stacks
               PROVE  Reads(AtName(b), NewsJson(i), AtName(b))
  BY DEF Members
<1> DEFINE c == InArray(AtName(AtName(b)))
           s == <<Name("news"), StartObject, Name("articles"), StartArray>>
           f == [n \in DOMAIN i.articles |-> ArticleJson(i.articles[n])]
<1>2. PICK n \in Nat : n = Len(i.articles)
  OBVIOUS
<1>3. DOMAIN i.articles = 1 .. n
  BY <1>2
<1>4. AtName(b) \in Stacks /\ AtName(AtName(b)) \in Stacks
  BY InObject
<1>5. Reads(AtName(b), s, c)
  BY <1>4, InObject, FourRead
<1>6. f = [j \in 1 .. n |-> f[j]] /\ \A j \in 1 .. n : Reads(c, f[j], c)
  BY <1>3, <1>4, ArticleIsRead DEF Elements
<1>7. Reads(c, <<EndArray, EndObject>>, AtName(b))
  BY <1>4, InObject, InAnArray, TwoRead
<1>8. NewsJson(i) = s \o FlattenSeq(f) \o <<EndArray, EndObject>>
  BY Zenon DEF NewsJson
<1> HIDE DEF c, s, f
<1>9. Reads(c, FlattenSeq(f), c)
  BY <1>6, AllRead
<1>10. Reads(AtName(b), s \o FlattenSeq(f), c)
  BY <1>5, <1>9, ReadOn
<1>11. QED
  BY <1>7, <1>8, <1>10, ReadOn

LEMMA MarkdownIsRead ==
  ASSUME NEW S, NEW i, i.attachments \in Seq(Seq(S))
  PROVE  Members(MarkdownJson(i))
<1>1. SUFFICES ASSUME NEW b \in Stacks
               PROVE  Reads(AtName(b), MarkdownJson(i), AtName(b))
  BY DEF Members
<1>2. Reads(AtName(b), <<Name("content"), Str(i.content), Name("attachments")>>, AtValue(b))
  BY InObject, ThreeRead
<1>3. Reads(AtValue(b), AttachmentsJson(i.attachments), AtName(b))
  BY AttachmentsAreRead
<1>4. QED
  BY <1>2, <1>3, ReadOn DEF MarkdownJson

LEMMA ImageIsRead == ASSUME NEW m PROVE Members(ImageJson(m))
<1>1. SUFFICES ASSUME NEW b \in Stacks
               PROVE  Reads(AtName(b), ImageJson(m), AtName(b))
  BY DEF Members
<1> DEFINE c == AtName(AtName(b))
           s == <<Name("image"), StartObject, Name("base64"), Str(m.raw)>>
           t == <<Name("md5"), Str(m.raw), EndObject>>
<1>2. AtName(b) \in Stacks
  BY InObject
<1>3. Reads(AtName(b), s, c)
  BY <1>2, InObject, FourRead
<1>4. Reads(c, t, AtName(b))
  BY <1>2, InObject, ThreeRead
<1>5. s \o t = ImageJson(m)
  <2>1. PICK x : x = s
    OBVIOUS
  <2>2. PICK y : y = t
    OBVIOUS
  <2>3. PICK z : z = ImageJson(m)
    OBVIOUS
  <2>5. IsSeq(x) /\ IsSeq(y) /\ Len(x) = 4 /\ Len(y) = 3
    BY <2>1, <2>2, TupleIs
  <2>6. /\ Len(z) = 7 /\ z[1] = x[1] /\ z[2] = x[2] /\ z[3] = x[3] /\ z[4] = x[4]
        /\ z[4 + 1] = y[1] /\ z[4 + 2] = y[2] /\ z[4 + 3] = y[3]
    BY <2>1, <2>2, <2>3 DEF ImageJson
  <2>7. z \in Seq(Range(z))
    BY <2>3 DEF ImageJson, Range
  <2>8. (\A i \in 1 .. 3 : i = 1 \/ i = 2 \/ i = 3)
        /\ \A i \in 1 .. 4 : i = 1 \/ i = 2 \/ i = 3 \/ i = 4
    OBVIOUS
  <2>9. IsSeq(z)
    BY <2>7 DEF IsSeq
  <2> HIDE DEF s, t
  <2>10. Joins(x, y, z)
    <3>1. \A i \in 1 .. 4 : z[i] = x[i]
      BY <2>6, <2>8
    <3>2. \A i \in 1 .. 3 : z[4 + i] = y[i]
      BY <2>6, <2>8
    <3>3. QED
      BY <2>5, <2>6, <2>9, <3>1, <3>2 DEF Joins
  <2>11. QED
    BY <2>1, <2>2, <2>3, <2>10, JoinTo, Zenon
<1> HIDE DEF s, t, c
<1>6. QED
  BY <1>3, <1>4, <1>5, ReadOn

LEMMA GetJsonIsRead ==
  ASSUME NEW m, NEW i, Members(Body(m, i))
  PROVE  ReadJson(GetJson(m, i)) = <<>>
<1> DEFINE c == AtName(<<>>)
           o == Optional("chatid", m.chatid)
           t == <<Name("msgtype"), Str(<<m.kind>>)>>
<1>1. <<>> \in Stacks
  BY DEF Stacks
<1>2. Reads(<<>>, <<StartObject>>, c)
  BY ObjectBegins, OneRead DEF AtName
<1>3. Reads(c, o, c)
  BY <1>1, OptionalIsRead DEF Members
<1>4. Reads(c, t, c)
  BY <1>1, InObject, TwoRead
<1>5. Reads(c, Body(m, i), c)
  BY <1>1 DEF Members
<1>6. Reads(c, <<EndObject>>, <<>>)
  BY <1>1, InObject, OneRead
<1>7. GetJson(m, i) = <<StartObject>> \o o \o t \o Body(m, i) \o <<EndObject>>
  BY Zenon DEF GetJson
<1> HIDE DEF c, o, t
<1>8. Reads(<<>>, <<StartObject>> \o o, c)
  BY <1>2, <1>3, ReadOn
<1>9. Reads(<<>>, <<StartObject>> \o o \o t, c)
  BY <1>4, <1>8, ReadOn
<1>10. Reads(<<>>, <<StartObject>> \o o \o t \o Body(m, i), c)
  BY <1>5, <1>9, ReadOn
<1>11. Reads(<<>>, <<StartObject>> \o o \o t \o Body(m, i) \o <<EndObject>>, <<>>)
  BY <1>6, <1>10, ReadOn
<1>12. QED
  BY <1>7, <1>11, ReadJsonIs
-----------------------------------------------------------------------------
(* Wework messages.                                                        *)

(* emplace_back: the capacity of a vector of n articles that was filled    *)
(* one by one, and how often it has moved.                                 *)
Capacity(n) == IF n <= 2 THEN n ELSE IF n <= 4 THEN 4 ELSE 8
Moves(n) == IF n <= 2 THEN n ELSE IF n <= 4 THEN 3 ELSE 4

Grown(i) ==
  /\ Len(i.articles) <= 8
  /\ i.capacity = Capacity(Len(i.articles)) /\ i.moves = Moves(Len(i.articles))

(* The pointer is to an article there is, handed out when it was the last. *)
WeworkInv ==
  /\ WeworkTypeOK
  /\ \A n \in 1 .. Len(impls) : Grown(impls[n])
  /\ pointer.impl # 0 =>
       /\ pointer.index \in 1 .. Len(impls[pointer.impl].articles)
       /\ pointer.moves = Moves(pointer.index)

MessageType == [kind : Kinds \cup {"none"}, chatid : Strings, impl : Nat, raw : Strings]

LEMMA ImplIs ==
  ASSUME WeworkInv, NEW n \in 1 .. Len(impls)
  PROVE  LET i == impls[n] IN
         /\ i \in ImplType /\ Grown(i)
         /\ i.content \in Strings /\ i.mentioned \in Seq(Texts) /\ i.mobile \in Seq(Texts)
         /\ i.articles \in Seq(Article) /\ i.capacity \in Nat /\ i.moves \in Nat
         /\ i.attachments \in Seq(Seq(Strings))
<1>1. impls[n] \in ImplType /\ Grown(impls[n])
  BY DEF WeworkInv, WeworkTypeOK
<1>2. QED
  BY <1>1 DEF ImplType

LEMMA CalledIs ==
  ASSUME WeworkInv, NEW h \in Handle, NEW kinds, Calls(h, kinds), "none" \notin kinds
  PROVE  /\ message[h].impl \in 1 .. Len(impls) /\ ImplOf(h) = impls[message[h].impl]
         /\ written' \in 0 .. MaxBuilds
<1>1. message[h].kind # "none"
  BY DEF Calls
<1>2. message[h].impl \in DOMAIN impls
  BY <1>1 DEF WeworkInv, WeworkTypeOK, Built
<1>3. DOMAIN impls = 1 .. Len(impls)
  BY DEF WeworkInv, WeworkTypeOK
<1>4. written' \in 0 .. MaxBuilds
  BY WeworkAssumption DEF Calls, WeworkInv, WeworkTypeOK
<1>5. QED
  BY <1>2, <1>3, <1>4 DEF ImplOf

(* A call that changes a PImpl and takes no article from it.               *)
LEMMA UpdateStep ==
  ASSUME WeworkInv, NEW n \in 1 .. Len(impls), NEW i \in ImplType, Grown(i),
         Len(i.articles) >= Len(impls[n].articles),
         impls' = [impls EXCEPT ![n] = i], UNCHANGED message, written' \in 0 .. MaxBuilds,
         \/ UNCHANGED pointer
         \/ /\ pointer' = [impl |-> n, index |-> Len(i.articles), moves |-> i.moves,
                           wild |-> FALSE]
            /\ i.articles # <<>>
  PROVE  WeworkInv'
<1>1. /\ impls' \in Seq(ImplType) /\ Len(impls') = Len(impls) /\ impls'[n] = i
      /\ \A m \in 1 .. Len(impls) : m # n => impls'[m] = impls[m]
  BY ExceptSeq DEF WeworkInv, WeworkTypeOK
<1>2. DOMAIN impls = 1 .. Len(impls) /\ DOMAIN impls' = DOMAIN impls /\ Len(impls) \in Nat
  BY <1>1 DEF WeworkInv, WeworkTypeOK
<1>3. \A m \in 1 .. Len(impls') : Grown(impls'[m])
  BY <1>1 DEF WeworkInv
<1>4. \A m \in 1 .. Len(impls) : /\ Len(impls[m].articles) \in Nat
                                 /\ Len(impls'[m].articles) \in Nat
                                 /\ Len(impls'[m].articles) >= Len(impls[m].articles)
  <2>1. \A m \in 1 .. Len(impls) : Len(impls[m].articles) \in Nat
    <3>1. \A m \in 1 .. Len(impls) : impls[m].articles \in Seq(Article)
      BY ImplIs
    <3>2. QED
      BY <3>1
  <2>2. Len(i.articles) \in Nat
    BY DEF ImplType
  <2>3. QED
    BY <1>1, <2>1, <2>2
<1>5. CASE UNCHANGED pointer
  <2>1. pointer'.impl # 0 =>
          /\ pointer'.index \in 1 .. Len(impls'[pointer'.impl].articles)
          /\ pointer'.moves = Moves(pointer'.index)
    <3>1. ASSUME pointer.impl # 0
          PROVE  /\ pointer.impl \in 1 .. Len(impls)
                 /\ pointer.index \in 1 .. Len(impls[pointer.impl].articles)
                 /\ pointer.moves = Moves(pointer.index)
      BY <1>2, <3>1 DEF WeworkInv, WeworkTypeOK
    <3>2. ASSUME pointer.impl # 0
          PROVE  pointer.index \in 1 .. Len(impls'[pointer.impl].articles)
      <4>1. PICK m \in 1 .. Len(impls) : m = pointer.impl
        BY <3>1, <3>2
      <4>2. pointer.index \in 1 .. Len(impls[m].articles)
        BY <3>1, <3>2, <4>1
      <4>3. pointer.index \in 1 .. Len(impls'[m].articles)
        BY <1>4, <4>2
      <4>4. QED
        BY <4>1, <4>3
    <3>3. QED
      BY <1>5, <3>1, <3>2
  <2>2. WeworkTypeOK'
    BY <1>1, <1>2, <1>5 DEF WeworkInv, WeworkTypeOK, Built
  <2>3. QED
    BY <1>3, <2>1, <2>2 DEF WeworkInv
<1>6. CASE /\ pointer' = [impl |-> n, index |-> Len(i.articles), moves |-> i.moves,
                          wild |-> FALSE]
           /\ i.articles # <<>>
  <2>1. Len(i.articles) \in Nat \ {0} /\ i.moves \in Nat
    BY <1>6 DEF ImplType
  <2>2. /\ pointer'.impl = n /\ pointer'.index = Len(i.articles)
        /\ pointer'.moves = Moves(pointer'.index)
    BY <1>6 DEF Grown
  <2>3. pointer'.index \in 1 .. Len(impls'[pointer'.impl].articles)
    BY <1>1, <2>1, <2>2
  <2>4. WeworkTypeOK'
    BY <1>1, <1>2, <1>6, <2>1 DEF WeworkInv, WeworkTypeOK, Built
  <2>5. QED
    BY <1>3, <2>2, <2>3, <2>4 DEF WeworkInv
<1>7. QED
  BY <1>5, <1>6

LEMMA ArticleIsAdded ==
  ASSUME WeworkInv, NEW n \in 1 .. Len(impls), NEW article \in Article,
         Len(impls[n].articles) < MAX_ARTICLE_COUNT
  PROVE  LET i == WithArticle(impls[n], article) IN
         /\ i \in ImplType /\ Grown(i) /\ i.articles # <<>>
         /\ Len(i.articles) >= Len(impls[n].articles)
<1> DEFINE j == impls[n]
           i == WithArticle(j, article)
           k == Len(j.articles)
           a == Append(j.articles, article)
<1>1. /\ j \in ImplType /\ j.articles \in Seq(Article) /\ k \in Nat /\ k < 8
      /\ j.capacity = Capacity(k) /\ j.moves = Moves(k)
  BY ImplIs, WeworkAssumption DEF Grown
<1>2. a \in Seq(Article) /\ Len(a) = k + 1 /\ a # <<>>
  BY <1>1, AppendProperties
<1> HIDE DEF j, k, a
<1>3. CASE k < Capacity(k)
  <2>1. i = [j EXCEPT !.articles = a]
    BY <1>1, <1>3 DEF WithArticle, k, a
  <2>2. i \in ImplType /\ i.articles = a /\ i.capacity = j.capacity /\ i.moves = j.moves
    BY <1>1, <1>2, <2>1 DEF ImplType
  <2>3. k \in {3, 5, 6, 7}
    BY <1>1, <1>3 DEF Capacity
  <2>4. Capacity(k + 1) = Capacity(k) /\ Moves(k + 1) = Moves(k)
    BY <2>3 DEF Capacity, Moves
  <2>5. QED
    BY <1>1, <1>2, <2>2, <2>4 DEF Grown, j, k
<1>4. CASE ~(k < Capacity(k))
  <2>1. PICK c : c = IF j.capacity = 0 THEN 1 ELSE 2 * j.capacity
    OBVIOUS
  <2>2. i = [j EXCEPT !.articles = a, !.moves = j.moves + 1, !.capacity = c]
    BY <1>1, <1>4, <2>1 DEF WithArticle, k, a
  <2>3. k \in {0, 1, 2, 4}
    BY <1>1, <1>4 DEF Capacity
  <2>4. c = Capacity(k + 1) /\ j.moves + 1 = Moves(k + 1) /\ c \in Nat /\ j.moves + 1 \in Nat
    BY <1>1, <2>1, <2>3 DEF Capacity, Moves
  <2>5. i \in ImplType /\ i.articles = a /\ i.capacity = c /\ i.moves = j.moves + 1
    BY <1>1, <1>2, <2>2, <2>4 DEF ImplType
  <2>6. QED
    BY <1>1, <1>2, <2>4, <2>5 DEF Grown, j, k
<1>5. QED
  BY <1>3, <1>4

(* A change of the PImpl of a message by a call that adds no article.      *)
LEMMA FieldStep ==
  ASSUME WeworkInv, NEW h \in Handle, NEW kinds, Calls(h, kinds), "none" \notin kinds,
         NEW i \in ImplType, Update(h, i), UNCHANGED pointer,
         i.articles = ImplOf(h).articles, i.capacity = ImplOf(h).capacity,
         i.moves = ImplOf(h).moves
  PROVE  WeworkInv'
<1>1. PICK n : n = message[h].impl
  OBVIOUS
<1>2. n \in 1 .. Len(impls) /\ ImplOf(h) = impls[n] /\ written' \in 0 .. MaxBuilds
  BY <1>1, CalledIs
<1>3. Grown(i) /\ Len(i.articles) >= Len(impls[n].articles)
  <2>1. Grown(impls[n]) /\ Len(impls[n].articles) \in Nat
    BY <1>2, ImplIs
  <2>2. QED
    BY <1>2, <2>1 DEF Grown
<1>4. QED
  BY <1>1, <1>2, <1>3, UpdateStep DEF Update

LEMMA StayStep ==
  ASSUME WeworkInv, NEW h \in Handle, NEW kinds, Calls(h, kinds),
         UNCHANGED <<impls, message, pointer>>
  PROVE  WeworkInv'
<1>1. written' \in 0 .. MaxBuilds
  BY WeworkAssumption DEF Calls, WeworkInv, WeworkTypeOK
<1>2. QED
  BY <1>1 DEF WeworkInv, WeworkTypeOK, Built

(* A call that changes one of the objects.                                 *)
LEMMA ObjectStep ==
  ASSUME WeworkInv, NEW h \in Handle, NEW kinds, Calls(h, kinds), NEW m \in MessageType,
         m.kind # "none" => m.impl \in DOMAIN impls,
         message' = [message EXCEPT ![h] = m], UNCHANGED <<impls, pointer>>
  PROVE  WeworkInv'
<1>1. written' \in 0 .. MaxBuilds
  BY WeworkAssumption DEF Calls, WeworkInv, WeworkTypeOK
<1>2. message \in [Handle -> MessageType]
  BY DEF WeworkInv, WeworkTypeOK, MessageType
<1>3. /\ message' \in [Handle -> MessageType] /\ message'[h] = m
      /\ \A g \in Handle : g # h => message'[g] = message[g]
  BY <1>2
<1>4. \A g \in Handle : message'[g].kind # "none" => message'[g].impl \in DOMAIN impls
  BY <1>3 DEF WeworkInv, WeworkTypeOK, Built
<1>5. QED
  BY <1>1, <1>3, <1>4 DEF WeworkInv, WeworkTypeOK, MessageType, Built

LEMMA StringsAre ==
  Texts \subseteq Strings /\ <<>> \in Strings /\ Articles \subseteq Article
  /\ NoArticle \in Article
BY WeworkAssumption DEF Strings, Article, NoArticle

LEMMA NewStep ==
  ASSUME WeworkInv, NEW h \in Handle, NEW k \in Kinds, New(h, k)
  PROVE  WeworkInv'
<1> DEFINE m == [NoMessage EXCEPT !.kind = k, !.impl = Len(impls) + 1]
<1>1. /\ message \in [Handle -> MessageType] /\ impls \in Seq(ImplType) /\ Len(impls) \in Nat
      /\ DOMAIN impls = 1 .. Len(impls)
  BY DEF WeworkInv, WeworkTypeOK, MessageType
<1>2. m \in MessageType /\ m.impl = Len(impls) + 1
  <2>1. NoMessage \in MessageType
    BY StringsAre DEF NoMessage, MessageType
  <2>2. k \in Kinds \cup {"none"} /\ Len(impls) + 1 \in Nat
    BY <1>1
  <2>3. QED
    BY <2>1, <2>2 DEF MessageType
<1>3. Impl \in ImplType /\ Grown(Impl)
  BY StringsAre DEF Impl, ImplType, Grown, Capacity, Moves
<1>4. message' = [message EXCEPT ![h] = m] /\ impls' = Append(impls, Impl)
  BY DEF New
<1> HIDE DEF m
<1>5. /\ impls' \in Seq(ImplType) /\ Len(impls') = Len(impls) + 1
      /\ impls'[Len(impls) + 1] = Impl /\ \A i \in 1 .. Len(impls) : impls'[i] = impls[i]
  BY <1>1, <1>3, <1>4, AppendProperties
<1>6. DOMAIN impls' = 1 .. Len(impls) + 1 /\ DOMAIN impls \subseteq DOMAIN impls'
      /\ Len(impls) + 1 \in DOMAIN impls'
  BY <1>1, <1>5
<1>7. /\ message' \in [Handle -> MessageType] /\ message'[h] = m
      /\ \A g \in Handle : g # h => message'[g] = message[g]
  BY <1>1, <1>2, <1>4
<1>8. \A g \in Handle : message'[g].kind # "none" => message'[g].impl \in DOMAIN impls'
  BY <1>2, <1>6, <1>7 DEF WeworkInv, WeworkTypeOK, Built
<1>9. written' \in 0 .. MaxBuilds /\ pointer' = pointer
  BY WeworkAssumption DEF New, Calls, WeworkInv, WeworkTypeOK
<1>10. pointer' \in [impl : DOMAIN impls' \cup {0}, index : Nat, moves : Nat, wild : BOOLEAN]
  BY <1>6, <1>9 DEF WeworkInv, WeworkTypeOK
<1>11. WeworkTypeOK'
  BY <1>5, <1>7, <1>8, <1>9, <1>10 DEF WeworkTypeOK, MessageType, Built
<1>12. \A n \in 1 .. Len(impls') : Grown(impls'[n])
  <2>1. \A n \in 1 .. Len(impls') : n = Len(impls) + 1 \/ n \in 1 .. Len(impls)
    BY <1>1, <1>5
  <2>2. QED
    BY <1>3, <1>5, <2>1 DEF WeworkInv
<1>13. pointer.impl # 0 => pointer.impl \in 1 .. Len(impls) /\ impls'[pointer.impl] = impls[pointer.impl]
  BY <1>1, <1>5 DEF WeworkInv, WeworkTypeOK
<1>14. pointer'.impl # 0 =>
         /\ pointer'.index \in 1 .. Len(impls'[pointer'.impl].articles)
         /\ pointer'.moves = Moves(pointer'.index)
  BY <1>9, <1>13 DEF WeworkInv
<1>15. QED
  BY <1>11, <1>12, <1>14 DEF WeworkInv

LEMMA WriteStep ==
  ASSUME WeworkInv, NEW article \in Article, WriteArticle(article)
  PROVE  WeworkInv'
<1>1. /\ written' \in 0 .. MaxBuilds /\ UNCHANGED message /\ pointer.impl # 0
  BY WeworkAssumption DEF WriteArticle, WeworkInv, WeworkTypeOK
<1>2. CASE pointer.moves # impls[pointer.impl].moves
  <2>1. pointer' = [pointer EXCEPT !.wild = TRUE] /\ UNCHANGED impls
    BY <1>2 DEF WriteArticle
  <2>2. /\ pointer' \in [impl : DOMAIN impls \cup {0}, index : Nat, moves : Nat, wild : BOOLEAN]
        /\ pointer'.impl = pointer.impl /\ pointer'.index = pointer.index
        /\ pointer'.moves = pointer.moves
    BY <2>1 DEF WeworkInv, WeworkTypeOK
  <2>3. QED
    BY <1>1, <2>1, <2>2 DEF WeworkInv, WeworkTypeOK, Built
<1>3. CASE pointer.moves = impls[pointer.impl].moves
  <2>1. PICK n : n = pointer.impl
    OBVIOUS
  <2>2. PICK p : p = pointer.index
    OBVIOUS
  <2>3. n \in 1 .. Len(impls) /\ p \in 1 .. Len(impls[n].articles)
    BY <1>1, <2>1, <2>2 DEF WeworkInv, WeworkTypeOK
  <2>4. PICK j : j = impls[n]
    OBVIOUS
  <2> DEFINE a == [j.articles EXCEPT ![p] = article]
             i == [j EXCEPT !.articles = a]
  <2>5. j \in ImplType /\ j.articles \in Seq(Article) /\ Grown(j)
    BY <2>3, <2>4, ImplIs
  <2>6. a \in Seq(Article) /\ Len(a) = Len(j.articles)
    BY <2>3, <2>4, <2>5, ExceptSeq
  <2>7. impls' = [impls EXCEPT ![n] = i] /\ UNCHANGED pointer
    BY <1>3, <2>1, <2>2, <2>4 DEF WriteArticle
  <2> HIDE DEF a
  <2>8. i \in ImplType /\ Grown(i) /\ Len(i.articles) = Len(j.articles)
    BY <2>5, <2>6 DEF ImplType, Grown
  <2>9. Len(i.articles) >= Len(impls[n].articles)
    BY <2>4, <2>5, <2>8
  <2> HIDE DEF i
  <2>10. QED
    BY <1>1, <2>3, <2>7, <2>8, <2>9, UpdateStep
<1>4. QED
  BY <1>2, <1>3

LEMMA WeworkInvStep ==
  ASSUME WeworkInv, [WeworkNext]_weworkVars
  PROVE  WeworkInv'
<1>1. CASE UNCHANGED weworkVars
  BY <1>1 DEF weworkVars, WeworkInv, WeworkTypeOK, Built
<1>2. ASSUME NEW h \in Handle, NEW g \in Handle, Copy(h, g)
      PROVE  WeworkInv'
  <2>1. message[g] \in MessageType /\ message[g].impl \in DOMAIN impls
    BY <1>2 DEF Copy, WeworkInv, WeworkTypeOK, MessageType
  <2>2. QED
    BY <1>2, <2>1, ObjectStep DEF Copy
<1>3. ASSUME NEW h \in Handle, NEW t \in Strings, SetChatID(h, t) \/ SetRawImage(h, t)
      PROVE  WeworkInv'
  <2>1. message[h] \in MessageType /\ (message[h].kind # "none" => message[h].impl \in DOMAIN impls)
    BY DEF WeworkInv, WeworkTypeOK, MessageType, Built
  <2>2. CASE SetChatID(h, t)
    <3> DEFINE m == [message[h] EXCEPT !.chatid = t]
    <3>1. m \in MessageType /\ m.kind = message[h].kind /\ m.impl = message[h].impl
      BY <2>1 DEF MessageType
    <3>2. message' = [message EXCEPT ![h] = m] /\ Calls(h, Kinds) /\ UNCHANGED <<impls, pointer>>
      BY <2>2 DEF SetChatID
    <3> HIDE DEF m
    <3>3. QED
      BY <2>1, <3>1, <3>2, ObjectStep
  <2>3. CASE SetRawImage(h, t)
    <3> DEFINE m == [message[h] EXCEPT !.raw = t]
    <3>1. m \in MessageType /\ m.kind = message[h].kind /\ m.impl = message[h].impl
      BY <2>1 DEF MessageType
    <3>2. message' = [message EXCEPT ![h] = m] /\ Calls(h, {"image"}) /\ UNCHANGED <<impls, pointer>>
      BY <2>3 DEF SetRawImage
    <3> HIDE DEF m
    <3>3. QED
      BY <2>1, <3>1, <3>2, ObjectStep
  <2>4. QED
    BY <1>3, <2>2, <2>3
<1>4. ASSUME NEW h \in Handle, NEW t \in Texts, SetContent(h, t)
      PROVE  WeworkInv'
  <2>1. Calls(h, {"text", "markdown"}) /\ UNCHANGED pointer
    BY <1>4 DEF SetContent
  <2>2. CASE UNCHANGED <<impls, message>>
    BY <2>1, <2>2, StayStep
  <2>3. CASE Update(h, [ImplOf(h) EXCEPT !.content = t])
    <3>1. [ImplOf(h) EXCEPT !.content = t] \in ImplType
      BY <2>1, CalledIs, ImplIs, StringsAre DEF ImplType
    <3>2. QED
      BY <2>1, <2>3, <3>1, FieldStep, CalledIs, ImplIs DEF ImplType
  <2>4. QED
    BY <1>4, <2>2, <2>3 DEF SetContent
<1>5. ASSUME NEW h \in Handle, NEW t \in Texts, AddMentioned(h, t) \/ AddMentionedMobile(h, t)
      PROVE  WeworkInv'
  <2>1. Calls(h, {"text"}) /\ UNCHANGED pointer
    BY <1>5 DEF AddMentioned, AddMentionedMobile
  <2>2. PICK j : j = ImplOf(h)
    OBVIOUS
  <2>3. j \in ImplType /\ j.mentioned \in Seq(Texts) /\ j.mobile \in Seq(Texts)
    BY <2>1, <2>2, CalledIs, ImplIs
  <2>4. PICK a : a = Append(j.mentioned, t)
    OBVIOUS
  <2>5. PICK b : b = Append(j.mobile, t)
    OBVIOUS
  <2>6. a \in Seq(Texts) /\ b \in Seq(Texts)
    BY <2>3, <2>4, <2>5, AppendProperties
  <2>7. PICK i \in {[j EXCEPT !.mentioned = a], [j EXCEPT !.mobile = b]} : Update(h, i)
    BY <1>5, <2>2, <2>4, <2>5 DEF AddMentioned, AddMentionedMobile
  <2>8. /\ i \in ImplType /\ i.articles = j.articles /\ i.capacity = j.capacity
        /\ i.moves = j.moves
    BY <2>3, <2>6, <2>7 DEF ImplType
  <2>9. QED
    BY <2>1, <2>2, <2>7, <2>8, FieldStep
<1>6. ASSUME NEW h \in Handle, NEW x \in Articles, AddArticle(h, x)
      PROVE  WeworkInv'
  <2>1. Calls(h, {"news"}) /\ UNCHANGED pointer
    BY <1>6 DEF AddArticle
  <2>2. CASE UNCHANGED <<impls, message>>
    BY <2>1, <2>2, StayStep
  <2>3. CASE ~(Len(ImplOf(h).articles) >= MAX_ARTICLE_COUNT) /\ Update(h, WithArticle(ImplOf(h), x))
    <3>1. PICK n : n = message[h].impl
      OBVIOUS
    <3>2. n \in 1 .. Len(impls) /\ ImplOf(h) = impls[n] /\ written' \in 0 .. MaxBuilds
      BY <2>1, <3>1, CalledIs
    <3>3. Len(impls[n].articles) < MAX_ARTICLE_COUNT
      BY <2>3, <3>2, ImplIs, WeworkAssumption
    <3>4. PICK i : i = WithArticle(impls[n], x)
      OBVIOUS
    <3>5. i \in ImplType /\ Grown(i) /\ Len(i.articles) >= Len(impls[n].articles)
      BY <3>2, <3>3, <3>4, ArticleIsAdded, StringsAre
    <3>6. impls' = [impls EXCEPT ![n] = i] /\ UNCHANGED message
      BY <2>3, <3>1, <3>2, <3>4 DEF Update
    <3>7. QED
      BY <2>1, <3>2, <3>5, <3>6, UpdateStep
  <2>4. QED
    BY <1>6, <2>2, <2>3 DEF AddArticle
<1>7. ASSUME NEW h \in Handle, AddArticlePointer(h)
      PROVE  WeworkInv'
  <2>1. Calls(h, {"news"})
    BY <1>7 DEF AddArticlePointer
  <2>2. PICK n : n = message[h].impl
    OBVIOUS
  <2>3. n \in 1 .. Len(impls) /\ ImplOf(h) = impls[n] /\ written' \in 0 .. MaxBuilds
    BY <2>1, <2>2, CalledIs
  <2>4. PICK i : i = WithArticle(impls[n], NoArticle)
    OBVIOUS
  <2>5. /\ impls' = [impls EXCEPT ![n] = i] /\ UNCHANGED message
        /\ pointer' = [impl |-> n, index |-> Len(i.articles), moves |-> i.moves, wild |-> FALSE]
        /\ Len(impls[n].articles) < MAX_ARTICLE_COUNT
    BY <1>7, <2>2, <2>3, <2>4 DEF AddArticlePointer, Update
  <2>6. /\ i \in ImplType /\ Grown(i) /\ i.articles # <<>>
        /\ Len(i.articles) >= Len(impls[n].articles)
    BY <2>3, <2>4, <2>5, ArticleIsAdded, StringsAre
  <2>7. QED
    BY <2>3, <2>5, <2>6, UpdateStep
<1>8. ASSUME NEW h \in Handle, NEW t \in Strings,
             AddAttachment(h) \/ AddButtonAction(h) \/ SetReplaceText(h, t)
      PROVE  WeworkInv'
  <2>1. Calls(h, {"markdown"}) /\ UNCHANGED pointer
    BY <1>8 DEF AddAttachment, AddButtonAction, SetReplaceText
  <2>2. PICK j : j = ImplOf(h)
    OBVIOUS
  <2> DEFINE list == j.attachments
  <2>3. j \in ImplType /\ list \in Seq(Seq(Strings))
    BY <2>1, <2>2, CalledIs, ImplIs
  <2>4. ASSUME NEW n \in DOMAIN list
        PROVE  n \in 1 .. Len(list) /\ list[n] \in Seq(Strings)
    BY <2>3
  <2>5. PICK a : a \in Seq(Seq(Strings)) /\ Update(h, [j EXCEPT !.attachments = a])
    <3>1. CASE AddAttachment(h)
      <4>1. <<>> \in Seq(Strings)
        OBVIOUS
      <4>2. Append(list, <<>>) \in Seq(Seq(Strings))
        BY <2>3, <4>1, AppendProperties
      <4>3. Update(h, [j EXCEPT !.attachments = Append(list, <<>>)])
        BY <2>2, <3>1 DEF AddAttachment
      <4>4. QED
        BY <4>2, <4>3
    <3>2. CASE AddButtonAction(h)
      <4>1. PICK n \in DOMAIN list : Update(h, [j EXCEPT !.attachments[n] = Append(@, <<>>)])
        BY <2>2, <3>2 DEF AddButtonAction
      <4>2. Append(list[n], <<>>) \in Seq(Strings)
        BY <2>4, StringsAre, AppendProperties
      <4>3. [list EXCEPT ![n] = Append(list[n], <<>>)] \in Seq(Seq(Strings))
        BY <2>3, <2>4, <4>2, ExceptSeq
      <4>4. QED
        BY <4>1, <4>3
    <3>3. CASE SetReplaceText(h, t)
      <4>1. PICK n \in DOMAIN list : \E b \in DOMAIN list[n] :
              Update(h, [j EXCEPT !.attachments[n][b] = t])
        BY <2>2, <3>3 DEF SetReplaceText
      <4>2. PICK b \in DOMAIN list[n] : Update(h, [j EXCEPT !.attachments[n][b] = t])
        BY <4>1
      <4>3. b \in 1 .. Len(list[n])
        BY <2>4
      <4>4. [list[n] EXCEPT ![b] = t] \in Seq(Strings)
        BY <2>4, <4>3, StringsAre, ExceptSeq
      <4>5. [list EXCEPT ![n] = [list[n] EXCEPT ![b] = t]] \in Seq(Seq(Strings))
        BY <2>3, <2>4, <4>4, ExceptSeq
      <4>6. QED
        BY <4>2, <4>5
    <3>4. QED
      BY <1>8, <3>1, <3>2, <3>3
  <2>6. PICK i : i = [j EXCEPT !.attachments = a]
    OBVIOUS
  <2>7. /\ i \in ImplType /\ i.articles = j.articles /\ i.capacity = j.capacity
        /\ i.moves = j.moves
    BY <2>3, <2>5, <2>6 DEF ImplType
  <2>8. QED
    BY <2>1, <2>2, <2>5, <2>6, <2>7, FieldStep
<1>9. ASSUME NEW h \in Handle, SetHttpImage(h)
      PROVE  WeworkInv'
  BY <1>3, <1>9 DEF SetHttpImage, Strings
<1>10. Texts \subseteq Strings /\ <<>> \in Strings /\ Articles \subseteq Article
  BY StringsAre
<1>11. QED
  BY <1>1, <1>2, <1>3, <1>4, <1>5, <1>6, <1>7, <1>8, <1>9, <1>10, NewStep, WriteStep
     DEF WeworkNext

LEMMA WeworkInvAlways == WeworkSpec => []WeworkInv
<1>1. WeworkInit => WeworkInv
  <2> SUFFICES ASSUME WeworkInit
               PROVE  WeworkInv
    OBVIOUS
  <2>1. NoMessage \in MessageType /\ NoMessage.kind = "none"
    BY StringsAre DEF NoMessage, MessageType
  <2>2. message \in [Handle -> MessageType] /\ \A h \in Handle : message[h].kind = "none"
    BY <2>1 DEF WeworkInit
  <2>3. impls \in Seq(ImplType) /\ Len(impls) = 0 /\ written = 0
    BY DEF WeworkInit
  <2>4. pointer \in [impl : DOMAIN impls \cup {0}, index : Nat, moves : Nat, wild : BOOLEAN]
        /\ pointer.impl = 0
    BY DEF WeworkInit, NoPointer
  <2>5. WeworkTypeOK
    BY <2>2, <2>3, <2>4, WeworkAssumption DEF WeworkTypeOK, MessageType, Built
  <2>6. QED
    BY <2>3, <2>4, <2>5 DEF WeworkInv
<1>2. WeworkInv /\ [WeworkNext]_weworkVars => WeworkInv'
  BY WeworkInvStep
<1>3. QED
  BY <1>1, <1>2, PTL DEF WeworkSpec

(* AddArticle(void): the pointer it returns is good exactly for as long as *)
(* the vector holds no more articles than the least power of two the       *)
(* article fits in, whatever is called, through whichever copy.            *)
THEOREM PointersOutliveNoGrowth == WeworkSpec => []PointerOutlivesNoGrowth
<1>1. WeworkInv => PointerOutlivesNoGrowth
  <2> SUFFICES ASSUME WeworkInv, pointer.impl # 0
               PROVE  PointerOutlivesNoGrowth
    BY DEF PointerOutlivesNoGrowth
  <2>1. PICK k : k = pointer.impl
    OBVIOUS
  <2>2. PICK n : n = Len(impls[k].articles)
    OBVIOUS
  <2>3. PICK x : x = pointer.index
    OBVIOUS
  <2>4. k \in 1 .. Len(impls) /\ x \in 1 .. n /\ pointer.moves = Moves(x)
    BY <2>1, <2>2, <2>3 DEF WeworkInv, WeworkTypeOK
  <2>5. n \in 1 .. 8 /\ impls[k].moves = Moves(n) /\ x \in 1 .. 8
    <3>1. Grown(impls[k]) /\ impls[k].articles \in Seq(Article)
      BY <2>4, ImplIs
    <3>2. n \in Nat /\ n <= 8 /\ impls[k].moves = Moves(n)
      BY <2>2, <3>1 DEF Grown
    <3>3. QED
      BY <2>4, <3>2
  <2> DEFINE Fits(p) == p >= x /\ \A q \in {1, 2, 4, 8} : q >= x => p <= q
  <2>6. PICK f : f = CHOOSE p \in {1, 2, 4, 8} : Fits(p)
    OBVIOUS
  <2>7. f \in {1, 2, 4, 8} /\ Fits(f)
    <3>1. \E p \in {1, 2, 4, 8} : Fits(p)
      BY <2>5
    <3> HIDE DEF Fits
    <3>2. QED
      BY <2>6, <3>1, Zenon
  <2>8. f = Capacity(x)
    <3>1. x \in {1, 2, 3, 4, 5, 6, 7, 8}
      BY <2>5
    <3>2. QED
      BY <2>7, <3>1 DEF Capacity
  <2>9. Moves(x) = Moves(n) <=> n <= Capacity(x)
    BY <2>4, <2>5 DEF Moves, Capacity
  <2>10. QED
    BY <2>1, <2>2, <2>3, <2>4, <2>5, <2>6, <2>8, <2>9, ZenonT(40) DEF PointerOutlivesNoGrowth
<1>2. QED
  BY <1>1, WeworkInvAlways, PTL

(* Whatever a library builds, GetJson writes one JSON object: everything   *)
(* opened is closed and every name in an object has one value, for any     *)
(* kind, any texts and any number of articles, buttons and mentions.       *)
THEOREM JsonAlwaysWellFormed == WeworkSpec => []JsonIsWellFormed
<1>1. WeworkInv => JsonIsWellFormed
  <2>1. SUFFICES ASSUME WeworkInv, NEW h \in Handle, Built(h)
                 PROVE  ReadJson(GetJson(message[h], ImplOf(h))) = <<>>
    BY DEF JsonIsWellFormed
  <2>2. PICK n : n = message[h].impl
    OBVIOUS
  <2>3. n \in 1 .. Len(impls) /\ ImplOf(h) = impls[n]
    BY <2>1, <2>2 DEF WeworkInv, WeworkTypeOK, ImplOf
  <2>4. PICK i : i = impls[n]
    OBVIOUS
  <2>5. i.mentioned \in Seq(Texts) /\ i.mobile \in Seq(Texts)
        /\ i.articles \in Seq(Article) /\ i.attachments \in Seq(Seq(Strings))
    BY <2>1, <2>3, <2>4, ImplIs
  <2>6. PICK m : m = message[h]
    OBVIOUS
  <2>7. m.kind \in {"text", "news", "markdown", "image"}
    <3>1. message[h].kind \in Kinds \cup {"none"}
      BY <2>1 DEF WeworkInv, WeworkTypeOK
    <3>2. QED
      BY <2>1, <2>6, <3>1, WeworkAssumption DEF Built
  <2>8. Members(TextJson(i)) /\ Members(NewsJson(i)) /\ Members(MarkdownJson(i))
        /\ Members(ImageJson(m))
    BY <2>5, TextIsRead, NewsIsRead, MarkdownIsRead, ImageIsRead
  <2>9. Members(Body(m, i))
    BY <2>7, <2>8 DEF Body
  <2>10. QED
    BY <2>3, <2>4, <2>6, <2>9, GetJsonIsRead
<1>2. QED
  BY <1>1, WeworkInvAlways, PTL

-----------------------------------------------------------------------------
(* The HTTP requests, for any number of threads, hosts and calls.          *)

Environ == [set : BOOLEAN, items : Seq(Item)]

Types ==
  /\ ClientTypeOK
  /\ origin \in Environ
  /\ overlapped \in BOOLEAN
  /\ requests \in Nat

LEMMA NoAnswerIsNone == NoAnswer \notin Answers
  BY ClientAssumption DEF Answer, NoAnswer

LEMMA EmptyItem == <<"">> \in Seq(Item)
<1>1. \A x \in Item : <<x>> \in Seq(Item)
  OBVIOUS
<1>2. QED
  BY <1>1, ClientAssumption

LEMMA ReturnsInt ==
  ASSUME NEW a, NEW k \in Int
  PROVE  ReturnValue(a, k) \in Int
<1>1. NotJson \in Int /\ NoErrcode \in Int /\ NoErrmsg \in Int
  BY DEF NotJson, NoErrcode, NoErrmsg
<1>2. QED
  BY <1>1 DEF ReturnValue

LEMMA TypesStep == Types /\ [ClientNext]_clientVars => Types'
<1> SUFFICES ASSUME Types, [ClientNext]_clientVars
             PROVE  Types'
  OBVIOUS
<1> USE ClientAssumption DEF Types, ClientTypeOK, Environ
<1>1. ASSUME NEW c \in Caller, NEW h \in Hosts, NEW p \in BOOLEAN, Request(c, h, p)
      PROVE  Types'
  <2>1. PICK g \in Garbage : code' = [code EXCEPT ![c] = g]
    BY <1>1 DEF Request
  <2>2. cpc' \in [Caller -> {"idle", "get", "set", "perform", "restore", "answer", "aborted"}]
    BY <1>1 DEF Request, At
  <2>3. /\ proxy' \in [Caller -> BOOLEAN]
        /\ host' \in [Caller -> Hosts]
        /\ answer' \in [Caller -> Answers \cup {NoAnswer}]
    BY <1>1 DEF Request
  <2>4. code' \in [Caller -> Int] /\ requests' \in Nat
    <3>1. g \in Int
      OBVIOUS
    <3>2. requests' \in Nat
      <4>1. requests' = requests + 1 /\ requests \in Nat
        BY <1>1 DEF Request
      <4> HIDE DEF Types, ClientTypeOK, Environ
      <4>2. QED
        BY ONLY <4>1
    <3>3. code' \in [Caller -> Int]
      <4>1. code \in [Caller -> Int]
        OBVIOUS
      <4> HIDE DEF Types, ClientTypeOK, Environ
      <4>2. QED
        BY <2>1, <3>1, <4>1
    <3>4. QED
      BY <3>2, <3>3
  <2>5. UNCHANGED <<environ, origin, env_no_proxy, result, overlapped>>
    BY <1>1 DEF Request
  <2>6. QED
    BY <2>2, <2>3, <2>4, <2>5
<1>2. ASSUME NEW c \in Caller, Getenv(c)
      PROVE  Types'
  BY <1>2 DEF Getenv, At, Exempting
<1>3. ASSUME NEW c \in Caller, Setenv(c)
      PROVE  Types'
  <2> DEFINE e == env_no_proxy[c]
             copied == IF e.set /\ e.items = <<>> THEN <<"">> ELSE e.items
  <2>1. copied \in Seq(Item)
    BY EmptyItem
  <2>2. Append(copied, host[c]) \in Seq(Item)
    <3>1. host[c] \in Item
      OBVIOUS
    <3>2. QED
      BY <2>1, <3>1, AppendProperties
  <2>3. environ' = [set |-> TRUE, items |-> Append(copied, host[c])]
    BY <1>3 DEF Setenv
  <2>4. environ' \in Environ
    BY <2>2, <2>3
  <2>5. QED
    BY <1>3, <2>4 DEF Setenv, At
<1>4. ASSUME NEW c \in Caller, Perform(c)
      PROVE  Types'
  <2>1. CASE UNCHANGED <<code, answer>>
    BY <1>4, <2>1 DEF Perform, At
  <2>2. ASSUME NEW a \in Answers, answer' = [answer EXCEPT ![c] = a],
               code' = [code EXCEPT ![c] = a.code]
        PROVE  Types'
    <3>1. a.code \in Int
      BY DEF Answer
    <3>2. QED
      BY <1>4, <2>2, <3>1 DEF Perform, At
  <2>3. QED
    BY <1>4, <2>1, <2>2 DEF Perform
<1>5. ASSUME NEW c \in Caller, Restore(c)
      PROVE  Types'
  <2>1. environ' \in Environ
    BY <1>5 DEF Restore
  <2>2. QED
    BY <1>5, <2>1 DEF Restore, At
<1>6. ASSUME NEW c \in Caller, Return(c)
      PROVE  Types'
  <2>1. result' \in [Caller -> Int]
    <3>1. code[c] \in Int
      OBVIOUS
    <3>2. ReturnValue(answer[c], code[c]) \in Int
      BY <3>1, ReturnsInt
    <3>3. result' = result \/ result' = [result EXCEPT ![c] = ReturnValue(answer[c], code[c])]
      BY <1>6 DEF Return
    <3>4. QED
      BY <3>2, <3>3
  <2>2. cpc' \in [Caller -> {"idle", "get", "set", "perform", "restore", "answer", "aborted"}]
    BY <1>6, ZenonT(40) DEF Return, At
  <2>3. QED
    BY <1>6, <2>1, <2>2 DEF Return
<1>7. CASE UNCHANGED clientVars
  BY <1>7 DEF clientVars
<1> HIDE DEF Types, ClientTypeOK, Environ
<1>8. CASE ClientNext
  BY <1>1, <1>2, <1>3, <1>4, <1>5, <1>6, <1>8 DEF ClientNext
<1>9. QED
  BY <1>7, <1>8

LEMMA TypesAlways == ClientSpec => []Types
<1>1. ClientInit => Types
  <2> SUFFICES ASSUME ClientInit
               PROVE  Types
    OBVIOUS
  <2>1. environ \in Environ /\ origin \in Environ
    BY ClientAssumption DEF ClientInit, Environ
  <2>2. Unset \in Environ
    BY DEF Unset, Environ
  <2>3. host \in [Caller -> Hosts]
    BY ClientAssumption DEF ClientInit
  <2>4. /\ cpc = [c \in Caller |-> "idle"]
        /\ proxy = [c \in Caller |-> TRUE]
        /\ env_no_proxy = [c \in Caller |-> Unset]
        /\ code = [c \in Caller |-> 0]
        /\ answer = [c \in Caller |-> NoAnswer]
        /\ result = [c \in Caller |-> 0]
        /\ requests = 0 /\ overlapped = FALSE
    BY DEF ClientInit
  <2>5. ClientTypeOK
    BY <2>1, <2>2, <2>3, <2>4 DEF ClientTypeOK, Environ
  <2>6. QED
    BY <2>1, <2>4, <2>5 DEF Types
<1>2. Types /\ [ClientNext]_clientVars => Types'
  BY TypesStep
<1>3. QED
  BY <1>1, <1>2, PTL DEF ClientSpec

(* A step of one caller leaves the others where they are.                  *)
Step(c) ==
  \/ \E h \in Hosts, p \in BOOLEAN : Request(c, h, p)
  \/ Getenv(c) \/ Setenv(c) \/ Perform(c) \/ Restore(c) \/ Return(c)

Same(d) ==
  /\ cpc'[d] = cpc[d] /\ proxy'[d] = proxy[d] /\ host'[d] = host[d]
  /\ env_no_proxy'[d] = env_no_proxy[d]
  /\ code'[d] = code[d] /\ answer'[d] = answer[d] /\ result'[d] = result[d]

LEMMA OthersStay ==
  ASSUME Types, NEW c \in Caller, Step(c)
  PROVE  /\ \A d \in Caller : d # c => Same(d) /\ (Exempting(d)' <=> Exempting(d))
         /\ origin' = origin
<1>a. cpc \in [Caller -> {"idle", "get", "set", "perform", "restore", "answer", "aborted"}]
  BY DEF Types, ClientTypeOK
<1>1. ASSUME NEW d \in Caller, d # c
      PROVE  Same(d)
  <2>1. cpc'[d] = cpc[d]
    BY <1>a, <1>1 DEF Step, Request, Getenv, Setenv, Perform, Restore, Return, At
  <2>2. /\ proxy'[d] = proxy[d] /\ host'[d] = host[d]
        /\ env_no_proxy'[d] = env_no_proxy[d]
    BY <1>1 DEF Step, Request, Getenv, Setenv, Perform, Restore, Return, Types, ClientTypeOK
  <2>3. code'[d] = code[d] /\ answer'[d] = answer[d] /\ result'[d] = result[d]
    BY <1>1 DEF Step, Request, Getenv, Setenv, Perform, Restore, Return, Types, ClientTypeOK
  <2>4. QED
    BY <2>1, <2>2, <2>3 DEF Same
<1>2. origin' = origin
  BY DEF Step, Request, Getenv, Setenv, Perform, Restore, Return
<1>3. QED
  BY <1>1, <1>2 DEF Same, Exempting

(* What a step does to the caller that takes it. *)
LEMMA OwnStep ==
  ASSUME Types, NEW c \in Caller
  PROVE  /\ \A h \in Hosts, p \in BOOLEAN : Request(c, h, p) =>
              /\ cpc[c] = "idle" /\ cpc'[c] \in {"get", "perform", "answer"}
              /\ cpc'[c] = "get" => ~proxy'[c]
              /\ cpc'[c] = "perform" => proxy'[c]
         /\ Getenv(c) => cpc[c] = "get" /\ cpc'[c] = "set" /\ env_no_proxy'[c] = environ
         /\ Setenv(c) => cpc[c] = "set" /\ cpc'[c] = "perform"
         /\ Perform(c) => cpc[c] = "perform"
                            /\ cpc'[c] = IF proxy[c] THEN "answer" ELSE "restore"
         /\ Restore(c) => cpc[c] = "restore" /\ cpc'[c] = "answer"
         /\ Return(c) => cpc[c] = "answer" /\ cpc'[c] \in {"idle", "aborted"}
<1> USE DEF Types, ClientTypeOK, At
<1>1. ASSUME NEW h \in Hosts, NEW p \in BOOLEAN, Request(c, h, p)
      PROVE  /\ cpc[c] = "idle" /\ cpc'[c] \in {"get", "perform", "answer"}
             /\ cpc'[c] = "get" => ~proxy'[c]
             /\ cpc'[c] = "perform" => proxy'[c]
  <2>1. proxy'[c] = p
    BY <1>1 DEF Request
  <2>2. QED
    BY <1>1, <2>1 DEF Request
<1>2. Getenv(c) => cpc[c] = "get" /\ cpc'[c] = "set" /\ env_no_proxy'[c] = environ
  BY DEF Getenv
<1>3. Setenv(c) => cpc[c] = "set" /\ cpc'[c] = "perform"
  BY DEF Setenv
<1>4. Perform(c) => cpc[c] = "perform" /\ cpc'[c] = IF proxy[c] THEN "answer" ELSE "restore"
  BY DEF Perform
<1>5. Restore(c) => cpc[c] = "restore" /\ cpc'[c] = "answer"
  BY DEF Restore
<1>6. Return(c) => cpc[c] = "answer" /\ cpc'[c] \in {"idle", "aborted"}
  BY DEF Return
<1>7. QED
  BY <1>1, <1>2, <1>3, <1>4, <1>5, <1>6

(* no_proxy.  UsersItemsSurvive is inductive once it is said of the copies *)
(* as well: whichever call restores its copy, the user's items are in it.  *)
OnlyWithoutProxy == \A c \in Caller : cpc[c] \in {"get", "set", "restore"} => ~proxy[c]

ItemsInv ==
  /\ OnlyWithoutProxy
  /\ \A c \in Caller : Exempting(c) => IsPrefix(origin.items, env_no_proxy[c].items)
  /\ UsersItemsSurvive

LEMMA WithoutProxyStep ==
  ASSUME Types, OnlyWithoutProxy, NEW c \in Caller, Step(c)
  PROVE  OnlyWithoutProxy'
<1>1. \A d \in Caller : d # c => (cpc'[d] \in {"get", "set", "restore"} => ~proxy'[d])
  BY OthersStay DEF Same, OnlyWithoutProxy
<1>2. ~(\E h \in Hosts, p \in BOOLEAN : Request(c, h, p)) => proxy' = proxy
  BY DEF Step, Getenv, Setenv, Perform, Restore, Return
<1>3. cpc'[c] \in {"get", "set", "restore"} => ~proxy'[c]
  BY <1>2, OwnStep DEF Step, OnlyWithoutProxy
<1>4. QED
  BY <1>1, <1>3 DEF OnlyWithoutProxy

LEMMA PrefixOfAppend ==
  ASSUME NEW S, NEW s \in Seq(S), NEW t \in Seq(S), NEW x \in S, IsPrefix(s, t)
  PROVE  IsPrefix(s, Append(t, x))
<1>1. Len(s) \in Nat /\ Len(t) \in Nat /\ Len(s) <= Len(t)
  BY DEF IsPrefix
<1>2. /\ Append(t, x) \in Seq(S)
      /\ Len(Append(t, x)) = Len(t) + 1
      /\ \A i \in 1 .. Len(t) : Append(t, x)[i] = t[i]
  OBVIOUS
<1>3. SubSeq(Append(t, x), 1, Len(s)) = SubSeq(t, 1, Len(s))
  <2>1. \A i \in 1 .. Len(s) : Append(t, x)[i] = t[i]
    BY <1>1, <1>2
  <2>2. QED
    BY <1>1, <1>2, <2>1
<1>4. QED
  BY <1>1, <1>2, <1>3 DEF IsPrefix

LEMMA EmptyIsPrefix ==
  ASSUME NEW S, NEW t \in Seq(S)
  PROVE  IsPrefix(<<>>, t)
  BY DEF IsPrefix

LEMMA PrefixOfEmpty ==
  ASSUME NEW S, NEW s \in Seq(S), IsPrefix(s, <<>>)
  PROVE  s = <<>>
  BY DEF IsPrefix

LEMMA ItemsStep ==
  ASSUME Types, ItemsInv, NEW c \in Caller, Step(c)
  PROVE  ItemsInv'
<1>a. /\ origin.items \in Seq(Item) /\ environ.items \in Seq(Item)
      /\ \A d \in Caller : env_no_proxy[d].items \in Seq(Item)
  BY DEF Types, ClientTypeOK, Environ
<1>b. OnlyWithoutProxy /\ OnlyWithoutProxy'
  BY WithoutProxyStep DEF ItemsInv
<1>c. \A d \in Caller : Exempting(d) => IsPrefix(origin.items, env_no_proxy[d].items)
  BY DEF ItemsInv
<1>d. /\ origin' = origin
      /\ \A d \in Caller : d # c => (Exempting(d)' => Exempting(d))
                                      /\ env_no_proxy'[d] = env_no_proxy[d]
  BY OthersStay DEF Same
<1>1. SUFFICES /\ Exempting(c)' => IsPrefix(origin.items, env_no_proxy'[c].items)
               /\ IsPrefix(origin.items, environ'.items)
  <2>1. \A d \in Caller : Exempting(d)' => IsPrefix(origin.items, env_no_proxy'[d].items)
    BY <1>1, <1>c, <1>d
  <2>2. QED
    BY <1>1, <1>b, <1>d, <2>1 DEF ItemsInv, UsersItemsSurvive
<1>2. IsPrefix(origin.items, environ.items)
  BY DEF ItemsInv, UsersItemsSurvive
<1>3. CASE Getenv(c)
  BY <1>2, <1>3, OwnStep DEF Getenv
<1>4. CASE Setenv(c)
  <2> DEFINE e == env_no_proxy[c]
             copied == IF e.set /\ e.items = <<>> THEN <<"">> ELSE e.items
  <2>1. env_no_proxy' = env_no_proxy /\ environ'.items = Append(copied, host[c])
    BY <1>4 DEF Setenv
  <2>2. Exempting(c)
    BY <1>4, <1>b, OwnStep DEF Exempting, OnlyWithoutProxy
  <2>3. copied \in Seq(Item) /\ host[c] \in Item
    BY <1>a, EmptyItem, ClientAssumption DEF Types, ClientTypeOK
  <2>4. IsPrefix(origin.items, copied)
    <3>1. CASE e.set /\ e.items = <<>>
      <4>1. origin.items = <<>>
        BY <1>a, <1>c, <2>2, <3>1, PrefixOfEmpty
      <4>2. QED
        BY <2>3, <4>1, EmptyIsPrefix
    <3>2. CASE ~(e.set /\ e.items = <<>>)
      BY <1>c, <2>2, <3>2
    <3>3. QED
      BY <3>1, <3>2
  <2> HIDE DEF copied, e
  <2>5. IsPrefix(origin.items, Append(copied, host[c]))
    BY <1>a, <2>3, <2>4, PrefixOfAppend
  <2>6. QED
    BY <1>c, <2>1, <2>2, <2>5
<1>5. CASE Restore(c)
  <2>1. Exempting(c)
    BY <1>5, <1>b, OwnStep DEF Exempting, OnlyWithoutProxy
  <2>2. environ'.items = env_no_proxy[c].items
    BY <1>5 DEF Restore, Types, ClientTypeOK
  <2>3. ~Exempting(c)'
    BY <1>5, OwnStep DEF Exempting
  <2>4. QED
    BY <1>c, <2>1, <2>2, <2>3
<1>6. CASE Perform(c)
  <2>1. environ' = environ /\ env_no_proxy' = env_no_proxy /\ proxy' = proxy
    BY <1>6 DEF Perform
  <2>2. Exempting(c)' => Exempting(c)
    BY <1>6, <2>1, OwnStep DEF Exempting
  <2>3. QED
    BY <1>c, <1>2, <2>1, <2>2
<1>7. CASE Return(c)
  <2>1. environ' = environ /\ ~Exempting(c)'
    BY <1>7, OwnStep DEF Return, Exempting
  <2>2. QED
    BY <1>2, <2>1
<1>8. ASSUME NEW h \in Hosts, NEW p \in BOOLEAN, Request(c, h, p)
      PROVE  ~Exempting(c)' /\ environ' = environ
  <2>1. environ' = environ
    BY <1>8 DEF Request
  <2>2. QED
    BY <1>8, <2>1, OwnStep DEF Exempting
<1>9. QED
  BY <1>2, <1>3, <1>4, <1>5, <1>6, <1>7, <1>8 DEF Step

(* However many calls overlap, each restoring a copy that may hold another *)
(* call's host, the items the process started with stay in no_proxy.       *)
THEOREM UsersItemsAlwaysSurvive == ClientSpec => []UsersItemsSurvive
<1>1. ClientInit => ItemsInv
  <2> SUFFICES ASSUME ClientInit
               PROVE  ItemsInv
    OBVIOUS
  <2>1. environ.items \in Seq(Item) /\ origin = environ
    BY ClientAssumption DEF ClientInit
  <2>2. UsersItemsSurvive
    BY <2>1 DEF UsersItemsSurvive, IsPrefix
  <2>3. QED
    BY <2>2 DEF ClientInit, ItemsInv, OnlyWithoutProxy, Exempting
<1>2. Types /\ ItemsInv /\ [ClientNext]_clientVars => ItemsInv'
  <2> SUFFICES ASSUME Types, ItemsInv, [ClientNext]_clientVars
               PROVE  ItemsInv'
    OBVIOUS
  <2>1. CASE ClientNext
    <3>1. PICK c \in Caller : Step(c)
      BY <2>1 DEF ClientNext, Step
    <3>2. QED
      BY <3>1, ItemsStep
  <2>2. CASE UNCHANGED clientVars
    BY <2>2 DEF clientVars, ItemsInv, OnlyWithoutProxy, Exempting, UsersItemsSurvive
  <2>3. QED
    BY <2>1, <2>2
<1>3. ItemsInv => UsersItemsSurvive
  BY DEF ItemsInv
<1>4. QED
  BY <1>1, <1>2, <1>3, TypesAlways, PTL DEF ClientSpec

(* Borrowing.  Until two calls without a proxy overlap, at most one holds  *)
(* a copy, the copy is the variable as it was at the start (or unset for   *)
(* one that was empty), and so is the variable itself except between that  *)
(* call's two setenv.                                                      *)
BorrowInv ==
  /\ OnlyWithoutProxy
  /\ origin \in NoProxies
  /\ ~overlapped =>
       /\ \A c, d \in Caller : Exempting(c) /\ Exempting(d) => c = d
       /\ \A c \in Caller : Exempting(c) =>
            /\ PutBack(env_no_proxy[c])
            /\ cpc[c] = "set" => PutBack(environ)
            /\ cpc[c] = "perform" => host[c] \in Range(environ.items)
       /\ (\A c \in Caller : ~Exempting(c)) => PutBack(environ)

(* The last setenv or unsetenv of a call, from a copy that is good.        *)
LEMMA RestoredIsPutBack ==
  ASSUME Types, origin \in NoProxies, NEW e \in Environ, PutBack(e)
  PROVE  PutBack([e EXCEPT !.set = e.items # <<>>])
<1>1. CASE e.items = <<>>
  <2>1. (e.items # <<>>) = FALSE
    BY <1>1, Zenon
  <2>2. [e EXCEPT !.set = FALSE] = Unset
    <3>1. ASSUME NEW b
          PROVE  [e EXCEPT !.set = b] = [set |-> b, items |-> e.items]
      BY DEF Environ
    <3>2. QED
      BY <1>1, <3>1, Zenon DEF Unset
  <2>3. origin.items = <<>>
    BY <1>1 DEF PutBack
  <2>4. QED
    BY <2>1, <2>2, <2>3, Zenon DEF PutBack
<1>2. CASE e.items # <<>>
  <2>1. (e.items # <<>>) = TRUE
    BY <1>2, Zenon
  <2>2. e = origin
    BY <1>2 DEF PutBack, Unset
  <2>3. e.set \in BOOLEAN
    BY DEF Environ
  <2>4. ~e.set => e.items = <<>>
    <3>1. ~e.set => e = Unset
      BY <2>2, ClientAssumption, Zenon
    <3>2. QED
      BY <3>1 DEF Unset
  <2>5. e.set = TRUE
    BY <1>2, <2>3, <2>4
  <2>6. [e EXCEPT !.set = TRUE] = e
    BY <2>5 DEF Environ
  <2>7. QED
    BY <2>1, <2>2, <2>6, Zenon DEF PutBack
<1>3. QED
  BY <1>1, <1>2

LEMMA LastInRange ==
  ASSUME NEW S, NEW s \in Seq(S), NEW x \in S
  PROVE  x \in Range(Append(s, x))
<1>1. Append(s, x)[Len(s) + 1] = x /\ Len(s) + 1 \in DOMAIN Append(s, x)
  OBVIOUS
<1>2. QED
  BY <1>1 DEF Range

LEMMA BorrowStep ==
  ASSUME Types, BorrowInv, NEW c \in Caller, Step(c), ~overlapped'
  PROVE  BorrowInv'
<1>a. ~overlapped /\ origin' = origin
  <2>1. origin' = origin
    BY OthersStay
  <2>2. CASE Getenv(c)
    BY <2>1, <2>2 DEF Getenv
  <2>3. CASE ~Getenv(c)
    <3>1. overlapped' = overlapped
      BY <2>3 DEF Step, Request, Setenv, Perform, Restore, Return
    <3>2. QED
      BY <2>1, <3>1
  <2>4. QED
    BY <2>2, <2>3
<1>b. OnlyWithoutProxy /\ OnlyWithoutProxy'
  BY WithoutProxyStep DEF BorrowInv
<1>c. \A d \in Caller : d # c => Same(d) /\ (Exempting(d)' <=> Exempting(d))
  BY OthersStay
<1>1. CASE Exempting(c)' /\ Exempting(c)
  <2>1. \A d \in Caller : d # c => ~Exempting(d)'
    BY <1>1, <1>a, <1>c DEF BorrowInv
  <2>2. /\ Setenv(c) \/ Perform(c)
        /\ env_no_proxy' = env_no_proxy /\ host' = host
    <3>1. Setenv(c) \/ Perform(c)
      BY <1>1, OwnStep DEF Step, Exempting
    <3>2. QED
      BY <3>1 DEF Setenv, Perform
  <2>3. PutBack(env_no_proxy[c])' /\ cpc'[c] # "set"
    BY <1>1, <1>a, <2>2, OwnStep DEF BorrowInv, PutBack
  <2>4. ASSUME cpc'[c] = "perform"
        PROVE  host[c] \in Range(environ'.items)
    <3> DEFINE e == env_no_proxy[c]
               copied == IF e.set /\ e.items = <<>> THEN <<"">> ELSE e.items
    <3>1. environ'.items = Append(copied, host[c])
      <4>1. Setenv(c)
        BY <2>2, <2>4, OwnStep
      <4>2. environ' = [set |-> TRUE, items |-> Append(copied, host[c])]
        BY <4>1 DEF Setenv
      <4> HIDE DEF copied
      <4>3. QED
        BY <4>2
    <3>2. copied \in Seq(Item) /\ host[c] \in Item
      BY EmptyItem, ClientAssumption DEF Types, ClientTypeOK
    <3> HIDE DEF copied, e
    <3>3. QED
      BY <3>1, <3>2, LastInRange
  <2>5. QED
    BY <1>1, <1>a, <1>b, <2>1, <2>2, <2>3, <2>4 DEF BorrowInv
<1>2. CASE Exempting(c)' /\ ~Exempting(c)
  <2>1. Getenv(c)
    BY <1>2, OwnStep, <1>b DEF Step, Exempting, Setenv, Perform, Restore, Return, OnlyWithoutProxy
  <2>2. \A d \in Caller : ~Exempting(d)
    BY <1>a, <2>1 DEF Getenv
  <2>3. /\ PutBack(environ) /\ environ' = environ
        /\ env_no_proxy'[c] = environ /\ cpc'[c] = "set"
    BY <1>a, <2>1, <2>2, OwnStep DEF BorrowInv, Getenv
  <2>4. QED
    BY <1>2, <1>a, <1>b, <1>c, <2>2, <2>3 DEF BorrowInv, PutBack
<1>3. CASE ~Exempting(c)' /\ Exempting(c)
  <2>1. Restore(c)
    BY <1>3, OwnStep, <1>b DEF Step, Exempting, Getenv, Setenv, Perform, Return, OnlyWithoutProxy
  <2>2. environ' = [env_no_proxy[c] EXCEPT !.set = env_no_proxy[c].items # <<>>]
    BY <2>1 DEF Restore
  <2>3. \A d \in Caller : ~Exempting(d)'
    BY <1>3, <1>a, <1>c DEF BorrowInv
  <2>4. PutBack(environ)'
    <3>1. PutBack(env_no_proxy[c]) /\ env_no_proxy[c] \in Environ /\ origin \in NoProxies
      BY <1>3, <1>a DEF BorrowInv, Types, ClientTypeOK, Environ
    <3>2. PutBack([env_no_proxy[c] EXCEPT !.set = env_no_proxy[c].items # <<>>])
      BY <3>1, RestoredIsPutBack
    <3>3. QED
      BY <1>a, <2>2, <3>2 DEF PutBack
  <2>5. QED
    BY <1>a, <1>b, <2>3, <2>4 DEF BorrowInv
<1>4. CASE ~Exempting(c)' /\ ~Exempting(c)
  <2>1. environ' = environ
    <3>1. ~Setenv(c) /\ ~Restore(c)
      BY <1>4, <1>b, OwnStep DEF Exempting, OnlyWithoutProxy
    <3>2. QED
      BY <3>1 DEF Step, Request, Getenv, Perform, Return
  <2>2. \A d \in Caller : (Exempting(d)' <=> Exempting(d)) /\ (Exempting(d) => Same(d))
    BY <1>4, <1>c
  <2>3. QED
    BY <1>a, <1>b, <2>1, <2>2 DEF BorrowInv, Same, PutBack
<1>5. QED
  BY <1>1, <1>2, <1>3, <1>4

(* A request without a proxy gives no_proxy back as it was, set or not and *)
(* with the same items, except that a variable that was set and empty may  *)
(* be unset; and it is made with its host exempt.  All unless another such *)
(* request overlaps with one.                                              *)
THEOREM NoProxyIsAlwaysBorrowed == ClientSpec => []NoProxyIsBorrowed
<1>1. ClientInit => BorrowInv
  BY DEF ClientInit, BorrowInv, OnlyWithoutProxy, Exempting, PutBack
<1>2. Types /\ BorrowInv /\ [ClientNext]_clientVars => BorrowInv'
  <2> SUFFICES ASSUME Types, BorrowInv, [ClientNext]_clientVars
               PROVE  BorrowInv'
    OBVIOUS
  <2>1. CASE ClientNext
    <3>1. PICK c \in Caller : Step(c)
      BY <2>1 DEF ClientNext, Step
    <3>2. CASE overlapped'
      BY <3>1, <3>2, WithoutProxyStep, OthersStay DEF BorrowInv
    <3>3. CASE ~overlapped'
      BY <3>1, <3>3, BorrowStep
    <3>4. QED
      BY <3>2, <3>3
  <2>2. CASE UNCHANGED clientVars
    BY <2>2 DEF clientVars, BorrowInv, OnlyWithoutProxy, Exempting, Range, PutBack
  <2>3. QED
    BY <2>1, <2>2
<1>3. BorrowInv => NoProxyIsBorrowed
  BY DEF BorrowInv, NoProxyIsBorrowed
<1>4. QED
  BY <1>1, <1>2, <1>3, TypesAlways, PTL DEF ClientSpec

(* SendMessage.  Where an answer came, the code is that of the answer, and *)
(* what a call that has returned gave is the value of both.                *)
AnswerInv ==
  \A c \in Caller :
    answer[c] # NoAnswer =>
      /\ code[c] = answer[c].code
      /\ cpc[c] = "idle" /\ proxy[c] =>
           /\ result[c] = ReturnValue(answer[c], code[c])
           /\ ~Asserts(answer[c], code[c])

LEMMA NegativeIsNotZero ==
  ASSUME NEW k \in Int \ {0}, NEW v, v = -k
  PROVE  v # 0
  OBVIOUS

LEMMA CodesAreNotZero ==
  NotJson # 0 /\ NoErrcode # 0 /\ NoErrmsg # 0
  BY ONLY TRUE DEF NotJson, NoErrcode, NoErrmsg

LEMMA ValueOfCode ==
  ASSUME NEW a, NEW k \in Int, k # 200
  PROVE  ReturnValue(a, k) = -k
  BY DEF ReturnValue

LEMMA ValueOfNoJson ==
  ASSUME NEW a, NEW k, k = 200, a.body = "no JSON"
  PROVE  ReturnValue(a, k) # 0
<1>1. ReturnValue(a, k) = NotJson
  BY Zenon DEF ReturnValue
<1>2. QED
  BY <1>1, CodesAreNotZero

LEMMA ValueOfObject ==
  ASSUME NEW a, NEW k \in Int, k = 200, a.body = "object"
  PROVE  ReturnValue(a, k) = 0 <=> a.errcode = "0"
  BY CodesAreNotZero DEF ReturnValue

LEMMA ValueOfAnswer ==
  ASSUME NEW a \in Answer, ~Asserts(a, a.code)
  PROVE  ReturnValue(a, a.code) = 0 <=>
           a.code = 200 /\ a.body = "object" /\ a.errcode = "0"
<1>1. a.code \in Int \ {0} /\ a.body \in {"no JSON", "object", "other JSON"}
  BY DEF Answer
<1>2. CASE a.code # 200
  <2>1. ReturnValue(a, a.code) = -a.code
    BY ONLY <1>1, <1>2, ValueOfCode
  <2>2. ReturnValue(a, a.code) # 0
    BY ONLY <1>1, <2>1, NegativeIsNotZero
  <2>3. QED
    BY <1>2, <2>2
<1>3. CASE a.code = 200 /\ a.body = "no JSON"
  <2>1. ReturnValue(a, a.code) # 0
    BY ONLY <1>1, <1>3, ValueOfNoJson
  <2>2. QED
    BY <1>3, <2>1
<1>4. CASE a.code = 200 /\ a.body = "object"
  BY <1>4, ValueOfObject
<1>5. ~(a.code = 200 /\ a.body = "other JSON")
  BY DEF Asserts
<1>6. QED
  BY <1>1, <1>2, <1>3, <1>4, <1>5

LEMMA AnswerStep ==
  ASSUME Types, AnswerInv, NEW c \in Caller, Step(c)
  PROVE  AnswerInv'
<1>a. /\ answer \in [Caller -> Answers \cup {NoAnswer}] /\ code \in [Caller -> Int]
      /\ result \in [Caller -> Int]
  BY DEF Types, ClientTypeOK
<1>1. SUFFICES answer'[c] # NoAnswer =>
                 /\ code'[c] = answer'[c].code
                 /\ cpc'[c] = "idle" /\ proxy'[c] =>
                      /\ result'[c] = ReturnValue(answer'[c], code'[c])
                      /\ ~Asserts(answer'[c], code'[c])
  BY <1>1, OthersStay DEF AnswerInv, Same
<1>2. ASSUME NEW h \in Hosts, NEW p \in BOOLEAN, Request(c, h, p)
      PROVE  answer'[c] = NoAnswer
  BY <1>a, <1>2 DEF Request
<1>3. CASE Getenv(c) \/ Setenv(c) \/ Restore(c)
  <2>1. answer' = answer /\ code' = code
    BY <1>3 DEF Getenv, Setenv, Restore
  <2>2. cpc'[c] # "idle"
    BY <1>3, OwnStep
  <2>3. QED
    BY <2>1, <2>2 DEF AnswerInv
<1>4. CASE Perform(c)
  <2>1. cpc'[c] # "idle"
    BY <1>4, OwnStep
  <2>2. UNCHANGED <<code, answer>> \/ code'[c] = answer'[c].code
    BY <1>4, <1>a DEF Perform
  <2>3. QED
    BY <2>1, <2>2 DEF AnswerInv
<1>5. CASE Return(c)
  <2>1. answer' = answer /\ code' = code /\ proxy' = proxy
    BY <1>5 DEF Return
  <2>2. cpc'[c] = "idle" /\ proxy[c] =>
          /\ result'[c] = ReturnValue(answer[c], code[c])
          /\ ~Asserts(answer[c], code[c])
    BY <1>5, <1>a DEF Return, At, Types, ClientTypeOK
  <2>3. QED
    BY <2>1, <2>2 DEF AnswerInv
<1>6. QED
  BY <1>2, <1>3, <1>4, <1>5 DEF Step

(* SendMessage returns 0 for the messages the webhook has accepted, and    *)
(* for no others, as far as it was answered.                               *)
THEOREM ZeroAlwaysMeansAccepted == ClientSpec => []ZeroMeansAccepted
<1>1. ClientInit => AnswerInv
  BY DEF ClientInit, AnswerInv
<1>2. Types /\ AnswerInv /\ [ClientNext]_clientVars => AnswerInv'
  <2> SUFFICES ASSUME Types, AnswerInv, [ClientNext]_clientVars
               PROVE  AnswerInv'
    OBVIOUS
  <2>1. CASE ClientNext
    <3>1. PICK c \in Caller : Step(c)
      BY <2>1 DEF ClientNext, Step
    <3>2. QED
      BY <3>1, AnswerStep
  <2>2. CASE UNCHANGED clientVars
    BY <2>2 DEF clientVars, AnswerInv
  <2>3. QED
    BY <2>1, <2>2
<1>3. Types /\ AnswerInv => ZeroMeansAccepted
  <2> SUFFICES ASSUME Types, AnswerInv, NEW c \in Caller,
                      cpc[c] = "idle", proxy[c], answer[c] # NoAnswer
               PROVE  result[c] = 0 <=> /\ answer[c].code = 200 /\ answer[c].body = "object"
                                        /\ answer[c].errcode = "0"
    BY DEF ZeroMeansAccepted
  <2>1. answer[c] \in Answer
    BY ClientAssumption DEF Types, ClientTypeOK
  <2>2. result[c] = ReturnValue(answer[c], answer[c].code) /\ ~Asserts(answer[c], answer[c].code)
    BY DEF AnswerInv
  <2>3. QED
    BY <2>1, <2>2, ValueOfAnswer
<1>4. QED
  BY <1>1, <1>2, <1>3, TypesAlways, PTL DEF ClientSpec

-----------------------------------------------------------------------------
(* CronConfig.  The bit masks stand for the sets of documented values,     *)
(* after any calls and at every broken-down time.                          *)

LEMMA Ranges ==
  ASSUME NEW f \in Fields
  PROVE  /\ DocRange[f] \subseteq 0 .. Width[f] - 1
         /\ DocRange[f] \subseteq 0 .. 59
         /\ Width[f] \in {32, 64}
         /\ EVERY \notin DocRange[f]
  BY DEF DocRange, Width, Fields, EVERY

MaskInv ==
  \A f \in Fields : \A x \in DocRange[f] : x \in config[f] <=> x \in meant[f]

LEMMA MaskInit == Init => TypeOK /\ MaskInv
  BY Ranges DEF Init, TypeOK, MaskInv, EmptyConfig, Width, Fields

LEMMA MaskStep == TypeOK /\ MaskInv /\ [Next]_vars => (TypeOK /\ MaskInv)'
<1> SUFFICES ASSUME TypeOK, MaskInv, [Next]_vars
             PROVE  (TypeOK /\ MaskInv)'
  OBVIOUS
<1>1. ASSUME NEW f \in Fields, NEW x \in Value[f], SetField(f, x)
      PROVE  (TypeOK /\ MaskInv)'
  <2>1. x = EVERY \/ x \in DocRange[f]
    BY ScheduleAssumption
  <2>2. /\ config' = Set(config, f, x)
        /\ meant' = [meant EXCEPT ![f] = IF x = EVERY THEN DocRange[f] ELSE @ \cup {x}]
    BY <1>1 DEF SetField
  <2>3. DOMAIN config' = Fields /\ config' = [g \in Fields |-> config'[g]]
    BY <2>2 DEF Set, TypeOK
  <2>e. /\ config'[f] = IF x = EVERY THEN 0 .. Width[f] - 1 ELSE config[f] \cup {x}
        /\ meant'[f] = IF x = EVERY THEN DocRange[f] ELSE meant[f] \cup {x}
        /\ \A g \in Fields : g # f => config'[g] = config[g] /\ meant'[g] = meant[g]
    <3>1. config \in [Fields -> SUBSET (0 .. 63)] /\ meant \in [Fields -> SUBSET (0 .. 59)]
      BY DEF TypeOK
    <3>2. /\ config'[f] = (IF x = EVERY THEN 0 .. Width[f] - 1 ELSE config[f] \cup {x})
          /\ \A g \in Fields : g # f => config'[g] = config[g]
      BY <2>2, <3>1 DEF Set, SetBit
    <3>3. /\ meant'[f] = (IF x = EVERY THEN DocRange[f] ELSE meant[f] \cup {x})
          /\ \A g \in Fields : g # f => meant'[g] = meant[g]
      BY <2>2, <3>1
    <3>4. QED
      BY <3>2, <3>3
  <2>4. ASSUME NEW g \in Fields
        PROVE  config'[g] \subseteq 0 .. Width[g] - 1 /\ meant'[g] \subseteq DocRange[g]
    <3>1. CASE g # f
      BY <2>e, <3>1 DEF TypeOK
    <3>2. CASE g = f /\ x = EVERY
      BY <2>e, <3>2
    <3>3. CASE g = f /\ x # EVERY
      <4>1. x \in 0 .. Width[f] - 1
        BY <2>1, <3>3, Ranges
      <4>2. QED
        BY <2>1, <2>e, <3>3, <4>1 DEF TypeOK
    <3>4. QED
      BY <3>1, <3>2, <3>3
  <2>5. TypeOK'
    <3>1. \A g \in Fields : config'[g] \subseteq 0 .. 63
      BY <2>4, Ranges
    <3>2. \A g \in Fields : meant'[g] \subseteq 0 .. 59
      BY <2>4, Ranges
    <3>3. meant' = [g \in Fields |-> meant'[g]]
      BY <2>2 DEF TypeOK
    <3>4. QED
      BY <2>3, <2>4, <3>1, <3>2, <3>3 DEF TypeOK
  <2>6. MaskInv'
    <3> SUFFICES ASSUME NEW g \in Fields, NEW y \in DocRange[g]
                 PROVE  y \in config'[g] <=> y \in meant'[g]
      BY DEF MaskInv
    <3>1. y \in config[g] <=> y \in meant[g]
      BY DEF MaskInv
    <3>2. CASE g = f /\ x = EVERY
      BY <2>e, <3>2, Ranges
    <3>3. CASE g = f /\ x # EVERY
      BY <2>e, <3>1, <3>3
    <3>4. CASE g # f
      BY <2>e, <3>1, <3>4
    <3>5. QED
      BY <3>2, <3>3, <3>4
  <2>7. QED
    BY <2>5, <2>6
<1>2. ASSUME NEW f \in Fields, NEW x \in Value[f], ClearField(f, x)
      PROVE  (TypeOK /\ MaskInv)'
  <2>1. /\ config' = Clear(config, f, x)
        /\ meant' = [meant EXCEPT ![f] = @ \ {x}]
    BY <1>2 DEF ClearField
  <2>2. config' = [g \in Fields |-> config'[g]] /\ meant' = [g \in Fields |-> meant'[g]]
    BY <2>1 DEF Clear, TypeOK
  <2>e. /\ config'[f] = config[f] \ {x} /\ meant'[f] = meant[f] \ {x}
        /\ \A g \in Fields : g # f => config'[g] = config[g] /\ meant'[g] = meant[g]
    <3>1. config \in [Fields -> SUBSET (0 .. 63)] /\ meant \in [Fields -> SUBSET (0 .. 59)]
      BY DEF TypeOK
    <3>2. config'[f] = config[f] \ {x} /\ \A g \in Fields : g # f => config'[g] = config[g]
      BY <2>1, <3>1 DEF Clear, ClearBit
    <3>3. meant'[f] = meant[f] \ {x} /\ \A g \in Fields : g # f => meant'[g] = meant[g]
      BY <2>1, <3>1
    <3>4. QED
      BY <3>2, <3>3
  <2>3. ASSUME NEW g \in Fields
        PROVE  config'[g] \subseteq config[g] /\ meant'[g] \subseteq meant[g]
    <3>1. CASE g = f
      BY <2>e, <3>1
    <3>2. CASE g # f
      BY <2>e, <3>2
    <3>3. QED
      BY <3>1, <3>2
  <2>4. TypeOK'
    BY <2>2, <2>3 DEF TypeOK
  <2>5. MaskInv'
    <3> SUFFICES ASSUME NEW g \in Fields, NEW y \in DocRange[g]
                 PROVE  y \in config'[g] <=> y \in meant'[g]
      BY DEF MaskInv
    <3>1. CASE g = f
      BY <2>e, <3>1 DEF MaskInv
    <3>2. CASE g # f
      BY <2>e, <3>2 DEF MaskInv
    <3>3. QED
      BY <3>1, <3>2
  <2>6. QED
    BY <2>4, <2>5
<1>3. CASE UNCHANGED vars
  BY <1>3 DEF vars, TypeOK, MaskInv
<1>4. QED
  BY <1>1, <1>2, <1>3 DEF Next

(* The masks and the schedule keep their types. *)
THEOREM TypeCorrect == Spec => []TypeOK
<1>1. QED
  BY MaskInit, MaskStep, PTL DEF Spec

LEMMA MaskMeansSchedule ==
  ASSUME MaskInv, NEW t \in StructTm, t.tm_wday # 0
  PROVE  WillExecute(config, t) <=> MeantAt(meant, t)
<1>1. /\ t.tm_min \in DocRange["Minute"] /\ t.tm_hour \in DocRange["Hour"]
      /\ t.tm_mday \in DocRange["Day"] /\ t.tm_mon + 1 \in DocRange["Month"]
      /\ t.tm_wday \in DocRange["DayOfWeek"]
  BY DEF StructTm, DocRange, Fields
<1>2. (t.tm_wday + 7) % 7 = t.tm_wday
  BY DEF StructTm
<1>3. QED
  BY <1>1, <1>2 DEF MaskInv, WillExecute, GetBit, MeantAt, Fields

(* From Monday to Saturday every job runs exactly when its calls of Set    *)
(* and Clear mean it to, for every time and every sequence of calls.       *)
THEOREM JobsRunWhenMeant == Spec => []RunsWhenMeant
<1>1. MaskInv => RunsWhenMeant
  BY MaskMeansSchedule, ScheduleAssumption DEF RunsWhenMeant
<1>2. QED
  BY <1>1, MaskInit, MaskStep, PTL DEF Spec

-----------------------------------------------------------------------------
(* The SDK as a whole.                                                     *)

(* A behaviour of the SDK is one of each of its classes: what is proved of *)
(* a class on its own holds of it in any library.                          *)
THEOREM PartsAreRun == SdkSpec => Spec /\ CodecSpec /\ ClientSpec /\ WeworkSpec
<1>1. SdkInit => Init /\ CodecInit /\ ClientInit /\ WeworkInit
  BY DEF SdkInit
<1>2. [SdkNext]_sdkVars => [Next]_vars
  BY DEF SdkNext, sdkVars, UseCronConfig, UseTfcConfigCodec, UseBotEngine, UseWeworkMessage
<1>3. [SdkNext]_sdkVars => [CodecNext]_codecVars
  BY DEF SdkNext, sdkVars, UseCronConfig, UseTfcConfigCodec, UseBotEngine, UseWeworkMessage
<1>4. [SdkNext]_sdkVars => [ClientNext]_clientVars
  BY DEF SdkNext, sdkVars, UseCronConfig, UseTfcConfigCodec, UseBotEngine, UseWeworkMessage
<1>5. [SdkNext]_sdkVars => [WeworkNext]_weworkVars
  BY DEF SdkNext, sdkVars, UseCronConfig, UseTfcConfigCodec, UseBotEngine, UseWeworkMessage
<1>6. QED
  BY <1>1, <1>2, <1>3, <1>4, <1>5, PTL DEF SdkSpec, Spec, CodecSpec, ClientSpec, WeworkSpec

(* The state of every class keeps its type, whichever of them is called.   *)
THEOREM SdkTypeCorrect == SdkSpec => []SdkTypeOK
<1>1. SdkInit => part \in Parts
  BY DEF SdkInit
<1>2. part \in Parts /\ [SdkNext]_sdkVars => (part \in Parts)'
  BY DEF SdkNext, sdkVars, UseCronConfig, UseTfcConfigCodec, UseBotEngine, UseWeworkMessage
<1>3. SdkSpec => [](part \in Parts)
  BY <1>1, <1>2, PTL DEF SdkSpec
<1>4. part \in Parts /\ TypeOK /\ CodecTypeOK /\ Types /\ WeworkInv => SdkTypeOK
  BY DEF SdkTypeOK, Types, WeworkInv
<1>5. QED
  BY <1>3, <1>4, PartsAreRun, TypeCorrect, CodecTypeCorrect, TypesAlways, WeworkInvAlways, PTL

(* What holds of each class holds of a library that uses any of them, for  *)
(* any calls, texts and answers: the properties that TLC checks of the SDK *)
(* for a few.                                                              *)
THEOREM SdkCallsAreCorrect ==
  SdkSpec => /\ [](/\ RunsWhenMeant /\ StackFollowsSections /\ NoProxyIsBorrowed
                   /\ UsersItemsSurvive /\ ZeroMeansAccepted /\ JsonIsWellFormed
                   /\ PointerOutlivesNoGrowth /\ GeneratedReadsBack)
             /\ KeyEditsAreLocal /\ NewSectionIsFound
<1>1. QED
  BY PartsAreRun, JobsRunWhenMeant, StackAlwaysFollows, NoProxyIsAlwaysBorrowed,
     UsersItemsAlwaysSurvive, ZeroAlwaysMeansAccepted, JsonAlwaysWellFormed,
     PointersOutliveNoGrowth, GeneratedAlwaysReadsBack, KeyEditsStayLocal,
     NewSectionsAreFound, PTL
=============================================================================
