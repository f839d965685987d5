------------------------------ MODULE MsgCrypt ------------------------------
(***************************************************************************)
(* WXBizMsgCrypt: how a text is framed, padded, enciphered, written in     *)
(* base64 and signed, and how it is taken apart again.  A text is a        *)
(* sequence of bytes.  AES is an ideal cipher: under its own key a cipher  *)
(* gives back what went in, under another key any bytes.  A result is      *)
(* <<x>>, or Failed for any of the error codes.                            *)
(***************************************************************************)
EXTENDS Integers, Sequences, FiniteSets

CONSTANTS
  Radix,          \* values of a byte (256)
  EncodingKeys,   \* words of kEncodingKeySize base64 digits
  Scrambled       \* what the wrong AES key may make of a cipher

kAesKeySize == 32
kRandEncryptStrLen == 16
kMsgLen == 4
kMaxBase64Size == 1000000000
Byte == 0 .. Radix - 1

ASSUME RadixAssumption == Radix \in Nat /\ Radix > kAesKeySize
ASSUME ScrambledAssumption == Scrambled \subseteq Seq(Byte)

Failed == <<>>

-----------------------------------------------------------------------------
(* AES_CBCEncrypt and AES_CBCDecrypt.                                      *)

(* Mutant: a text that fills its blocks gets no padding. *)
PadToBlock(text) ==
  LET padding == (kAesKeySize - (Len(text) % kAesKeySize)) % kAesKeySize
  IN  text \o [i \in 1 .. padding |-> padding]

(* Every text gets at least one byte of padding, which tells how many. *)
Pad(text) ==
  LET padding == kAesKeySize - (Len(text) % kAesKeySize)
  IN  text \o [i \in 1 .. padding |-> padding]

Unpad(out) ==
  LET padding == out[Len(out)] IN
  IF padding > 0 /\ padding <= kAesKeySize /\ padding < Len(out)
  THEN <<SubSeq(out, 1, Len(out) - padding)>>
  ELSE Failed

AES_CBCEncrypt(text, key) ==
  IF text = <<>> THEN Failed ELSE <<[key |-> key, of |-> Pad(text)]>>

(* The set of results it may have. *)
AES_CBCDecrypt(cipher, key) ==
  IF Len(cipher.of) < kAesKeySize \/ Len(cipher.of) % kAesKeySize # 0 THEN {Failed}
  ELSE {Unpad(out) : out \in IF cipher.key = key THEN {cipher.of}
                             ELSE {s \in Scrambled : Len(s) = Len(cipher.of)}}

-----------------------------------------------------------------------------
(* EncodeBase64 and DecodeBase64: the text is the cipher it writes out,    *)
(* with its number of characters and of = signs at the end.                *)

EncodeBase64(cipher) ==
  LET n == Len(cipher.of) IN
  IF n = 0 \/ kMaxBase64Size < n THEN Failed
  ELSE <<[cipher |-> cipher, chars |-> 4 * ((n + 2) \div 3), equals |-> (3 - (n % 3)) % 3]>>

(* EVP_DecodeBlock turns four characters into three bytes, zeros for =. *)
DecodeBase64(text) ==
  LET size == 3 * (text.chars \div 4)
      block == text.cipher.of \o [i \in 1 .. text.equals |-> 0]
  IN  IF \/ text.chars = 0 \/ kMaxBase64Size < text.chars
         \/ text.chars % 4 # 0 \/ size <= text.equals
      THEN Failed
      ELSE <<[text.cipher EXCEPT !.of = SubSeq(block, 1, size - text.equals)]>>

(* GenAesKeyFromEncodingKey: 43 digits of base64 are the 32 bytes of a key; *)
(* which bytes does not matter, only which key.                            *)
GenAesKeyFromEncodingKey(word) == IF word \in EncodingKeys THEN <<word>> ELSE Failed

-----------------------------------------------------------------------------
(* ComputeSignature: SHA1 of the parts in sorted order, so it tells how    *)
(* often each part is there and not which is which; no part may be empty.  *)
ComputeSignature(token, timestamp, nonce, message) ==
  LET words == <<token, timestamp, nonce>> IN
  IF \E i \in 1 .. 3 : words[i] = <<>> THEN Failed
  ELSE <<[words |-> [w \in {words[i] : i \in 1 .. 3} |->
                       Cardinality({i \in 1 .. 3 : words[i] = w})],
          message |-> message]>>

(* The parameter of a URL that is given several times has its first value, *)
(* and is empty if it is not given: query[name] is the values in order.    *)
First(values) == IF values = <<>> THEN <<>> ELSE values[1]

(* Mutant: the signature is not compared. *)
ValidateAnything(query, token, message) ==
  ComputeSignature(token, First(query.timestamp), First(query.nonce), message) # Failed

ValidateSignature(query, token, message) ==
  LET signature == ComputeSignature(token, First(query.timestamp), First(query.nonce), message)
  IN  /\ signature # Failed
      /\ query.msg_signature # <<>>
      /\ query.msg_signature[1] = signature[1]

-----------------------------------------------------------------------------
(* The frame: random bytes, the length in network order, the message, and  *)
(* the id of the receiver.                                                 *)

(* The values of a uint32_t. *)
UInt32 == Radix * Radix * Radix * Radix

htonl(n) ==
  LET a == n \div Radix
      b == a \div Radix
      c == b \div Radix
  IN  <<c % Radix, b % Radix, a % Radix, n % Radix>>

ntohl(b) == ((b[1] * Radix + b[2]) * Radix + b[3]) * Radix + b[4]

GenNeedEncryptData(reply, rand, receiver) ==
  rand \o htonl(Len(reply)) \o reply \o receiver

(* std::string::substr from a position within the text, clamped to its end. *)
Substr(text, from, n) ==
  SubSeq(text, from + 1, IF from + n > Len(text) THEN Len(text) ELSE from + n)

(* The message of a frame and what follows it.  The sum of the sizes is a  *)
(* uint32_t: a length near its end wraps around and passes the test.       *)
Unframe(text) ==
  LET head == kRandEncryptStrLen + kMsgLen
      length == ntohl(SubSeq(text, kRandEncryptStrLen + 1, head))
      sum == (head + length) % UInt32
  IN  IF Len(text) <= head \/ Len(text) < sum THEN Failed
      ELSE <<[message |-> Substr(text, head, length),
              receiver |-> Substr(text, sum, Len(text))]>>

-----------------------------------------------------------------------------
(* The results DecryptMsg and VerifyURL may have for the message encrypted *)
(* in the request, which is the first of none or one.                      *)
Frames(query, encrypted, token, key) ==
  IF encrypted = <<>> \/ ~ValidateSignature(query, token, encrypted[1]) THEN {Failed}
  ELSE LET data == DecodeBase64(encrypted[1])
           aes == GenAesKeyFromEncodingKey(key)
       IN  IF data = Failed \/ aes = Failed THEN {Failed}
           ELSE {IF plain = Failed THEN Failed ELSE Unframe(plain[1]) :
                   plain \in AES_CBCDecrypt(data[1], aes[1])}

(* The id of the receiver is not looked at. *)
DecryptMsg(query, encrypted, token, key) ==
  {IF frame = Failed THEN Failed ELSE <<frame[1].message>> :
     frame \in Frames(query, encrypted, token, key)}

(* The reply is assigned before the id of the receiver is compared: the    *)
(* caller, which only logs the code, has it also if the ids differ.        *)
VerifyURL(query, token, key) ==
  {IF frame = Failed THEN <<>> ELSE frame[1].message :
     frame \in Frames(query, query.echostr, token, key)}

(* The XML of GenReturnXml, as a record of its fields. *)
EncryptMsg(reply, rand, query, token, key, receiver) ==
  LET aes == GenAesKeyFromEncodingKey(key)
      cipher == AES_CBCEncrypt(GenNeedEncryptData(reply, rand, receiver), aes[1])
      text == EncodeBase64(cipher[1])
      signature == ComputeSignature(token, First(query.timestamp), First(query.nonce), text[1])
  IN  IF reply = <<>> \/ aes = Failed \/ cipher = Failed \/ text = Failed \/ signature = Failed
      THEN Failed
      ELSE <<[Encrypt |-> text[1], MsgSignature |-> signature[1],
              TimeStamp |-> First(query.timestamp), Nonce |-> First(query.nonce)]>>
=============================================================================
