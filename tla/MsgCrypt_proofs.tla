-------------------------- MODULE MsgCrypt_proofs --------------------------
(***************************************************************************)
(* What EncryptMsg does to a text DecryptMsg undoes, for every text: the   *)
(* padding, base64, and the frame.  TLC sees it for a few texts only.      *)
(***************************************************************************)
EXTENDS MsgCrypt, SequenceTheorems, TLAPS

-----------------------------------------------------------------------------
(* The padding.                                                            *)

Padding(text) == kAesKeySize - (Len(text) % kAesKeySize)

LEMMA PaddingFillsBlock ==
  ASSUME NEW n \in Nat
  PROVE  /\ 32 - (n % 32) \in 1 .. 32
         /\ (n + (32 - (n % 32))) % 32 = 0
         /\ n + (32 - (n % 32)) >= 32
<1>1. n = 32 * (n \div 32) + (n % 32) /\ n % 32 \in 0 .. 31 /\ n \div 32 \in Nat
  OBVIOUS
<1>2. \A q \in Nat : (32 * (q + 1)) % 32 = 0 /\ 32 * (q + 1) >= 32
  OBVIOUS
<1>3. n + (32 - (n % 32)) = 32 * ((n \div 32) + 1)
  BY <1>1
<1>4. QED
  BY <1>1, <1>2, <1>3

LEMMA PaddingRange ==
  ASSUME NEW text \in Seq(Byte)
  PROVE  /\ Padding(text) \in 1 .. kAesKeySize
         /\ Padding(text) \in Byte
         /\ (Len(text) + Padding(text)) % kAesKeySize = 0
         /\ Len(text) + Padding(text) >= kAesKeySize
<1>1. Len(text) \in Nat
  OBVIOUS
<1>2. /\ Padding(text) \in 1 .. kAesKeySize
      /\ (Len(text) + Padding(text)) % kAesKeySize = 0
      /\ Len(text) + Padding(text) >= kAesKeySize
  BY <1>1, PaddingFillsBlock DEF Padding, kAesKeySize
<1>3. 1 .. kAesKeySize \subseteq Byte
  BY RadixAssumption DEF kAesKeySize, Byte
<1>4. QED
  BY <1>2, <1>3

(* A padded text is the text and its padding, in whole blocks. *)
LEMMA PadIs ==
  ASSUME NEW text \in Seq(Byte)
  PROVE  /\ Pad(text) \in Seq(Byte)
         /\ Len(Pad(text)) = Len(text) + Padding(text)
         /\ \A i \in 1 .. Len(text) : Pad(text)[i] = text[i]
         /\ Pad(text)[Len(Pad(text))] = Padding(text)
<1> DEFINE p == Padding(text)
           tail == [i \in 1 .. p |-> p]
<1>1. p \in 1 .. kAesKeySize /\ p \in Byte /\ Len(text) \in Nat
  BY PaddingRange
<1>2. tail \in Seq(Byte) /\ Len(tail) = p /\ tail[p] = p
  <2> HIDE DEF p
  <2>1. QED
    BY <1>1 DEF kAesKeySize
<1>3. Pad(text) = text \o tail
  BY DEF Pad, Padding
<1> HIDE DEF p, tail
<1>4. /\ text \o tail \in Seq(Byte)
      /\ Len(text \o tail) = Len(text) + p
      /\ \A i \in 1 .. Len(text) : (text \o tail)[i] = text[i]
      /\ (text \o tail)[Len(text) + p] = tail[p]
  BY <1>1, <1>2 DEF kAesKeySize
<1>5. QED
  BY <1>2, <1>3, <1>4 DEF p

LEMMA PrefixOfConcat ==
  ASSUME NEW S, NEW s \in Seq(S), NEW t \in Seq(S),
         Len(s) <= Len(t), \A i \in 1 .. Len(s) : t[i] = s[i]
  PROVE  SubSeq(t, 1, Len(s)) = s
<1>1. /\ Len(s) \in Nat /\ SubSeq(t, 1, Len(s)) \in Seq(S)
      /\ Len(SubSeq(t, 1, Len(s))) = Len(s)
      /\ \A i \in 1 .. Len(s) : SubSeq(t, 1, Len(s))[i] = t[i]
  OBVIOUS
<1>2. QED
  BY <1>1, SeqEqual

LEMMA UnpadPad ==
  ASSUME NEW text \in Seq(Byte), text # <<>>
  PROVE  Unpad(Pad(text)) = <<text>>
<1> DEFINE p == Padding(text)
           out == Pad(text)
<1>1. /\ out \in Seq(Byte) /\ Len(out) = Len(text) + p /\ out[Len(out)] = p
      /\ \A i \in 1 .. Len(text) : out[i] = text[i]
      /\ p \in 1 .. kAesKeySize
      /\ Len(text) \in Nat \ {0}
  BY PadIs, PaddingRange, EmptySeq
<1>2. SubSeq(out, 1, Len(text)) = text
  <2> HIDE DEF p, out
  <2>1. Len(text) <= Len(out)
    BY <1>1 DEF kAesKeySize
  <2>2. QED
    BY <1>1, <2>1, PrefixOfConcat
<1>3. Len(out) - p = Len(text) /\ p > 0 /\ p <= kAesKeySize /\ p < Len(out)
  <2> HIDE DEF p, out
  <2>1. QED
    BY <1>1 DEF kAesKeySize
<1>4. QED
  BY <1>1, <1>2, <1>3 DEF Unpad

(* AES_CBCDecrypt gives back any text but the empty one that AES_CBCEncrypt*)
(* has enciphered under the same key, however it fills its blocks.         *)
THEOREM CipherRoundTrip ==
  ASSUME NEW text \in Seq(Byte), text # <<>>, NEW key
  PROVE  AES_CBCDecrypt(AES_CBCEncrypt(text, key)[1], key) = {<<text>>}
<1> DEFINE cipher == [key |-> key, of |-> Pad(text)]
<1>1. AES_CBCEncrypt(text, key)[1] = cipher
  BY DEF AES_CBCEncrypt
<1>2. Len(Pad(text)) % kAesKeySize = 0 /\ Len(Pad(text)) >= kAesKeySize
  <2>1. Len(Pad(text)) = Len(text) + Padding(text)
    BY PadIs
  <2>2. QED
    BY <2>1, PaddingRange
<1>3. AES_CBCDecrypt(cipher, key) = {Unpad(out) : out \in {Pad(text)}}
  BY <1>2, PadIs DEF AES_CBCDecrypt, kAesKeySize
<1>4. QED
  BY <1>1, <1>3, UnpadPad

-----------------------------------------------------------------------------
(* Base64.                                                                 *)

(* DecodeBase64 undoes EncodeBase64, whatever the number of = signs, up to *)
(* the largest text it takes.                                              *)
THEOREM Base64RoundTrip ==
  ASSUME NEW key, NEW bytes \in Seq(Byte), bytes # <<>>,
         4 * ((Len(bytes) + 2) \div 3) <= kMaxBase64Size
  PROVE  LET cipher == [key |-> key, of |-> bytes]
         IN  EncodeBase64(cipher) # Failed /\ DecodeBase64(EncodeBase64(cipher)[1]) = <<cipher>>
<1> DEFINE n == Len(bytes)
           cipher == [key |-> key, of |-> bytes]
           chars == 4 * ((n + 2) \div 3)
           equals == (3 - (n % 3)) % 3
           text == [cipher |-> cipher, chars |-> chars, equals |-> equals]
           zeros == [i \in 1 .. equals |-> 0]
           size == 3 * (chars \div 4)
<1>1. n \in Nat \ {0}
  BY EmptySeq
<1>2. EncodeBase64(cipher) = <<text>>
  <2>1. n <= chars
    <3> HIDE DEF n
    <3>1. QED
      BY <1>1
  <2>2. n # 0 /\ n <= kMaxBase64Size
    BY <1>1, <2>1 DEF kMaxBase64Size
  <2>3. QED
    BY <1>1, <2>2 DEF EncodeBase64, kMaxBase64Size
<1>3. /\ chars \in Nat \ {0} /\ chars % 4 = 0 /\ equals \in 0 .. 2
      /\ size - equals = n /\ size > equals
  <2> HIDE DEF n
  <2>1. QED
    BY <1>1
<1>4. SubSeq(bytes \o zeros, 1, n) = bytes
  <2>1. zeros \in Seq(Byte)
    <3>1. 0 \in Byte
      BY RadixAssumption DEF Byte, kAesKeySize
    <3> HIDE DEF equals
    <3>2. QED
      BY <1>3, <3>1
  <2> HIDE DEF zeros
  <2>2. bytes \o zeros \in Seq(Byte) /\ Len(bytes) <= Len(bytes \o zeros)
    BY <2>1
  <2>3. \A i \in 1 .. Len(bytes) : (bytes \o zeros)[i] = bytes[i]
    BY <2>1
  <2>4. QED
    BY <2>2, <2>3, PrefixOfConcat
<1>5. DecodeBase64(text) = <<[cipher EXCEPT !.of = SubSeq(bytes \o zeros, 1, n)]>>
  <2> HIDE DEF n, chars, equals
  <2>1. text.chars = chars /\ text.equals = equals /\ text.cipher = cipher /\ cipher.of = bytes
    OBVIOUS
  <2>2. ~(chars = 0 \/ kMaxBase64Size < chars \/ chars % 4 # 0 \/ size <= equals)
    BY <1>3 DEF kMaxBase64Size, chars, n
  <2>3. QED
    BY <1>3, <2>1, <2>2 DEF DecodeBase64
<1>6. QED
  BY <1>2, <1>4, <1>5 DEF Failed

-----------------------------------------------------------------------------
(* The whole way.                                                          *)

(* A text that was enciphered under a key and written in base64, as        *)
(* EncryptMsg does, is what DecryptMsg's DecodeBase64 and AES_CBCDecrypt   *)
(* make of it under that key.                                              *)
THEOREM SealedTextOpens ==
  ASSUME NEW text \in Seq(Byte), text # <<>>, NEW key,
         4 * ((Len(Pad(text)) + 2) \div 3) <= kMaxBase64Size
  PROVE  LET sealed == EncodeBase64(AES_CBCEncrypt(text, key)[1])[1]
         IN  AES_CBCDecrypt(DecodeBase64(sealed)[1], key) = {<<text>>}
<1> DEFINE cipher == [key |-> key, of |-> Pad(text)]
<1>1. AES_CBCEncrypt(text, key)[1] = cipher
  BY DEF AES_CBCEncrypt
<1>2. Pad(text) \in Seq(Byte) /\ Pad(text) # <<>>
  <2>1. Len(Pad(text)) # 0
    BY PadIs, PaddingRange DEF kAesKeySize
  <2>2. QED
    BY <2>1, PadIs
<1>3. DecodeBase64(EncodeBase64(cipher)[1]) = <<cipher>>
  BY <1>2, Base64RoundTrip
<1>4. AES_CBCDecrypt(cipher, key) = {<<text>>}
  BY <1>1, CipherRoundTrip
<1>5. QED
  BY <1>1, <1>3, <1>4

(* The part of a text between two others is found by its place. *)
LEMMA MiddleOfConcat ==
  ASSUME NEW S, NEW a \in Seq(S), NEW b \in Seq(S), NEW c \in Seq(S)
  PROVE  LET s == a \o b \o c IN
         /\ s \in Seq(S) /\ Len(s) = Len(a) + Len(b) + Len(c)
         /\ SubSeq(s, Len(a) + 1, Len(a) + Len(b)) = b
<1> DEFINE s == a \o b \o c
           m == SubSeq(s, Len(a) + 1, Len(a) + Len(b))
<1>1. /\ Len(a) \in Nat /\ Len(b) \in Nat /\ Len(c) \in Nat
      /\ a \o b \in Seq(S) /\ Len(a \o b) = Len(a) + Len(b)
      /\ \A i \in 1 .. Len(b) : (a \o b)[Len(a) + i] = b[i]
  OBVIOUS
<1>2. /\ s \in Seq(S) /\ Len(s) = Len(a) + Len(b) + Len(c)
      /\ \A i \in 1 .. Len(a) + Len(b) : s[i] = (a \o b)[i]
  BY <1>1
<1>3. \A i \in 1 .. Len(b) : s[Len(a) + i] = b[i]
  BY <1>1, <1>2
<1> HIDE DEF s
<1>4. /\ m \in Seq(S) /\ Len(m) = Len(b)
      /\ \A i \in 1 .. Len(b) : m[i] = s[Len(a) + i]
  BY <1>1, <1>2
<1>5. m = b
  <2> HIDE DEF m
  <2>1. QED
    BY <1>3, <1>4, SeqEqual
<1>6. QED
  BY <1>2, <1>5 DEF s

(* The two parts in the middle of four. *)
LEMMA MiddlesOfConcat ==
  ASSUME NEW S, NEW a \in Seq(S), NEW b \in Seq(S), NEW c \in Seq(S), NEW d \in Seq(S)
  PROVE  LET s == a \o b \o c \o d IN
         /\ s \in Seq(S) /\ Len(s) = Len(a) + Len(b) + Len(c) + Len(d)
         /\ SubSeq(s, Len(a) + 1, Len(a) + Len(b)) = b
         /\ SubSeq(s, Len(a) + Len(b) + 1, Len(a) + Len(b) + Len(c)) = c
<1>1. a \o b \in Seq(S) /\ c \o d \in Seq(S) /\ Len(a \o b) = Len(a) + Len(b)
  OBVIOUS
<1>2. (a \o b) \o (c \o d) = a \o b \o c \o d
  BY ONLY <1>1, ConcatAssociative, c \in Seq(S), d \in Seq(S)
<1>3. SubSeq((a \o b) \o (c \o d), Len(a) + 1, Len(a) + Len(b)) = b
  BY ONLY <1>1, MiddleOfConcat, a \in Seq(S), b \in Seq(S)
<1>4. /\ a \o b \o c \o d \in Seq(S)
      /\ Len(a \o b \o c \o d) = Len(a \o b) + Len(c) + Len(d)
      /\ SubSeq(a \o b \o c \o d, Len(a \o b) + 1, Len(a \o b) + Len(c)) = c
  BY ONLY <1>1, MiddleOfConcat, c \in Seq(S), d \in Seq(S)
<1>5. QED
  BY <1>1, <1>2, <1>3, <1>4

-----------------------------------------------------------------------------
(* The frame.                                                              *)

LEMMA QuotientIsLess ==
  ASSUME NEW r \in Nat \ {0}, NEW n \in Nat, NEW b \in Nat, n < r * b
  PROVE  n \div r \in Nat /\ n \div r < b /\ n % r \in 0 .. r - 1 /\ n = r * (n \div r) + (n % r)
<1> DEFINE q == n \div r
           m == n % r
<1>1. q \in Nat /\ m \in 0 .. r - 1 /\ n = r * q + m
  OBVIOUS
<1> HIDE DEF q, m
<1>2. q < b
  <2> SUFFICES ASSUME q >= b  PROVE FALSE
    BY <1>1
  <2>1. PICK d \in Nat : q = b + d
    <3>1. q - b \in Nat /\ q = b + (q - b)
      BY <1>1
    <3>2. QED
      BY <3>1
  <2>2. r * q = r * b + r * d /\ r * d \in Nat
    BY <2>1
  <2>3. r * q \in Nat /\ r * b \in Nat
    BY <1>1
  <2>4. QED
    BY <1>1, <2>2, <2>3
<1>3. QED
  BY <1>1, <1>2 DEF q, m

(* A length that a uint32_t can hold is read back as it was written. *)
LEMMA NetworkOrder ==
  ASSUME NEW n \in Nat, n < UInt32
  PROVE  htonl(n) \in Seq(Byte) /\ Len(htonl(n)) = kMsgLen /\ ntohl(htonl(n)) = n
<1> DEFINE r == Radix
           a == n \div r
           b == a \div r
           c == b \div r
<1>1. r \in Nat \ {0}
  BY RadixAssumption DEF kAesKeySize
<1>2. r * r \in Nat /\ r * r * r \in Nat /\ UInt32 = r * (r * r * r) /\ r * r * r = r * (r * r)
  BY <1>1 DEF UInt32
<1> HIDE DEF r
<1>3. a \in Nat /\ a < r * r * r /\ n % r \in 0 .. r - 1 /\ n = r * a + (n % r)
  BY <1>1, <1>2, QuotientIsLess
<1> HIDE DEF a
<1>4. b \in Nat /\ b < r * r /\ a % r \in 0 .. r - 1 /\ a = r * b + (a % r)
  BY <1>1, <1>2, <1>3, QuotientIsLess
<1> HIDE DEF b
<1>5. c \in Nat /\ c < r /\ b % r \in 0 .. r - 1 /\ b = r * c + (b % r)
  BY <1>1, <1>4, QuotientIsLess
<1>6. c % r = c /\ c \in 0 .. r - 1
  <2> HIDE DEF c
  <2>1. QED
    BY <1>1, <1>5
<1>7. htonl(n) = <<c, b % r, a % r, n % r>>
  BY <1>6 DEF htonl, a, b, r
<1> HIDE DEF c
<1>8. Byte = 0 .. r - 1
  BY DEF Byte, r
<1>9. htonl(n) \in Seq(Byte) /\ Len(htonl(n)) = kMsgLen
  BY <1>3, <1>4, <1>5, <1>6, <1>7, <1>8 DEF kMsgLen
<1>10. ntohl(htonl(n)) = ((c * r + (b % r)) * r + (a % r)) * r + (n % r)
  BY <1>7 DEF ntohl, r
<1>11. c * r + (b % r) = b
  BY <1>1, <1>5
<1>12. b * r + (a % r) = a
  BY <1>1, <1>4
<1>13. a * r + (n % r) = n
  BY <1>1, <1>3
<1>14. QED
  BY <1>9, <1>10, <1>11, <1>12, <1>13

(* What Unframe makes of a text by the numbers in it. *)
LEMMA UnframeIs ==
  ASSUME NEW text \in Seq(Byte), NEW n \in Nat,
         Len(text) > 20, Len(text) >= 20 + n,
         ntohl(SubSeq(text, 17, 20)) = n,
         (20 + n) % UInt32 = 20 + n
  PROVE  Unframe(text) = <<[message |-> SubSeq(text, 21, 20 + n),
                            receiver |-> Substr(text, 20 + n, Len(text))]>>
<1>1. Substr(text, 20, n) = SubSeq(text, 21, 20 + n)
  BY DEF Substr
<1>2. /\ kRandEncryptStrLen + kMsgLen = 20 /\ kRandEncryptStrLen + 1 = 17
  BY DEF kRandEncryptStrLen, kMsgLen
<1>3. ~(Len(text) <= 20 \/ Len(text) < 20 + n)
  OBVIOUS
<1>4. QED
  BY ONLY <1>1, <1>2, <1>3, ntohl(SubSeq(text, 17, 20)) = n,
          (20 + n) % UInt32 = 20 + n, Zenon DEF Unframe

(* What the sizes of a text and of a frame of it may be. *)
Countable(text) == kRandEncryptStrLen + kMsgLen + Len(text) < UInt32
Encodable(frame) == 4 * ((Len(Pad(frame)) + 2) \div 3) <= kMaxBase64Size

LEMMA FrameIs ==
  ASSUME NEW rand \in Seq(Byte), Len(rand) = kRandEncryptStrLen,
         NEW message \in Seq(Byte), NEW receiver \in Seq(Byte), Countable(message)
  PROVE  LET frame == GenNeedEncryptData(message, rand, receiver) IN
         /\ frame \in Seq(Byte)
         /\ Len(frame) = kRandEncryptStrLen + kMsgLen + Len(message) + Len(receiver)
         /\ message # <<>> =>
              Unframe(frame) = <<[message |-> message,
                                  receiver |-> Substr(frame, 20 + Len(message), Len(frame))]>>
<1> DEFINE length == htonl(Len(message))
           frame == rand \o length \o message \o receiver
           n == Len(message)
<1>1. n \in Nat /\ Len(receiver) \in Nat /\ (message # <<>> => n # 0)
  BY ONLY EmptySeq, message \in Seq(Byte), receiver \in Seq(Byte)
<1>2. UInt32 \in Nat
  <2>1. Radix \in Nat
    BY RadixAssumption
  <2>2. QED
    BY <2>1 DEF UInt32
<1>3. 20 + n < UInt32
  BY DEF Countable, kRandEncryptStrLen, kMsgLen
<1>4. length \in Seq(Byte) /\ Len(length) = 4 /\ ntohl(length) = n
  <2>1. n < UInt32
    BY <1>1, <1>2, <1>3
  <2>2. QED
    BY <1>1, <2>1, NetworkOrder DEF kMsgLen
<1>5. GenNeedEncryptData(message, rand, receiver) = frame /\ Len(rand) = 16
  BY DEF GenNeedEncryptData, kRandEncryptStrLen
<1> HIDE DEF length
<1>6. /\ frame \in Seq(Byte)
      /\ Len(frame) = Len(rand) + Len(length) + Len(message) + Len(receiver)
      /\ SubSeq(frame, Len(rand) + 1, Len(rand) + Len(length)) = length
      /\ SubSeq(frame, Len(rand) + Len(length) + 1, Len(rand) + Len(length) + Len(message)) = message
  <2>1. length \in Seq(Byte)
    BY <1>4
  <2>2. QED
    BY ONLY <2>1, MiddlesOfConcat, rand \in Seq(Byte), message \in Seq(Byte),
            receiver \in Seq(Byte)
<1> HIDE DEF frame
<1>7. /\ SubSeq(frame, 17, 20) = length
      /\ SubSeq(frame, 21, 20 + n) = message
      /\ Len(frame) = 20 + n + Len(receiver)
  <2>1. 16 + 1 = 17 /\ 16 + 4 = 20 /\ 16 + 4 + 1 = 21
    OBVIOUS
  <2>2. QED
    BY ONLY <1>1, <1>4, <1>5, <1>6, <2>1
<1>8. ASSUME message # <<>>
      PROVE  Unframe(frame) = <<[message |-> message,
                                 receiver |-> Substr(frame, 20 + n, Len(frame))]>>
  <2>1. Len(frame) > 20 /\ Len(frame) >= 20 + n
    BY ONLY <1>1, <1>7, <1>8
  <2>2. (20 + n) % UInt32 = 20 + n
    BY ONLY <1>1, <1>2, <1>3
  <2>3. QED
    BY ONLY <1>1, <1>4, <1>6, <1>7, <2>1, <2>2, UnframeIs
<1>9. kRandEncryptStrLen + kMsgLen + n + Len(receiver) = 20 + n + Len(receiver)
  BY DEF kRandEncryptStrLen, kMsgLen
<1>10. QED
  BY ONLY <1>5, <1>6, <1>7, <1>8, <1>9

(* DecryptMsg finds the message in the frame GenNeedEncryptData makes,     *)
(* whatever the random characters and the receiver, as long as a uint32_t  *)
(* counts the frame.                                                       *)
THEOREM FrameOpens ==
  ASSUME NEW rand \in Seq(Byte), Len(rand) = kRandEncryptStrLen,
         NEW message \in Seq(Byte), message # <<>>, Countable(message),
         NEW receiver \in Seq(Byte)
  PROVE  LET frame == Unframe(GenNeedEncryptData(message, rand, receiver))
         IN  frame # Failed /\ frame[1].message = message
<1> DEFINE text == GenNeedEncryptData(message, rand, receiver)
           r == Substr(text, 20 + Len(message), Len(text))
<1>1. Unframe(text) = <<[message |-> message, receiver |-> r]>>
  BY FrameIs
<1> HIDE DEF text, r
<1>2. Unframe(text) # Failed /\ Unframe(text)[1].message = message
  BY ONLY <1>1 DEF Failed
<1>3. QED
  BY <1>2 DEF text

-----------------------------------------------------------------------------
(* The whole way.                                                          *)

(* What EncryptMsg makes of a reply, DecryptMsg verifies, deciphers and    *)
(* gives back with the same token and key, and gives nothing else back:    *)
(* for every reply that is not empty and small enough for base64.          *)
THEOREM ReplyOpens ==
  ASSUME NEW reply \in Seq(Byte), NEW rand \in Seq(Byte), Len(rand) = kRandEncryptStrLen,
         NEW receiver \in Seq(Byte), NEW query, NEW token, NEW key,
         Countable(reply), Encodable(GenNeedEncryptData(reply, rand, receiver)),
         EncryptMsg(reply, rand, query, token, key, receiver) # Failed
  PROVE  LET xml == EncryptMsg(reply, rand, query, token, key, receiver)[1]
             answer == [msg_signature |-> <<xml.MsgSignature>>, timestamp |-> <<xml.TimeStamp>>,
                        nonce |-> <<xml.Nonce>>]
         IN  DecryptMsg(answer, <<xml.Encrypt>>, token, key) = {<<reply>>}
<1> DEFINE frame == GenNeedEncryptData(reply, rand, receiver)
           aes == GenAesKeyFromEncodingKey(key)
           cipher == AES_CBCEncrypt(frame, aes[1])
           text == EncodeBase64(cipher[1])
           signature == ComputeSignature(token, First(query.timestamp), First(query.nonce), text[1])
           xml == [Encrypt |-> text[1], MsgSignature |-> signature[1],
                   TimeStamp |-> First(query.timestamp), Nonce |-> First(query.nonce)]
           answer == [msg_signature |-> <<xml.MsgSignature>>, timestamp |-> <<xml.TimeStamp>>,
                      nonce |-> <<xml.Nonce>>]
<1>1. /\ reply # <<>> /\ aes # Failed /\ signature # Failed
      /\ EncryptMsg(reply, rand, query, token, key, receiver) = <<xml>>
  BY DEF EncryptMsg
<1>2. /\ frame \in Seq(Byte) /\ frame # <<>>
      /\ Unframe(frame) # Failed /\ Unframe(frame)[1].message = reply
  <2>1. frame \in Seq(Byte) /\ Len(frame) = 20 + Len(reply) + Len(receiver)
    BY FrameIs DEF kRandEncryptStrLen, kMsgLen
  <2>2. Len(reply) \in Nat /\ Len(receiver) \in Nat
    OBVIOUS
  <2>3. frame # <<>>
    <3> HIDE DEF frame
    <3>1. QED
      BY <2>1, <2>2
  <2>4. QED
    BY <1>1, <2>1, <2>3, FrameOpens
<1>3. 4 * ((Len(Pad(frame)) + 2) \div 3) <= kMaxBase64Size
  BY DEF Encodable
<1> HIDE DEF frame
<1>4. DecodeBase64(text[1]) # Failed
  <2>1. cipher[1] = [key |-> aes[1], of |-> Pad(frame)]
    BY <1>2 DEF AES_CBCEncrypt
  <2>2. Pad(frame) \in Seq(Byte) /\ Pad(frame) # <<>>
    <3>1. Len(Pad(frame)) # 0
      BY <1>2, PadIs, PaddingRange DEF kAesKeySize
    <3>2. QED
      BY <1>2, <3>1, PadIs
  <2>3. DecodeBase64(text[1]) = <<[key |-> aes[1], of |-> Pad(frame)]>>
    BY <1>3, <2>1, <2>2, Base64RoundTrip
  <2>4. QED
    BY <2>3 DEF Failed
<1>5. AES_CBCDecrypt(DecodeBase64(text[1])[1], aes[1]) = {<<frame>>}
  BY <1>2, <1>3, SealedTextOpens
<1>6. ValidateSignature(answer, token, text[1])
  <2>1. /\ First(answer.timestamp) = First(query.timestamp)
        /\ First(answer.nonce) = First(query.nonce)
        /\ answer.msg_signature = <<signature[1]>>
    BY DEF First
  <2> HIDE DEF answer, signature
  <2>2. signature =
          ComputeSignature(token, First(answer.timestamp), First(answer.nonce), text[1])
    BY <2>1 DEF signature
  <2>3. QED
    BY <1>1, <2>1, <2>2 DEF ValidateSignature
<1>7. Frames(answer, <<text[1]>>, token, key) = {Unframe(frame)}
  <2> HIDE DEF text, answer, aes
  <2>1. \A plain \in {<<frame>>} : plain # Failed /\ plain[1] = frame
    <3>1. <<frame>> # Failed /\ <<frame>>[1] = frame
      BY ONLY TRUE DEF Failed
    <3>2. QED
      BY ONLY <3>1
  <2>2. <<text[1]>> # <<>> /\ <<text[1]>>[1] = text[1]
    OBVIOUS
  <2>3. QED
    BY <1>1, <1>4, <1>5, <1>6, <2>1, <2>2, Zenon DEF Frames, aes
<1>8. DecryptMsg(answer, <<text[1]>>, token, key) = {<<reply>>}
  <2> HIDE DEF text, answer
  <2>1. QED
    BY <1>2, <1>7 DEF DecryptMsg
<1>9. /\ answer = [msg_signature |-> <<xml.MsgSignature>>, timestamp |-> <<xml.TimeStamp>>,
                   nonce |-> <<xml.Nonce>>]
      /\ xml.Encrypt = text[1]
  OBVIOUS
<1> HIDE DEF xml, answer, text
<1>10. <<xml>>[1] = xml
  OBVIOUS
<1>11. QED
  BY ONLY <1>1, <1>8, <1>9, <1>10, Zenon
=============================================================================
