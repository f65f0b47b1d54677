-------------------------------- MODULE Seed --------------------------------
(***************************************************************************)
(* lib/seed.c: the block cipher, and texts encrypted into base 64.         *)
(*                                                                         *)
(* A block is two halves of two words.  What the words are, the tables of  *)
(* the round function (SS0 to SS3, all of which make up G) and the shifts  *)
(* of the key schedule are parameters.  In the texts a word is an octet,   *)
(* so that a block has four octets, not sixteen; either leaves one octet   *)
(* over from groups of three.  A character of base 64 is its number.       *)
(***************************************************************************)
EXTENDS Integers, Sequences

CONSTANTS
  DWORD, BitXor(_, _), Plus(_, _), Minus(_, _), G(_),
  RightBy8(_), LeftBy8(_),    \* of a half, by eight bits
  KC(_),                            \* the key schedule's constants, 0 to 15
  UserKey,                          \* sequences of four words
  Message64,                          \* texts that are encrypted
  Junk                              \* the octets behind a text in memory

Half == DWORD \X DWORD
Block == Half \X Half
ASSUME XorAssumption ==
  \A a, b \in DWORD : BitXor(a, b) \in DWORD /\ BitXor(BitXor(a, b), b) = a
ASSUME WordAssumption ==
  \A a, b \in DWORD : G(a) \in DWORD /\ Plus(a, b) \in DWORD

VARIABLES
  sent,     \* text, key and characters of the last text encrypted
  answer    \* the text that SeedDecryptBase64 leaves in its result
svars == <<sent, answer>>

-----------------------------------------------------------------------------
\* The round function, and two rounds: the second works on the other half.
F(r, k) == LET t0 == BitXor(r[1], k[1])
               t1 == G(BitXor(BitXor(r[2], k[2]), t0))
               u0 == G(Plus(t0, t1))
               u1 == G(Plus(t1, u0))
           IN <<Plus(u0, u1), u1>>
SeedRound(l, r, k) == LET f == F(r, k) IN <<BitXor(l[1], f[1]), BitXor(l[2], f[2])>>
SecondRound(l, r, k) == <<l, SeedRound(r, l, k)>>
TwoRounds(b, k1, k2) == SecondRound(SeedRound(b[1], b[2], k1), b[2], k2)
Swapped(b) == <<b[2], b[1]>>

\* Sixteen rounds with sixteen keys; SeedDecrypt takes the keys backwards.
Rounds(b, k) ==
  LET done[i \in 0..8] ==
        IF i = 0 THEN b ELSE TwoRounds(done[i - 1], k[2 * i - 1], k[2 * i])
  IN Swapped(done[8])
SeedEncrypt(b, k) == Rounds(b, k)
SeedDecrypt_SameOrder(b, k) == Rounds(b, k)
SeedDecrypt(b, k) == Rounds(b, [i \in 1..16 |-> k[17 - i]])

\* Between the rounds one half of the user's key turns right, then the other
\* one left.
SeedRoundKey(key) ==
  LET half[i \in 0..15] ==
        IF i = 0 THEN <<<<key[1], key[2]>>, <<key[3], key[4]>>>>
        ELSE LET h == half[i - 1] IN IF i % 2 = 1
                                     THEN <<RightBy8(h[1]), h[2]>>
                                     ELSE <<h[1], LeftBy8(h[2])>>
  IN [i \in 1..16 |->
        LET h == half[i - 1]
        IN <<G(Minus(Plus(h[1][1], h[2][1]), KC(i - 1))),
             G(Minus(Plus(h[1][2], KC(i - 1)), h[2][2]))>>]

-----------------------------------------------------------------------------
Fill == 64
Blocks(n) == IF n \in 1..3 THEN 1 ELSE n \div 4
OctetAt(s, i) == IF i \in DOMAIN s THEN s[i] ELSE 0

\* Groups of three octets; zeros are behind them.  A group that is not full
\* ends in one or two '='.
base64_encode(src) ==
  [c \in 1..(4 * ((Len(src) + 2) \div 3)) |->
     LET i == 3 * ((c - 1) \div 4)
         n == OctetAt(src, i + 1) * 65536 + OctetAt(src, i + 2) * 256 + OctetAt(src, i + 3)
         j == (c - 1) % 4
     IN IF j >= 2 /\ i + j > Len(src) THEN Fill
        ELSE (n \div 64 ^ (3 - j)) % 64]
base64_decode(chars) ==
  LET Digit(i) == IF chars[i] = Fill THEN 0 ELSE chars[i]
      Group(g) == Digit(4 * g + 1) * 262144 + Digit(4 * g + 2) * 4096
                    + Digit(4 * g + 3) * 64 + Digit(4 * g + 4)
      n == 3 * (Len(chars) \div 4)
  IN [octets |-> [o \in 1..n |-> (Group((o - 1) \div 3)
                                    \div 256 ^ (2 - ((o - 1) % 3))) % 256],
      len |-> n - Len(SelectSeq(chars, LAMBDA c : c = Fill))]

\* The octets of a block and its halves.
AsBlock(s) == <<<<s[1], s[2]>>, <<s[3], s[4]>>>>
AsOctets(b) == b[1] \o b[2]
\* Up to the first zero.
CString(s) == LET ends == {i \in DOMAIN s : s[i] = 0}
              IN IF ends = {} THEN s
                 ELSE SubSeq(s, 1, (CHOOSE i \in ends : \A j \in ends : i <= j) - 1)

-----------------------------------------------------------------------------
\* Whole blocks are copied out of the text, the zero that ends it and what is
\* behind it; what is left over of a text of a block or more is dropped.
SeedEncryptBase64(key, text, junk) ==
  LET k == SeedRoundKey(key)
      memory == text \o <<0>> \o junk
      Enciphered(i) == AsOctets(SeedEncrypt(AsBlock(SubSeq(memory, 4 * i - 3, 4 * i)), k))
      sum[i \in 0..Blocks(Len(text))] ==
        IF i = 0 THEN <<>> ELSE sum[i - 1] \o Enciphered(i)
  IN base64_encode(sum[Blocks(Len(text))])

\* Only the first block is decrypted; nothing is if there is none.
SeedDecryptBase64(key, chars, old) ==
  LET d == base64_decode(chars)
      memory == d.octets \o <<0, 0, 0, 0>>
      first == AsOctets(SeedDecrypt(AsBlock(SubSeq(memory, 1, 4)), SeedRoundKey(key)))
  IN IF d.len <= 0 THEN old
     ELSE CString(first \o SubSeq(memory, 5, Len(memory)))

NoText == [text |-> <<>>, key |-> <<>>, chars |-> <<>>]
SInit == sent = NoText /\ answer = <<>>
SEncrypt(key, text, junk) ==
  /\ sent = NoText
  /\ sent' = [text |-> text, key |-> key,
              chars |-> SeedEncryptBase64(key, text, junk)]
  /\ answer' = <<>>
SDecrypt(key) ==
  /\ sent # NoText
  /\ answer' = SeedDecryptBase64(key, sent.chars, answer)
  /\ sent' = sent
SForget == sent # NoText /\ sent' = NoText /\ answer' = <<>>
SNext == \/ \E k \in UserKey, t \in Message64, j \in Junk : SEncrypt(k, t, j)
         \/ \E k \in UserKey : SDecrypt(k)
         \/ SForget
SSpec == SInit /\ [][SNext]_svars

-----------------------------------------------------------------------------
\* Characters are digits, and '=' only in the last two places; a text that was
\* encrypted is not longer than its characters.
STypeOK == /\ \A i \in DOMAIN sent.chars :
                sent.chars[i] \in 0..Fill
                  /\ (sent.chars[i] = Fill => i > Len(sent.chars) - 2)
           /\ \A i \in DOMAIN answer : answer[i] \in DWORD \ {0}

\* A text of at most a block comes back whole when it is decrypted with its
\* key, whatever lay behind it in memory; of a longer text the first block
\* comes back in front of what was not decrypted.
SeedReturns ==
  sent # NoText =>
    LET back == SeedDecryptBase64(sent.key, sent.chars, <<>>)
    IN IF Len(sent.text) <= 4 THEN back = sent.text
       ELSE Len(back) >= 4 /\ SubSeq(back, 1, 4) = SubSeq(sent.text, 1, 4)
=============================================================================
