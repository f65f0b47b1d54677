-------------------------------- MODULE Codec --------------------------------
(***************************************************************************)
(* Conversions of lib/encode.c (base 64 and BCD), lib/mac_parse.c and      *)
(* lib/imsi.c, one text at a time.                                         *)
(*                                                                         *)
(* A character of base 64 is its number, Equals or Newline; a hexadecimal  *)
(* digit is its value, a capital letter 16 more.  An IMSI is the bits of   *)
(* its seven octets.  Line is the code's 64.                               *)
(***************************************************************************)
EXTENDS Integers, Sequences, SequencesExt

CONSTANTS
  Line,         \* characters after which a new line is begun
  Nibbles,      \* of a BCD number: 16 in the code
  Strings,       \* octet strings that are encoded
  Numbers,      \* sequences of decimal digits
  Addresses,    \* sequences of tokens, sequences of one or two digits
  Numbers10     \* numbers of three digits, in an IMSI

VARIABLES encoded, decoded
ovars == <<encoded, decoded>>

Equals == 64
Newline == 65

-----------------------------------------------------------------------------
\* One turn of the loop: i counts octets, cnt characters of a group, n those
\* of a line.  A group ends, and with it the text or a line, when the length
\* of all that has been written is a multiple of four: the newline counts.
Digit64(s, size, i, cnt) ==
  LET Octet(k) == IF k < size THEN s[k + 1] ELSE 0 IN
  IF i >= size THEN Equals
  ELSE CASE cnt = 0 -> Octet(i) \div 4
         [] cnt = 1 -> (Octet(i) % 4) * 16 + Octet(i + 1) \div 16
         [] cnt = 2 -> (Octet(i) % 16) * 4 + Octet(i + 1) \div 64
         [] cnt = 3 -> Octet(i) % 64
Turn64(s, size, st) ==
  LET i   == st.i + (IF st.cnt = 0 THEN 0 ELSE 1)
      es  == Append(st.es, Digit64(s, size, st.i, st.cnt))
      end == Len(es) % 4 = 0
      nl  == end /\ st.n + 1 = Line
  IN [i |-> i, cnt |-> (st.cnt + 1) % 4, n |-> IF nl THEN 0 ELSE st.n + 1,
      es |-> IF nl THEN Append(es, Newline) ELSE es, done |-> end /\ i >= size]
BASE64encode(s) ==
  LET turn[k \in Nat] ==
        IF k = 0 THEN [i |-> 0, cnt |-> 0, n |-> 0, es |-> <<>>, done |-> FALSE]
        ELSE LET st == turn[k - 1]
             IN IF st.done THEN st ELSE Turn64(s, Len(s), st)
  IN turn[2 * Len(s) + 8].es

\* Every four characters three octets; a newline is stepped over behind them.
\* What remains of a group is dropped, its '=' counted all the same.
BASE64decode(es) ==
  LET Value(c) == IF c < 64 THEN c ELSE 0
      Take(st, c) ==
        IF c = Newline /\ st.cnt = 0 /\ st.ds # <<>> THEN st
        ELSE LET b == st.b * 64 + Value(c)
                 p == st.pad + (IF c = Equals THEN 1 ELSE 0)
             IN IF st.cnt = 3
                THEN [b |-> 0, cnt |-> 0, pad |-> p,
                      ds |-> st.ds \o <<b \div 65536, (b \div 256) % 256, b % 256>>]
                ELSE [b |-> b, cnt |-> st.cnt + 1, pad |-> p, ds |-> st.ds]
      last == FoldLeft(Take, [b |-> 0, cnt |-> 0, pad |-> 0, ds |-> <<>>], es)
  IN [ds |-> last.ds, len |-> Len(last.ds) - last.pad]

-----------------------------------------------------------------------------
\* Two digits to an octet, the first one low; 15 behind the last one.
long2bcd_HighFirst(digits) ==
  LET At16(k) == IF k \in DOMAIN digits THEN digits[k] ELSE 15
  IN [o \in 1..(Nibbles \div 2) |-> At16(2 * o - 1) * 16 + At16(2 * o)]
long2bcd(digits) ==
  LET At16(k) == IF k \in DOMAIN digits THEN digits[k] ELSE 15
  IN [o \in 1..(Nibbles \div 2) |-> At16(2 * o) * 16 + At16(2 * o - 1)]

\* Tokens between colons, empty ones skipped; a single digit is the low one,
\* and capital letters are 0.
h2int_1byte(c) == IF c \in 0..15 THEN c ELSE 0
h2int_2byte(hex) == 16 * h2int_1byte(hex[1]) + h2int_1byte(hex[2])
mac_parse(tokens) ==
  LET full == SelectSeq(tokens, LAMBDA t : t # <<>>)
      Token(i) == IF i \notin DOMAIN full THEN <<0, 0>>
                  ELSE IF Len(full[i]) = 1 THEN <<0>> \o full[i] ELSE full[i]
  IN [i \in 1..6 |-> h2int_2byte(Token(i))]

\* bcopy of four octets from o on into an int, shifted and masked: the first
\* octet is the int's highest where the host is big, and else its lowest.
Bit(imsi, o, p, big) ==
  imsi[8 * (o + (IF big THEN 3 - p \div 8 ELSE p \div 8)) + 8 - (p % 8)]
Field(imsi, o, shift, width, big) ==
  SumSet({2^k : k \in {j \in 0..(width - 1) : Bit(imsi, o, shift + j, big) = 1}})

\* Every digit of a field is one more than it says, 9 is 0; above 9 the first is
\* two digits.  The fifth field is its number, and it is the third that is
\* cleared when it is 10.
Next10(n) == (n + 1) % 10
Decimal(n) == IF n < 10 THEN <<n>> ELSE <<1, n - 10>>
Leading(n) == IF n = 9 THEN <<0>> ELSE Decimal(n + 1)
Digits2(n) == Append(Leading(n \div 10), Next10(n % 10))
Digits3(n) == Leading(n \div 100) \o <<Next10((n \div 10) % 10), Next10(n % 10)>>
Third(n) == LET d == Digits3(n) IN IF d = <<0, 1, 0>> THEN <<0, 0, 0>> ELSE d
imsi2str(imsi, big) ==
  LET D(o, shift, width) == Field(imsi, o, shift, width, big)
  IN Digits3(D(0, 18, 10)) \o Digits2(D(1, 19, 7)) \o Third(D(2, 17, 10))
       \o Digits3(D(3, 15, 10)) \o Decimal(Field(imsi, 2, 3, 4, TRUE))
       \o Digits3(D(3, 1, 10))

-----------------------------------------------------------------------------
\* The standard's encoding of a subscriber number: every digit is one less, 0
\* is 9, but the digit of the fifth field is itself, 0 is 10; the fields follow
\* each other behind four bits, with one bit behind them.
Before10(d) == (d + 9) % 10
Coded(a, b, c) == 100 * Before10(a) + 10 * Before10(b) + Before10(c)
Binary(n, width) == [j \in 1..width |-> (n \div 2^(width - j)) % 2]
MobileNumber(d) ==
  Binary(0, 4) \o Binary(Coded(d[1], d[2], d[3]), 10)
    \o Binary(10 * Before10(d[4]) + Before10(d[5]), 7)
    \o Binary(Coded(d[6], d[7], d[8]), 10) \o Binary(Coded(d[9], d[10], d[11]), 10)
    \o Binary(IF d[12] = 0 THEN 10 ELSE d[12], 4)
    \o Binary(Coded(d[13], d[14], d[15]), 10) \o <<0>>

Nothing == [what |-> "nothing"]
OInit == encoded = Nothing /\ decoded = Nothing
Encode64(s) == encoded' = [what |-> "base64", of |-> s, is |-> BASE64encode(s)]
EncodeBcd(d) == encoded' = [what |-> "bcd", of |-> d, is |-> long2bcd(d)]
ParseMac(a) == encoded' = [what |-> "mac", of |-> a, is |-> mac_parse(a)]
Three(n) == <<n \div 100, (n \div 10) % 10, n % 10>>
PrintImsi(a, b, c, big) ==
  LET d == Three(a) \o <<a % 10, b % 10>> \o Three(b) \o Three(c) \o <<c % 10>>
             \o Three(a)
  IN encoded' = [what |-> "imsi", of |-> d, big |-> big,
                 is |-> imsi2str(MobileNumber(d), big)]
Decode64 == /\ encoded.what = "base64" /\ decoded.what = "nothing"
            /\ decoded' = [what |-> "text", is |-> BASE64decode(encoded.is)]
            /\ UNCHANGED encoded
Again == encoded # Nothing /\ encoded' = Nothing /\ decoded' = Nothing

ONext == \/ /\ encoded = Nothing /\ UNCHANGED decoded
            /\ \/ \E s \in Strings : Encode64(s)
               \/ \E d \in Numbers : EncodeBcd(d)
               \/ \E a \in Addresses : ParseMac(a)
               \/ \E a, b, c \in Numbers10, big \in BOOLEAN : PrintImsi(a, b, c, big)
         \/ Decode64 \/ Again
OSpec == OInit /\ [][ONext]_ovars

-----------------------------------------------------------------------------
\* A text of one line comes back out of base 64.
OneLine == (3 * Line) \div 4
Base64Returns ==
  decoded.what = "text" =>
    LET n == Len(encoded.of)
    IN n \in 1..OneLine =>
         decoded.is.len = n /\ SubSeq(decoded.is.ds, 1, n) = encoded.of

\* The digits are read back out of BCD, the low half of an octet first.
BcdReturns ==
  encoded.what = "bcd" =>
    \A k \in DOMAIN encoded.of :
      LET o == encoded.is[(k + 1) \div 2]
      IN encoded.of[k] = IF k % 2 = 1 THEN o % 16 ELSE o \div 16

\* A hardware address of six tokens in small letters is what it says.
Address(tokens) ==
  /\ Len(tokens) = 6
  /\ \A i \in 1..6 : /\ tokens[i] # <<>>
                    /\ \A k \in DOMAIN tokens[i] : tokens[i][k] \in 0..15
MacReturns ==
  (encoded.what = "mac" /\ Address(encoded.of)) =>
    \A i \in 1..6 :
      LET t == encoded.of[i]
      IN encoded.is[i] = IF Len(t) = 1 THEN t[1] ELSE 16 * t[1] + t[2]

\* Where the host is big a subscriber number is printed as it is, unless its
\* thousands digit is 0 or the three digits of its third field are 010.  Where
\* it is not, the fields are other bits: its first three digits are in none.
ImsiReturns ==
  encoded.what = "imsi" =>
    IF encoded.big
    THEN encoded.is = encoded.of \/ encoded.of[12] = 0
                                 \/ SubSeq(encoded.of, 6, 8) = <<0, 1, 0>>
    ELSE \A a \in Numbers10 :
           encoded.is =
             imsi2str(MobileNumber(Three(a) \o SubSeq(encoded.of, 4, 15)), FALSE)

CodecReturns == Base64Returns /\ BcdReturns /\ MacReturns /\ ImsiReturns
=============================================================================
