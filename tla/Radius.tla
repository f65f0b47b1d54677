------------------------------- MODULE Radius -------------------------------
(***************************************************************************)
(* RADIUS messages: lib/radius.c, and the like of it in lib/make_radius.c. *)
(*                                                                         *)
(* A message is a header and octets: attributes of type, length, data.     *)
(* A builder of radius.c writes it into the buffer of the caller, with the *)
(* secret behind the attributes; with those of make_radius.c it is the     *)
(* caller who has to copy the secret there.  The authenticator is the MD5  *)
(* of the message and as many octets behind it as the secret has.          *)
(* Neither side clears its buffer: what an earlier message left there is   *)
(* still behind a shorter one.                                             *)
(*                                                                         *)
(* The MD5 is the thing it is computed of.  External: the callers, which   *)
(* may clear a buffer and copy the secret; and the network, on which a     *)
(* message may be altered.                                                 *)
(* An address or an identifier of four octets is one here.                 *)
(***************************************************************************)
EXTENDS Integers, Sequences, SequencesExt

CONSTANTS
  Attributes,   \* what is sent: sequences of type and value (octets)
  Wanted,       \* the type that a receiver looks for
  Secrets,      \* octets
  Zero, Nonce,  \* sixteen zero octets, and random ones
  MaxBuilds     \* bound: messages that are built

\* Attributes and secrets are octets.
ASSUME RadiusAssumption ==
  /\ \A attrs \in Attributes : attrs \in Seq(Nat \X Seq(Nat))
  /\ \A secret \in Secrets : secret \in Seq(Nat)
  /\ MaxBuilds \in Nat

VARIABLES
  sbuf,         \* the sender's buffer: code, auth, len, body
  rbuf,         \* the receiver's
  built,        \* history: what was built: attributes, secret, the octets
                \* signed in its place, whether it was copied there, and
                \* whether the authenticator was clear; NoBuild before
  altered,      \* history: what rbuf holds is not what was sent
  clean,        \* history: the rest of rbuf is clear
  builds

avars == <<sbuf, rbuf, built, altered, clean, builds>>

Accounting == 4
Access == 1
Vendor == 26

\* Octets written over the beginning of a buffer.
Over(new, old) == new \o SubSeq(old, Len(new) + 1, Len(old))

MD5(buf, n) == [code |-> buf.code, auth |-> buf.auth, len |-> buf.len,
                octets |-> SubSeq(buf.body, 1, n)]

-----------------------------------------------------------------------------
add_sattr(type, val) == <<type, Len(val) + 2>> \o val

\* The vendor's attribute within the attribute.  In radius.c the compiler fills
\* vend_attr_t up to eight octets, which the length does not count: what comes
\* next is written over the last two octets of the value.
add_radius_vattr(id, type, val) ==
  [octets |-> <<Vendor, Len(val) + 5, id, type, Len(val), 0, 0>> \o val,
   len |-> Len(val) + 5]
add_radius_att_vendor_string(id, type, val) ==
  [octets |-> <<Vendor, Len(val) + 5, id, type, Len(val) + 2>> \o val,
   len |-> Len(val) + 5]
add_radius_att_string(type, val) ==
  [octets |-> <<type, Len(val) + 2>> \o val, len |-> Len(val) + 2]

\* An attribute is looked for until a type is 0, not to the end of the message.
get_sattr_OffByTwo(body, type) ==
  LET From[i \in Nat] == IF i > Len(body) \/ body[i] = 0 THEN <<>>
                         ELSE IF body[i] = type
                              THEN SubSeq(body, i + 2, i + 1 + body[i + 1])
                              ELSE From[i + body[i + 1]]
  IN From[1]
get_sattr(body, type) ==
  LET From[i \in Nat] == IF i > Len(body) \/ body[i] = 0 THEN <<>>
                         ELSE IF body[i] = type
                              THEN SubSeq(body, i + 2, i - 1 + body[i + 1])
                              ELSE From[i + body[i + 1]]
  IN From[1]

\* What is laid out in the sender's buffer: header, attributes, and the octets
\* behind them.
Added(m, a) ==
  LET rest == SubSeq(m.body, m.len + 1, Len(m.body))
  IN  [body |-> SubSeq(m.body, 1, m.len) \o Over(a.octets, rest),
       len |-> m.len + a.len]
Plain(a) == LET octets == add_sattr(a[1], a[2])
            IN [octets |-> octets, len |-> Len(octets)]
Pieces(body, pieces) ==
  LET m[i \in 0..Len(pieces)] == IF i = 0 THEN [body |-> body, len |-> 0]
                                 ELSE Added(m[i - 1], pieces[i])
  IN  m[Len(pieces)]
Framed_SecretIn(code, auth, behind, pieces) ==
  LET m == Pieces(sbuf.body, pieces)
      n == Added(m, [octets |-> behind, len |-> Len(behind)])
  IN [code |-> code, auth |-> auth, len |-> n.len, body |-> n.body]
Framed(code, auth, behind, pieces) ==
  LET m == Pieces(sbuf.body, pieces)
      n == Added(m, [octets |-> behind, len |-> Len(behind)])
  IN [code |-> code, auth |-> auth, len |-> m.len, body |-> n.body]
Behind(b, n) == SubSeq(b.body, b.len + 1, b.len + n)
Signed(b, secret) == [b EXCEPT !.auth = MD5(b, b.len + Len(secret))]
Each(Op(_), attrs) == [i \in DOMAIN attrs |-> Op(attrs[i])]

\* The builders write the secret behind the attributes.  The digest covers the
\* authenticator that is in the buffer, or a random one.
account_request(secret, attrs) ==
  Framed(Accounting, sbuf.auth, secret, Each(Plain, attrs))
access_request(secret, attrs) == Framed(Access, Nonce, secret, Each(Plain, attrs))
radius_account_request_build(secret, attrs) ==
  Signed(account_request(secret, attrs), secret)
radius_access_request_build(secret, attrs) ==
  Signed(access_request(secret, attrs), secret)

\* The message put together by the caller, with one attribute of the vendor in
\* front: make_account_msg, add_radius_att_string.  The caller has copied the
\* key behind it with strcpy, or has not; finish_account_msg signs what is there.
make_account_msg(copied, vendor, attrs) ==
  Framed(Accounting, sbuf.auth, copied,
         <<vendor>> \o [i \in DOMAIN attrs |->
                          add_radius_att_string(attrs[i][1], attrs[i][2])])
finish_account_msg(b, key) == Signed(b, key)

\* The receiver: the digest is computed again, with the authenticator that the
\* caller has put into the buffer.
radius_auth_check(auth, secret, b) ==
  MD5([b EXCEPT !.body = SubSeq(b.body, 1, b.len) \o secret], b.len + Len(secret)) = auth
radius_account_parse(b) == get_sattr(b.body, Wanted)

-----------------------------------------------------------------------------
NoBuild == [attrs |-> <<>>, secret |-> <<>>, key |-> <<>>, copied |-> FALSE,
            clear |-> FALSE]
Blank16(n) == [i \in 1..n |-> 0]
Room == 24
AInit == /\ sbuf = [code |-> 0, auth |-> Zero, len |-> 0, body |-> Blank16(Room)]
         /\ rbuf = sbuf /\ built = NoBuild /\ altered = FALSE /\ clean = TRUE
         /\ builds = 0

\* The two ways in which the attribute of a vendor is put together.
VendorAttrs == {add_radius_vattr(7, 1, <<1>>),
                add_radius_att_vendor_string(7, 1, <<1>>)}

\* The message b is in the buffer and has been signed.
Has(b, secret, attrs, copied) ==
  built' = [attrs |-> attrs, secret |-> secret, key |-> Behind(b, Len(secret)),
            copied |-> copied, clear |-> b.auth = Zero]

Build(secret, attrs) ==
  /\ builds < MaxBuilds /\ builds' = builds + 1
  /\ \/ /\ sbuf' = radius_account_request_build(secret, attrs)
        /\ Has(account_request(secret, attrs), secret, attrs, TRUE)
     \/ /\ sbuf' = radius_access_request_build(secret, attrs)
        /\ Has(access_request(secret, attrs), secret, attrs, TRUE)
     \/ \E vendor \in VendorAttrs, copied \in {<<>>, Append(secret, 0)} :
          LET b == make_account_msg(copied, vendor, attrs) IN
          /\ b.len + Len(secret) <= Len(b.body)
          /\ sbuf' = finish_account_msg(b, secret)
          /\ Has(b, secret, attrs, copied # <<>>)
  /\ UNCHANGED <<rbuf, altered, clean>>
\* The callers clear the whole buffer, or they do not.
ClearSender == /\ sbuf' = [sbuf EXCEPT !.auth = Zero, !.body = Blank16(Room)]
               /\ built' = NoBuild /\ UNCHANGED <<rbuf, altered, clean, builds>>
ClearReceiver == /\ rbuf' = [code |-> 0, auth |-> Zero, len |-> 0,
                            body |-> Blank16(Room)]
                 /\ clean' = TRUE /\ UNCHANGED <<sbuf, built, altered, builds>>

\* len octets arrive, one of which, or the header, may have been altered.
Arrive(octets, len, hurt) ==
  /\ rbuf' = [code |-> sbuf.code, auth |-> sbuf.auth, len |-> len,
              body |-> Over(octets, rbuf.body)]
  /\ altered' = hurt
  /\ clean' = \A i \in (len + 1)..Room : rbuf'.body[i] = 0
Transmit ==
  /\ built # NoBuild /\ UNCHANGED <<sbuf, built, builds>>
  /\ LET octets == SubSeq(sbuf.body, 1, sbuf.len) IN
       \/ Arrive(octets, sbuf.len, FALSE)
       \/ \E i \in DOMAIN octets :
            Arrive([octets EXCEPT ![i] = @ + 1], sbuf.len, TRUE)
       \/ sbuf.len > 0 /\ Arrive(Front(octets), sbuf.len - 1, TRUE)

ANext == \/ \E s \in Secrets, a \in Attributes : Build(s, a)
         \/ ClearSender \/ ClearReceiver \/ Transmit
ASpec == AInit /\ [][ANext]_avars

-----------------------------------------------------------------------------
\* Building and receiving write within the buffers.
ATypeOK == /\ builds \in 0..MaxBuilds
           /\ Len(sbuf.body) = Room /\ Len(rbuf.body) = Room
           /\ altered \in BOOLEAN /\ clean \in BOOLEAN

\* A receiver accepts an accounting request if and only if its secret is what
\* was signed behind the message, the authenticator was clear then, and nothing
\* of it was altered.  What was signed is the sender's secret whenever it was
\* copied there, and else whatever an earlier message had left.
Accepted(s) == radius_auth_check(rbuf.auth, s, [rbuf EXCEPT !.auth = Zero])
Genuine ==
  /\ built.copied => built.key = built.secret
  /\ (built # NoBuild /\ rbuf.auth = sbuf.auth /\ rbuf.code = Accounting) =>
       \A s \in Secrets : Accepted(s) <=> (s = built.key /\ built.clear /\ ~altered)

\* In a message that is accepted the receiver finds the value that was put in,
\* and none that was not, if the rest of its buffer is clear.
First(attrs) == LET i == SelectInSeq(attrs, LAMBDA a : a[1] = Wanted)
                IN IF i = 0 THEN <<>> ELSE attrs[i][2]
RadiusRead == (built # NoBuild /\ rbuf.auth = sbuf.auth /\ clean /\ ~altered
           /\ rbuf.len = sbuf.len) => radius_account_parse(rbuf) = First(built.attrs)

-----------------------------------------------------------------------------
(* The inductive invariant.                                                *)

\* What a message is made of that has a digest: the octets it sends, and those
\* that were behind them.
Attrs(b) == SubSeq(b.body, 1, b.len)
SignedBy(b, key) ==
  /\ b.len \in 0..Len(b.body)
  /\ b.auth = [code |-> b.code, auth |-> b.auth.auth, len |-> b.len,
               octets |-> Attrs(b) \o key]

\* What was received has the code of its digest; it is as it was sent if and
\* only if its octets are those in its digest.
Unaltered(b) == /\ b.len = b.auth.len
                /\ Attrs(b) = SubSeq(b.auth.octets, 1, b.auth.len)
Received == rbuf.code # 0 => /\ rbuf.auth.code = rbuf.code
                             /\ ~altered <=> Unaltered(rbuf)

IsBuffer(b) ==
  /\ b = [code |-> b.code, auth |-> b.auth, len |-> b.len, body |-> b.body]
  /\ b.body \in Seq(Nat)

AInv == /\ IsBuffer(sbuf) /\ IsBuffer(rbuf)
        /\ rbuf.len \in 0..Len(rbuf.body) /\ altered \in BOOLEAN
        /\ built # NoBuild =>
             /\ built.key \in Seq(Nat) /\ SignedBy(sbuf, built.key)
             /\ sbuf.code = Accounting => (built.clear <=> sbuf.auth.auth = Zero)
        /\ built.copied => built.key = built.secret
        /\ Received
=============================================================================
