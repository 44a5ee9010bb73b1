------------------------- MODULE PacketFramingProofs -------------------------
(***************************************************************************)
(* The packet protocol is a queue of payloads, for any number of payloads  *)
(* of any length, any size of a byte, and wherever a write or the link     *)
(* breaks off.                                                             *)
(*                                                                         *)
(* The invariant names the points of the stream at which packets begin:    *)
(* each says which payload its packet continues, where in it, and with     *)
(* which number, and follows from the point before it. The writer is at    *)
(* the last point; the reader is at one of them or behind its header.      *)
(***************************************************************************)
EXTENDS PacketFraming, TLAPS

-----------------------------------------------------------------------------
(* The header.                                                             *)

LEMMA Digits ==
    ASSUME NEW n \in Nat, NEW b \in Nat \ {0}
    PROVE  /\ n = b * (n \div b) + (n % b)
           /\ n \div b \in Nat /\ n % b \in 0 .. b - 1
OBVIOUS

LEMMA Factors ==
    ASSUME NEW b \in Nat, NEW c \in Nat, NEW d \in Nat, c <= d
    PROVE  b * c <= b * d /\ b * c \in Nat
OBVIOUS

LEMMA SmallDigit ==
    ASSUME NEW b \in Nat \ {0}, NEW n \in 0 .. b - 1
    PROVE  n % b = n
<1> DEFINE q == n \div b
           r == n % b
<1>0. n \in Nat /\ b \in Nat OBVIOUS
<1>1. n = b * q + r /\ q \in Nat /\ r \in 0 .. b - 1 BY <1>0, Digits
<1> HIDE DEF q, r
<1>2. CASE q = 0 BY <1>0, <1>1, <1>2 DEF r
<1>3. CASE q >= 1
  <2>1. b * 1 <= b * q /\ b * q \in Nat BY <1>0, <1>1, <1>3, Factors
  <2> QED BY <1>0, <1>1, <2>1
<1> QED BY <1>1, <1>2, <1>3

LEMMA BaseFacts ==
    /\ Base \in Nat \ {0, 1}
    /\ maxPacketSize \in Nat \ {0}
<1>1. Base \in Nat /\ Base >= 2 BY FramingAssumption
<1>2. Base * 2 <= Base * Base /\ Base * Base \in Nat BY <1>1, Factors
<1> DEFINE s == Base * Base
<1>3. Base * 2 <= Base * s /\ Base * s \in Nat BY <1>1, <1>2, Factors
<1>4. Base * Base * Base = Base * s BY <1>1
<1> HIDE DEF s
<1> QED BY <1>1, <1>3, <1>4 DEF maxPacketSize

(* The three bytes of a length say what it was.                            *)
LEMMA HeaderSays ==
    ASSUME NEW n \in 0 .. maxPacketSize, NEW sequence
    PROVE  HeaderLength(Header(n, sequence)) = n
<1> DEFINE b == Base
           q1 == n \div b
           q2 == q1 \div b
<1>0. b \in Nat \ {0} /\ n \in Nat BY BaseFacts
<1>1. n = b * q1 + (n % b) /\ q1 \in Nat /\ n % b \in 0 .. b - 1 BY <1>0, Digits
<1>2. q1 = b * q2 + (q1 % b) /\ q2 \in Nat /\ q1 % b \in 0 .. b - 1 BY <1>0, <1>1, Digits
<1>3. q2 < b
  <2>1. SUFFICES ASSUME q2 >= b PROVE FALSE BY <1>0, <1>2
  <2>2. b * b <= b * q2 /\ b * b \in Nat /\ b * q2 \in Nat BY <1>0, <1>2, <2>1, Factors
  <2> HIDE DEF q1, q2
  <2> DEFINE s == b * b
             t == b * q2
  <2>3. s \in Nat /\ t \in Nat /\ s <= t BY <2>2
  <2>4. t <= q1 BY <1>2, <1>0, <2>3
  <2>5. b * s <= b * q1 /\ b * s \in Nat BY <1>0, <1>1, <2>3, <2>4, Factors
  <2>6. b * s = Base * Base * Base BY <1>0
  <2> HIDE DEF s, t
  <2>7. n <= b * s - 1 BY <2>6, BaseFacts DEF maxPacketSize
  <2>8. b * q1 \in Nat BY <1>0, <1>1
  <2> QED BY <1>0, <1>1, <2>5, <2>7, <2>8
<1>4. q2 % b = q2
  <2> HIDE DEF q2
  <2>1. q2 \in 0 .. b - 1 BY <1>0, <1>2, <1>3
  <2> QED BY <1>0, <2>1, SmallDigit
<1>5. Header(n, sequence)[1] = n % b /\ Header(n, sequence)[2] = q1 % b
        /\ Header(n, sequence)[3] = q2
  BY <1>4 DEF Header, LowByte, Shifted
<1> HIDE DEF q1, q2
<1>6. HeaderLength(Header(n, sequence)) = (n % b) + b * (q1 % b) + b * b * q2
  BY <1>5 DEF HeaderLength
<1>7. b * (b * q2 + (q1 % b)) = b * b * q2 + b * (q1 % b) BY <1>0, <1>2
<1>8. b * b * q2 \in Nat /\ b * (q1 % b) \in Nat BY <1>0, <1>2
<1> QED BY <1>0, <1>1, <1>2, <1>6, <1>7, <1>8

LEMMA PacketSize ==
    ASSUME NEW n \in Nat
    PROVE  /\ packetSize(n) \in 0 .. maxPacketSize /\ packetSize(n) <= n
           /\ packetSize(n) # maxPacketSize => packetSize(n) = n
BY BaseFacts DEF packetSize

LEMMA Numbers ==
    ASSUME NEW n \in Nat
    PROVE  LowByte(n) \in 0 .. Base - 1 /\ LowByte(n) \in Nat /\ Shifted(n) \in Nat
BY BaseFacts, Digits DEF LowByte, Shifted

-----------------------------------------------------------------------------
(* The points at which packets begin, for payloads g and a stream s.       *)

Point == [start : Nat, of : Nat, off : Nat, seq : Nat]
Origin == [start |-> 0, of |-> 1, off |-> 0, seq |-> 0]

SizeAt(g, p) == packetSize(Len(g[p.of]) - p.off)
PacketAt(g, p) ==
    Header(SizeAt(g, p), p.seq) \o SubSeq(g[p.of], p.off + 1, p.off + SizeAt(g, p))
After(g, p) ==
    [start |-> p.start + 4 + SizeAt(g, p),
     of |-> IF SizeAt(g, p) = maxPacketSize THEN p.of ELSE p.of + 1,
     off |-> IF SizeAt(g, p) = maxPacketSize THEN p.off + SizeAt(g, p) ELSE 0,
     seq |-> LowByte(p.seq + 1)]

Within(g, p) == p.of \in 1 .. Len(g) /\ p.off <= Len(g[p.of])

(* What is left of the packet that begins at p.                            *)
Sent(g, s, p) ==
    \A k \in 1 .. 4 + SizeAt(g, p) :
        p.start + k <= Len(s) => s[p.start + k] = PacketAt(g, p)[k]

Points(g, s, pt) ==
    /\ pt \in Seq(Point) /\ Len(pt) >= 1 /\ pt[1] = Origin
    /\ \A i \in 1 .. Len(pt) : pt[i].off > 0 => Within(g, pt[i])
    /\ \A i \in 1 .. Len(pt) - 1 :
        /\ Within(g, pt[i]) /\ pt[i + 1] = After(g, pt[i]) /\ Sent(g, s, pt[i])
        /\ pt[i + 1].start <= pt[Len(pt)].start

Payload == Seq(Nat)

LEMMA HeaderType ==
    ASSUME NEW n \in Nat, NEW sequence \in Nat
    PROVE  /\ Header(n, sequence) \in Seq(Nat) /\ Len(Header(n, sequence)) = 4
           /\ Header(n, sequence)[4] = sequence
<1>1. LowByte(n) \in Nat /\ Shifted(n) \in Nat BY Numbers
<1>2. LowByte(Shifted(n)) \in Nat /\ Shifted(Shifted(n)) \in Nat BY <1>1, Numbers
<1>3. LowByte(Shifted(Shifted(n))) \in Nat BY <1>2, Numbers
<1> QED BY <1>1, <1>2, <1>3 DEF Header

LEMMA Part ==
    ASSUME NEW d \in Payload, NEW m \in Nat, NEW n \in Nat, m + n <= Len(d)
    PROVE  /\ SubSeq(d, m + 1, m + n) \in Payload /\ Len(SubSeq(d, m + 1, m + n)) = n
           /\ \A k \in 1 .. n : SubSeq(d, m + 1, m + n)[k] = d[m + k]
BY DEF Payload

LEMMA Joined ==
    ASSUME NEW a \in Payload, NEW b \in Payload
    PROVE  /\ a \o b \in Payload /\ Len(a \o b) = Len(a) + Len(b)
           /\ \A k \in 1 .. Len(a) : (a \o b)[k] = a[k]
           /\ \A k \in 1 .. Len(b) : (a \o b)[Len(a) + k] = b[k]
BY DEF Payload

LEMMA Element ==
    ASSUME NEW d \in Payload, NEW k \in 1 .. Len(d)
    PROVE  d[k] \in Nat
BY DEF Payload

LEMMA Appended ==
    ASSUME NEW S, NEW s \in Seq(S), NEW e \in S
    PROVE  /\ Append(s, e) \in Seq(S) /\ Len(Append(s, e)) = Len(s) + 1
           /\ Append(s, e)[Len(s) + 1] = e /\ Append(s, e) # <<>>
           /\ \A k \in 1 .. Len(s) : Append(s, e)[k] = s[k]
OBVIOUS

LEMMA Same ==
    ASSUME NEW a \in Payload, NEW b \in Payload, Len(a) = Len(b),
           \A k \in 1 .. Len(a) : a[k] = b[k]
    PROVE  a = b
BY DEF Payload

LEMMA PacketFacts ==
    ASSUME NEW g \in Seq(Payload), NEW p \in Point, Within(g, p)
    PROVE  /\ g[p.of] \in Payload
           /\ SizeAt(g, p) \in 0 .. maxPacketSize /\ p.off + SizeAt(g, p) <= Len(g[p.of])
           /\ SizeAt(g, p) # maxPacketSize => p.off + SizeAt(g, p) = Len(g[p.of])
           /\ PacketAt(g, p) \in Seq(Nat) /\ Len(PacketAt(g, p)) = 4 + SizeAt(g, p)
           /\ \A k \in 1 .. 4 : PacketAt(g, p)[k] = Header(SizeAt(g, p), p.seq)[k]
           /\ \A k \in 1 .. SizeAt(g, p) : PacketAt(g, p)[4 + k] = g[p.of][p.off + k]
           /\ After(g, p) \in Point
           /\ After(g, p).off > 0 => Within(g, After(g, p))
<1> DEFINE d == g[p.of]
           n == SizeAt(g, p)
           h == Header(n, p.seq)
           b == SubSeq(d, p.off + 1, p.off + n)
<1>1. p.of \in Nat /\ p.off \in Nat /\ p.start \in Nat /\ p.seq \in Nat BY DEF Point
<1>2. d \in Payload BY DEF Within
<1>3. Len(d) - p.off \in Nat BY <1>1, <1>2 DEF Within, Payload
<1>4. n \in 0 .. maxPacketSize /\ n <= Len(d) - p.off
        /\ (n # maxPacketSize => n = Len(d) - p.off)
  BY <1>3, PacketSize DEF SizeAt
<1>5. n \in Nat BY <1>4, BaseFacts
<1> HIDE DEF n, d
<1>6. h \in Payload /\ Len(h) = 4 BY <1>1, <1>5, HeaderType DEF Payload
<1> HIDE DEF h
<1>7. b \in Payload /\ Len(b) = n /\ \A k \in 1 .. n : b[k] = d[p.off + k]
  <2>1. p.off + n <= Len(d) BY <1>1, <1>2, <1>4, <1>5 DEF Payload
  <2> QED BY <1>1, <1>2, <1>5, <2>1, Part
<1> HIDE DEF b
<1>8. PacketAt(g, p) = h \o b BY DEF PacketAt, h, b, n, d
<1>9. /\ h \o b \in Payload /\ Len(h \o b) = 4 + n
      /\ \A k \in 1 .. 4 : (h \o b)[k] = h[k]
      /\ \A k \in 1 .. n : (h \o b)[4 + k] = b[k]
  <2>1. /\ h \o b \in Payload /\ Len(h \o b) = Len(h) + Len(b)
        /\ \A k \in 1 .. Len(h) : (h \o b)[k] = h[k]
        /\ \A k \in 1 .. Len(b) : (h \o b)[Len(h) + k] = b[k]
    BY <1>6, <1>7, Joined
  <2> QED BY <1>6, <1>7, <2>1
<1>10. After(g, p) \in Point
  <2>0. p.seq + 1 \in Nat BY <1>1
  <2>1. LowByte(p.seq + 1) \in Nat BY <2>0, Numbers
  <2>2. p.off + n \in Nat /\ p.start + 4 + n \in Nat /\ p.of + 1 \in Nat BY SMTT(30), <1>1, <1>5
  <2>3. (IF SizeAt(g, p) = maxPacketSize THEN p.of ELSE p.of + 1) \in Nat BY <1>1, <2>2
  <2>4. (IF SizeAt(g, p) = maxPacketSize THEN p.off + SizeAt(g, p) ELSE 0) \in Nat
    BY <2>2 DEF n
  <2>5. p.start + 4 + SizeAt(g, p) \in Nat BY <2>2 DEF n
  <2> QED BY <2>1, <2>3, <2>4, <2>5 DEF After, Point
<1>11. After(g, p).off > 0 => Within(g, After(g, p))
  BY <1>1, <1>2, <1>4, <1>5 DEF After, Within, n, d, Payload
<1>12. p.off + n <= Len(d) /\ (n # maxPacketSize => p.off + n = Len(d))
  BY <1>1, <1>2, <1>3, <1>4, <1>5 DEF Payload
<1>13. \A k \in 1 .. 4 : PacketAt(g, p)[k] = h[k] BY <1>8, <1>9
<1>14. \A k \in 1 .. n : PacketAt(g, p)[4 + k] = d[p.off + k] BY <1>7, <1>8, <1>9
<1> QED BY <1>2, <1>4, <1>8, <1>9, <1>10, <1>11, <1>12, <1>13, <1>14 DEF n, d, h, Payload

LEMMA SizeNat ==
    ASSUME NEW g \in Seq(Payload), NEW p \in Point, Within(g, p)
    PROVE  /\ SizeAt(g, p) \in Nat /\ p.start \in Nat /\ p.off \in Nat
           /\ After(g, p).start = p.start + 4 + SizeAt(g, p)
<1>1. SizeAt(g, p) \in 0 .. maxPacketSize BY PacketFacts
<1>2. p.start \in Nat /\ p.off \in Nat BY DEF Point
<1> QED BY <1>1, <1>2, BaseFacts DEF After

LEMMA PointsTyped ==
    ASSUME NEW g, NEW s, NEW pt, Points(g, s, pt)
    PROVE  /\ Len(pt) \in Nat \ {0} /\ \A i \in 1 .. Len(pt) : pt[i] \in Point
           /\ pt \in Seq(Point)
BY DEF Points

LEMMA Grown ==
    ASSUME NEW g \in Seq(Payload), NEW d \in Payload, NEW p \in Point, Within(g, p)
    PROVE  /\ Append(g, d)[p.of] = g[p.of]
           /\ Within(Append(g, d), p) /\ SizeAt(Append(g, d), p) = SizeAt(g, p)
           /\ After(Append(g, d), p) = After(g, p)
           /\ PacketAt(Append(g, d), p) = PacketAt(g, p)
<1> DEFINE h == Append(g, d)
<1>1. Len(h) = Len(g) + 1 /\ \A i \in 1 .. Len(g) : h[i] = g[i] OBVIOUS
<1> HIDE DEF h
<1>2. h[p.of] = g[p.of] /\ p.of \in 1 .. Len(h) BY <1>1 DEF Within
<1>3. SizeAt(h, p) = SizeAt(g, p) BY <1>2 DEF SizeAt
<1>4. After(h, p) = After(g, p) BY <1>3 DEF After
<1>5. PacketAt(h, p) = PacketAt(g, p) BY <1>2, <1>3 DEF PacketAt
<1> QED BY <1>2, <1>3, <1>4, <1>5 DEF h, Within

(* Another payload moves no point.                                         *)
LEMMA PointsGrow ==
    ASSUME NEW g \in Seq(Payload), NEW s, NEW pt, Points(g, s, pt), NEW d \in Payload
    PROVE  Points(Append(g, d), s, pt)
<1> DEFINE h == Append(g, d)
<1>1. ASSUME NEW p \in Point, Within(g, p)
      PROVE  /\ Within(h, p) /\ SizeAt(h, p) = SizeAt(g, p) /\ After(h, p) = After(g, p)
             /\ PacketAt(h, p) = PacketAt(g, p)
  BY <1>1, Grown
<1> HIDE DEF h
<1>2. ASSUME NEW p \in Point, Within(g, p), Sent(g, s, p) PROVE Sent(h, s, p)
  BY <1>1, <1>2 DEF Sent
<1>3. \A i \in 1 .. Len(pt) : pt[i] \in Point BY PointsTyped
<1>4. \A i \in 1 .. Len(pt) : pt[i].off > 0 => Within(h, pt[i]) BY <1>1, <1>3 DEF Points
<1>5. ASSUME NEW i \in 1 .. Len(pt) - 1
      PROVE  /\ Within(h, pt[i]) /\ pt[i + 1] = After(h, pt[i]) /\ Sent(h, s, pt[i])
             /\ pt[i + 1].start <= pt[Len(pt)].start
  <2>1. i \in 1 .. Len(pt) BY PointsTyped
  <2>2. /\ Within(g, pt[i]) /\ pt[i + 1] = After(g, pt[i]) /\ Sent(g, s, pt[i])
        /\ pt[i + 1].start <= pt[Len(pt)].start
    BY <1>5 DEF Points
  <2> QED BY <1>1, <1>2, <1>3, <2>1, <2>2
<1>6. Points(h, s, pt) BY <1>4, <1>5 DEF Points
<1> QED BY <1>6 DEF h

(* Nor does a loss.                                                        *)
LEMMA PointsCut ==
    ASSUME NEW g, NEW s \in Payload, NEW pt, Points(g, s, pt), NEW n \in 0 .. Len(s)
    PROVE  Points(g, SubSeq(s, 1, n), pt)
<1> DEFINE c == SubSeq(s, 1, n)
<1>0. n \in Nat /\ Len(s) \in Nat /\ n <= Len(s) BY DEF Payload
<1>1. c \in Payload /\ Len(c) = n /\ \A i \in 1 .. n : c[i] = s[i] BY <1>0 DEF Payload
<1> HIDE DEF c
<1>2. ASSUME NEW i \in 1 .. Len(pt) - 1 PROVE Sent(g, c, pt[i])
  <2>1. pt[i] \in Point BY PointsTyped
  <2>2. pt[i].start \in Nat BY <2>1 DEF Point
  <2>3. Sent(g, s, pt[i]) BY DEF Points
  <2>4. ASSUME NEW k \in 1 .. 4 + SizeAt(g, pt[i]), pt[i].start + k <= Len(c)
        PROVE  c[pt[i].start + k] = PacketAt(g, pt[i])[k]
    <3>1. k \in Nat /\ k >= 1 OBVIOUS
    <3>2. pt[i].start + k \in 1 .. n /\ pt[i].start + k <= Len(s)
      BY <1>0, <1>1, <2>2, <2>4, <3>1
    <3> QED BY <1>1, <2>3, <3>2 DEF Sent
  <2> QED BY <2>4 DEF Sent
<1>3. Points(g, c, pt) BY <1>2 DEF Points
<1> QED BY <1>3 DEF c

(* A packet, or a part of one, goes behind the last point.                 *)
LEMMA PointsWrite ==
    ASSUME NEW g \in Seq(Payload), NEW s \in Payload, NEW pt, Points(g, s, pt),
           Within(g, pt[Len(pt)]), Len(s) = pt[Len(pt)].start,
           NEW b \in Payload, Len(b) <= Len(PacketAt(g, pt[Len(pt)])),
           \A k \in 1 .. Len(b) : b[k] = PacketAt(g, pt[Len(pt)])[k]
    PROVE  Points(g, s \o b, Append(pt, After(g, pt[Len(pt)])))
<1> DEFINE p == pt[Len(pt)]
           t == s \o b
           q == Append(pt, After(g, p))
<1>1. Len(pt) \in Nat \ {0} /\ p \in Point /\ p.start \in Nat BY PointsTyped DEF Point
<1>2. After(g, p) \in Point /\ (After(g, p).off > 0 => Within(g, After(g, p)))
        /\ PacketAt(g, p) \in Seq(Nat) /\ Len(PacketAt(g, p)) = 4 + SizeAt(g, p)
  BY <1>1, PacketFacts
<1>3. /\ q \in Seq(Point) /\ Len(q) = Len(pt) + 1 /\ q[Len(pt) + 1] = After(g, p)
      /\ \A i \in 1 .. Len(pt) : q[i] = pt[i]
  BY <1>1, <1>2, PointsTyped
<1>4. /\ t \in Payload /\ Len(t) = Len(s) + Len(b) /\ \A i \in 1 .. Len(s) : t[i] = s[i]
      /\ \A k \in 1 .. Len(b) : t[Len(s) + k] = b[k] /\ Len(s) \in Nat /\ Len(b) \in Nat
  <2>1. Len(s) \in Nat /\ Len(b) \in Nat BY DEF Payload
  <2> QED BY <2>1, Joined DEF Payload
<1> HIDE DEF t, q
<1>5. Sent(g, t, p)
  <2>1. ASSUME NEW k \in 1 .. 4 + SizeAt(g, p), p.start + k <= Len(t)
        PROVE  t[p.start + k] = PacketAt(g, p)[k]
    <3>1. k \in Nat /\ k >= 1 OBVIOUS
    <3>2. k \in 1 .. Len(b) BY <1>1, <1>4, <2>1, <3>1
    <3> QED BY <1>4, <3>2
  <2> QED BY <2>1 DEF Sent
<1>6. ASSUME NEW i \in 1 .. Len(pt) - 1 PROVE Sent(g, t, pt[i])
  <2>1. pt[i] \in Point /\ pt[i + 1] \in Point BY <1>1, PointsTyped
  <2>2. pt[i].start \in Nat /\ pt[i].off \in Nat BY <2>1 DEF Point
  <2>3. /\ Within(g, pt[i]) /\ pt[i + 1] = After(g, pt[i]) /\ Sent(g, s, pt[i])
        /\ pt[i + 1].start <= Len(s)
    BY DEF Points
  <2>4. SizeAt(g, pt[i]) \in Nat /\ pt[i].start + 4 + SizeAt(g, pt[i]) <= Len(s)
    BY <2>1, <2>3, SizeNat
  <2>5. ASSUME NEW k \in 1 .. 4 + SizeAt(g, pt[i])
        PROVE  t[pt[i].start + k] = PacketAt(g, pt[i])[k]
    <3>1. k \in Nat /\ k >= 1 /\ k <= 4 + SizeAt(g, pt[i]) BY <2>4
    <3> DEFINE a == pt[i].start
               z == SizeAt(g, pt[i])
               l == Len(s)
    <3>2. a \in Nat /\ z \in Nat /\ l \in Nat /\ a + 4 + z <= l /\ k <= 4 + z
      BY <1>4, <2>2, <2>4, <3>1
    <3> HIDE DEF a, z, l
    <3>3. a + k \in 1 .. l /\ a + k <= l BY SMTT(30), <3>1, <3>2
    <3>4. pt[i].start + k \in 1 .. Len(s) BY <3>3 DEF a, l
    <3>5. pt[i].start + k <= Len(s) BY <3>3 DEF a, l
    <3> QED BY <1>4, <2>3, <3>4, <3>5 DEF Sent
  <2> QED BY <2>5 DEF Sent
<1>7. \A i \in 1 .. Len(q) : q[i].off > 0 => Within(g, q[i])
  <2>1. ASSUME NEW i \in 1 .. Len(q), q[i].off > 0 PROVE Within(g, q[i])
    <3>1. CASE i = Len(pt) + 1 BY <1>2, <1>3, <2>1, <3>1
    <3>2. CASE i \in 1 .. Len(pt) BY <1>3, <2>1, <3>2 DEF Points
    <3> QED BY <1>1, <1>3, <3>1, <3>2
  <2> QED BY <2>1
<1>8. ASSUME NEW i \in 1 .. Len(q) - 1
      PROVE  /\ Within(g, q[i]) /\ q[i + 1] = After(g, q[i]) /\ Sent(g, t, q[i])
             /\ q[i + 1].start <= q[Len(q)].start
  <2>1. SizeAt(g, p) \in Nat /\ After(g, p).start = p.start + 4 + SizeAt(g, p)
    BY <1>1, SizeNat
  <2>2. CASE i = Len(pt)
    <3>1. i \in 1 .. Len(pt) /\ i + 1 = Len(pt) + 1 /\ i + 1 = Len(q) BY <1>1, <1>3, <2>2
    <3>2. q[i] = p /\ q[i + 1] = After(g, p) /\ q[Len(q)] = After(g, p)
      BY <1>3, <2>2, <3>1
    <3>3. After(g, p).start \in Nat BY <1>2 DEF Point
    <3> QED BY <1>5, <3>2, <3>3
  <2>3. CASE i \in 1 .. Len(pt) - 1
    <3>1. q[i] = pt[i] /\ q[i + 1] = pt[i + 1] BY <1>1, <1>3, <2>3
    <3>2. /\ Within(g, pt[i]) /\ pt[i + 1] = After(g, pt[i])
          /\ pt[i + 1].start <= p.start
      BY <2>3 DEF Points
    <3>3. pt[i + 1] \in Point BY <1>1, <2>3, PointsTyped
    <3>4. pt[i + 1].start \in Nat BY <3>3 DEF Point
    <3> QED BY SMTT(30), <1>1, <1>3, <1>6, <2>1, <2>3, <3>1, <3>2, <3>4
  <2> QED BY <1>1, <1>3, <2>2, <2>3
<1>9. Points(g, t, q)
  <2>1. q[1] = Origin /\ Len(q) >= 1 BY <1>1, <1>3 DEF Points
  <2> QED BY <1>3, <1>7, <1>8, <2>1 DEF Points
<1> QED BY <1>9 DEF t, q

-----------------------------------------------------------------------------
(* The invariant.                                                          *)

Tip(pt) == pt[Len(pt)]

(* The writer goes on at the last point, as long as the link is up.        *)
WriterAt(p) ==
    /\ Len(stream) <= p.start
    /\ link = "up" =>
        /\ Len(stream) = p.start /\ writeSeq = p.seq
        /\ writing => p.of = Len(given) /\ p.off = written
        /\ ~writing => p.of = Len(given) + 1 /\ p.off = 0

(* The reader has taken what lies before the point, and has not forgotten  *)
(* what it has read of its payload.                                        *)
ReaderAt(pt, r) ==
    stage # "failed" =>
        /\ pt[r].of = Len(got) + 1
        /\ prevData = IF pt[r].off = 0 THEN <<>> ELSE SubSeq(given[pt[r].of], 1, pt[r].off)
        /\ stage \in {"idle", "header"} => at = pt[r].start /\ readSeq = pt[r].seq
        /\ stage = "idle" => pt[r].off = 0
        /\ stage = "body" =>
            /\ r < Len(pt) /\ at = pt[r].start + 4 /\ readSeq = LowByte(pt[r].seq + 1)
            /\ pktLen = SizeAt(given, pt[r]) /\ pktLen > 0

Placed ==
    \E pt : /\ Points(given, stream, pt) /\ WriterAt(Tip(pt))
            /\ \E r \in 1 .. Len(pt) : ReaderAt(pt, r)

Inv == FramingTypeOK /\ Placed /\ PayloadsInOrder /\ NumbersAgree

LEMMA TypesHere ==
    ASSUME FramingTypeOK
    PROVE  /\ given \in Seq(Payload) /\ got \in Seq(Payload) /\ stream \in Payload
           /\ prevData \in Payload /\ Len(given) \in Nat /\ Len(got) \in Nat
           /\ Len(stream) \in Nat /\ at \in 0 .. Len(stream) /\ pktLen \in Nat
BY DEF FramingTypeOK, Payload

(* The packet that is written next is the one at the writer's point.       *)
LEMMA PacketInHand ==
    ASSUME FramingTypeOK, writing, link = "up", NEW p \in Point, WriterAt(p)
    PROVE  /\ Within(given, p) /\ packet = PacketAt(given, p) /\ size = SizeAt(given, p)
<1>1. p.of = Len(given) /\ p.off = written /\ writeSeq = p.seq BY DEF WriterAt
<1>2. given # <<>> /\ written \in 0 .. Len(payload) BY DEF FramingTypeOK
<1>3. Len(given) \in 1 .. Len(given) BY <1>2, TypesHere
<1>4. payload = given[p.of] BY <1>1 DEF payload
<1>5. Within(given, p) BY <1>1, <1>2, <1>3, <1>4 DEF Within
<1>6. size = SizeAt(given, p) BY <1>1, <1>4 DEF size, remaining, SizeAt
<1>7. packet = PacketAt(given, p) BY <1>1, <1>4, <1>6 DEF packet, PacketAt
<1> QED BY <1>5, <1>6, <1>7

LEMMA InitInv == Init => Inv
<1> SUFFICES ASSUME Init PROVE Inv OBVIOUS
<1>1. FramingTypeOK
  <2>1. 0 \in 0 .. Base - 1 BY BaseFacts
  <2>2. stream = <<>> /\ 0 \in 0 .. Len(stream) BY DEF Init
  <2>3. given \in Seq(Seq(Nat)) /\ got \in Seq(Seq(Nat)) /\ stream \in Seq(Nat)
          /\ prevData \in Seq(Nat)
    BY DEF Init
  <2> QED BY <2>1, <2>2, <2>3 DEF Init, FramingTypeOK
<1>2. Placed
  <2> DEFINE pt == <<Origin>>
  <2>1. Origin \in Point BY DEF Origin, Point
  <2>2. pt \in Seq(Point) /\ Len(pt) = 1 /\ pt[1] = Origin BY <2>1
  <2>3. Origin.start = 0 /\ Origin.of = 1 /\ Origin.off = 0 /\ Origin.seq = 0 BY DEF Origin
  <2> HIDE DEF pt
  <2>4. Points(given, stream, pt) BY <2>2, <2>3 DEF Points
  <2>5. WriterAt(Tip(pt)) BY <2>2, <2>3 DEF Init, WriterAt, Tip
  <2>6. 1 \in 1 .. Len(pt) /\ ReaderAt(pt, 1) BY <2>2, <2>3 DEF Init, ReaderAt
  <2> QED BY <2>4, <2>5, <2>6 DEF Placed
<1>3. PayloadsInOrder /\ NumbersAgree BY DEF Init, PayloadsInOrder, NumbersAgree
<1> QED BY <1>1, <1>2, <1>3 DEF Inv

-----------------------------------------------------------------------------
(* Types.                                                                  *)

LEMMA PacketType ==
    ASSUME FramingTypeOK, writing
    PROVE  /\ packet \in Payload /\ Len(packet) = 4 + size
           /\ size \in 0 .. maxPacketSize /\ written + size <= Len(payload)
           /\ payload \in Payload
<1>1. given # <<>> /\ written \in 0 .. Len(payload) BY DEF FramingTypeOK
<1>2. payload \in Payload
  <2>1. Len(given) \in 1 .. Len(given) BY <1>1, TypesHere
  <2> QED BY <2>1, TypesHere DEF payload
<1>3. Len(payload) \in Nat /\ written \in Nat /\ remaining \in Nat
        /\ remaining = Len(payload) - written
  BY <1>1, <1>2 DEF Payload, remaining
<1>4. size \in 0 .. maxPacketSize /\ size <= remaining BY <1>3, PacketSize DEF size
<1>5. size \in Nat /\ written + size <= Len(payload) BY <1>3, <1>4, BaseFacts
<1>6. SubSeq(payload, written + 1, written + size) \in Payload
        /\ Len(SubSeq(payload, written + 1, written + size)) = size
  BY <1>2, <1>3, <1>5, Part
<1>7. writeSeq \in Nat BY BaseFacts DEF FramingTypeOK
<1>8. Header(size, writeSeq) \in Payload /\ Len(Header(size, writeSeq)) = 4
  BY <1>5, <1>7, HeaderType DEF Payload
<1>9. packet \in Payload /\ Len(packet) = 4 + size
  <2> DEFINE a == Header(size, writeSeq)
             b == SubSeq(payload, written + 1, written + size)
  <2>1. a \in Payload /\ b \in Payload /\ Len(a) = 4 /\ Len(b) = size BY <1>6, <1>8
  <2>2. packet = a \o b BY DEF packet
  <2> HIDE DEF a, b
  <2>3. a \o b \in Payload /\ Len(a \o b) = Len(a) + Len(b) BY <2>1, Joined
  <2> QED BY <2>1, <2>2, <2>3
<1> QED BY <1>2, <1>4, <1>5, <1>9

LEMMA TakenType ==
    ASSUME FramingTypeOK, NEW n \in Nat, Arrived(n)
    PROVE  /\ Taken(n) \in Payload /\ Len(Taken(n)) = n /\ at + n \in 0 .. Len(stream)
           /\ \A k \in 1 .. n : Taken(n)[k] = stream[at + k]
<1>1. at \in Nat /\ at + n <= Len(stream) /\ Len(stream) \in Nat
  BY TypesHere DEF Arrived
<1> QED BY <1>1, TypesHere, Part DEF Taken

LEMMA LengthType ==
    ASSUME NEW h \in Payload, Len(h) = 4
    PROVE  HeaderLength(h) \in Nat
<1>1. h[1] \in Nat /\ h[2] \in Nat /\ h[3] \in Nat
  <2>1. 1 \in 1 .. Len(h) /\ 2 \in 1 .. Len(h) /\ 3 \in 1 .. Len(h) OBVIOUS
  <2> QED BY <2>1, Element
<1>2. Base * h[2] \in Nat /\ Base * Base \in Nat BY <1>1, BaseFacts
<1>3. Base * Base * h[3] \in Nat BY <1>1, <1>2
<1> QED BY <1>1, <1>2, <1>3 DEF HeaderLength

LEMMA TypeStep == FramingTypeOK /\ [Next]_framing => FramingTypeOK'
<1> SUFFICES ASSUME FramingTypeOK, [Next]_framing PROVE FramingTypeOK' OBVIOUS
<1>t. writeSeq + 1 \in Nat /\ readSeq + 1 \in Nat BY BaseFacts DEF FramingTypeOK
<1>s. LowByte(writeSeq + 1) \in 0 .. Base - 1 /\ LowByte(readSeq + 1) \in 0 .. Base - 1
  BY <1>t, Numbers
<1>1. ASSUME NEW p \in Payloads, WriteCall(p) PROVE FramingTypeOK'
  <2>1. p \in Seq(Nat) BY FramingAssumption
  <2>2. CASE Len(p) > maxAllowedPacket
    BY <1>1, <2>2 DEF WriteCall, FramingTypeOK, readerVars, payload
  <2>3. CASE ~(Len(p) > maxAllowedPacket)
    <3>1. given' = Append(given, p) /\ written' = 0 BY <1>1, <2>3 DEF WriteCall
    <3>2. given' \in Seq(Seq(Nat)) /\ given' # <<>> /\ given'[Len(given')] = p
      <4>1. given \in Seq(Seq(Nat)) /\ Len(given) \in Nat BY DEF FramingTypeOK
      <4>2. /\ Append(given, p) \in Seq(Seq(Nat)) /\ Append(given, p) # <<>>
            /\ Len(Append(given, p)) = Len(given) + 1
            /\ Append(given, p)[Len(given) + 1] = p
        BY <2>1, <4>1, Appended
      <4> QED BY <3>1, <4>2
    <3>3. written' \in 0 .. Len(payload') BY <2>1, <3>1, <3>2 DEF payload
    <3> QED BY <1>1, <2>3, <3>1, <3>2, <3>3 DEF WriteCall, FramingTypeOK, readerVars
  <2> QED BY <2>2, <2>3
<1>2. CASE WritePacket
  <2>1. writing /\ stream' = stream \o packet /\ given' = given BY <1>2 DEF WritePacket
  <2>2. /\ packet \in Payload /\ Len(packet) = 4 + size /\ size \in Nat
        /\ stream \in Payload /\ at \in 0 .. Len(stream) /\ Len(stream) \in Nat
    BY <2>1, PacketType, TypesHere, BaseFacts
  <2>3. stream' \in Seq(Nat) /\ at \in 0 .. Len(stream')
    <3>1. stream \o packet \in Payload /\ Len(stream \o packet) = Len(stream) + Len(packet)
      BY <2>2, Joined
    <3> QED BY <2>1, <2>2, <3>1 DEF Payload
  <2>4. payload' = payload BY <2>1 DEF payload
  <2>5. given # <<>> /\ written \in Nat /\ written + size \in 0 .. Len(payload)
    BY SMTT(30), <2>1, PacketType, BaseFacts DEF FramingTypeOK, Payload
  <2>6. /\ writing' \in BOOLEAN /\ writeError' \in {"nil", writeError}
        /\ written' \in {written, written + size}
        /\ writeSeq' = LowByte(writeSeq + 1) /\ UNCHANGED <<given, link, readerVars>>
    BY <1>2, <2>1 DEF WritePacket
  <2>7. written' \in 0 .. Len(payload') /\ given' # <<>>
    <3>1. written \in 0 .. Len(payload) BY <2>1 DEF FramingTypeOK
    <3> QED BY <2>1, <2>4, <2>5, <2>6, <3>1
  <2>8. written' \in Nat BY <2>5, <2>6, <2>2
  <2> QED BY <1>s, <2>3, <2>6, <2>7, <2>8 DEF FramingTypeOK, readerVars
<1>3. CASE WriteFails
  <2>1. PICK n \in Breaks \cap (0 .. Len(packet) - 1) : stream' = stream \o SubSeq(packet, 1, n)
    BY <1>3 DEF WriteFails
  <2>2. writing BY <1>3 DEF WriteFails
  <2>3. SubSeq(packet, 1, n) \in Payload /\ Len(SubSeq(packet, 1, n)) \in Nat
    BY SMTT(30), <2>2, PacketType DEF Payload
  <2>4. stream' \in Seq(Nat) /\ at \in 0 .. Len(stream')
    BY <2>1, <2>3, TypesHere, Joined DEF Payload
  <2> QED BY <1>3, <2>4 DEF WriteFails, FramingTypeOK, readerVars
<1>4. CASE Lose
  <2>1. PICK n \in Breaks : at + n <= Len(stream) /\ stream' = SubSeq(stream, 1, at + n)
    BY <1>4 DEF Lose
  <2>2. n \in Nat BY FramingAssumption
  <2>3. stream' \in Seq(Nat) /\ at \in 0 .. Len(stream')
    BY SMTT(30), <2>1, <2>2, TypesHere DEF Payload
  <2> QED BY <1>4, <2>3 DEF Lose, FramingTypeOK, readerVars, writerVars, payload
<1>5. CASE ReadCall
  BY <1>5 DEF ReadCall, FramingTypeOK, writerVars, payload
<1>6. CASE ReadHeader
  <2>1. Taken(4) \in Payload /\ Len(Taken(4)) = 4 /\ at + 4 \in 0 .. Len(stream)
    BY <1>6, TakenType DEF ReadHeader
  <2>2. HeaderLength(Taken(4)) \in Nat BY <2>1, LengthType
  <2>3. Append(got, prevData) \in Seq(Seq(Nat)) BY DEF FramingTypeOK
  <2>4. got' \in {got, Append(got, prevData)} /\ prevData' \in {prevData, <<>>}
          /\ pktLen' \in {pktLen, HeaderLength(Taken(4))} /\ at' = at + 4
          /\ readSeq' \in {readSeq, LowByte(readSeq + 1)}
          /\ readError' \in {readError, "badConn", "sync", "syncMul"}
          /\ stage' \in {"idle", "body", "failed"}
    BY <1>6 DEF ReadHeader, FailsWith, Returns
  <2>5. UNCHANGED <<writerVars, stream, link, readTimeout>> BY <1>6 DEF ReadHeader
  <2>6. got' \in Seq(Seq(Nat)) /\ prevData' \in Seq(Nat) /\ pktLen' \in Nat
          /\ readSeq' \in 0 .. Base - 1 /\ at' \in 0 .. Len(stream')
    <3>1. got \in Seq(Seq(Nat)) /\ prevData \in Seq(Nat) /\ pktLen \in Nat
            /\ readSeq \in 0 .. Base - 1 /\ <<>> \in Seq(Nat) /\ stream' = stream
      BY <2>5 DEF FramingTypeOK
    <3> QED BY <1>s, <2>1, <2>2, <2>3, <2>4, <3>1
  <2> QED BY <2>4, <2>5, <2>6 DEF FramingTypeOK, writerVars, payload
<1>7. CASE ReadBody
  <2>1. Taken(pktLen) \in Payload /\ at + pktLen \in 0 .. Len(stream)
    BY <1>7, TakenType, TypesHere DEF ReadBody
  <2>2. prevData \o Taken(pktLen) \in Seq(Nat) BY <2>1, TypesHere, Joined DEF Payload
  <2>3. Append(got, prevData \o Taken(pktLen)) \in Seq(Seq(Nat)) BY <2>2 DEF FramingTypeOK
  <2>4. got' \in {got, Append(got, prevData \o Taken(pktLen))}
          /\ prevData' \in {prevData \o Taken(pktLen), <<>>} /\ at' = at + pktLen
          /\ stage' \in {"idle", "header"} /\ UNCHANGED readError
    BY <1>7 DEF ReadBody, Returns
  <2>5. UNCHANGED <<writerVars, stream, link, pktLen, readSeq, readTimeout>>
    BY <1>7 DEF ReadBody
  <2>6. got' \in Seq(Seq(Nat)) /\ prevData' \in Seq(Nat) /\ at' \in 0 .. Len(stream')
    <3>1. got \in Seq(Seq(Nat)) /\ <<>> \in Seq(Nat) /\ stream' = stream
      BY <2>5 DEF FramingTypeOK
    <3> QED BY <2>1, <2>2, <2>3, <2>4, <3>1
  <2> QED BY <2>4, <2>5, <2>6 DEF FramingTypeOK, writerVars, payload
<1>8. CASE ReadFails
  BY <1>8 DEF ReadFails, FailsWith, FramingTypeOK, writerVars, payload
<1>9. CASE UNCHANGED framing
  BY <1>9 DEF framing, readerVars, writerVars, FramingTypeOK, payload
<1> QED BY <1>1, <1>2, <1>3, <1>4, <1>5, <1>6, <1>7, <1>8, <1>9 DEF Next, Writer, Reader

-----------------------------------------------------------------------------
(* Steps of the writer and of the link.                                    *)

(* What the reader knows does not change when only the writer moves and    *)
(* no point up to it does.                                                 *)
LEMMA ReaderStays ==
    ASSUME FramingTypeOK, NEW pt, Points(given, stream, pt), NEW q, NEW r \in 1 .. Len(pt),
           ReaderAt(pt, r), UNCHANGED readerVars,
           Len(q) \in Nat, Len(q) >= Len(pt), \A i \in 1 .. Len(pt) : q[i] = pt[i],
           given' = given \/ \E d \in Payload : given' = Append(given, d)
    PROVE  r \in 1 .. Len(q) /\ ReaderAt(q, r)'
<1>1. Len(pt) \in Nat \ {0} /\ pt[r] \in Point BY PointsTyped
<1>2. r \in 1 .. Len(q) BY <1>1
<1>3. q[r] = pt[r] OBVIOUS
<1>4. pt[r].off > 0 => Within(given, pt[r]) BY DEF Points
<1>5. r < Len(pt) => Within(given, pt[r])
  <2>1. r < Len(pt) => r \in 1 .. Len(pt) - 1 BY <1>1
  <2> QED BY <2>1 DEF Points
<1>6. Within(given, pt[r]) =>
        given'[pt[r].of] = given[pt[r].of] /\ SizeAt(given', pt[r]) = SizeAt(given, pt[r])
  <2>1. CASE given' = given BY <2>1
  <2>2. ASSUME NEW d \in Payload, given' = Append(given, d), Within(given, pt[r])
        PROVE  given'[pt[r].of] = given[pt[r].of]
                 /\ SizeAt(given', pt[r]) = SizeAt(given, pt[r])
    <3>1. /\ Append(given, d)[pt[r].of] = given[pt[r].of]
          /\ SizeAt(Append(given, d), pt[r]) = SizeAt(given, pt[r])
      BY <1>1, <2>2, Grown, TypesHere
    <3> QED BY <2>2, <3>1
  <2> QED BY <2>1, <2>2
<1>7. pt[r].off # 0 => given'[pt[r].of] = given[pt[r].of]
  BY <1>1, <1>4, <1>6 DEF Point
<1>8. r < Len(pt) => r < Len(q) BY <1>1
<1>9. CASE stage = "failed" BY <1>2, <1>9 DEF ReaderAt, readerVars
<1>10. CASE stage # "failed"
  <2>1. /\ pt[r].of = Len(got) + 1
        /\ prevData = IF pt[r].off = 0 THEN <<>> ELSE SubSeq(given[pt[r].of], 1, pt[r].off)
        /\ stage \in {"idle", "header"} => at = pt[r].start /\ readSeq = pt[r].seq
        /\ stage = "idle" => pt[r].off = 0
        /\ stage = "body" =>
            /\ r < Len(pt) /\ at = pt[r].start + 4 /\ readSeq = LowByte(pt[r].seq + 1)
            /\ pktLen = SizeAt(given, pt[r]) /\ pktLen > 0
    BY <1>10 DEF ReaderAt
  <2>2. prevData = IF q[r].off = 0 THEN <<>> ELSE SubSeq(given'[q[r].of], 1, q[r].off)
    BY <1>3, <1>7, <2>1
  <2>3. stage = "body" => r < Len(q) /\ pktLen = SizeAt(given', q[r])
    BY <1>3, <1>5, <1>6, <1>8, <2>1
  <2> QED BY <1>2, <1>3, <2>1, <2>2, <2>3 DEF ReaderAt, readerVars
<1> QED BY <1>2, <1>9, <1>10

LEMMA WriteCallPlaced ==
    ASSUME FramingTypeOK, Placed, NEW d \in Payloads, WriteCall(d)
    PROVE  Placed'
<1>1. PICK pt : /\ Points(given, stream, pt) /\ WriterAt(Tip(pt))
                /\ \E r \in 1 .. Len(pt) : ReaderAt(pt, r)
  BY DEF Placed
<1>2. PICK r \in 1 .. Len(pt) : ReaderAt(pt, r) BY <1>1
<1>3. d \in Payload BY FramingAssumption DEF Payload
<1>4. given' = given \/ given' = Append(given, d) BY DEF WriteCall
<1>5. UNCHANGED readerVars /\ UNCHANGED <<stream, link, writeSeq>> BY DEF WriteCall
<1>6. Points(given', stream', pt) BY <1>1, <1>3, <1>4, <1>5, PointsGrow, TypesHere
<1>7. ReaderAt(pt, r)' BY <1>1, <1>2, <1>3, <1>4, <1>5, ReaderStays, PointsTyped
<1>8. WriterAt(Tip(pt))'
  <2>1. CASE Len(d) > maxAllowedPacket BY <1>1, <1>5, <2>1 DEF WriteCall, WriterAt, Tip
  <2>2. CASE ~(Len(d) > maxAllowedPacket)
    <3>1. /\ ~writing /\ writing' /\ written' = 0 /\ given' = Append(given, d)
      BY <2>2 DEF WriteCall
    <3>2. Len(given') = Len(given) + 1 BY <1>3, <3>1, TypesHere, Appended
    <3> QED BY <1>1, <1>5, <3>1, <3>2 DEF WriterAt, Tip
  <2> QED BY <2>1, <2>2
<1> QED BY <1>6, <1>7, <1>8 DEF Placed

(* A packet or a part of one is behind the stream.                         *)
LEMMA WritesPlaced ==
    ASSUME FramingTypeOK, NEW pt, Points(given, stream, pt), WriterAt(Tip(pt)),
           NEW r \in 1 .. Len(pt), ReaderAt(pt, r), writing, link = "up",
           UNCHANGED readerVars, given' = given,
           NEW b \in Payload, Len(b) <= Len(packet), \A k \in 1 .. Len(b) : b[k] = packet[k],
           stream' = stream \o b
    PROVE  \E q : /\ Points(given', stream', q) /\ Tip(q) = After(given, Tip(pt))
                  /\ \E i \in 1 .. Len(q) : ReaderAt(q, i)'
<1>1. Len(pt) \in Nat \ {0} /\ Tip(pt) \in Point BY PointsTyped DEF Tip
<1>2. Within(given, Tip(pt)) /\ packet = PacketAt(given, Tip(pt)) BY <1>1, PacketInHand
<1>3. After(given, Tip(pt)) \in Point BY <1>1, <1>2, PacketFacts, TypesHere
<1>4. PICK q : q = Append(pt, After(given, Tip(pt))) OBVIOUS
<1>5. Len(stream) = Tip(pt).start BY DEF WriterAt
<1>6. Points(given', stream', q)
  BY <1>2, <1>4, <1>5, PointsWrite, TypesHere DEF Tip
<1>7. /\ Len(q) = Len(pt) + 1 /\ q[Len(pt) + 1] = After(given, Tip(pt))
      /\ \A i \in 1 .. Len(pt) : q[i] = pt[i]
  BY <1>3, <1>4, PointsTyped, Appended
<1>8. r \in 1 .. Len(q) /\ ReaderAt(q, r)' BY <1>1, <1>7, ReaderStays
<1> QED BY <1>6, <1>7, <1>8 DEF Tip

LEMMA WritePacketPlaced ==
    ASSUME FramingTypeOK, Placed, WritePacket
    PROVE  Placed'
<1>1. PICK pt : /\ Points(given, stream, pt) /\ WriterAt(Tip(pt))
                /\ \E r \in 1 .. Len(pt) : ReaderAt(pt, r)
  BY DEF Placed
<1>2. PICK r \in 1 .. Len(pt) : ReaderAt(pt, r) BY <1>1
<1>3. /\ writing /\ link = "up" /\ link' = link /\ given' = given /\ stream' = stream \o packet
      /\ UNCHANGED readerVars /\ writeSeq' = LowByte(writeSeq + 1)
      /\ size # maxPacketSize => ~writing'
      /\ size = maxPacketSize => writing' /\ written' = written + size
  BY DEF WritePacket, FramingTypeOK
<1>4. packet \in Payload /\ Len(packet) = 4 + size /\ Len(packet) \in Nat
  BY <1>3, PacketType DEF Payload
<1>5. PICK q : /\ Points(given', stream', q) /\ Tip(q) = After(given, Tip(pt))
               /\ \E i \in 1 .. Len(q) : ReaderAt(q, i)'
  BY SMTT(30), <1>1, <1>2, <1>3, <1>4, WritesPlaced
<1>6. Tip(pt) \in Point BY <1>1, PointsTyped DEF Tip
<1>7. size = SizeAt(given, Tip(pt)) BY <1>1, <1>3, <1>6, PacketInHand
<1>8. /\ Tip(q).start = Tip(pt).start + 4 + size /\ Tip(q).seq = LowByte(Tip(pt).seq + 1)
      /\ Tip(q).of = IF size = maxPacketSize THEN Tip(pt).of ELSE Tip(pt).of + 1
      /\ Tip(q).off = IF size = maxPacketSize THEN Tip(pt).off + size ELSE 0
  BY <1>5, <1>7 DEF After
<1>9. Len(stream') = Len(stream) + 4 + size
  <2>1. Len(stream') = Len(stream) + Len(packet) BY <1>3, <1>4, TypesHere, Joined
  <2>2. size \in Nat BY <1>3, PacketType, BaseFacts
  <2> QED BY <1>4, <2>1, <2>2, TypesHere
<1>10. WriterAt(Tip(q))'
  <2>1. /\ Len(stream) = Tip(pt).start /\ writeSeq = Tip(pt).seq
        /\ Tip(pt).of = Len(given) /\ Tip(pt).off = written
    BY <1>1, <1>3 DEF WriterAt
  <2>2. Len(stream') = Tip(q).start /\ writeSeq' = Tip(q).seq BY <1>3, <1>8, <1>9, <2>1
  <2>3. writing' => Tip(q).of = Len(given') /\ Tip(q).off = written' BY <1>3, <1>8, <2>1
  <2>4. ~writing' => Tip(q).of = Len(given') + 1 /\ Tip(q).off = 0 BY <1>3, <1>8, <2>1
  <2>5. Len(stream') <= Tip(q).start
    <3>1. Tip(q) \in Point BY <1>5, PointsTyped DEF Tip
    <3> QED BY <2>2, <3>1 DEF Point
  <2> QED BY <2>2, <2>3, <2>4, <2>5 DEF WriterAt
<1> QED BY <1>5, <1>10 DEF Placed

LEMMA WriteFailsPlaced ==
    ASSUME FramingTypeOK, Placed, WriteFails
    PROVE  Placed'
<1>1. PICK pt : /\ Points(given, stream, pt) /\ WriterAt(Tip(pt))
                /\ \E r \in 1 .. Len(pt) : ReaderAt(pt, r)
  BY DEF Placed
<1>2. PICK r \in 1 .. Len(pt) : ReaderAt(pt, r) BY <1>1
<1>3. /\ writing /\ link' = "ended" /\ given' = given /\ UNCHANGED readerVars
  BY DEF WriteFails
<1>4. PICK n \in 0 .. Len(packet) - 1 :
        (link = "ended" => n = 0) /\ stream' = stream \o SubSeq(packet, 1, n)
  BY DEF WriteFails
<1>5. packet \in Payload /\ Len(packet) \in Nat BY <1>3, PacketType DEF Payload
<1>6. Tip(pt) \in Point BY <1>1, PointsTyped DEF Tip
<1>7. CASE link = "up"
  <2>1. PICK b : b = SubSeq(packet, 1, n) OBVIOUS
  <2>2. /\ b \in Payload /\ Len(b) = n /\ Len(b) <= Len(packet)
        /\ \A k \in 1 .. Len(b) : b[k] = packet[k]
    BY <1>4, <1>5, <2>1 DEF Payload
  <2>3. PICK q : /\ Points(given', stream', q) /\ Tip(q) = After(given, Tip(pt))
                 /\ \E i \in 1 .. Len(q) : ReaderAt(q, i)'
    BY <1>1, <1>2, <1>3, <1>4, <1>7, <2>1, <2>2, WritesPlaced
  <2>4. /\ size = SizeAt(given, Tip(pt)) /\ Len(packet) = 4 + size /\ size \in Nat
    BY <1>1, <1>3, <1>6, <1>7, PacketInHand, PacketType, BaseFacts
  <2>5. Tip(q).start = Len(stream) + 4 + size
    <3>1. Tip(q).start = Tip(pt).start + 4 + SizeAt(given, Tip(pt)) BY <2>3 DEF After
    <3>2. Len(stream) = Tip(pt).start BY <1>1, <1>7 DEF WriterAt
    <3> QED BY <2>4, <3>1, <3>2
  <2>6. Len(stream') = Len(stream) + n BY <1>4, <2>1, <2>2, TypesHere, Joined
  <2>7. Len(stream') <= Tip(q).start BY <1>4, <2>4, <2>5, <2>6, TypesHere
  <2> QED BY <1>3, <2>3, <2>7 DEF Placed, WriterAt
<1>8. CASE link = "ended"
  <2>1. stream' = stream BY <1>4, <1>5, <1>8, TypesHere DEF Payload
  <2>2. ReaderAt(pt, r)' BY <1>1, <1>2, <1>3, ReaderStays, PointsTyped
  <2>3. WriterAt(Tip(pt))' BY <1>1, <1>3, <2>1 DEF WriterAt, Tip
  <2> QED BY <1>1, <1>3, <2>1, <2>2, <2>3 DEF Placed
<1> QED BY <1>7, <1>8 DEF FramingTypeOK

LEMMA LosePlaced ==
    ASSUME FramingTypeOK, Placed, Lose
    PROVE  Placed'
<1>1. PICK pt : /\ Points(given, stream, pt) /\ WriterAt(Tip(pt))
                /\ \E r \in 1 .. Len(pt) : ReaderAt(pt, r)
  BY DEF Placed
<1>2. PICK r \in 1 .. Len(pt) : ReaderAt(pt, r) BY <1>1
<1>3. PICK n \in Breaks : at + n <= Len(stream) /\ stream' = SubSeq(stream, 1, at + n)
  BY DEF Lose
<1>4. given' = given /\ link' = "ended" /\ UNCHANGED readerVars BY DEF Lose, writerVars
<1>5. at + n \in 0 .. Len(stream) /\ at + n \in Nat BY <1>3, TypesHere, FramingAssumption
<1>6. Points(given', stream', pt) BY <1>1, <1>3, <1>4, <1>5, PointsCut, TypesHere
<1>7. Len(stream') = at + n BY <1>3, <1>5, TypesHere DEF Payload
<1>8. Len(stream') <= Tip(pt).start
  <2>1. Tip(pt) \in Point BY <1>1, PointsTyped DEF Tip
  <2>2. Tip(pt).start \in Nat /\ Len(stream) <= Tip(pt).start BY <1>1, <2>1 DEF Point, WriterAt
  <2> QED BY <1>3, <1>5, <1>7, <2>2, TypesHere
<1>9. ReaderAt(pt, r)' BY <1>1, <1>2, <1>4, ReaderStays, PointsTyped
<1>10. WriterAt(Tip(pt))' BY <1>4, <1>8 DEF WriterAt, Tip
<1> QED BY <1>6, <1>9, <1>10 DEF Placed

-----------------------------------------------------------------------------
(* Steps of the reader.                                                    *)

(* With a whole header before it, the reader is not at the last point.     *)
LEMMA NotAtTip ==
    ASSUME FramingTypeOK, NEW pt, Points(given, stream, pt), WriterAt(Tip(pt)),
           NEW r \in 1 .. Len(pt), at = pt[r].start, at < Len(stream)
    PROVE  r \in 1 .. Len(pt) - 1
<1>1. Len(pt) \in Nat \ {0} /\ Tip(pt) \in Point BY PointsTyped DEF Tip
<1>2. Tip(pt).start \in Nat /\ Len(stream) <= Tip(pt).start BY <1>1 DEF Point, WriterAt
<1>3. r # Len(pt) BY <1>2, TypesHere DEF Tip
<1> QED BY <1>1, <1>3

(* What the reader finds at a point: the header, and the bytes behind it.  *)
LEMMA Found ==
    ASSUME FramingTypeOK, NEW pt, Points(given, stream, pt), NEW r \in 1 .. Len(pt) - 1
    PROVE  /\ pt[r] \in Point /\ Within(given, pt[r]) /\ r + 1 \in 1 .. Len(pt)
           /\ pt[r + 1] = After(given, pt[r])
           /\ at = pt[r].start /\ Arrived(4) =>
                Taken(4)[4] = pt[r].seq /\ HeaderLength(Taken(4)) = SizeAt(given, pt[r])
           /\ at = pt[r].start + 4 /\ Arrived(SizeAt(given, pt[r])) =>
                Taken(SizeAt(given, pt[r]))
                    = SubSeq(given[pt[r].of], pt[r].off + 1, pt[r].off + SizeAt(given, pt[r]))
<1> DEFINE p == pt[r]
           n == SizeAt(given, p)
           d == given[p.of]
<1>1. /\ p \in Point /\ r \in 1 .. Len(pt) /\ r + 1 \in 1 .. Len(pt) BY PointsTyped
<1>2. Within(given, p) /\ pt[r + 1] = After(given, p) /\ Sent(given, stream, p) BY DEF Points
<1>3. /\ d \in Payload /\ n \in 0 .. maxPacketSize /\ p.off + n <= Len(d)
      /\ \A k \in 1 .. 4 : PacketAt(given, p)[k] = Header(n, p.seq)[k]
      /\ \A k \in 1 .. n : PacketAt(given, p)[4 + k] = d[p.off + k]
  BY <1>1, <1>2, PacketFacts, TypesHere
<1>4. n \in Nat /\ p.start \in Nat /\ p.off \in Nat /\ p.seq \in Nat
  BY <1>1, <1>3, BaseFacts DEF Point
<1>5. \A k \in 1 .. 4 + n : p.start + k <= Len(stream) =>
        stream[p.start + k] = PacketAt(given, p)[k]
  BY <1>2 DEF Sent
<1> HIDE DEF n, d, p
<1>6. ASSUME at = p.start, Arrived(4)
      PROVE  Taken(4)[4] = p.seq /\ HeaderLength(Taken(4)) = n
  <2>1. at + 4 <= Len(stream) BY <1>6, TypesHere DEF Arrived
  <2>2. \A k \in 1 .. 4 : k \in 1 .. 4 + n /\ p.start + k <= Len(stream)
    BY <1>4, <1>6, <2>1, TypesHere
  <2>3. \A k \in 1 .. 4 : Taken(4)[k] = Header(n, p.seq)[k]
    <3>1. \A k \in 1 .. 4 : Taken(4)[k] = stream[at + k] BY <1>6, TakenType
    <3> QED BY <1>3, <1>5, <1>6, <2>2, <3>1
  <2>4. HeaderLength(Taken(4)) = HeaderLength(Header(n, p.seq)) BY <2>3 DEF HeaderLength
  <2>5. HeaderLength(Header(n, p.seq)) = n BY <1>3, HeaderSays
  <2>6. Header(n, p.seq)[4] = p.seq BY <1>4, HeaderType
  <2>7. Taken(4)[4] = Header(n, p.seq)[4] BY <2>3
  <2> QED BY <2>4, <2>5, <2>6, <2>7
<1>7. ASSUME at = p.start + 4, Arrived(n)
      PROVE  Taken(n) = SubSeq(d, p.off + 1, p.off + n)
  <2>1. at + n <= Len(stream) BY SMTT(30), <1>4, <1>7, TypesHere DEF Arrived
  <2>2. \A k \in 1 .. n : 4 + k \in 1 .. 4 + n /\ p.start + (4 + k) <= Len(stream)
          /\ at + k = p.start + (4 + k)
    <3>1. Len(stream) \in Nat /\ at = p.start + 4 BY <1>7, TypesHere
    <3>2. TAKE k \in 1 .. n
    <3>3. k \in Nat /\ 1 <= k /\ k <= n BY <1>4
    <3>4. 4 + k \in 1 .. 4 + n BY <1>4, <3>3
    <3> DEFINE x == p.start
               l == Len(stream)
    <3>5. x \in Nat /\ l \in Nat /\ at = x + 4 /\ at + n <= l BY <1>4, <2>1, <3>1
    <3> HIDE DEF x, l
    <3>6. x + (4 + k) <= l /\ at + k = x + (4 + k) BY <1>4, <3>3, <3>5
    <3> QED BY <3>4, <3>6 DEF x, l
  <2>3. Taken(n) \in Payload /\ Len(Taken(n)) = n /\ \A k \in 1 .. n : Taken(n)[k] = stream[at + k]
    BY <1>4, <1>7, TakenType
  <2>4. \A k \in 1 .. n : Taken(n)[k] = d[p.off + k] BY <1>3, <1>5, <2>2, <2>3
  <2>5. /\ SubSeq(d, p.off + 1, p.off + n) \in Payload
        /\ Len(SubSeq(d, p.off + 1, p.off + n)) = n
        /\ \A k \in 1 .. n : SubSeq(d, p.off + 1, p.off + n)[k] = d[p.off + k]
    BY ZenonT(40), <1>3, <1>4, Part
  <2>6. \A k \in 1 .. n : Taken(n)[k] = SubSeq(d, p.off + 1, p.off + n)[k] BY <2>4, <2>5
  <2> QED BY <2>3, <2>5, <2>6, Same
<1> QED BY <1>1, <1>2, <1>6, <1>7 DEF n, d, p

(* What is read of a payload and its next part are a longer part of it.    *)
LEMMA Longer ==
    ASSUME NEW d \in Payload, NEW m \in Nat, NEW n \in Nat, m + n <= Len(d)
    PROVE  (IF m = 0 THEN <<>> ELSE SubSeq(d, 1, m)) \o SubSeq(d, m + 1, m + n)
             = SubSeq(d, 1, m + n)
<1> DEFINE a == IF m = 0 THEN <<>> ELSE SubSeq(d, 1, m)
           b == SubSeq(d, m + 1, m + n)
           c == SubSeq(d, 1, m + n)
<1>1. a \in Payload /\ Len(a) = m /\ \A k \in 1 .. m : a[k] = d[k] BY DEF Payload
<1>2. b \in Payload /\ Len(b) = n /\ \A k \in 1 .. n : b[k] = d[m + k] BY Part
<1>3. c \in Payload /\ Len(c) = m + n /\ \A k \in 1 .. m + n : c[k] = d[k] BY DEF Payload
<1> HIDE DEF a, b, c
<1>4. /\ a \o b \in Payload /\ Len(a \o b) = m + n
      /\ \A k \in 1 .. m : (a \o b)[k] = a[k]
      /\ \A k \in 1 .. n : (a \o b)[m + k] = b[k]
  BY <1>1, <1>2, Joined
<1>5. ASSUME NEW k \in 1 .. m + n PROVE (a \o b)[k] = c[k]
  <2>0. k \in Nat /\ 1 <= k /\ k <= m + n OBVIOUS
  <2>1. CASE k <= m
    <3>1. k \in 1 .. m BY <2>0, <2>1
    <3> QED BY <1>1, <1>3, <1>4, <3>1
  <2>2. CASE k > m
    <3>1. PICK j \in 1 .. n : k = m + j
      <4>1. k - m \in 1 .. n /\ k = m + (k - m) BY <2>0, <2>2
      <4> QED BY <4>1
    <3> QED BY <1>2, <1>3, <1>4, <3>1
  <2>3. k <= m \/ k > m BY <2>0
  <2> QED BY <2>1, <2>2, <2>3
<1>6. a \o b = c BY <1>3, <1>4, <1>5, Same
<1> QED BY <1>6 DEF a, b, c

LEMMA WholePayload ==
    ASSUME NEW d \in Payload
    PROVE  SubSeq(d, 1, Len(d)) = d
BY DEF Payload

(* A step returns the payload that is next, or none.                       *)
Yields ==
    \/ got' = got
    \/ Len(got) < Len(given) /\ got' = Append(got, given[Len(got) + 1])

LEMMA ReadHeaderStep ==
    ASSUME FramingTypeOK, Placed, NumbersAgree, ReadHeader
    PROVE  Placed' /\ NumbersAgree' /\ Yields
<1>1. PICK pt : /\ Points(given, stream, pt) /\ WriterAt(Tip(pt))
                /\ \E r \in 1 .. Len(pt) : ReaderAt(pt, r)
  BY DEF Placed
<1>2. PICK r \in 1 .. Len(pt) : ReaderAt(pt, r) BY <1>1
<1>3. stage = "header" /\ Arrived(4) /\ at' = at + 4 BY DEF ReadHeader
<1>4. /\ pt[r].of = Len(got) + 1 /\ at = pt[r].start /\ readSeq = pt[r].seq
      /\ prevData = IF pt[r].off = 0 THEN <<>> ELSE SubSeq(given[pt[r].of], 1, pt[r].off)
  BY <1>2, <1>3 DEF ReaderAt
<1>5. r \in 1 .. Len(pt) - 1
  <2>1. at < Len(stream) BY <1>3, TypesHere DEF Arrived
  <2> QED BY <1>1, <1>4, <2>1, NotAtTip
<1>6. /\ pt[r] \in Point /\ Within(given, pt[r]) /\ r + 1 \in 1 .. Len(pt)
      /\ pt[r + 1] = After(given, pt[r])
      /\ Taken(4)[4] = readSeq /\ HeaderLength(Taken(4)) = SizeAt(given, pt[r])
  BY <1>1, <1>3, <1>4, <1>5, Found
<1>7. PICK n : n = SizeAt(given, pt[r]) OBVIOUS
<1>8. /\ n \in Nat /\ pt[r].off \in Nat /\ pt[r].start \in Nat
      /\ After(given, pt[r]).start = pt[r].start + 4 + n
  BY <1>6, <1>7, SizeNat, TypesHere
<1>9. UNCHANGED <<writerVars, stream, link>> /\ readSeq' = LowByte(pt[r].seq + 1)
  BY <1>4, <1>6 DEF ReadHeader
<1>10. Points(given', stream', pt) /\ WriterAt(Tip(pt))'
  BY <1>1, <1>9 DEF WriterAt, Tip, writerVars
<1>11. CASE n > 0
  <2>1. pktLen' = n /\ stage' = "body" /\ UNCHANGED <<prevData, got, readError>>
    BY <1>6, <1>7, <1>11 DEF ReadHeader
  <2>2. r < Len(pt) BY <1>1, <1>5, PointsTyped
  <2>3. ReaderAt(pt, r)'
    BY <1>3, <1>4, <1>7, <1>9, <1>11, <2>1, <2>2 DEF ReaderAt, writerVars
  <2>4. Placed' BY <1>2, <1>10, <2>3 DEF Placed
  <2> QED BY <2>1, <2>4 DEF NumbersAgree, Yields
<1>12. CASE n = 0 /\ prevData = <<>>
  <2>1. stage' = "failed" /\ readError' = "badConn" /\ UNCHANGED got
    BY <1>6, <1>7, <1>12 DEF ReadHeader, FailsWith
  <2>2. ReaderAt(pt, r)' BY <2>1 DEF ReaderAt
  <2>3. Placed' BY <1>2, <1>10, <2>2 DEF Placed
  <2> QED BY <2>1, <2>3 DEF NumbersAgree, Yields
<1>13. CASE n = 0 /\ prevData # <<>>
  <2>1. got' = Append(got, prevData) /\ stage' = "idle" /\ prevData' = <<>> /\ UNCHANGED readError
    BY <1>6, <1>7, <1>13 DEF ReadHeader, Returns
  <2>2. n # maxPacketSize BY <1>13, BaseFacts
  <2>3. pt[r].off = Len(given[pt[r].of]) /\ given[pt[r].of] \in Payload
    <3>1. given[pt[r].of] \in Payload /\ pt[r].off + n = Len(given[pt[r].of])
      BY <1>6, <1>7, <2>2, PacketFacts, TypesHere
    <3> QED BY <1>8, <1>13, <3>1
  <2>4. prevData = given[Len(got) + 1] BY <1>4, <1>13, <2>3, WholePayload
  <2>5. Len(got) < Len(given) BY <1>4, <1>6, TypesHere DEF Within
  <2>6. Yields BY <2>1, <2>4, <2>5 DEF Yields
  <2>7. Len(got') = Len(got) + 1 BY <2>1, TypesHere, Appended
  <2>8. /\ pt[r + 1].start = at + 4 /\ pt[r + 1].of = pt[r].of + 1 /\ pt[r + 1].off = 0
        /\ pt[r + 1].seq = LowByte(pt[r].seq + 1)
    BY <1>4, <1>6, <1>7, <1>8, <1>13, <2>2 DEF After
  <2>9. ReaderAt(pt, r + 1)'
    BY <1>3, <1>4, <1>9, <2>1, <2>7, <2>8 DEF ReaderAt
  <2> QED BY <1>6, <1>10, <2>1, <2>6, <2>9 DEF Placed, NumbersAgree
<1> QED BY <1>8, <1>11, <1>12, <1>13

LEMMA ReadBodyStep ==
    ASSUME FramingTypeOK, Placed, NumbersAgree, ReadBody
    PROVE  Placed' /\ NumbersAgree' /\ Yields
<1>1. PICK pt : /\ Points(given, stream, pt) /\ WriterAt(Tip(pt))
                /\ \E r \in 1 .. Len(pt) : ReaderAt(pt, r)
  BY DEF Placed
<1>2. PICK r \in 1 .. Len(pt) : ReaderAt(pt, r) BY <1>1
<1>3. stage = "body" /\ Arrived(pktLen) /\ at' = at + pktLen BY DEF ReadBody
<1>4. /\ pt[r].of = Len(got) + 1 /\ r < Len(pt) /\ at = pt[r].start + 4
      /\ readSeq = LowByte(pt[r].seq + 1)
      /\ pktLen = SizeAt(given, pt[r]) /\ pktLen > 0
      /\ prevData = IF pt[r].off = 0 THEN <<>> ELSE SubSeq(given[pt[r].of], 1, pt[r].off)
  BY <1>2, <1>3 DEF ReaderAt
<1>5. r \in 1 .. Len(pt) - 1 BY <1>1, <1>4, PointsTyped
<1>6. /\ pt[r] \in Point /\ Within(given, pt[r]) /\ r + 1 \in 1 .. Len(pt)
      /\ pt[r + 1] = After(given, pt[r])
      /\ Taken(pktLen) = SubSeq(given[pt[r].of], pt[r].off + 1, pt[r].off + pktLen)
  BY <1>1, <1>3, <1>4, <1>5, Found
<1>7. PICK d : d = given[pt[r].of] OBVIOUS
<1>8. /\ pktLen \in Nat /\ pt[r].off \in Nat /\ pt[r].start \in Nat
      /\ After(given, pt[r]).start = pt[r].start + 4 + pktLen
  BY <1>4, <1>6, SizeNat, TypesHere
<1>9. /\ d \in Payload /\ pt[r].off + pktLen <= Len(d) /\ pktLen \in 0 .. maxPacketSize
      /\ pktLen # maxPacketSize => pt[r].off + pktLen = Len(d)
  BY <1>4, <1>6, <1>7, PacketFacts, TypesHere
<1>10. prevData \o Taken(pktLen) = SubSeq(d, 1, pt[r].off + pktLen)
  <2>1. PICK m : m = pt[r].off OBVIOUS
  <2>2. (IF m = 0 THEN <<>> ELSE SubSeq(d, 1, m)) \o SubSeq(d, m + 1, m + pktLen)
          = SubSeq(d, 1, m + pktLen)
    BY <1>8, <1>9, <2>1, Longer
  <2> QED BY <1>4, <1>6, <1>7, <2>1, <2>2
<1>11. UNCHANGED <<writerVars, stream, link, readSeq>> BY DEF ReadBody
<1>12. Points(given', stream', pt) /\ WriterAt(Tip(pt))'
  BY <1>1, <1>11 DEF WriterAt, Tip, writerVars
<1>13. pt[r + 1].start = at' /\ pt[r + 1].seq = readSeq
  BY <1>3, <1>4, <1>6, <1>8 DEF After
<1>14. CASE pktLen < maxPacketSize
  <2>1. /\ got' = Append(got, prevData \o Taken(pktLen)) /\ stage' = "idle"
        /\ prevData' = <<>> /\ UNCHANGED readError
    BY <1>14 DEF ReadBody, Returns
  <2>2. pktLen # maxPacketSize BY <1>8, <1>14, BaseFacts
  <2>3. prevData \o Taken(pktLen) = given[Len(got) + 1]
    BY <1>4, <1>7, <1>9, <1>10, <2>2, WholePayload
  <2>4. Len(got) < Len(given) BY <1>4, <1>6, TypesHere DEF Within
  <2>5. Yields BY <2>1, <2>3, <2>4 DEF Yields
  <2>6. Len(got') = Len(got) + 1
    <3>1. given[Len(got) + 1] \in Payload BY <1>4, <1>7, <1>9
    <3> QED BY <2>1, <2>3, <3>1, TypesHere, Appended
  <2>7. pt[r + 1].of = pt[r].of + 1 /\ pt[r + 1].off = 0 BY <1>4, <1>6, <2>2 DEF After
  <2>8. ReaderAt(pt, r + 1)'
    BY <1>4, <1>11, <1>13, <2>1, <2>6, <2>7 DEF ReaderAt
  <2> QED BY <1>6, <1>12, <2>1, <2>5, <2>8 DEF Placed, NumbersAgree
<1>15. CASE ~(pktLen < maxPacketSize)
  <2>1. /\ prevData' = prevData \o Taken(pktLen) /\ stage' = "header"
        /\ UNCHANGED <<got, readError>>
    BY <1>15 DEF ReadBody
  <2>2. pktLen = maxPacketSize BY <1>8, <1>9, <1>15, BaseFacts
  <2>3. pt[r + 1].of = pt[r].of /\ pt[r + 1].off = pt[r].off + pktLen
    BY <1>4, <1>6, <2>2 DEF After
  <2>4. pt[r + 1].off # 0 BY <1>4, <1>8, <2>3
  <2>5. ReaderAt(pt, r + 1)'
    BY <1>4, <1>7, <1>10, <1>11, <1>13, <2>1, <2>3, <2>4 DEF ReaderAt, writerVars
  <2>6. Placed' BY <1>6, <1>12, <2>5 DEF Placed
  <2> QED BY <2>1, <2>6 DEF NumbersAgree, Yields
<1> QED BY <1>14, <1>15

(* The reader goes to a packet, or gives up: it stays where it is.         *)
LEMMA ReadOtherStep ==
    ASSUME FramingTypeOK, Placed, NumbersAgree, ReadCall \/ ReadFails
    PROVE  Placed' /\ NumbersAgree' /\ Yields
<1>1. PICK pt : /\ Points(given, stream, pt) /\ WriterAt(Tip(pt))
                /\ \E r \in 1 .. Len(pt) : ReaderAt(pt, r)
  BY DEF Placed
<1>2. PICK r \in 1 .. Len(pt) : ReaderAt(pt, r) BY <1>1
<1>3. UNCHANGED <<writerVars, stream, link, at, pktLen, prevData, readSeq, got>>
  BY DEF ReadCall, ReadFails, FailsWith
<1>4. Points(given', stream', pt) /\ WriterAt(Tip(pt))'
  BY <1>1, <1>3 DEF WriterAt, Tip, writerVars
<1>5. \/ stage = "idle" /\ stage' = "header" /\ UNCHANGED readError
      \/ stage' = "failed" /\ readError' = "badConn"
  BY DEF ReadCall, ReadFails, FailsWith
<1>6. ReaderAt(pt, r)' BY <1>2, <1>3, <1>5 DEF ReaderAt, writerVars
<1>7. Placed' BY <1>2, <1>4, <1>6 DEF Placed
<1> QED BY <1>3, <1>5, <1>7 DEF NumbersAgree, Yields

-----------------------------------------------------------------------------
(* The whole.                                                              *)

LEMMA WriterStep ==
    ASSUME FramingTypeOK, Placed, NumbersAgree,
           (\E p \in Payloads : WriteCall(p)) \/ Writer \/ Lose
    PROVE  Placed' /\ NumbersAgree' /\ got' = got
<1>1. ASSUME NEW p \in Payloads, WriteCall(p) PROVE Placed' /\ UNCHANGED readerVars
  BY <1>1, WriteCallPlaced DEF WriteCall
<1>2. CASE WritePacket BY <1>2, WritePacketPlaced DEF WritePacket, readerVars, NumbersAgree
<1>3. CASE WriteFails BY <1>3, WriteFailsPlaced DEF WriteFails, readerVars, NumbersAgree
<1>4. CASE Lose BY <1>4, LosePlaced DEF Lose, readerVars, NumbersAgree
<1> QED BY <1>1, <1>2, <1>3, <1>4 DEF Writer, readerVars, NumbersAgree

(* Payloads are given only by a call, which is not a step of the reader.   *)
Gives == (\E d \in Payload : given' = Append(given, d)) /\ got' = got /\ stage' = stage

LEMMA GivenStep ==
    ASSUME [Next]_framing
    PROVE  given' = given \/ Gives
<1>1. ASSUME NEW p \in Payloads, WriteCall(p) PROVE given' = given \/ Gives
  BY <1>1, FramingAssumption DEF WriteCall, readerVars, Payload, Gives
<1>2. CASE Writer \/ Lose
  BY <1>2 DEF Writer, WritePacket, WriteFails, Lose, writerVars
<1>3. CASE Reader
  BY <1>3 DEF Reader, ReadCall, ReadHeader, ReadBody, ReadFails, writerVars
<1>4. CASE UNCHANGED framing BY <1>4 DEF framing, writerVars
<1> QED BY <1>1, <1>2, <1>3, <1>4 DEF Next

LEMMA YieldsStep ==
    ASSUME Inv, [Next]_framing
    PROVE  Placed' /\ NumbersAgree' /\ Yields
<1>0. FramingTypeOK /\ Placed /\ NumbersAgree BY DEF Inv
<1>1. CASE (\E p \in Payloads : WriteCall(p)) \/ Writer \/ Lose
  BY <1>0, <1>1, WriterStep DEF Yields
<1>2. CASE Reader
  BY <1>0, <1>2, ReadHeaderStep, ReadBodyStep, ReadOtherStep DEF Reader
<1>3. CASE UNCHANGED framing
  BY <1>0, <1>3
  DEF framing, writerVars, readerVars, Placed, WriterAt, ReaderAt, NumbersAgree, Yields
<1> QED BY <1>1, <1>2, <1>3 DEF Next

LEMMA InvStep == Inv /\ [Next]_framing => Inv'
<1> SUFFICES ASSUME Inv, [Next]_framing PROVE Inv' OBVIOUS
<1>1. FramingTypeOK' BY TypeStep DEF Inv
<1>2. Placed' /\ NumbersAgree' /\ Yields BY YieldsStep
<1>3. PayloadsInOrder'
  <2>0. FramingTypeOK /\ PayloadsInOrder BY DEF Inv
  <2>1. Len(got) <= Len(given) /\ \A n \in 1 .. Len(got) : got[n] = given[n]
    BY <2>0 DEF PayloadsInOrder
  <2>2. CASE given' = given /\ got' = got BY <2>0, <2>2 DEF PayloadsInOrder
  <2>3. CASE Gives
    <3>0. got' = got BY <2>3 DEF Gives
    <3>1. PICK d \in Payload : given' = Append(given, d) BY <2>3 DEF Gives
    <3>2. Len(given') = Len(given) + 1 /\ \A k \in 1 .. Len(given) : given'[k] = given[k]
      BY <2>0, <3>1, TypesHere, Appended
    <3>3. \A n \in 1 .. Len(got) : n \in 1 .. Len(given) BY <2>0, <2>1, TypesHere
    <3>4. Len(got') <= Len(given') BY <2>0, <2>1, <3>0, <3>2, TypesHere
    <3> QED BY <2>1, <3>0, <3>2, <3>3, <3>4 DEF PayloadsInOrder
  <2>4. CASE given' = given /\ Len(got) < Len(given) /\ got' = Append(got, given[Len(got) + 1])
    <3>1. given[Len(got) + 1] \in Payload
      <4>1. Len(got) + 1 \in 1 .. Len(given) BY <2>0, <2>4, TypesHere
      <4> QED BY <2>0, <4>1, TypesHere
    <3>2. /\ Len(got') = Len(got) + 1 /\ got'[Len(got) + 1] = given[Len(got) + 1]
          /\ \A k \in 1 .. Len(got) : got'[k] = got[k]
      BY <2>0, <2>4, <3>1, TypesHere, Appended
    <3>3. ASSUME NEW n \in 1 .. Len(got') PROVE got'[n] = given'[n]
      <4>1. n = Len(got) + 1 \/ n \in 1 .. Len(got) BY <2>0, <3>2, TypesHere
      <4> QED BY <2>1, <2>4, <3>2, <4>1
    <3>4. Len(got') <= Len(given') BY <2>0, <2>4, <3>2, TypesHere
    <3> QED BY <3>3, <3>4 DEF PayloadsInOrder
  <2> QED BY <1>2, <2>0, <2>2, <2>3, <2>4, GivenStep DEF Yields
<1> QED BY <1>1, <1>2, <1>3 DEF Inv

LEMMA FramingInvariant == Spec => []Inv
<1> QED BY InitInv, InvStep, PTL DEF Spec

(* Behind the last payload there is nothing: where the reader is, the next *)
(* payload begins that has not been given.                                 *)
LEMMA InvNothingBehind == Inv => NothingBehind
<1> SUFFICES ASSUME Inv, stage = "idle", ~writing, Len(got) = Len(given)
             PROVE  at = Len(stream)
  BY DEF NothingBehind
<1>0. FramingTypeOK BY DEF Inv
<1>1. PICK pt : /\ Points(given, stream, pt) /\ WriterAt(Tip(pt))
                /\ \E r \in 1 .. Len(pt) : ReaderAt(pt, r)
  BY DEF Inv, Placed
<1>2. PICK r \in 1 .. Len(pt) : ReaderAt(pt, r) BY <1>1
<1>3. pt[r].of = Len(given) + 1 /\ at = pt[r].start BY <1>2 DEF ReaderAt
<1>4. SUFFICES ASSUME at # Len(stream) PROVE FALSE OBVIOUS
<1>5. at < Len(stream) BY <1>0, <1>4, TypesHere
<1>6. r \in 1 .. Len(pt) - 1 BY <1>0, <1>1, <1>3, <1>5, NotAtTip
<1>7. Within(given, pt[r]) BY <1>1, <1>6 DEF Points
<1> QED BY <1>0, <1>3, <1>7, TypesHere DEF Within

-----------------------------------------------------------------------------
(* The variables have their types.                                         *)
THEOREM FramingTypes == Spec => []FramingTypeOK
<1>1. Inv => FramingTypeOK BY DEF Inv
<1> QED BY <1>1, FramingInvariant, PTL

(* readPacket returns the payloads that were given to writePacket, whole   *)
(* and in order, whatever is lost.                                         *)
THEOREM PayloadsArriveInOrder == Spec => []PayloadsInOrder
<1>1. Inv => PayloadsInOrder BY DEF Inv
<1> QED BY <1>1, FramingInvariant, PTL

(* readPacket never finds a wrong number.                                  *)
THEOREM NumbersAlwaysAgree == Spec => []NumbersAgree
<1>1. Inv => NumbersAgree BY DEF Inv
<1> QED BY <1>1, FramingInvariant, PTL

(* A reader that has returned all payloads has taken every byte.           *)
THEOREM NothingIsLeftBehind == Spec => []NothingBehind
<1> QED BY FramingInvariant, InvNothingBehind, PTL

(* Reader and writer implement a queue of payloads.                        *)
THEOREM FramingIsAQueue == Spec => Queue!SafeSpec
<1>1. Init => Queue!Init BY DEF Init, Queue!Init
<1>2. Inv /\ [Next]_framing => [Queue!Next]_Queue!queue
  <2> SUFFICES ASSUME Inv, [Next]_framing PROVE [Queue!Next]_Queue!queue OBVIOUS
  <2>0. FramingTypeOK BY DEF Inv
  <2>1. Yields BY YieldsStep
  <2>2. CASE Gives
    <3>1. PICK d \in Payload : given' = Append(given, d) BY <2>2 DEF Gives
    <3>2. given' \in Seq(Payload) /\ Len(given') = Len(given) + 1
            /\ \A k \in 1 .. Len(given) : given'[k] = given[k]
      BY <2>0, <3>1, TypesHere, Appended
    <3>3. SubSeq(given', 1, Len(given)) = given BY <2>0, <3>2, TypesHere
    <3> QED BY <2>2, <3>2, <3>3 DEF Queue!Next, Queue!Give, Gives
  <2>3. CASE given' = given /\ got' = got
    <3>1. stage = "failed" => stage' = "failed"
      BY <2>3 DEF Next, Writer, Reader, WriteCall, WritePacket, WriteFails, Lose, ReadCall,
        ReadHeader, ReadBody, ReadFails, framing, readerVars
    <3> QED BY <2>3, <3>1 DEF Queue!Next, Queue!End, Queue!queue
  <2>4. CASE given' = given /\ got' # got
    <3>1. Len(got) < Len(given) /\ got' = Append(got, given[Len(got) + 1]) BY <2>1, <2>4 DEF Yields
    <3>2. stage # "failed" /\ stage' # "failed"
      BY <2>4 DEF Next, Writer, Reader, WriteCall, WritePacket, WriteFails, Lose, ReadCall,
        ReadHeader, ReadBody, ReadFails, FailsWith, Returns, framing, readerVars
    <3> QED BY <2>4, <3>1, <3>2 DEF Queue!Next, Queue!Take
  <2> QED BY <2>0, <2>2, <2>3, <2>4, GivenStep
<1> QED BY <1>1, <1>2, FramingInvariant, PTL DEF Spec, Queue!SafeSpec
=============================================================================
