------------------------------ MODULE DSNProofs ------------------------------
(***************************************************************************)
(* What holds of configurations and of the register of TLS configurations  *)
(* for any DSNs that an application writes, whatever their texts.          *)
(***************************************************************************)
EXTENDS DSN, TLAPS, FiniteSetTheorems, SequenceTheorems

-----------------------------------------------------------------------------
(* Numbers.                                                                *)

LEMMA Least ==
    ASSUME NEW T, T \subseteq Nat, T # {}
    PROVE  \E n \in T : \A m \in T : n <= m
<1>1. IsWellFoundedOn(OpToRel(<, Nat), Nat) BY NatLessThanWellFounded
<1>2. PICK n \in T : \A m \in T : ~(<<m, n>> \in OpToRel(<, Nat)) BY <1>1, WFMin
<1>3. \A m \in T : ~(m < n) BY <1>2 DEF OpToRel
<1> QED BY <1>3

LEMMA Induct ==
    ASSUME NEW T, 0 \in T, \A n \in Nat : n \in T => n + 1 \in T
    PROVE  Nat \subseteq T
<1> SUFFICES ASSUME ~(Nat \subseteq T) PROVE FALSE OBVIOUS
<1>1. Nat \ T \subseteq Nat /\ Nat \ T # {} OBVIOUS
<1>2. PICK n \in Nat \ T : \A m \in Nat \ T : n <= m BY <1>1, Least
<1>3. n # 0 /\ n - 1 \in Nat /\ n - 1 < n /\ (n - 1) + 1 = n BY <1>2
<1>4. n - 1 \in T BY <1>2, <1>3
<1> QED BY <1>3, <1>4

LEMMA LeastOf ==
    ASSUME NEW n \in Nat, NEW s \in SUBSET (0 .. n), s # {}
    PROVE  Min(s) \in s
<1>1. s \subseteq Nat OBVIOUS
<1>2. PICK k \in s : \A m \in s : k <= m BY <1>1, Least
<1> QED BY <1>2, Zenon DEF Min

LEMMA Greatest ==
    ASSUME NEW n \in Nat, NEW s \in SUBSET (0 .. n), NEW k \in s, \A j \in s : j <= k
    PROVE  Max(s) = k
<1>1. \A y \in s : k >= y OBVIOUS
<1>2. \A x \in s : (\A y \in s : x >= y) => x = k OBVIOUS
<1> QED BY <1>1, <1>2, Zenon DEF Max

LEMMA GreatestOf ==
    ASSUME NEW n \in Nat, NEW s \in SUBSET (0 .. n), s # {}
    PROVE  Max(s) \in s /\ \A j \in s : j <= Max(s)
<1> DEFINE T == {n - k : k \in s}
<1>1. T \subseteq Nat /\ T # {}
  <2>1. \A k \in s : k \in 0 .. n /\ n - k \in Nat OBVIOUS
  <2> QED BY <2>1
<1>2. PICK m \in T : \A j \in T : m <= j BY <1>1, Least
<1>3. PICK k \in s : m = n - k BY <1>2
<1>4. \A j \in s : j <= k
  <2> TAKE j \in s
  <2>1. n - k <= n - j BY <1>2, <1>3
  <2> QED BY <2>1
<1> QED BY <1>4, Greatest

-----------------------------------------------------------------------------
(* Folds. A step of a fold is a function F[k] of what was folded before.   *)

Folds(h, S, n, first, F) ==
    /\ h \in [SUBSET (1 .. n) -> S] /\ h[{}] = first
    /\ \A s \in SUBSET (1 .. n) : s # {} => h[s] = F[Max(s)][h[s \ {Max(s)}]]

LEMMA MaxHere ==
    ASSUME NEW n \in Nat, NEW s \in SUBSET (1 .. n), s # {}
    PROVE  Max(s) \in s /\ Max(s) \in 1 .. n /\ s \ {Max(s)} \in SUBSET (1 .. n)
<1>1. s \in SUBSET (0 .. n) OBVIOUS
<1>2. Max(s) \in s BY <1>1, GreatestOf
<1> QED BY <1>2

LEMMA FoldExists ==
    ASSUME NEW S, NEW first \in S, NEW n \in Nat, NEW F \in [1 .. n -> [S -> S]]
    PROVE  \E h : Folds(h, S, n, first, F)
<1> DEFINE T == {m \in Nat : m <= n => \E h : Folds(h, S, m, first, F)}
<1>1. 0 \in T
  <2> DEFINE h == [s \in SUBSET (1 .. 0) |-> first]
  <2>1. \A s \in SUBSET (1 .. 0) : s = {} OBVIOUS
  <2>2. Folds(h, S, 0, first, F) BY <2>1 DEF Folds
  <2> QED BY <2>2
<1>2. ASSUME NEW m \in Nat, m \in T PROVE m + 1 \in T
  <2> SUFFICES ASSUME m + 1 <= n PROVE \E h : Folds(h, S, m + 1, first, F) OBVIOUS
  <2>1. PICK g : Folds(g, S, m, first, F) BY <1>2
  <2> DEFINE h == [s \in SUBSET (1 .. m + 1) |->
                      IF m + 1 \in s THEN F[m + 1][g[s \ {m + 1}]] ELSE g[s]]
  <2>2. ASSUME NEW s \in SUBSET (1 .. m + 1), m + 1 \in s
        PROVE  /\ s \ {m + 1} \in SUBSET (1 .. m) /\ Max(s) = m + 1
               /\ h[s \ {m + 1}] = g[s \ {m + 1}] /\ g[s \ {m + 1}] \in S
               /\ h[s] = F[m + 1][g[s \ {m + 1}]] /\ h[s] \in S
    <3>1. s \ {m + 1} \in SUBSET (1 .. m) BY <2>2
    <3>2. Max(s) = m + 1
      <4>1. m + 1 \in Nat /\ s \in SUBSET (0 .. m + 1) /\ \A j \in s : j <= m + 1 OBVIOUS
      <4> QED BY <2>2, <4>1, Greatest
    <3>3. g[s \ {m + 1}] \in S BY <2>1, <3>1 DEF Folds
    <3>4. s \ {m + 1} \in SUBSET (1 .. m + 1) /\ m + 1 \notin s \ {m + 1} OBVIOUS
    <3>5. h[s] = F[m + 1][g[s \ {m + 1}]] BY <2>2
    <3> QED BY <3>1, <3>2, <3>3, <3>4, <3>5
  <2>3. ASSUME NEW s \in SUBSET (1 .. m + 1), m + 1 \notin s
        PROVE  s \in SUBSET (1 .. m) /\ h[s] = g[s] /\ h[s] \in S
    <3>1. s \in SUBSET (1 .. m) BY <2>3
    <3> QED BY <2>1, <2>3, <3>1 DEF Folds
  <2>4. h \in [SUBSET (1 .. m + 1) -> S]
    <3>1. \A s \in SUBSET (1 .. m + 1) : h[s] \in S BY <2>2, <2>3
    <3> QED BY <3>1
  <2>5. h[{}] = first
    <3>1. {} \in SUBSET (1 .. m + 1) /\ m + 1 \notin {} OBVIOUS
    <3> QED BY <2>1, <2>3, <3>1 DEF Folds
  <2>6. ASSUME NEW s \in SUBSET (1 .. m + 1), s # {}
        PROVE  h[s] = F[Max(s)][h[s \ {Max(s)}]]
    <3>1. CASE m + 1 \in s BY <2>2, <3>1
    <3>2. CASE m + 1 \notin s
      <4>1. s \in SUBSET (1 .. m) /\ h[s] = g[s] BY <2>3, <3>2
      <4>2. s \ {Max(s)} \in SUBSET (1 .. m + 1) /\ m + 1 \notin s \ {Max(s)} BY <3>2
      <4>3. h[s \ {Max(s)}] = g[s \ {Max(s)}] BY <2>3, <4>2
      <4> QED BY <2>1, <2>6, <4>1, <4>3 DEF Folds
    <3> QED BY <3>1, <3>2
  <2> HIDE DEF h
  <2>7. Folds(h, S, m + 1, first, F) BY <2>4, <2>5, <2>6 DEF Folds
  <2> QED BY <2>7
<1> HIDE DEF T
<1>3. n \in T BY <1>1, <1>2, Induct
<1> QED BY <1>3 DEF T

(* The first m numbers, of which the last is folded last.                  *)
LEMMA Initial ==
    ASSUME NEW n \in Nat, NEW m \in 1 .. n
    PROVE  /\ (1 .. m) \in SUBSET (1 .. n) /\ (1 .. m) # {}
           /\ Max(1 .. m) = m /\ (1 .. m) \ {m} = 1 .. (m - 1)
<1>1. /\ m \in Nat /\ m \in 1 .. m /\ (1 .. m) \in SUBSET (0 .. m) /\ \A j \in 1 .. m : j <= m
  OBVIOUS
<1>2. (1 .. m) \in SUBSET (1 .. n) /\ (1 .. m) # {}
  <2>1. \A k \in 1 .. m : k \in 1 .. n OBVIOUS
  <2> QED BY <1>1, <2>1
<1>3. Max(1 .. m) = m BY <1>1, Greatest
<1>4. (1 .. m) \ {m} = 1 .. (m - 1)
  <2>1. \A k : k \in (1 .. m) \ {m} <=> k \in 1 .. (m - 1) OBVIOUS
  <2> QED BY <2>1, Zenon
<1> QED BY <1>2, <1>3, <1>4

-----------------------------------------------------------------------------
(* Texts. The words in them are those of the DSNs that are written, and    *)
(* those of which this package knows.                                      *)

Literals ==
    {e[1] : e \in Escapes} \cup {e[2] : e \in Escapes}
        \cup DOMAIN DurationOf \cup DOMAIN NumberOf \cup Flags \cup Timeouts
        \cup {"collation", "loc", "tls", "maxAllowedPacket"}
        \cup {"UTC", "Local", "US", "Pacific", "true", "false", "skip-verify",
              "utf8_general_ci", "tcp", "unix", "127.0.0.1", "3306", "tmp", "mysql.sock"}

Words == Literals \cup UNION {{w.dsn[i] : i \in DOMAIN w.dsn} : w \in Written}

Text == Seq(Words)

LEMMA Appended ==
    ASSUME NEW S, NEW s \in Seq(S), NEW e \in S
    PROVE  Append(s, e) \in Seq(S)
OBVIOUS

LEMMA EmptyText == <<>> \in Text
BY DEF Text

LEMMA Single ==
    ASSUME NEW word \in Words
    PROVE  <<word>> \in Text
<1>1. ASSUME NEW S, NEW e \in S PROVE <<e>> \in Seq(S) OBVIOUS
<1> QED BY <1>1 DEF Text

LEMMA PartOfText ==
    ASSUME NEW s \in Text, NEW m \in Nat \ {0}, NEW n \in Int, n <= Len(s)
    PROVE  SubSeq(s, m, n) \in Text
<1>1. CASE n < m BY <1>1 DEF Text
<1>2. CASE m <= n BY <1>2 DEF Text
<1> QED BY <1>1, <1>2

LEMMA FirstOfRange ==
    ASSUME NEW s, NEW from \in Nat \ {0}, NEW to \in Nat, NEW t
    PROVE  FirstOf(s, from, to, t) \in 1 .. to + 1
<1> DEFINE I == {i \in from .. to : s[i] = t}
<1>1. SelectInSubSeq(s, from, to, LAMBDA u : u = t) = IF I # {} THEN Min(I) ELSE 0
  BY DEF SelectInSubSeq
<1>2. I \in SUBSET (0 .. to) /\ \A i \in I : i \in 1 .. to OBVIOUS
<1>3. I # {} => Min(I) \in 1 .. to BY <1>2, LeastOf
<1> HIDE DEF I
<1> QED BY <1>1, <1>3 DEF FirstOf

LEMMA SlashRange ==
    ASSUME NEW s \in Text
    PROVE  Slash(s) \in 0 .. Len(s)
<1> DEFINE I == {i \in 1 .. Len(s) : s[i] = "/"}
<1>0. Len(s) \in Nat BY DEF Text
<1>1. Slash(s) = IF I # {} THEN Max(I) ELSE 0 BY DEF Slash, SelectLastInSeq
<1>2. I \in SUBSET (0 .. Len(s)) /\ \A i \in I : i \in 1 .. Len(s) OBVIOUS
<1>3. I # {} => Max(I) \in 1 .. Len(s) BY <1>0, <1>2, GreatestOf
<1> HIDE DEF I
<1> QED BY <1>0, <1>1, <1>3

LEMMA LastRange ==
    ASSUME NEW s, NEW to \in Nat
    PROVE  SelectLastInSubSeq(s, 1, to, LAMBDA t : t = "@") \in 0 .. to
<1> DEFINE I == {i \in 1 .. to : s[i] = "@"}
<1>1. SelectLastInSubSeq(s, 1, to, LAMBDA t : t = "@") = IF I # {} THEN Max(I) ELSE 0
  BY DEF SelectLastInSubSeq
<1>2. I \in SUBSET (0 .. to) /\ \A i \in I : i \in 1 .. to OBVIOUS
<1>3. I # {} => Max(I) \in 1 .. to BY <1>2, GreatestOf
<1> HIDE DEF I
<1> QED BY <1>1, <1>3

LEMMA AssignRange ==
    ASSUME NEW s \in Text
    PROVE  SelectInSeq(s, LAMBDA t : t = "=") \in 0 .. Len(s)
<1> DEFINE I == {i \in 1 .. Len(s) : s[i] = "="}
<1>0. Len(s) \in Nat BY DEF Text
<1>1. SelectInSeq(s, LAMBDA t : t = "=") = IF I # {} THEN Min(I) ELSE 0 BY DEF SelectInSeq
<1>2. I \in SUBSET (0 .. Len(s)) /\ \A i \in I : i \in 1 .. Len(s) OBVIOUS
<1>3. I # {} => Min(I) \in 1 .. Len(s) BY <1>0, <1>2, LeastOf
<1> HIDE DEF I
<1> QED BY <1>0, <1>1, <1>3

(* Pieces between separators are texts, and there is at least one.         *)
LEMMA SplitType ==
    ASSUME NEW s \in Text, NEW separator
    PROVE  Split(s, separator) \in Seq(Text) /\ Split(s, separator) # <<>>
<1> DEFINE Pieces == {p \in Seq(Text) : p # <<>>}
           Step(p, t) == IF t = separator THEN Append(p, <<>>)
                         ELSE Append(Front(p), Append(Last(p), t))
<1>0. PICK n \in Nat : n = Len(s) /\ DOMAIN s = 1 .. n BY DEF Text
<1>1. ASSUME NEW p \in Pieces, NEW t \in Words PROVE Step(p, t) \in Pieces
  <2>1. p \in Seq(Text) /\ Len(p) \in Nat /\ Len(p) # 0 BY <1>1
  <2>2. Front(p) \in Seq(Text) BY <2>1 DEF Front
  <2>3. Last(p) \in Text BY <2>1 DEF Last
  <2>4. \A text \in Text : Append(text, t) \in Text
    BY <1>1, Appended DEF Text
  <2>6. <<>> \in Text BY DEF Text
  <2>5. \A q \in Seq(Text), e \in Text : Append(q, e) \in Seq(Text) /\ Append(q, e) # <<>>
    OBVIOUS
  <2> QED BY <2>1, <2>2, <2>3, <2>4, <2>5, <2>6
<1> DEFINE F == [k \in 1 .. n |-> [p \in Pieces |-> Step(p, s[k])]]
           first == <<<<>>>>
<1>2. F \in [1 .. n -> [Pieces -> Pieces]]
  <2>1. \A k \in 1 .. n : s[k] \in Words BY <1>0 DEF Text
  <2> QED BY <1>1, <2>1
<1>3. first \in Pieces BY DEF Text
<1> DEFINE fold == CHOOSE h : h = [q \in SUBSET DOMAIN s |->
                                    IF q = {} THEN first ELSE Step(h[q \ {Max(q)}], s[Max(q)])]
<1>4. Split(s, separator) = fold[DOMAIN s] BY Zenon DEF Split, FoldLeft, MapThenFoldSet
<1> HIDE DEF Pieces, first
<1>5. PICK h : Folds(h, Pieces, n, first, F)
  <2> HIDE DEF F
  <2> QED BY <1>2, <1>3, FoldExists
<1>6. h = [q \in SUBSET DOMAIN s |-> IF q = {} THEN first ELSE Step(h[q \ {Max(q)}], s[Max(q)])]
  <2>1. ASSUME NEW q \in SUBSET (1 .. n), q # {}
        PROVE  h[q] = Step(h[q \ {Max(q)}], s[Max(q)])
    <3>1. Max(q) \in 1 .. n /\ q \ {Max(q)} \in SUBSET (1 .. n) BY <2>1, MaxHere
    <3>2. h[q] = F[Max(q)][h[q \ {Max(q)}]] /\ h[q \ {Max(q)}] \in Pieces
      BY <1>5, <2>1, <3>1 DEF Folds
    <3> HIDE DEF Step
    <3> QED BY <3>1, <3>2
  <2>2. h \in [SUBSET (1 .. n) -> Pieces] /\ h[{}] = first BY <1>5 DEF Folds
  <2> HIDE DEF Step
  <2>3. \A q \in SUBSET (1 .. n) :
            h[q] = IF q = {} THEN first ELSE Step(h[q \ {Max(q)}], s[Max(q)])
    BY <2>1, <2>2
  <2> QED BY <1>0, <2>2, <2>3
<1> HIDE DEF Step
<1>7. fold = [q \in SUBSET DOMAIN s |->
                 IF q = {} THEN first ELSE Step(fold[q \ {Max(q)}], s[Max(q)])]
  BY <1>6, Zenon
<1> HIDE DEF fold
<1> DEFINE T == {m \in Nat : m <= n => fold[1 .. m] \in Pieces}
<1>8. 0 \in T
  <2>1. (1 .. 0) = {} OBVIOUS
  <2> QED BY <1>3, <1>7, <2>1
<1>9. ASSUME NEW m \in Nat, m \in T PROVE m + 1 \in T
  <2> SUFFICES ASSUME m + 1 <= n PROVE fold[1 .. m + 1] \in Pieces OBVIOUS
  <2>1. PICK k \in 1 .. n : k = m + 1 OBVIOUS
  <2>2. fold[1 .. m] \in Pieces /\ k - 1 = m BY <1>9, <2>1
  <2>3. fold[1 .. k] = Step(fold[1 .. m], s[k])
    <3>1. /\ (1 .. k) \in SUBSET (1 .. n) /\ (1 .. k) # {} /\ Max(1 .. k) = k
          /\ (1 .. k) \ {k} = 1 .. m
      BY <2>2, Initial
    <3>2. (1 .. k) \in SUBSET DOMAIN s BY <1>0, <3>1
    <3> QED BY <1>7, <3>1, <3>2
  <2>4. s[k] \in Words BY <1>0 DEF Text
  <2> QED BY <1>1, <2>1, <2>2, <2>3, <2>4
<1> HIDE DEF T
<1>10. n \in T BY <1>8, <1>9, Induct
<1>11. fold[1 .. n] \in Pieces BY <1>10 DEF T
<1> QED BY <1>0, <1>4, <1>11 DEF Pieces

LEMMA Joined ==
    ASSUME NEW a \in Text, NEW b \in Text
    PROVE  a \o b \in Text
<1>1. ASSUME NEW S, NEW c \in Seq(S), NEW d \in Seq(S) PROVE c \o d \in Seq(S) OBVIOUS
<1> QED BY <1>1 DEF Text

LEMMA WithoutElements ==
    ASSUME NEW S, NEW s \in Seq(S), Len(s) = 0
    PROVE  s = <<>>
OBVIOUS

(* Texts put together are a text.                                          *)
LEMMA FlattenType ==
    ASSUME NEW seqs \in Seq(Text)
    PROVE  FlattenSeq(seqs) \in Text
<1>0. PICK n \in Nat : n = Len(seqs) /\ \A k \in 1 .. n : seqs[k] \in Text OBVIOUS
<1>1. CASE n = 0
  <2>1. seqs = <<>> BY <1>0, <1>1, WithoutElements
  <2> QED BY <1>0, <1>1, <2>1 DEF FlattenSeq, Text
<1>2. CASE n # 0
  <2> DEFINE flatten == CHOOSE f : f = [i \in 1 .. Len(seqs) |->
                                           IF i = 1 THEN seqs[i] ELSE f[i - 1] \o seqs[i]]
             F == [k \in 1 .. n |-> [x \in Text |-> x \o seqs[k]]]
  <2>1. FlattenSeq(seqs) = flatten[Len(seqs)] BY <1>0, <1>2 DEF FlattenSeq
  <2>2. F \in [1 .. n -> [Text -> Text]] BY <1>0, Joined
  <2>3. PICK empty \in Text : empty = <<>> BY EmptyText
  <2>4. PICK h : Folds(h, Text, n, empty, F)
    <3> HIDE DEF F
    <3> QED BY <2>2, FoldExists
  <2>5. ASSUME NEW k \in 1 .. n
        PROVE  h[1 .. k] = h[1 .. k - 1] \o seqs[k]
    <3>1. /\ (1 .. k) \in SUBSET (1 .. n) /\ (1 .. k) # {} /\ Max(1 .. k) = k
          /\ (1 .. k) \ {k} = 1 .. (k - 1)
      BY Initial
    <3>2. h[1 .. k] = F[k][h[1 .. (k - 1)]]
      <4>1. \A q \in SUBSET (1 .. n) : q # {} => h[q] = F[Max(q)][h[q \ {Max(q)}]]
        BY <2>4 DEF Folds
      <4> HIDE DEF F
      <4>2. h[1 .. k] = F[Max(1 .. k)][h[(1 .. k) \ {Max(1 .. k)}]] BY <3>1, <4>1
      <4> QED BY <3>1, <4>2
    <3>3. 1 .. (k - 1) \in SUBSET (1 .. n) BY <3>1
    <3>4. h[1 .. (k - 1)] \in Text BY <2>4, <3>3 DEF Folds
    <3> QED BY <3>2, <3>4
  <2>6. h[1 .. 1] = seqs[1]
    <3>1. 1 .. 0 = {} OBVIOUS
    <3>2. h[1 .. 0] = <<>> BY <2>3, <2>4, <3>1 DEF Folds
    <3>3. 1 \in 1 .. n BY <1>2
    <3>4. h[1 .. 1] = h[1 .. 1 - 1] \o seqs[1] BY <2>5, <3>3
    <3>5. 1 - 1 = 0 OBVIOUS
    <3>6. h[1 .. 1] = <<>> \o seqs[1] BY <3>2, <3>4, <3>5
    <3>7. seqs[1] \in Text BY <1>0, <3>3
    <3> QED BY <3>6, <3>7 DEF Text
  <2> DEFINE g == [k \in 1 .. n |-> h[1 .. k]]
  <2>7. g = [i \in 1 .. Len(seqs) |-> IF i = 1 THEN seqs[i] ELSE g[i - 1] \o seqs[i]]
    <3>1. ASSUME NEW i \in 1 .. n PROVE g[i] = IF i = 1 THEN seqs[i] ELSE g[i - 1] \o seqs[i]
      <4>1. CASE i = 1 BY <2>6, <4>1
      <4>2. CASE i # 1
        <5>1. i - 1 \in 1 .. n /\ i # 1 BY <4>2
        <5>2. g[i] = h[1 .. i] /\ g[i - 1] = h[1 .. i - 1] BY <5>1
        <5> QED BY <2>5, <5>1, <5>2
      <4> QED BY <4>1, <4>2
    <3> QED BY <1>0, <3>1
  <2> HIDE DEF g
  <2>8. flatten = [i \in 1 .. Len(seqs) |->
                      IF i = 1 THEN seqs[i] ELSE flatten[i - 1] \o seqs[i]]
    BY <2>7, Zenon
  <2> HIDE DEF flatten
  <2> DEFINE T == {m \in Nat : m + 1 <= n => flatten[m + 1] \in Text}
  <2>9. 0 \in T BY <1>0, <1>2, <2>8
  <2>10. ASSUME NEW m \in Nat, m \in T PROVE m + 1 \in T
    <3> SUFFICES ASSUME m + 1 + 1 <= n PROVE flatten[m + 1 + 1] \in Text OBVIOUS
    <3>1. PICK k \in 1 .. n : k = m + 1 + 1 OBVIOUS
    <3>2. k # 1 /\ k - 1 = m + 1 /\ flatten[m + 1] \in Text BY <2>10, <3>1
    <3>3. flatten[k] = flatten[k - 1] \o seqs[k] BY <1>0, <2>8, <3>2
    <3> QED BY <1>0, <3>1, <3>2, <3>3, Joined
  <2> HIDE DEF T
  <2>11. n - 1 \in T
    <3>1. n - 1 \in Nat BY <1>2
    <3> QED BY <2>9, <2>10, <3>1, Induct
  <2>12. flatten[n] \in Text BY <1>2, <2>11 DEF T
  <2> QED BY <1>0, <2>1, <2>12
<1> QED BY <1>1, <1>2

-----------------------------------------------------------------------------
(* Configurations.                                                         *)

Params == UNION {[names -> Text] : names \in {D \in SUBSET Text : IsFiniteSet(D)}}
Limits == {0, 1, -1, 16777216}
Seconds == {0, 1, -1, 90}
Pointers == {"nil", "verify", "skip-verify"} \cup DOMAIN Registered

Config ==
    [user : Text, passwd : Text, net : Text, addr : Text, dbName : Text, params : Params,
     collation : Text, loc : Zones, maxAllowedPacket : Limits, tlsConfig : Text,
     tls : Pointers, timeouts : [Timeouts -> Seconds], flags : SUBSET Flags]

ServerNames == Text \cup {Registered[p].serverName : p \in DOMAIN Registered}
TLSConfigs ==
    [DOMAIN Registered -> [serverName : ServerNames, insecureSkipVerify : BOOLEAN]]

LEMMA EscapeType ==
    ASSUME NEW s \in Text
    PROVE  QueryEscape(s) \in Text /\ QueryUnescape(s) \in Text
<1>1. \A e \in Escapes : e[1] \in Words /\ e[2] \in Words BY DEF Words, Literals
<1>2. PICK n \in Nat : n = Len(s) /\ DOMAIN s = 1 .. n BY DEF Text
<1>3. \A i \in 1 .. n : s[i] \in Words BY <1>2 DEF Text
<1>4. ASSUME NEW q, q \in [1 .. n -> Words] PROVE q \in Text
  <2>1. ASSUME NEW S, NEW f \in [1 .. n -> S] PROVE f \in Seq(S) OBVIOUS
  <2> QED BY <1>4, <2>1 DEF Text
<1>5. QueryEscape(s) \in [1 .. n -> Words] BY <1>1, <1>2, <1>3 DEF QueryEscape
<1>6. QueryUnescape(s) \in [1 .. n -> Words] BY <1>1, <1>2, <1>3 DEF QueryUnescape
<1> QED BY <1>4, <1>5, <1>6

LEMMA NewConfigType == NewConfig \in Config
<1>1. <<>> \in Params
  <2>1. <<>> \in [{} -> Text] OBVIOUS
  <2>2. IsFiniteSet({}) BY FS_EmptySet
  <2> QED BY <2>1, <2>2 DEF Params
<1>2. <<>> \in Text /\ UTC \in Zones BY EmptyText DEF Zones
<1>3. defaultCollation \in Text
  <2>1. "utf8_general_ci" \in Words BY DEF Words, Literals
  <2> QED BY <2>1, Single DEF defaultCollation
<1> QED BY <1>1, <1>2, <1>3 DEF NewConfig, Config, Limits, Pointers, Seconds

LEMMA ParamsType ==
    ASSUME NEW params \in Params, NEW name \in Text, NEW value \in Text
    PROVE  Put(params, name, value) \in Params
<1>1. PICK D \in SUBSET Text : IsFiniteSet(D) /\ params \in [D -> Text] BY DEF Params
<1>2. Put(params, name, value) \in [D \cup {name} -> Text] BY <1>1 DEF Put
<1>3. IsFiniteSet(D \cup {name}) BY <1>1, FS_AddElement
<1> QED BY <1>2, <1>3 DEF Params

-----------------------------------------------------------------------------
(* Parsing the parameters. What has been read so far is typed, has the     *)
(* address that was parsed before, names a tls.Config only with the name   *)
(* of a server where it needs one, and has left every name as it was.      *)

Registers ==
    \A key \in DOMAIN tlsConfigRegister : tlsConfigRegister[key] \in DOMAIN Registered

Verifies(config, addr) ==
    config.serverName # <<>> \/ config.insecureSkipVerify \/ SplitHostPort(addr) = <<>>

Readings(addr) ==
    {r \in [c : Config, tlsConfigs : TLSConfigs, ok : BOOLEAN] :
        /\ r.c.addr = addr
        /\ r.c.tls \in DOMAIN Registered => Verifies(r.tlsConfigs[r.c.tls], addr)
        /\ \A p \in DOMAIN Registered :
               tlsConfigs[p].serverName # <<>> => r.tlsConfigs[p] = tlsConfigs[p]}

LEMMA Changed ==
    ASSUME NEW c \in Config
    PROVE  /\ \A v \in Params : [c EXCEPT !["params"] = v] \in Config
           /\ \A v \in Text : [c EXCEPT !["collation"] = v] \in Config
           /\ \A v \in Zones : [c EXCEPT !["loc"] = v] \in Config
           /\ \A v \in Limits : [c EXCEPT !["maxAllowedPacket"] = v] \in Config
           /\ \A v \in Text : [c EXCEPT !["tlsConfig"] = v] \in Config
           /\ \A v \in Pointers : [c EXCEPT !["tls"] = v] \in Config
           /\ \A v \in [Timeouts -> Seconds] : [c EXCEPT !["timeouts"] = v] \in Config
           /\ \A v \in SUBSET Flags : [c EXCEPT !["flags"] = v] \in Config
BY DEF Config

LEMMA WithField ==
    ASSUME NEW addr, NEW r \in Readings(addr), NEW v,
           NEW field \in {"params", "collation", "loc", "maxAllowedPacket", "tlsConfig",
                          "timeouts", "flags"},
           [r.c EXCEPT ![field] = v] \in Config
    PROVE  With(r, field, v) \in Readings(addr)
<1>1. r.c \in Config /\ r \in [c : Config, tlsConfigs : TLSConfigs, ok : BOOLEAN]
  BY DEF Readings
<1>2. PICK d \in Config : d = [r.c EXCEPT ![field] = v] OBVIOUS
<1>3. With(r, field, v) = [r EXCEPT !.c = d] BY <1>2 DEF With
<1>4. d.addr = r.c.addr /\ d.tls = r.c.tls BY <1>1, <1>2 DEF Config
<1> QED BY <1>1, <1>3, <1>4 DEF Readings

LEMMA Refused ==
    ASSUME NEW addr, NEW r \in Readings(addr)
    PROVE  Refuse(r) \in Readings(addr)
BY DEF Refuse, Readings

LEMMA FlagRead ==
    ASSUME NEW addr, NEW r \in Readings(addr), NEW flag \in Flags, NEW value
    PROVE  ReadFlag(r, flag, value) \in Readings(addr)
<1>1. r.c \in Config /\ r.c.flags \in SUBSET Flags BY DEF Readings, Config
<1>2. r.c.flags \cup {flag} \in SUBSET Flags /\ r.c.flags \ {flag} \in SUBSET Flags BY <1>1
<1> QED BY <1>1, <1>2, Changed, WithField, Refused DEF ReadFlag

LEMMA TimeoutRead ==
    ASSUME NEW addr, NEW r \in Readings(addr), NEW timeout \in Timeouts, NEW value
    PROVE  ReadTimeout(r, timeout, value) \in Readings(addr)
<1>1. r.c \in Config /\ r.c.timeouts \in [Timeouts -> Seconds] BY DEF Readings, Config
<1>2. \A word \in DOMAIN DurationOf : DurationOf[word] \in Seconds
  BY DEF DurationOf, Seconds
<1>3. CASE \E word \in DOMAIN DurationOf : value = <<word>>
  <2>1. value[1] \in DOMAIN DurationOf BY <1>3
  <2>2. [r.c.timeouts EXCEPT ![timeout] = DurationOf[value[1]]] \in [Timeouts -> Seconds]
    BY <1>1, <1>2, <2>1
  <2> QED BY <1>1, <1>3, <2>2, Changed, WithField DEF ReadTimeout
<1>4. CASE ~\E word \in DOMAIN DurationOf : value = <<word>>
  BY <1>4, Refused DEF ReadTimeout
<1> QED BY <1>3, <1>4

LEMMA LocRead ==
    ASSUME NEW addr, NEW r \in Readings(addr), NEW value
    PROVE  ReadLoc(r, value) \in Readings(addr)
<1>1. r.c \in Config /\ UTC \in Zones BY DEF Readings, Zones
<1>2. CASE ~Escaped(value) \/ QueryUnescape(value) \notin Zones \cup {<<>>}
  BY <1>2, Refused DEF ReadLoc
<1>3. CASE Escaped(value) /\ QueryUnescape(value) \in Zones \cup {<<>>}
  <2>1. PICK zone \in Zones :
            zone = IF QueryUnescape(value) = <<>> THEN UTC ELSE QueryUnescape(value)
    BY <1>1, <1>3
  <2>2. ReadLoc(r, value) = With(r, "loc", zone) BY <1>3, <2>1 DEF ReadLoc
  <2> QED BY <1>1, <2>2, Changed, WithField
<1> QED BY <1>2, <1>3

LEMMA LimitRead ==
    ASSUME NEW addr, NEW r \in Readings(addr), NEW value
    PROVE  ReadMaxAllowedPacket(r, value) \in Readings(addr)
<1>1. r.c \in Config BY DEF Readings
<1>2. \A word \in DOMAIN NumberOf : NumberOf[word] \in Limits BY DEF NumberOf, Limits
<1>3. CASE \E word \in DOMAIN NumberOf : value = <<word>>
  <2>1. NumberOf[value[1]] \in Limits BY <1>2, <1>3
  <2> QED BY <1>1, <1>3, <2>1, Changed, WithField DEF ReadMaxAllowedPacket
<1>4. CASE ~\E word \in DOMAIN NumberOf : value = <<word>>
  BY <1>4, Refused DEF ReadMaxAllowedPacket
<1> QED BY <1>3, <1>4

LEMMA OtherRead ==
    ASSUME NEW addr, NEW r \in Readings(addr), NEW name \in Text, NEW value \in Text
    PROVE  ReadOther(r, name, value) \in Readings(addr)
<1>1. r.c \in Config /\ r.c.params \in Params BY DEF Readings, Config
<1>2. Put(r.c.params, name, QueryUnescape(value)) \in Params BY <1>1, EscapeType, ParamsType
<1> QED BY <1>1, <1>2, Changed, WithField, Refused DEF ReadOther

LEMMA HostType ==
    ASSUME NEW addr \in Text
    PROVE  SplitHostPort(addr) \in Text
<1>1. Split(addr, ":") \in Seq(Text) /\ Split(addr, ":") # <<>> BY SplitType
<1>2. Split(addr, ":")[1] \in Text BY <1>1
<1> QED BY <1>2, EmptyText DEF SplitHostPort

LEMMA TLSRead ==
    ASSUME NEW addr \in Text, NEW r \in Readings(addr), NEW value \in Text, Registers
    PROVE  ReadTLS(r, value) \in Readings(addr)
<1> DEFINE name == QueryUnescape(value)
           Use(tlsConfig, pointer) == With(With(r, "tlsConfig", tlsConfig), "tls", pointer)
<1>1. /\ r \in [c : Config, tlsConfigs : TLSConfigs, ok : BOOLEAN] /\ r.c \in Config
      /\ r.c.addr = addr
  BY DEF Readings
<1>2. name \in Text BY EscapeType
<1>3. <<"true">> \in Text /\ <<"false">> \in Text /\ <<"skip-verify">> \in Text
  <2>1. "true" \in Words /\ "false" \in Words /\ "skip-verify" \in Words
    BY DEF Words, Literals
  <2> QED BY <2>1, Single
<1>4. ASSUME NEW config \in Text, NEW pointer \in Pointers
      PROVE  /\ Use(config, pointer) = [r EXCEPT !.c = [@ EXCEPT !.tlsConfig = config,
                                                                 !.tls = pointer]]
             /\ Use(config, pointer).c \in Config /\ Use(config, pointer).c.addr = addr
             /\ Use(config, pointer).c.tls = pointer
             /\ Use(config, pointer).tlsConfigs = r.tlsConfigs
             /\ Use(config, pointer).ok = r.ok
  BY <1>1 DEF With, Config
<1>5. ASSUME NEW config \in Text, NEW pointer \in {"verify", "skip-verify"}
      PROVE  Use(config, pointer) \in Readings(addr)
  <2>1. pointer \in Pointers /\ pointer \notin DOMAIN Registered
    BY RegisteredAssumption DEF Pointers
  <2>2. PICK u : u = Use(config, pointer) OBVIOUS
  <2>3. /\ u = [r EXCEPT !.c = [@ EXCEPT !.tlsConfig = config, !.tls = pointer]]
        /\ u.c \in Config /\ u.c.addr = addr /\ u.c.tls = pointer
        /\ u.tlsConfigs = r.tlsConfigs /\ u.ok = r.ok
    BY <1>4, <2>1, <2>2
  <2>4. u \in [c : Config, tlsConfigs : TLSConfigs, ok : BOOLEAN] BY <1>1, <2>3
  <2>5. \A p \in DOMAIN Registered :
            tlsConfigs[p].serverName # <<>> => u.tlsConfigs[p] = tlsConfigs[p]
    BY <2>3, Zenon DEF Readings
  <2> HIDE DEF Use
  <2>6. u \in Readings(addr) BY <2>1, <2>3, <2>4, <2>5, Zenon DEF Readings
  <2> QED BY <2>2, <2>6
<1>6. CASE value \in True
  <2>1. ReadTLS(r, value) = Use(<<"true">>, "verify") BY <1>6 DEF ReadTLS
  <2> HIDE DEF Use
  <2> QED BY <1>3, <1>5, <2>1
<1>7. CASE value \notin True /\ value \in False
  <2>1. ReadTLS(r, value) = With(r, "tlsConfig", <<"false">>) BY <1>7 DEF ReadTLS
  <2> QED BY <1>1, <1>3, <2>1, Changed, WithField
<1>8. CASE value \notin True /\ value \notin False /\ value \in SkipVerify
  <2>1. ReadTLS(r, value) = Use(<<"skip-verify">>, "skip-verify") BY <1>8 DEF ReadTLS
  <2> HIDE DEF Use
  <2> QED BY <1>3, <1>5, <2>1
<1>9. CASE /\ value \notin True /\ value \notin False /\ value \notin SkipVerify
           /\ (~Escaped(value) \/ name \notin DOMAIN tlsConfigRegister)
  BY <1>9, Refused DEF ReadTLS
<1>10. CASE /\ value \notin True /\ value \notin False /\ value \notin SkipVerify
            /\ Escaped(value) /\ name \in DOMAIN tlsConfigRegister
  <2>1. PICK pointer \in DOMAIN Registered : pointer = tlsConfigRegister[name]
    BY <1>10 DEF Registers
  <2>2. PICK u : u = Use(name, pointer) OBVIOUS
  <2>3. pointer \in Pointers BY DEF Pointers
  <2>4. /\ u = [r EXCEPT !.c = [@ EXCEPT !.tlsConfig = name, !.tls = pointer]]
        /\ u.c \in Config /\ u.c.addr = addr /\ u.c.tls = pointer
        /\ u.tlsConfigs = r.tlsConfigs /\ u.ok = r.ok
    BY <1>2, <1>4, <2>2, <2>3
  <2>5. u \in [c : Config, tlsConfigs : TLSConfigs, ok : BOOLEAN] BY <1>1, <2>4
  <2>6. ReadTLS(r, value) = [u EXCEPT !.tlsConfigs[pointer] = ServerName(@, addr)]
    BY <1>1, <1>10, <2>1, <2>2 DEF ReadTLS
  <2>7. PICK old : old = r.tlsConfigs[pointer] OBVIOUS
  <2>8. PICK new : new = ServerName(old, addr) OBVIOUS
  <2>9. old \in [serverName : ServerNames, insecureSkipVerify : BOOLEAN]
    BY <1>1, <2>7 DEF TLSConfigs
  <2>10. /\ new \in [serverName : ServerNames, insecureSkipVerify : BOOLEAN]
         /\ Verifies(new, addr) /\ (old.serverName # <<>> => new = old)
    <3>1. SplitHostPort(addr) \in ServerNames BY HostType DEF ServerNames
    <3> QED BY <2>8, <2>9, <3>1 DEF ServerName, Verifies
  <2>11. PICK configs : configs = [r.tlsConfigs EXCEPT ![pointer] = new] OBVIOUS
  <2>12. configs \in TLSConfigs /\ configs[pointer] = new BY <1>1, <2>10, <2>11 DEF TLSConfigs
  <2>13. ReadTLS(r, value) = [u EXCEPT !.tlsConfigs = configs]
    BY <2>4, <2>5, <2>6, <2>7, <2>8, <2>11
  <2>14. ASSUME NEW p \in DOMAIN Registered, tlsConfigs[p].serverName # <<>>
         PROVE  configs[p] = tlsConfigs[p]
    <3>1. r.tlsConfigs[p] = tlsConfigs[p] BY <2>14, Zenon DEF Readings
    <3>2. CASE p # pointer
      <4>1. configs[p] = r.tlsConfigs[p] BY <1>1, <2>11, <3>2 DEF TLSConfigs
      <4> QED BY <3>1, <4>1
    <3>3. CASE p = pointer
      <4>1. old = tlsConfigs[p] BY <2>7, <3>1, <3>3
      <4>2. new = old BY <2>10, <2>14, <4>1
      <4> QED BY <2>12, <3>3, <4>1, <4>2
    <3> QED BY <3>2, <3>3
  <2>15. PICK v : v = [u EXCEPT !.tlsConfigs = configs] OBVIOUS
  <2>16. /\ v \in [c : Config, tlsConfigs : TLSConfigs, ok : BOOLEAN]
         /\ v.c.addr = addr /\ v.c.tls = pointer /\ v.tlsConfigs = configs
    BY <2>4, <2>5, <2>12, <2>15
  <2> HIDE DEF name, Use
  <2>17. v.c.tls \in DOMAIN Registered => Verifies(v.tlsConfigs[v.c.tls], addr)
    BY <2>10, <2>12, <2>16
  <2>18. \A p \in DOMAIN Registered :
             tlsConfigs[p].serverName # <<>> => v.tlsConfigs[p] = tlsConfigs[p]
    BY <2>14, <2>16
  <2>19. v \in Readings(addr) BY <2>16, <2>17, <2>18, Zenon DEF Readings
  <2> QED BY <2>13, <2>15, <2>19
<1> QED BY <1>6, <1>7, <1>8, <1>9, <1>10

LEMMA ParamRead ==
    ASSUME NEW addr \in Text, NEW r \in Readings(addr), NEW param \in Text, Registers
    PROVE  ReadParam(r, param) \in Readings(addr)
<1>1. PICK i \in 0 .. Len(param) : i = SelectInSeq(param, LAMBDA t : t = "=")
  BY AssignRange
<1>2. Len(param) \in Nat BY DEF Text
<1>3. PICK name \in Text : name = SubSeq(param, 1, i - 1)
  <2>1. i - 1 \in Int /\ i - 1 <= Len(param) /\ 1 \in Nat \ {0} BY <1>2
  <2> QED BY <2>1, PartOfText
<1>4. PICK value \in Text : value = SubSeq(param, i + 1, Len(param))
  <2>1. i + 1 \in Nat \ {0} /\ Len(param) \in Int /\ Len(param) <= Len(param) BY <1>2
  <2> QED BY <2>1, PartOfText
<1>5. ReadParam(r, param) \in
          {r, Refuse(r), ReadLoc(r, value), ReadTLS(r, value), ReadMaxAllowedPacket(r, value),
           ReadOther(r, name, value)} \/
      \/ ReadParam(r, param) = With(r, "collation", value)
      \/ name[1] \in Flags /\ ReadParam(r, param) = ReadFlag(r, name[1], value)
      \/ name[1] \in Timeouts /\ ReadParam(r, param) = ReadTimeout(r, name[1], value)
  BY <1>1, <1>3, <1>4 DEF ReadParam
<1>6. With(r, "collation", value) \in Readings(addr)
  <2>1. r.c \in Config BY DEF Readings
  <2> QED BY <2>1, Changed, WithField
<1> QED BY <1>5, <1>6, Refused, LocRead, TLSRead, LimitRead, OtherRead, FlagRead, TimeoutRead

LEMMA ParamsRead ==
    ASSUME NEW addr \in Text, NEW r \in Readings(addr), NEW params \in Text, Registers
    PROVE  parseDSNParams(r, params) \in Readings(addr)
<1> DEFINE S == Readings(addr)
<1>0. PICK pieces \in Seq(Text) : pieces = Split(params, "&") BY SplitType
<1>1. PICK n \in Nat : n = Len(pieces) /\ DOMAIN pieces = 1 .. n OBVIOUS
<1> DEFINE F == [k \in 1 .. n |-> [x \in S |-> ReadParam(x, pieces[k])]]
<1>2. \A k \in 1 .. n : pieces[k] \in Text BY <1>1
<1>3. F \in [1 .. n -> [S -> S]] BY <1>2, ParamRead
<1> DEFINE fold == CHOOSE h : h = [q \in SUBSET DOMAIN pieces |->
                      IF q = {} THEN r ELSE ReadParam(h[q \ {Max(q)}], pieces[Max(q)])]
<1>4. parseDSNParams(r, params) = fold[DOMAIN pieces]
  BY <1>0, Zenon DEF parseDSNParams, FoldLeft, MapThenFoldSet
<1> HIDE DEF S
<1>5. r \in S BY DEF S
<1>6. PICK h : Folds(h, S, n, r, F)
  <2> HIDE DEF F
  <2> QED BY <1>3, <1>5, FoldExists
<1>7. h = [q \in SUBSET DOMAIN pieces |->
              IF q = {} THEN r ELSE ReadParam(h[q \ {Max(q)}], pieces[Max(q)])]
  <2>1. ASSUME NEW q \in SUBSET (1 .. n), q # {}
        PROVE  h[q] = ReadParam(h[q \ {Max(q)}], pieces[Max(q)])
    <3>1. Max(q) \in 1 .. n /\ q \ {Max(q)} \in SUBSET (1 .. n) BY <2>1, MaxHere
    <3>2. h[q] = F[Max(q)][h[q \ {Max(q)}]] /\ h[q \ {Max(q)}] \in S
      BY <1>6, <2>1, <3>1 DEF Folds
    <3> QED BY <3>1, <3>2
  <2>2. h \in [SUBSET (1 .. n) -> S] /\ h[{}] = r BY <1>6 DEF Folds
  <2>3. \A q \in SUBSET (1 .. n) :
            h[q] = IF q = {} THEN r ELSE ReadParam(h[q \ {Max(q)}], pieces[Max(q)])
    BY <2>1, <2>2
  <2> QED BY <1>1, <2>2, <2>3
<1>8. fold = [q \in SUBSET DOMAIN pieces |->
                 IF q = {} THEN r ELSE ReadParam(fold[q \ {Max(q)}], pieces[Max(q)])]
  BY <1>7, Zenon
<1> HIDE DEF fold
<1> DEFINE T == {m \in Nat : m <= n => fold[1 .. m] \in S}
<1>9. 0 \in T
  <2>1. (1 .. 0) = {} OBVIOUS
  <2> QED BY <1>5, <1>8, <2>1
<1>10. ASSUME NEW m \in Nat, m \in T PROVE m + 1 \in T
  <2> SUFFICES ASSUME m + 1 <= n PROVE fold[1 .. m + 1] \in S OBVIOUS
  <2>1. PICK k \in 1 .. n : k = m + 1 OBVIOUS
  <2>2. fold[1 .. m] \in S /\ k - 1 = m BY <1>10, <2>1
  <2>3. fold[1 .. k] = ReadParam(fold[1 .. m], pieces[k])
    <3>1. /\ (1 .. k) \in SUBSET (1 .. n) /\ (1 .. k) # {} /\ Max(1 .. k) = k
          /\ (1 .. k) \ {k} = 1 .. m
      BY <2>2, Initial
    <3>2. (1 .. k) \in SUBSET DOMAIN pieces BY <1>1, <3>1
    <3> QED BY <1>8, <3>1, <3>2
  <2> QED BY <1>2, <2>1, <2>2, <2>3, ParamRead DEF S
<1> HIDE DEF T
<1>11. n \in T BY <1>9, <1>10, Induct
<1>12. fold[1 .. n] \in S BY <1>11 DEF T
<1> QED BY <1>1, <1>4, <1>12 DEF S

-----------------------------------------------------------------------------
(* Parsing a DSN.                                                          *)

LEMMA LoginRead ==
    ASSUME NEW c \in Config, NEW login \in Text
    PROVE  ReadLogin(c, login) \in Config /\ ReadLogin(c, login).tls = c.tls
<1>1. Len(login) \in Nat BY DEF Text
<1>2. PICK colon \in 1 .. Len(login) + 1 : colon = FirstOf(login, 1, Len(login), ":")
  <2>1. 1 \in Nat \ {0} OBVIOUS
  <2> QED BY <1>1, <2>1, FirstOfRange
<1>3. PICK user \in Text : user = SubSeq(login, 1, colon - 1)
  <2>1. colon - 1 \in Int /\ colon - 1 <= Len(login) /\ 1 \in Nat \ {0} BY <1>1
  <2> QED BY <2>1, PartOfText
<1>4. PICK passwd \in Text : passwd = SubSeq(login, colon + 1, Len(login))
  <2>1. colon + 1 \in Nat \ {0} /\ Len(login) \in Int /\ Len(login) <= Len(login) BY <1>1
  <2> QED BY <2>1, PartOfText
<1>5. ReadLogin(c, login) = [c EXCEPT !.user = user, !.passwd = passwd]
  BY <1>2, <1>3, <1>4 DEF ReadLogin
<1> QED BY <1>3, <1>4, <1>5 DEF Config

LEMMA AddressRead ==
    ASSUME NEW c \in Config, NEW address \in Text
    PROVE  ReadAddress(c, address) \in Config /\ ReadAddress(c, address).tls = c.tls
<1>1. Len(address) \in Nat BY DEF Text
<1>2. PICK brace \in 1 .. Len(address) + 1 : brace = FirstOf(address, 1, Len(address), "(")
  <2>1. 1 \in Nat \ {0} OBVIOUS
  <2> QED BY <1>1, <2>1, FirstOfRange
<1>3. PICK net \in Text : net = SubSeq(address, 1, brace - 1)
  <2>1. brace - 1 \in Int /\ brace - 1 <= Len(address) /\ 1 \in Nat \ {0} BY <1>1
  <2> QED BY <2>1, PartOfText
<1>4. PICK addr \in Text : addr = SubSeq(address, brace + 1, Len(address) - 1)
  <2>1. /\ brace + 1 \in Nat \ {0} /\ Len(address) - 1 \in Int
        /\ Len(address) - 1 <= Len(address)
    BY <1>1
  <2> QED BY <2>1, PartOfText
<1>5. ReadAddress(c, address) = [c EXCEPT !.net = net, !.addr = addr]
  BY <1>2, <1>3, <1>4 DEF ReadAddress
<1> QED BY <1>3, <1>4, <1>5 DEF Config

LEMMA DefaultType ==
    ASSUME NEW net
    PROVE  DefaultOf(net) \in Text
<1>1. {"127.0.0.1", ":", "3306", "/", "tmp", "mysql.sock"} \subseteq Words
  BY DEF Words, Literals, Escapes
<1>2. <<"127.0.0.1", ":", "3306">> \in Text BY <1>1 DEF Text
<1>3. <<"/", "tmp", "/", "mysql.sock">> \in Text BY <1>1 DEF Text
<1> QED BY <1>2, <1>3, EmptyText DEF DefaultOf

(* The default address of a socket has no port.                            *)
LEMMA SocketHost == SplitHostPort(DefaultOf(<<"unix">>)) = <<>>
<1>1. PICK addr : addr = <<"/", "tmp", "/", "mysql.sock">> OBVIOUS
<1>2. <<"unix">> # <<"tcp">> OBVIOUS
<1>3. DefaultOf(<<"unix">>) = addr BY <1>1, <1>2 DEF DefaultOf
<1>4. {i \in DOMAIN addr : addr[i] = ":"} = {} BY <1>1
<1>5. Cardinality({}) # 1 BY FS_EmptySet
<1> QED BY <1>3, <1>4, <1>5 DEF SplitHostPort

(* A configuration with an address, and a name to verify at it.            *)
Complete(c, configs) ==
    /\ c \in Config /\ c.net # <<>> /\ c.addr # <<>>
    /\ c.tls \in DOMAIN Registered =>
           Verifies(configs[c.tls], c.addr) \/ c.addr = DefaultOf(<<"tcp">>)

LEMMA Completed ==
    ASSUME NEW addr, NEW r \in Readings(addr), DefaultAddress(r.c).addr # <<>>
    PROVE  Complete(DefaultAddress(r.c), r.tlsConfigs)
<1> DEFINE done == DefaultAddress(r.c)
<1>1. r.c \in Config /\ r.c.addr = addr BY DEF Readings
<1>2. PICK net : net = IF r.c.net = <<>> THEN <<"tcp">> ELSE r.c.net OBVIOUS
<1>3. net \in Text /\ net # <<>>
  <2>1. "tcp" \in Words BY DEF Words, Literals
  <2>2. <<"tcp">> \in Text /\ <<"tcp">> # <<>> BY <2>1, Single
  <2>3. r.c.net \in Text BY <1>1 DEF Config
  <2> QED BY <1>2, <2>2, <2>3
<1>4. PICK full \in Text : full = IF addr = <<>> THEN DefaultOf(net) ELSE addr
  <2>1. addr \in Text BY <1>1 DEF Config
  <2> QED BY <2>1, DefaultType
<1>5. done = [r.c EXCEPT !.net = net, !.addr = full]
  BY <1>1, <1>2, <1>4 DEF DefaultAddress, Config
<1>6. /\ done \in Config /\ done.net = net /\ done.addr = full /\ done.tls = r.c.tls
  BY <1>1, <1>3, <1>4, <1>5 DEF Config
<1>7. ASSUME r.c.tls \in DOMAIN Registered
      PROVE  Verifies(r.tlsConfigs[r.c.tls], full) \/ full = DefaultOf(<<"tcp">>)
  <2>1. Verifies(r.tlsConfigs[r.c.tls], addr) BY <1>7 DEF Readings
  <2>2. CASE addr # <<>> BY <1>4, <2>1, <2>2
  <2>3. CASE addr = <<>>
    <3>1. full = DefaultOf(net) /\ full # <<>> BY <1>4, <1>6, <2>3
    <3>2. net = <<"tcp">> \/ net = <<"unix">> BY <3>1 DEF DefaultOf
    <3>3. CASE net = <<"tcp">> BY <3>1, <3>3
    <3>4. CASE net = <<"unix">>
      <4>1. SplitHostPort(full) = <<>> BY <3>1, <3>4, SocketHost
      <4> QED BY <4>1 DEF Verifies
    <3> QED BY <3>2, <3>3, <3>4
  <2> QED BY <2>2, <2>3
<1> HIDE DEF done
<1>8. done.addr # <<>> BY DEF done
<1> QED BY <1>3, <1>6, <1>7, <1>8 DEF Complete, done

(* What becomes of the tls.Configs when a DSN is parsed.                   *)
Kept(configs) ==
    \A p \in DOMAIN Registered :
        tlsConfigs[p].serverName # <<>> => configs[p] = tlsConfigs[p]

LEMMA Parsed ==
    ASSUME NEW s \in Text, tlsConfigs \in TLSConfigs, Registers
    PROVE  /\ ParseDSN(s).tlsConfigs \in TLSConfigs /\ Kept(ParseDSN(s).tlsConfigs)
           /\ \/ ParseDSN(s).cfg = Failure
              \/ Complete(ParseDSN(s).cfg, ParseDSN(s).tlsConfigs)
<1>0. Len(s) \in Nat BY DEF Text
<1>1. PICK slash \in 0 .. Len(s) : slash = Slash(s) BY SlashRange
<1>2. PICK at \in 0 .. slash : at = SelectLastInSubSeq(s, 1, slash, LAMBDA t : t = "@")
  <2>1. slash \in Nat BY <1>0
  <2> QED BY <2>1, LastRange
<1>3. PICK question \in 1 .. Len(s) + 1 : question = FirstOf(s, slash + 1, Len(s), "?")
  <2>1. slash + 1 \in Nat \ {0} BY <1>0
  <2> QED BY <1>0, <2>1, FirstOfRange
<1>4. PICK address \in Text : address = SubSeq(s, at + 1, slash - 1)
  <2>1. at + 1 \in Nat \ {0} /\ slash - 1 \in Int /\ slash - 1 <= Len(s) BY <1>0
  <2> QED BY <2>1, PartOfText
<1>5. PICK login \in Text : login = SubSeq(s, 1, at - 1)
  <2>1. 1 \in Nat \ {0} /\ at - 1 \in Int /\ at - 1 <= Len(s) BY <1>0
  <2> QED BY <2>1, PartOfText
<1>6. PICK dbName \in Text : dbName = SubSeq(s, slash + 1, question - 1)
  <2>1. slash + 1 \in Nat \ {0} /\ question - 1 \in Int /\ question - 1 <= Len(s) BY <1>0
  <2> QED BY <2>1, PartOfText
<1>7. PICK params \in Text : params = SubSeq(s, question + 1, Len(s))
  <2>1. question + 1 \in Nat \ {0} /\ Len(s) \in Int /\ Len(s) <= Len(s) BY <1>0
  <2> QED BY <2>1, PartOfText
<1>8. PICK left \in Config : left = ReadAddress(ReadLogin(NewConfig, login), address)
                            /\ left.tls = "nil"
  <2>1. NewConfig.tls = "nil" BY DEF NewConfig
  <2>2. PICK l \in Config : l = ReadLogin(NewConfig, login) /\ l.tls = "nil"
    BY <2>1, NewConfigType, LoginRead
  <2>3. ReadAddress(l, address) \in Config /\ ReadAddress(l, address).tls = "nil"
    BY <2>2, AddressRead
  <2> QED BY <2>2, <2>3
<1>9. PICK c \in Config : c = [left EXCEPT !.dbName = dbName] /\ c.tls = "nil"
  <2>1. PICK d : d = [left EXCEPT !.dbName = dbName] OBVIOUS
  <2>2. d \in Config /\ d.tls = "nil" BY <1>6, <1>8, <2>1 DEF Config
  <2> QED BY <2>1, <2>2
<1>10. PICK addr \in Text : addr = c.addr BY <1>9 DEF Config
<1>11. PICK named : named = [c |-> c, tlsConfigs |-> tlsConfigs, ok |-> TRUE] OBVIOUS
<1>12. named \in Readings(addr)
  <2>1. "nil" \notin DOMAIN Registered BY RegisteredAssumption
  <2> QED BY <1>9, <1>10, <1>11, <2>1 DEF Readings
<1>13. PICK read \in Readings(addr) :
           read = IF question <= Len(s) THEN parseDSNParams(named, params) ELSE named
  BY <1>12, ParamsRead
<1>14. read.tlsConfigs \in TLSConfigs /\ Kept(read.tlsConfigs)
  BY <1>13, Zenon DEF Readings, Kept
<1>15. Kept(tlsConfigs) BY DEF Kept
<1>16. \/ ParseDSN(s) = [cfg |-> Failure, tlsConfigs |-> tlsConfigs]
       \/ ParseDSN(s) = [cfg |-> Failure, tlsConfigs |-> read.tlsConfigs]
       \/ /\ DefaultAddress(read.c).addr # <<>>
          /\ ParseDSN(s) = [cfg |-> DefaultAddress(read.c), tlsConfigs |-> read.tlsConfigs]
  BY <1>1, <1>2, <1>3, <1>4, <1>5, <1>6, <1>7, <1>8, <1>9, <1>11, <1>13, SMTT(30)
  DEF ParseDSN
<1> QED BY <1>13, <1>14, <1>15, <1>16, Completed

-----------------------------------------------------------------------------
(* Formatting a configuration.                                             *)

LEMMA ZonesAreTexts == Zones \subseteq Text
<1>1. {"UTC", "Local", "US", "/", "Pacific"} \subseteq Words BY DEF Words, Literals, Escapes
<1>2. <<"UTC">> \in Text /\ <<"Local">> \in Text BY <1>1, Single
<1>3. <<"US", "/", "Pacific">> \in Text BY <1>1 DEF Text
<1> QED BY <1>2, <1>3 DEF Zones, UTC

LEMMA TextsOfValues ==
    /\ \A seconds \in Seconds : seconds > 0 => DurationText(seconds) \in Words
    /\ \A n \in Limits : n > 0 => NumberText(n) \in Words
<1>1. \A word \in DOMAIN DurationOf \cup DOMAIN NumberOf : word \in Words
  BY DEF Words, Literals
<1>2. ASSUME NEW seconds \in Seconds, seconds > 0
      PROVE  DurationText(seconds) \in Words
  <2>1. CASE seconds = 90
    <3>1. "1m30s" \in DOMAIN DurationOf BY DEF DurationOf
    <3> QED BY <1>1, <2>1, <3>1 DEF DurationText
  <2>2. CASE seconds = 1
    <3>1. "1s" \in DOMAIN DurationOf /\ DurationOf["1s"] = 1 BY DEF DurationOf
    <3>2. DurationText(seconds) = CHOOSE word \in DOMAIN DurationOf : DurationOf[word] = 1
      BY <2>2 DEF DurationText
    <3> QED BY <1>1, <3>1, <3>2
  <2> QED BY <1>2, <2>1, <2>2 DEF Seconds
<1>3. ASSUME NEW n \in Limits, n > 0
      PROVE  NumberText(n) \in Words
  <2>1. /\ "1" \in DOMAIN NumberOf /\ NumberOf["1"] = 1
        /\ "16777216" \in DOMAIN NumberOf /\ NumberOf["16777216"] = 16777216
    BY DEF NumberOf
  <2>2. n \in {1, 16777216} BY <1>3 DEF Limits
  <2>3. \E word \in DOMAIN NumberOf : NumberOf[word] = n BY <2>1, <2>2
  <2>4. NumberText(n) \in DOMAIN NumberOf BY <2>3 DEF NumberText
  <2> QED BY <1>1, <2>4
<1> QED BY <1>2, <1>3

OptionNames == Flags \cup Timeouts \cup {"collation", "loc", "tls", "maxAllowedPacket"}

LEMMA OptionType ==
    ASSUME NEW c \in Config, NEW option \in OptionNames
    PROVE  OptionValue(c, option) \in Text
<1>1. <<"true">> \in Text
  <2>1. "true" \in Words BY DEF Words, Literals
  <2> QED BY <2>1, Single
<1>2. \A t \in Timeouts : c.timeouts[t] > 0 => <<DurationText(c.timeouts[t])>> \in Text
  <2>1. \A t \in Timeouts : c.timeouts[t] \in Seconds BY DEF Config
  <2> QED BY <2>1, TextsOfValues, Single
<1>3. c.maxAllowedPacket > 0 => <<NumberText(c.maxAllowedPacket)>> \in Text
  <2>1. c.maxAllowedPacket \in Limits BY DEF Config
  <2> QED BY <2>1, TextsOfValues, Single
<1>4. c.collation \in Text /\ c.loc \in Text /\ c.tlsConfig \in Text
  BY ZonesAreTexts DEF Config
<1>5. QueryEscape(c.loc) \in Text /\ QueryEscape(c.tlsConfig) \in Text BY <1>4, EscapeType
<1> QED BY <1>1, <1>2, <1>3, <1>4, <1>5, EmptyText DEF OptionValue, OptionNames

LEMMA AssignType ==
    ASSUME NEW name \in Text, NEW value \in Text
    PROVE  Assign(name, value) \in Text
<1>1. <<"=">> \in Text
  <2>1. "=" \in Words BY DEF Words, Literals, Escapes
  <2> QED BY <2>1, Single
<1>2. name \o <<"=">> \in Text BY <1>1, Joined
<1> QED BY <1>2, Joined DEF Assign

LEMMA FormatType ==
    ASSUME NEW c \in Config, NEW names \in SetToSeqs(DOMAIN c.params)
    PROVE  FormatDSN(c, names) \in Text
<1>1. {"&", "?", "(", ")", "@", ":", "/"} \subseteq Words BY DEF Words, Literals, Escapes
<1>2. /\ <<"&">> \in Text /\ <<"?">> \in Text /\ <<"(">> \in Text /\ <<")">> \in Text
      /\ <<"@">> \in Text /\ <<":">> \in Text /\ <<"/">> \in Text
  BY <1>1, Single
<1>3. /\ c.user \in Text /\ c.passwd \in Text /\ c.net \in Text /\ c.addr \in Text
      /\ c.dbName \in Text
  BY DEF Config
<1>4. PICK D \in SUBSET Text : IsFiniteSet(D) /\ c.params \in [D -> Text]
  BY DEF Config, Params
<1>5. PICK m \in Nat : names \in [1 .. m -> D]
  <2>1. Cardinality(D) \in Nat BY <1>4, FS_CardinalityType
  <2>2. DOMAIN c.params = D BY <1>4
  <2> QED BY <2>1, <2>2 DEF SetToSeqs
<1>6. PICK password \in Text : password = IF c.passwd = <<>> THEN <<>> ELSE <<":">> \o c.passwd
  BY <1>2, <1>3, EmptyText, Joined
<1>7. PICK login \in Text :
          login = IF c.user = <<>> THEN <<>> ELSE c.user \o password \o <<"@">>
  <2>1. c.user \o password \in Text BY <1>3, Joined
  <2> QED BY <1>2, <2>1, EmptyText, Joined
<1>8. PICK address \in Text :
          address = IF c.addr = <<>> THEN <<>> ELSE <<"(">> \o c.addr \o <<")">>
  <2>1. <<"(">> \o c.addr \in Text BY <1>2, <1>3, Joined
  <2> QED BY <1>2, <2>1, EmptyText, Joined
<1> DEFINE option(o) == IF OptionValue(c, o) = <<>> THEN <<>>
                        ELSE <<"&">> \o Assign(<<o>>, OptionValue(c, o))
<1>9. \A n \in DOMAIN Options : option(Options[n]) \in Text
  <2>1. \A n \in DOMAIN Options : Options[n] \in OptionNames
    BY DEF Options, OptionNames, Flags, Timeouts
  <2>2. ASSUME NEW o \in OptionNames PROVE option(o) \in Text
    <3>1. <<o>> \in Text
      <4>1. o \in Words BY DEF Words, Literals, OptionNames
      <4> QED BY <4>1, Single
    <3>2. OptionValue(c, o) \in Text BY OptionType
    <3> QED BY <1>2, <3>1, <3>2, AssignType, Joined, EmptyText
  <2> QED BY <2>1, <2>2
<1>10. PICK given \in Seq(Text) : given = [n \in DOMAIN Options |-> option(Options[n])]
  <2>1. DOMAIN Options = 1 .. 17 BY DEF Options
  <2> HIDE DEF option
  <2>2. ASSUME NEW f \in [1 .. 17 -> Text] PROVE f \in Seq(Text)
    <3>1. ASSUME NEW n \in Nat, NEW S, NEW g \in [1 .. n -> S] PROVE g \in Seq(S) OBVIOUS
    <3>2. 17 \in Nat OBVIOUS
    <3> QED BY <3>1, <3>2
  <2>3. [n \in DOMAIN Options |-> option(Options[n])] \in [1 .. 17 -> Text] BY <1>9, <2>1
  <2> QED BY <2>2, <2>3
<1>11. PICK others \in Seq(Text) :
           others = [n \in DOMAIN names |-> <<"&">> \o FormatParam(c, names[n])]
  <2>1. ASSUME NEW n \in 1 .. m PROVE <<"&">> \o FormatParam(c, names[n]) \in Text
    <3>1. names[n] \in D /\ names[n] \in Text BY <1>5
    <3>2. c.params[names[n]] \in Text BY <1>4, <3>1
    <3> QED BY <1>2, <3>1, <3>2, EscapeType, AssignType, Joined DEF FormatParam
  <2>2. DOMAIN names = 1 .. m BY <1>5
  <2>3. ASSUME NEW f \in [1 .. m -> Text] PROVE f \in Seq(Text) OBVIOUS
  <2>4. [n \in DOMAIN names |-> <<"&">> \o FormatParam(c, names[n])] \in [1 .. m -> Text]
    BY <2>1, <2>2
  <2> QED BY <2>3, <2>4
<1>12. PICK options \in Text : options = FlattenSeq(given \o others)
  <2>1. given \o others \in Seq(Text) OBVIOUS
  <2> QED BY <2>1, FlattenType
<1>13. PICK target \in Text : target = IF c.net = <<>> THEN <<>> ELSE c.net \o address
  BY <1>3, EmptyText, Joined
<1>14. PICK end \in Text : end = IF options = <<>> THEN <<>> ELSE <<"?">> \o Tail(options)
  <2>1. options # <<>> => Tail(options) \in Text BY DEF Text
  <2> QED BY <1>2, <2>1, EmptyText, Joined
<1>15. FormatDSN(c, names) = login \o target \o <<"/">> \o c.dbName \o end
  BY <1>6, <1>7, <1>8, <1>10, <1>11, <1>12, <1>13, <1>14 DEF FormatDSN
<1>16. login \o target \in Text BY Joined
<1>17. login \o target \o <<"/">> \in Text BY <1>2, <1>16, Joined
<1>18. login \o target \o <<"/">> \o c.dbName \in Text BY <1>3, <1>17, Joined
<1> QED BY <1>15, <1>18, Joined

-----------------------------------------------------------------------------
(* The inductive invariant.                                                *)

LEMMA WrittenAreTexts ==
    ASSUME NEW w \in Written
    PROVE  w.dsn \in Text
<1>1. PICK S : S = {w.dsn[i] : i \in DOMAIN w.dsn} OBVIOUS
<1>2. w.dsn \in Seq(S) /\ S \subseteq Words BY <1>1, WrittenAssumption DEF Words
<1>3. ASSUME NEW A, NEW B, A \subseteq B, NEW s \in Seq(A) PROVE s \in Seq(B)
  <2>1. PICK n \in Nat : s \in [1 .. n -> A] OBVIOUS
  <2>2. s \in [1 .. n -> B] BY <1>3, <2>1
  <2> QED BY <2>2
<1> QED BY <1>2, <1>3 DEF Text

IInv ==
    /\ tlsConfigs \in TLSConfigs
    /\ \A key \in DOMAIN tlsConfigRegister :
           key \in Keys /\ ~Reserved(key) /\ tlsConfigRegister[key] \in DOMAIN Registered
    /\ stage \in {"idle", "written", "parsed", "formatted", "reparsed"}
    /\ dsn \in Text
    /\ cfg = Failure \/ Complete(cfg, tlsConfigs)

LEMMA InitIInv == Init => IInv
<1> SUFFICES ASSUME Init PROVE IInv OBVIOUS
<1>1. tlsConfigs \in TLSConfigs BY RegisteredAssumption DEF Init, TLSConfigs, ServerNames
<1>2. DOMAIN <<>> = {} OBVIOUS
<1> QED BY <1>1, <1>2, EmptyText DEF Init, IInv

LEMMA NextIInv == IInv /\ [Next]_vars => IInv' /\ Kept(tlsConfigs')
<1> SUFFICES ASSUME IInv, [Next]_vars PROVE IInv' /\ Kept(tlsConfigs') OBVIOUS
<1>1. DOMAIN tlsConfigs = DOMAIN Registered BY DEF IInv, TLSConfigs
<1>2. ASSUME tlsConfigs' = tlsConfigs PROVE Kept(tlsConfigs') BY <1>2 DEF Kept
<1>3. ASSUME NEW key \in Keys, NEW pointer \in DOMAIN tlsConfigs,
             RegisterTLSConfig(key, pointer)
      PROVE  IInv' /\ Kept(tlsConfigs')
  <2>1. \A k \in DOMAIN tlsConfigRegister' :
            k \in Keys /\ ~Reserved(k) /\ tlsConfigRegister'[k] \in DOMAIN Registered
    BY <1>1, <1>3 DEF RegisterTLSConfig, Put, IInv
  <2> QED BY <1>2, <1>3, <2>1 DEF RegisterTLSConfig, IInv
<1>4. ASSUME NEW key \in Keys, DeregisterTLSConfig(key)
      PROVE  IInv' /\ Kept(tlsConfigs')
  <2>1. \A k \in DOMAIN tlsConfigRegister' :
            k \in Keys /\ ~Reserved(k) /\ tlsConfigRegister'[k] \in DOMAIN Registered
    BY <1>4 DEF DeregisterTLSConfig, IInv
  <2> QED BY <1>2, <1>4, <2>1 DEF DeregisterTLSConfig, IInv
<1>5. ASSUME Write PROVE IInv' /\ Kept(tlsConfigs')
  <2>1. dsn' \in Text BY <1>5, WrittenAreTexts DEF Write
  <2> QED BY <1>2, <1>5, <2>1 DEF Write, IInv
<1>6. ASSUME Parse PROVE IInv' /\ Kept(tlsConfigs')
  <2>1. dsn \in Text /\ tlsConfigs \in TLSConfigs /\ Registers BY DEF IInv, Registers
  <2>2. /\ tlsConfigs' \in TLSConfigs /\ Kept(tlsConfigs')
        /\ cfg' = Failure \/ Complete(cfg', tlsConfigs')
    BY <1>6, <2>1, Parsed DEF Parse
  <2> QED BY <1>6, <2>2 DEF Parse, IInv
<1>7. ASSUME Format PROVE IInv' /\ Kept(tlsConfigs')
  <2>1. cfg \in Config BY <1>7 DEF Format, IInv, Complete
  <2>2. dsn' \in Text BY <1>7, <2>1, FormatType DEF Format
  <2> QED BY <1>2, <1>7, <2>2 DEF Format, IInv
<1>8. ASSUME Finish PROVE IInv' /\ Kept(tlsConfigs')
  BY <1>2, <1>8, EmptyText DEF Finish, IInv
<1>9. ASSUME UNCHANGED vars PROVE IInv' /\ Kept(tlsConfigs')
  BY <1>2, <1>9 DEF vars, IInv
<1> QED BY <1>3, <1>4, <1>5, <1>6, <1>7, <1>8, <1>9 DEF Next

LEMMA Invariance == Spec => []IInv
<1>1. IInv /\ [Next]_vars => IInv' BY NextIInv
<1> QED BY InitIInv, <1>1, PTL DEF Spec

-----------------------------------------------------------------------------
(* A configuration that ParseDSN returns has a network and an address, a   *)
(* zone, options and a tls.Config that there are, and the register names   *)
(* tls.Configs under keys that mean nothing else (dsn.go:317, utils.go:42).*)
THEOREM TypeOKHolds == Spec => []TypeOK
<1>1. IInv => TypeOK
  <2> SUFFICES ASSUME IInv PROVE TypeOK OBVIOUS
  <2>1. DOMAIN tlsConfigs = DOMAIN Registered BY DEF IInv, TLSConfigs
  <2>2. cfg # Failure =>
            /\ cfg.net # <<>> /\ cfg.addr # <<>> /\ cfg.loc \in Zones
            /\ cfg.flags \subseteq Flags /\ cfg.tls \in Pointers
    BY DEF IInv, Complete, Config
  <2> QED BY <2>1, <2>2 DEF IInv, TypeOK, Pointers
<1> QED BY Invariance, <1>1, PTL

(* Whoever connects to a host with a registered tls.Config has a server    *)
(* name to verify, or has asked that none be verified, unless the host is  *)
(* the one assumed when none is written (dsn.go:501, dsn.go:317).          *)
THEOREM ServerNamedHolds == Spec => []ServerNamed
<1>1. IInv => ServerNamed
  <2> SUFFICES ASSUME IInv, cfg # Failure, cfg.tls \in DOMAIN tlsConfigs
               PROVE  ServerNamed
    BY DEF ServerNamed
  <2>1. DOMAIN tlsConfigs = DOMAIN Registered BY DEF IInv, TLSConfigs
  <2> QED BY <2>1 DEF IInv, Complete, Verifies, ServerNamed
<1> QED BY Invariance, <1>1, PTL

(* Parsing a DSN leaves a tls.Config alone that has the name of a server:  *)
(* connections that use it keep verifying the same host (dsn.go:502).      *)
THEOREM ServerNameKeptHolds == Spec => ServerNameKept
<1>1. IInv /\ [Next]_vars =>
          [\A pointer \in DOMAIN tlsConfigs :
              tlsConfigs[pointer].serverName # <<>> =>
                  tlsConfigs'[pointer] = tlsConfigs[pointer]]_vars
  <2> SUFFICES ASSUME IInv, [Next]_vars
               PROVE  \A pointer \in DOMAIN tlsConfigs :
                          tlsConfigs[pointer].serverName # <<>> =>
                              tlsConfigs'[pointer] = tlsConfigs[pointer]
    OBVIOUS
  <2>1. DOMAIN tlsConfigs = DOMAIN Registered BY DEF IInv, TLSConfigs
  <2> QED BY <2>1, NextIInv DEF Kept
<1> QED BY Invariance, <1>1, PTL DEF Spec, ServerNameKept
=============================================================================
