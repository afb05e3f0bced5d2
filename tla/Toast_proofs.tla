------------------------------ MODULE Toast_proofs ------------------------------
(***************************************************************************)
(* What the operators of CanonicalJson and Toast compute, for texts of any *)
(* length: selecting and flattening, escaping and reading back, the two    *)
(* canonical forms.                                                        *)
(***************************************************************************)
EXTENDS Toast, SequenceTheorems, WellFoundedInduction, TLAPS

-----------------------------------------------------------------------------
(* Induction.  A set of naturals stands for the property of its members.   *)

LEMMA SmallestMember ==
  ASSUME NEW T, T \subseteq Nat, T # {}
  PROVE  \E x \in T : \A y \in T : x <= y
<1> DEFINE R == OpToRel(<, Nat)
<1>1. IsWellFoundedOn(R, Nat)
  BY NatLessThanWellFounded
<1>2. PICK x \in T : \A y \in T : ~(<<y, x>> \in R)
  <2> HIDE DEF R
  <2> QED BY <1>1, WFMin
<1>3. \A y \in T : ~ (y < x)
  BY <1>2 DEF OpToRel
<1> QED BY <1>3

LEMMA InductionOnSet ==
  ASSUME NEW S, 0 \in S, \A n \in Nat : n \in S => n + 1 \in S
  PROVE  Nat \subseteq S
<1>1. SUFFICES ASSUME ~(Nat \subseteq S) PROVE FALSE
  OBVIOUS
<1>2. PICK x \in Nat \ S : \A y \in Nat \ S : x <= y
  BY <1>1, SmallestMember, Zenon
<1>3. x - 1 \in Nat /\ x - 1 \in S
  BY <1>2
<1> QED BY <1>2, <1>3

(* f has at i the first i members of s, one behind the other.              *)
Then(a, b) == a \o b

Flattens(f, s, n) ==
  /\ n > 0 => f[1] = s[1]
  /\ \A i \in 1 .. n : i # n => f[i + 1] = Then(f[i], s[i + 1])

LEMMA FlattenExists ==
  ASSUME NEW S
  PROVE  \A s \in Seq(Seq(S)) : \E f \in [1 .. Len(s) -> Seq(S)] : Flattens(f, s, Len(s))
<1> DEFINE P == {n \in Nat : \A s \in Seq(Seq(S)) : Len(s) = n =>
                     \E f \in [1 .. n -> Seq(S)] : Flattens(f, s, n)}
<1>1. 0 \in P
  BY DEF Flattens
<1>2. ASSUME NEW n \in Nat, n \in P PROVE n + 1 \in P
  <2> SUFFICES ASSUME NEW s \in Seq(Seq(S)), Len(s) = n + 1
               PROVE  \E f \in [1 .. n + 1 -> Seq(S)] : Flattens(f, s, n + 1)
    OBVIOUS
  <2> DEFINE r == SubSeq(s, 1, n)
  <2>1. r \in Seq(Seq(S)) /\ Len(r) = n /\ \A i \in 1 .. n : r[i] = s[i]
    OBVIOUS
  <2>2. PICK g \in [1 .. n -> Seq(S)] : Flattens(g, r, n)
    BY <1>2, <2>1
  <2> DEFINE last == IF n = 0 THEN s[1] ELSE g[n] \o s[n + 1]
             f == [i \in 1 .. n + 1 |-> IF i <= n THEN g[i] ELSE last]
  <2>3. last \in Seq(S)
    <3>1. s[n + 1] \in Seq(S)
      OBVIOUS
    <3>2. n # 0 => g[n] \in Seq(S)
      OBVIOUS
    <3>3. n # 0 => g[n] \o s[n + 1] \in Seq(S)
      BY <3>1, <3>2
    <3> QED BY <3>1, <3>3
  <2>4. f \in [1 .. n + 1 -> Seq(S)]
    <3> HIDE DEF last
    <3> QED BY <2>3
  <2>5. Flattens(f, s, n + 1)
    <3> HIDE DEF last
    <3>1. (\A i \in 1 .. n : f[i] = g[i]) /\ f[n + 1] = last
      OBVIOUS
    <3> HIDE DEF f
    <3>4. last = IF n = 0 THEN s[1] ELSE Then(g[n], s[n + 1])
      BY DEF last, Then
    <3>2. f[1] = s[1]
      BY <2>1, <2>2, <3>1, <3>4 DEF Flattens
    <3>3. ASSUME NEW i \in 1 .. n
          PROVE  f[i + 1] = Then(f[i], s[i + 1])
      <4>1. CASE i = n
        BY <3>1, <3>4, <4>1
      <4>2. CASE i # n
        BY <2>1, <2>2, <3>1, <4>2 DEF Flattens
      <4> QED BY <4>1, <4>2
    <3> QED BY <3>2, <3>3 DEF Flattens
  <2> QED BY <2>4, <2>5
<1>3. Nat \subseteq P
  <2> HIDE DEF P
  <2> QED BY <1>1, <1>2, InductionOnSet
<1>4. QED
  BY <1>3

LEMMA FlattenUnique ==
  ASSUME NEW s, NEW f, NEW g, NEW n \in Nat, Flattens(f, s, n), Flattens(g, s, n)
  PROVE  \A i \in 1 .. n : f[i] = g[i]
<1> DEFINE P == {k \in Nat : k \in 1 .. n => f[k] = g[k]}
<1>1. 0 \in P OBVIOUS
<1>2. ASSUME NEW k \in Nat, k \in P PROVE k + 1 \in P
  BY <1>2 DEF Flattens
<1>3. Nat \subseteq P
  <2> HIDE DEF P
  <2> QED BY <1>1, <1>2, InductionOnSet
<1> QED BY <1>3

LEMMA FlattenNext ==
  ASSUME NEW s, NEW t, NEW f, NEW g, NEW n \in Nat, n > 0,
         Flattens(f, s, n), Flattens(g, t, n + 1), \A i \in 1 .. n : t[i] = s[i]
  PROVE  g[n + 1] = Then(f[n], t[n + 1])
<1>1. Flattens(g, s, n)
  BY DEF Flattens
<1>2. f[n] = g[n]
  <2>1. \A i \in 1 .. n : f[i] = g[i]
    BY <1>1, FlattenUnique
  <2> QED BY <2>1
<1>3. g[n + 1] = Then(g[n], t[n + 1])
  BY DEF Flattens
<1> QED BY <1>2, <1>3

LEMMA FlattenIs ==
  ASSUME NEW S, NEW s \in Seq(Seq(S)), s # <<>>
  PROVE  \E f : /\ Flattens(f, s, Len(s)) /\ FlattenSeq(s) = f[Len(s)]
                /\ FlattenSeq(s) \in Seq(S)
<1> DEFINE Def(f) == f = [i \in 1 .. Len(s) |-> IF i = 1 THEN s[i] ELSE f[i - 1] \o s[i]]
           f == CHOOSE f : Def(f)
<1>1. PICK g \in [1 .. Len(s) -> Seq(S)] : Flattens(g, s, Len(s))
  BY FlattenExists
<1>2. Def(g)
  <2>1. ASSUME NEW i \in 1 .. Len(s), i # 1
        PROVE  g[i] = g[i - 1] \o s[i]
    <3>1. i - 1 \in 1 .. Len(s) /\ i - 1 # Len(s) /\ (i - 1) + 1 = i
      BY <2>1
    <3>2. g[(i - 1) + 1] = Then(g[i - 1], s[(i - 1) + 1])
      BY <1>1, <3>1 DEF Flattens
    <3> QED BY <3>1, <3>2 DEF Then
  <2>2. Len(s) > 0
    OBVIOUS
  <2>3. g[1] = s[1]
    BY <1>1, <2>2 DEF Flattens
  <2> QED BY <2>1, <2>3
<1>3. Def(f)
  <2> HIDE DEF Def
  <2> QED BY <1>2
<1>4. Flattens(f, s, Len(s))
  <2> HIDE DEF f
  <2>1. ASSUME NEW i \in 1 .. Len(s), i # Len(s)
        PROVE  f[i + 1] = Then(f[i], s[i + 1])
    <3>1. i + 1 \in 1 .. Len(s) /\ i + 1 # 1 /\ (i + 1) - 1 = i
      BY <2>1
    <3>2. f[i + 1] = f[(i + 1) - 1] \o s[i + 1]
      BY <1>3, <3>1
    <3> QED BY <3>1, <3>2 DEF Then
  <2>2. f[1] = s[1]
    BY <1>3
  <2> QED BY <2>1, <2>2 DEF Flattens
<1>5. \A i \in 1 .. Len(s) : f[i] = g[i]
  <2> HIDE DEF f
  <2> QED BY <1>1, <1>4, FlattenUnique, LenProperties
<1>6. FlattenSeq(s) = f[Len(s)]
  BY DEF FlattenSeq
<1>7. Len(s) \in 1 .. Len(s)
  OBVIOUS
<1>8. g[Len(s)] \in Seq(S)
  BY <1>7
<1> HIDE DEF f
<1> QED BY <1>1, <1>5, <1>6, <1>7, <1>8

LEMMA FlattenEmpty == FlattenSeq(<<>>) = <<>>
  BY DEF FlattenSeq

LEMMA FlattenAppend ==
  ASSUME NEW S, NEW s \in Seq(Seq(S)), NEW e \in Seq(S)
  PROVE  /\ FlattenSeq(Append(s, e)) = FlattenSeq(s) \o e
         /\ FlattenSeq(s) \in Seq(S)
<1> DEFINE t == Append(s, e)
           n == Len(s)
<1>1. t \in Seq(Seq(S)) /\ t # <<>> /\ Len(t) = n + 1
  BY AppendProperties
<1>2. n \in Nat /\ t[n + 1] = e /\ \A i \in 1 .. n : t[i] = s[i]
  BY AppendProperties
<1>3. PICK g : Flattens(g, t, n + 1) /\ FlattenSeq(t) = g[n + 1]
  <2> HIDE DEF t
  <2> QED BY <1>1, FlattenIs
<1> HIDE DEF t
<1>4. CASE s = <<>>
  <2>1. n = 0
    BY <1>4
  <2>2. FlattenSeq(t) = e
    BY <1>2, <1>3, <2>1 DEF Flattens
  <2>3. <<>> \o e = e /\ <<>> \in Seq(S)
    OBVIOUS
  <2> QED BY <1>4, <2>2, <2>3, FlattenEmpty DEF t
<1>5. CASE s # <<>>
  <2>1. PICK f : /\ Flattens(f, s, n) /\ FlattenSeq(s) = f[n]
                 /\ FlattenSeq(s) \in Seq(S)
    BY <1>5, FlattenIs
  <2>2. n > 0
    BY <1>2, <1>5
  <2> HIDE DEF n
  <2>3. g[n + 1] = Then(f[n], t[n + 1])
    BY <1>2, <1>3, <2>1, <2>2, FlattenNext
  <2> QED BY <1>2, <1>3, <2>1, <2>3 DEF t, Then
<1> QED BY <1>4, <1>5

-----------------------------------------------------------------------------
(* Replace and Keep, member by member.                                     *)

LEMMA FunctionIsSeq == \A S : \A n \in Nat : \A f \in [1 .. n -> S] : f \in Seq(S)
  BY SeqDef

LEMMA ReplaceEmpty == \A c, by : Replace(<<>>, c, by) = <<>>
<1>1. \A c, by : [i \in DOMAIN <<>> |-> IF <<>>[i] = c THEN by ELSE << <<>>[i] >>] = <<>>
  OBVIOUS
<1> QED BY <1>1, FlattenEmpty DEF Replace

LEMMA ReplaceAppend ==
  ASSUME NEW S, NEW s \in Seq(S), NEW c \in S, NEW d, NEW by \in Seq(S)
  PROVE  /\ Replace(s, d, by) \in Seq(S)
         /\ Replace(Append(s, c), d, by)
              = Replace(s, d, by) \o (IF c = d THEN by ELSE <<c>>)
<1> DEFINE t == Append(s, c)
           Of(u) == [i \in DOMAIN u |-> IF u[i] = d THEN by ELSE <<u[i]>>]
           e == IF c = d THEN by ELSE <<c>>
<1>1. Of(s) \in Seq(Seq(S)) /\ e \in Seq(S)
  <2>1. \A i \in 1 .. Len(s) : (IF s[i] = d THEN by ELSE <<s[i]>>) \in Seq(S)
    OBVIOUS
  <2>2. Of(s) \in [1 .. Len(s) -> Seq(S)] /\ Len(s) \in Nat
    BY <2>1
  <2>3. Of(s) \in Seq(Seq(S))
    BY <2>2, FunctionIsSeq, Zenon
  <2> QED BY <2>3
<1>2. Of(t) = Append(Of(s), e)
  OBVIOUS
<1> HIDE DEF Of, e
<1>3. /\ FlattenSeq(Append(Of(s), e)) = FlattenSeq(Of(s)) \o e
      /\ FlattenSeq(Of(s)) \in Seq(S)
  BY <1>1, FlattenAppend
<1> QED BY <1>2, <1>3 DEF Of, e, Replace

LEMMA KeepEmpty == \A X : Keep(<<>>, X) = <<>>
<1>1. \A X : [i \in DOMAIN <<>> |-> IF <<>>[i] \in X THEN << <<>>[i] >> ELSE <<>>] = <<>>
  OBVIOUS
<1> QED BY <1>1, FlattenEmpty DEF Keep

LEMMA KeepAppend ==
  ASSUME NEW S, NEW s \in Seq(S), NEW c \in S, NEW X
  PROVE  /\ Keep(s, X) \in Seq(S)
         /\ Keep(Append(s, c), X) = IF c \in X THEN Append(Keep(s, X), c) ELSE Keep(s, X)
<1> DEFINE t == Append(s, c)
           Of(u) == [i \in DOMAIN u |-> IF u[i] \in X THEN <<u[i]>> ELSE <<>>]
           e == IF c \in X THEN <<c>> ELSE <<>>
<1>1. Of(s) \in Seq(Seq(S)) /\ e \in Seq(S)
  <2>1. \A i \in 1 .. Len(s) : (IF s[i] \in X THEN <<s[i]>> ELSE <<>>) \in Seq(S)
    OBVIOUS
  <2>2. Of(s) \in [1 .. Len(s) -> Seq(S)] /\ Len(s) \in Nat
    BY <2>1
  <2>3. Of(s) \in Seq(Seq(S))
    BY <2>2, FunctionIsSeq, Zenon
  <2> QED BY <2>3
<1>2. Of(t) = Append(Of(s), e)
  OBVIOUS
<1>3. /\ FlattenSeq(Append(Of(s), e)) = FlattenSeq(Of(s)) \o e
      /\ FlattenSeq(Of(s)) \in Seq(S)
  <2> HIDE DEF Of, e
  <2> QED BY <1>1, FlattenAppend
<1>4. Keep(s, X) \in Seq(S) /\ Keep(t, X) = Keep(s, X) \o e
  <2> HIDE DEF e
  <2> QED BY <1>2, <1>3 DEF Keep
<1> HIDE DEF t
<1> QED BY <1>4, AppendIsConcat, ConcatEmptySeq DEF t


-----------------------------------------------------------------------------
(* Keep, for sequences of any length.                                      *)

LEMMA InductionOnSeq ==
  ASSUME NEW S, NEW Q, <<>> \in Q,
         \A s \in Seq(S), c \in S : s \in Q => Append(s, c) \in Q
  PROVE  \A s \in Seq(S) : s \in Q
<1> DEFINE P == {n \in Nat : \A s \in Seq(S) : Len(s) = n => s \in Q}
<1>1. 0 \in P
  OBVIOUS
<1>2. ASSUME NEW n \in Nat, n \in P PROVE n + 1 \in P
  <2> SUFFICES ASSUME NEW s \in Seq(S), Len(s) = n + 1 PROVE s \in Q
    OBVIOUS
  <2>1. PICK r \in Seq(S), c \in S : s = Append(r, c)
    BY SequenceEmptyOrAppend
  <2>2. Len(r) = n
    BY <2>1, AppendProperties
  <2> QED BY <1>2, <2>1, <2>2
<1>3. Nat \subseteq P
  <2> HIDE DEF P
  <2> QED BY <1>1, <1>2, InductionOnSet
<1> QED BY <1>3

(* What is kept is in s and in X.                                          *)
LEMMA KeepMembers ==
  ASSUME NEW S, NEW X, NEW s \in Seq(S)
  PROVE  Keep(s, X) \in Seq(S \cap X)
<1> DEFINE Q == {u \in Seq(S) : Keep(u, X) \in Seq(S \cap X)}
<1>1. <<>> \in Q
  BY KeepEmpty, EmptySeq
<1>2. ASSUME NEW u \in Seq(S), NEW c \in S, u \in Q PROVE Append(u, c) \in Q
  <2>1. Keep(Append(u, c), X) = IF c \in X THEN Append(Keep(u, X), c) ELSE Keep(u, X)
    BY KeepAppend
  <2>2. Append(u, c) \in Seq(S)
    OBVIOUS
  <2>3. c \in X => Append(Keep(u, X), c) \in Seq(S \cap X)
    BY <1>2
  <2> QED BY <1>2, <2>1, <2>2, <2>3
<1>3. s \in Q
  <2> HIDE DEF Q
  <2> QED BY <1>1, <1>2, InductionOnSeq
<1> QED BY <1>3

LEMMA KeepAll ==
  ASSUME NEW X, NEW s \in Seq(X)
  PROVE  Keep(s, X) = s
<1> DEFINE Q == {u \in Seq(X) : Keep(u, X) = u}
<1>1. <<>> \in Q
  BY KeepEmpty
<1>2. ASSUME NEW u \in Seq(X), NEW c \in X, u \in Q PROVE Append(u, c) \in Q
  <2>1. Keep(Append(u, c), X) = Append(Keep(u, X), c)
    BY KeepAppend
  <2> QED BY <1>2, <2>1
<1>3. s \in Q
  <2> HIDE DEF Q
  <2> QED BY <1>1, <1>2, InductionOnSeq
<1> QED BY <1>3

Distinct(s) == \A i, j \in 1 .. Len(s) : s[i] = s[j] => i = j

LEMMA KeepOne ==
  ASSUME NEW S, NEW k, NEW s \in Seq(S), Distinct(s)
  PROVE  Keep(s, {k}) = IF k \in ToSet(s) THEN <<k>> ELSE <<>>
<1> DEFINE One(u) == Keep(u, {k}) = IF k \in ToSet(u) THEN <<k>> ELSE <<>>
           Q == {u \in Seq(S) : Distinct(u) => One(u)}
<1>1. <<>> \in Q
  BY KeepEmpty DEF ToSet
<1>2. ASSUME NEW u \in Seq(S), NEW c \in S, u \in Q PROVE Append(u, c) \in Q
  <2> SUFFICES ASSUME Distinct(Append(u, c)) PROVE One(Append(u, c))
    OBVIOUS
  <2> DEFINE t == Append(u, c)
  <2>1. /\ Len(t) = Len(u) + 1 /\ Len(u) \in Nat /\ t[Len(u) + 1] = c
        /\ DOMAIN t = 1 .. Len(u) + 1 /\ DOMAIN u = 1 .. Len(u)
        /\ \A i \in 1 .. Len(u) : t[i] = u[i]
    OBVIOUS
  <2>2. Keep(t, {k}) = IF c = k THEN Append(Keep(u, {k}), c) ELSE Keep(u, {k})
    BY KeepAppend
  <2> HIDE DEF t
  <2>3. Distinct(u) /\ c \notin ToSet(u)
    BY <2>1 DEF Distinct, ToSet, t
  <2>4. ToSet(t) = ToSet(u) \cup {c}
    BY <2>1 DEF ToSet
  <2>5. Keep(u, {k}) = IF k \in ToSet(u) THEN <<k>> ELSE <<>>
    BY <1>2, <2>3
  <2>6. Append(<<>>, c) = <<c>>
    OBVIOUS
  <2>7. CASE c = k
    BY <2>2, <2>3, <2>4, <2>5, <2>6, <2>7 DEF t
  <2>8. CASE c # k
    BY <2>2, <2>4, <2>5, <2>8 DEF t
  <2> QED BY <2>7, <2>8
<1>3. s \in Q
  <2> HIDE DEF Q
  <2> QED BY <1>1, <1>2, InductionOnSeq
<1> QED BY <1>3

-----------------------------------------------------------------------------
(* Escaping, and reading back what is escaped.                             *)

LEMMA NameFacts ==
  /\ Entities = {"amp", "lt", "gt", "quote", "apos"}
  /\ \A c \in Entities : NameOf(c) \in Names
  /\ \A c, d \in Entities : NameOf(c) # d /\ (NameOf(c) = NameOf(d) => c = d)
<1>1. /\ NameOf("amp") = "amp;" /\ NameOf("lt") = "lt;" /\ NameOf("gt") = "gt;"
      /\ NameOf("quote") = "quot;" /\ NameOf("apos") = "apos;"
  BY DEF NameOf
<1> QED BY <1>1 DEF Entities, Names

(* What a character becomes.                                               *)
Verbatim(s, c) == Append(s, c)
Named(s, c) == Append(Append(s, "amp"), NameOf(c))

LEMMA EscapeOne ==
  ASSUME NEW S, NEW s \in Seq(S), NEW c \in S, NEW d, "amp" \in S, NameOf(d) \in S
  PROVE  /\ Escape(d, s) \in Seq(S)
         /\ c # d => Escape(d, Append(s, c)) = Append(Escape(d, s), c)
         /\ c = d => Escape(d, Append(s, c)) = Named(Escape(d, s), d)
<1> DEFINE by == <<"amp", NameOf(d)>>
<1>1. by \in Seq(S)
  OBVIOUS
<1>2. /\ Replace(s, d, by) \in Seq(S)
      /\ Replace(Append(s, c), d, by) = Replace(s, d, by) \o (IF c = d THEN by ELSE <<c>>)
  <2> HIDE DEF by
  <2> QED BY <1>1, ReplaceAppend
<1>3. \A r \in Seq(S) : r \o by = Append(Append(r, "amp"), NameOf(d)) /\ r \o <<c>> = Append(r, c)
  OBVIOUS
<1> QED BY <1>2, <1>3 DEF Escape, Named

LEMMA EscapePass ==
  ASSUME NEW S, NEW s \in Seq(S), NEW c \in S, NEW d \in Entities,
         "amp" \in S, Names \subseteq S
  PROVE  /\ Escape(d, s) \in Seq(S)
         /\ c # d => Escape(d, Verbatim(s, c)) = Verbatim(Escape(d, s), c)
         /\ c = d => Escape(d, Verbatim(s, c)) = Named(Escape(d, s), c)
         /\ d # "amp" /\ c \in Entities => Escape(d, Named(s, c)) = Named(Escape(d, s), c)
<1>1. NameOf(d) \in S
  BY NameFacts
<1>2. ASSUME d # "amp", c \in Entities
      PROVE  Escape(d, Named(s, c)) = Named(Escape(d, s), c)
  <2> DEFINE n == NameOf(c)
             r == Append(s, "amp")
  <2>0. n \in Names /\ n # d
    BY <1>2, NameFacts
  <2>1. r \in Seq(S) /\ n \in S /\ n # d
    <3> HIDE DEF n
    <3> QED BY <2>0
  <2>2. Escape(d, r) = Append(Escape(d, s), "amp")
    BY <1>1, <1>2, EscapeOne
  <2>3. Escape(d, Append(r, n)) = Append(Escape(d, r), n)
    <3> HIDE DEF n, r
    <3> QED BY <1>1, <2>1, EscapeOne
  <2> QED BY <2>2, <2>3 DEF Named
<1> QED BY <1>1, <1>2, EscapeOne DEF Verbatim

LEMMA EscapeAppend ==
  ASSUME NEW S, NEW s \in Seq(S), NEW c \in S, "amp" \in S, Names \subseteq S
  PROVE  /\ EscapeXml(s) \in Seq(S)
         /\ EscapeXml(Append(s, c)) =
              IF c \in Entities THEN Named(EscapeXml(s), c) ELSE Verbatim(EscapeXml(s), c)
<1> DEFINE s1 == Escape("amp", s)
           s2 == Escape("lt", s1)
           s3 == Escape("gt", s2)
           s4 == Escape("quote", s3)
           s5 == Escape("apos", s4)
<1>0. /\ "amp" \in Entities /\ "lt" \in Entities /\ "gt" \in Entities
      /\ "quote" \in Entities /\ "apos" \in Entities
      /\ Entities = {"amp", "lt", "gt", "quote", "apos"}
  BY NameFacts
<1>1. /\ EscapeXml(s) = s5
      /\ EscapeXml(Append(s, c)) = Escape("apos", Escape("quote",
           Escape("gt", Escape("lt", Escape("amp", Verbatim(s, c))))))
  BY DEF EscapeXml, Verbatim
<1>2. /\ s1 \in Seq(S)
      /\ c # "amp" => Escape("amp", Verbatim(s, c)) = Verbatim(s1, c)
      /\ c = "amp" => Escape("amp", Verbatim(s, c)) = Named(s1, c)
  BY <1>0, EscapePass
<1> HIDE DEF s1
<1>3. /\ s2 \in Seq(S)
      /\ c # "lt" => Escape("lt", Verbatim(s1, c)) = Verbatim(s2, c)
      /\ c = "lt" => Escape("lt", Verbatim(s1, c)) = Named(s2, c)
      /\ c \in Entities => Escape("lt", Named(s1, c)) = Named(s2, c)
  BY <1>0, <1>2, EscapePass
<1> HIDE DEF s2
<1>4. /\ s3 \in Seq(S)
      /\ c # "gt" => Escape("gt", Verbatim(s2, c)) = Verbatim(s3, c)
      /\ c = "gt" => Escape("gt", Verbatim(s2, c)) = Named(s3, c)
      /\ c \in Entities => Escape("gt", Named(s2, c)) = Named(s3, c)
  BY <1>0, <1>3, EscapePass
<1> HIDE DEF s3
<1>5. /\ s4 \in Seq(S)
      /\ c # "quote" => Escape("quote", Verbatim(s3, c)) = Verbatim(s4, c)
      /\ c = "quote" => Escape("quote", Verbatim(s3, c)) = Named(s4, c)
      /\ c \in Entities => Escape("quote", Named(s3, c)) = Named(s4, c)
  BY <1>0, <1>4, EscapePass
<1> HIDE DEF s4
<1>6. /\ s5 \in Seq(S)
      /\ c # "apos" => Escape("apos", Verbatim(s4, c)) = Verbatim(s5, c)
      /\ c = "apos" => Escape("apos", Verbatim(s4, c)) = Named(s5, c)
      /\ c \in Entities => Escape("apos", Named(s4, c)) = Named(s5, c)
  BY <1>0, <1>5, EscapePass
<1> HIDE DEF s5
<1>7. CASE c \notin Entities
  BY <1>0, <1>1, <1>2, <1>3, <1>4, <1>5, <1>6, <1>7
<1>8. CASE c = "amp"
  BY <1>0, <1>1, <1>2, <1>3, <1>4, <1>5, <1>6, <1>8
<1>9. CASE c = "lt"
  BY <1>0, <1>1, <1>2, <1>3, <1>4, <1>5, <1>6, <1>9
<1>10. CASE c = "gt"
  BY <1>0, <1>1, <1>2, <1>3, <1>4, <1>5, <1>6, <1>10
<1>11. CASE c = "quote"
  BY <1>0, <1>1, <1>2, <1>3, <1>4, <1>5, <1>6, <1>11
<1>12. CASE c = "apos"
  BY <1>0, <1>1, <1>2, <1>3, <1>4, <1>5, <1>6, <1>12
<1> QED BY <1>0, <1>7, <1>8, <1>9, <1>10, <1>11, <1>12

LEMMA LargerSeq == ASSUME NEW A, NEW B, A \subseteq B PROVE Seq(A) \subseteq Seq(B)
  OBVIOUS

LEMMA Singles == \A W : <<>> \in Seq(W) /\ \A w \in W : <<w>> \in Seq(W)
  OBVIOUS

(* Nothing that is read back depends on what comes later.                  *)
LEMMA UnescapedAppend ==
  ASSUME NEW S, NEW s \in Seq(S), NEW c \in S
  PROVE  Unescaped(Append(s, c)) = Unescaped(s) \o Decoded(Append(s, c), Len(s) + 1)
<1> DEFINE t == Append(s, c)
           Of(u) == [i \in DOMAIN u |-> Decoded(u, i)]
           e == Decoded(t, Len(s) + 1)
           V == S \cup {NamedBy(n) : n \in S}
<1>1. /\ Len(t) = Len(s) + 1 /\ Len(s) \in Nat /\ t[Len(s) + 1] = c
      /\ DOMAIN t = 1 .. Len(s) + 1 /\ DOMAIN s = 1 .. Len(s)
      /\ \A i \in 1 .. Len(s) : t[i] = s[i]
      /\ t \in Seq(S)
  OBVIOUS
<1>2. \A r \in Seq(S) : \A i \in 1 .. Len(r) : Decoded(r, i) \in Seq(V)
  <2> TAKE r \in Seq(S)
  <2> TAKE i \in 1 .. Len(r)
  <2>1. r[i] \in V /\ NamedBy(r[i]) \in V
     OBVIOUS
  <2>2. Decoded(r, i) = <<>> \/ Decoded(r, i) = <<r[i]>> \/ Decoded(r, i) = <<NamedBy(r[i])>>
     BY DEF Decoded
  <2> HIDE DEF V
  <2> QED BY <2>1, <2>2, Singles
<1>3. Of(s) \in Seq(Seq(V)) /\ e \in Seq(V)
  <2> HIDE DEF V
  <2>1. Of(s) \in [1 .. Len(s) -> Seq(V)]
    BY <1>1, <1>2
  <2>2. e \in Seq(V)
    <3>1. Len(s) + 1 \in 1 .. Len(t)
      BY <1>1
    <3> HIDE DEF t
    <3> QED BY <1>1, <1>2, <3>1
  <2>3. Of(s) \in Seq(Seq(V))
    <3> HIDE DEF Of
    <3> QED BY <1>1, <2>1, FunctionIsSeq, Zenon
  <2> QED BY <2>2, <2>3
<1>4. \A i \in 1 .. Len(s) : Decoded(t, i) = Decoded(s, i)
  <2> HIDE DEF t
  <2> QED BY <1>1 DEF Decoded
<1>5. Of(t) = Append(Of(s), e)
  <2> HIDE DEF t, e
  <2> QED BY <1>1, <1>4 DEF e
<1> HIDE DEF Of, e, V
<1>6. /\ FlattenSeq(Append(Of(s), e)) = FlattenSeq(Of(s)) \o e
      /\ FlattenSeq(Of(s)) \in Seq(V)
  BY <1>3, FlattenAppend
<1> QED BY <1>5, <1>6 DEF Of, e, Unescaped

(* The XML parser gives back every text that was escaped.                  *)
Settled(e) == e = <<>> \/ e[Len(e)] # "amp"

LEMMA UnescapeEscape ==
  ASSUME NEW S, NEW x \in Seq(S)
  PROVE  Unescaped(EscapeXml(x)) = x
<1> DEFINE V == S \cup {"amp"} \cup Names
           Q == {u \in Seq(S) : /\ Unescaped(EscapeXml(u)) = u /\ Settled(EscapeXml(u))
                                /\ EscapeXml(u) \in Seq(V)}
<1>1. <<>> \in Q
  <2>1. EscapeXml(<<>>) = <<>>
    BY ReplaceEmpty DEF EscapeXml, Escape
  <2>2. Unescaped(<<>>) = <<>>
    <3>1. [i \in DOMAIN <<>> |-> Decoded(<<>>, i)] = <<>>
      OBVIOUS
    <3> QED BY <3>1, FlattenEmpty DEF Unescaped
  <2>3. Settled(<<>>) /\ <<>> \in Seq(V) /\ <<>> \in Seq(S)
    BY Singles DEF Settled
  <2> HIDE DEF V
  <2> QED BY <2>1, <2>2, <2>3
<1>2. ASSUME NEW u \in Seq(S), NEW c \in S, u \in Q PROVE Append(u, c) \in Q
  <2> DEFINE e == EscapeXml(u)
             a == Append(e, "amp")
  <2>1. e \in Seq(V) /\ Unescaped(e) = u /\ Settled(e)
    BY <1>2
  <2>2. EscapeXml(Append(u, c)) = IF c \in Entities THEN Named(e, c) ELSE Verbatim(e, c)
    <3>1. u \in Seq(V) /\ c \in V /\ "amp" \in V /\ Names \subseteq V
      OBVIOUS
    <3> HIDE DEF V
    <3> QED BY <3>1, EscapeAppend
  <2>3. c \in V /\ "amp" \in V /\ Append(u, c) \in Seq(S) /\ Append(u, c) = u \o <<c>>
    OBVIOUS
  <2> HIDE DEF e, V
  <2>4. CASE c \notin Entities
    <3> DEFINE t == Append(e, c)
    <3>1. /\ t \in Seq(V) /\ Len(t) = Len(e) + 1 /\ t[Len(e) + 1] = c /\ t # <<>>
          /\ \A i \in 1 .. Len(e) : t[i] = e[i]
      BY <2>1, <2>3
    <3>2. Unescaped(t) = u \o Decoded(t, Len(e) + 1)
      BY <2>1, <2>3, UnescapedAppend
    <3>3. c # "amp"
      BY <2>4, NameFacts
    <3> HIDE DEF t
    <3>4. Len(e) > 0 => t[Len(e)] # "amp"
      BY <2>1, <3>1 DEF Settled
    <3>5. Decoded(t, Len(e) + 1) = <<c>>
      BY <2>1, <3>1, <3>3, <3>4 DEF Decoded
    <3>6. Settled(t)
      BY <3>1, <3>3 DEF Settled
    <3>7. EscapeXml(Append(u, c)) = t
      BY <2>2, <2>4 DEF Verbatim, t
    <3> QED BY <2>3, <3>1, <3>2, <3>5, <3>6, <3>7
  <2>5. CASE c \in Entities
    <3> DEFINE n == NameOf(c)
               t == Append(a, n)
    <3>1. n \in Names /\ n # "amp" /\ n \in V
      BY <2>5, NameFacts DEF V
    <3>2. NamedBy(n) = c
      BY <2>5, NameFacts DEF NamedBy
    <3> HIDE DEF n
    <3>3. /\ a \in Seq(V) /\ Len(a) = Len(e) + 1 /\ a[Len(e) + 1] = "amp"
          /\ t \in Seq(V) /\ Len(t) = Len(e) + 2 /\ t[Len(e) + 2] = n /\ t # <<>>
          /\ t[Len(e) + 1] = "amp" /\ Len(e) \in Nat
      BY <2>1, <2>3, <3>1
    <3>4. Unescaped(a) = u \o Decoded(a, Len(e) + 1)
      BY <2>1, <2>3, UnescapedAppend
    <3> HIDE DEF a
    <3>5. Unescaped(t) = Unescaped(a) \o Decoded(t, Len(a) + 1)
      BY <3>1, <3>3, UnescapedAppend
    <3> HIDE DEF t
    <3>6. Decoded(a, Len(e) + 1) = <<>>
      BY <3>3 DEF Decoded
    <3>7. Decoded(t, Len(a) + 1) = <<c>>
      BY <3>1, <3>2, <3>3 DEF Decoded
    <3>8. u \o <<>> = u
      OBVIOUS
    <3>9. Settled(t)
      BY <3>1, <3>3 DEF Settled
    <3>10. EscapeXml(Append(u, c)) = t
      BY <2>2, <2>5 DEF Named, a, n, t
    <3> QED BY <2>3, <3>3, <3>4, <3>5, <3>6, <3>7, <3>8, <3>9, <3>10
  <2> QED BY <2>4, <2>5
<1>3. x \in Q
  <2> HIDE DEF Q
  <2> QED BY <1>1, <1>2, InductionOnSeq
<1> QED BY <1>3

LEMMA WellFormedPrefix ==
  ASSUME NEW V, NEW e \in Seq(V), NEW t \in Seq(V), Len(e) <= Len(t), WellFormed(e),
         \A i \in 1 .. Len(e) : t[i] = e[i]
  PROVE  \A i \in 1 .. Len(e) : /\ t[i] \notin {"lt", "control"}
                                /\ t[i] = "amp" => i < Len(t) /\ t[i + 1] \in Names
<1> TAKE i \in 1 .. Len(e)
<1>0. DOMAIN e = 1 .. Len(e)
  OBVIOUS
<1>1. e[i] \notin {"lt", "control"} /\ (e[i] = "amp" => i < Len(e) /\ e[i + 1] \in Names)
  BY <1>0, Zenon DEF WellFormed
<1>2. i < Len(e) => i < Len(t) /\ t[i + 1] = e[i + 1]
  OBVIOUS
<1>3. t[i] = e[i]
  OBVIOUS
<1> QED BY <1>1, <1>2, <1>3

(* An escaped text is one that LoadXml takes, unless it has a control      *)
(* character, which nothing escapes.                                       *)
LEMMA WellFormedEscape ==
  ASSUME NEW S, NEW x \in Seq(S), "control" \notin S
  PROVE  WellFormed(EscapeXml(x))
<1> DEFINE V == S \cup {"amp"} \cup Names
           Q == {u \in Seq(S) : /\ WellFormed(EscapeXml(u)) /\ Settled(EscapeXml(u))
                                /\ EscapeXml(u) \in Seq(V)}
<1>1. <<>> \in Q
  <2>1. EscapeXml(<<>>) = <<>>
    BY ReplaceEmpty DEF EscapeXml, Escape
  <2>2. WellFormed(<<>>) /\ Settled(<<>>) /\ <<>> \in Seq(V) /\ <<>> \in Seq(S)
    BY Singles DEF Settled, WellFormed
  <2> HIDE DEF V
  <2> QED BY <2>1, <2>2
<1>2. ASSUME NEW u \in Seq(S), NEW c \in S, u \in Q PROVE Append(u, c) \in Q
  <2> DEFINE e == EscapeXml(u)
             a == Append(e, "amp")
  <2>1. e \in Seq(V) /\ WellFormed(e) /\ Settled(e)
    BY <1>2
  <2>2. EscapeXml(Append(u, c)) = IF c \in Entities THEN Named(e, c) ELSE Verbatim(e, c)
    <3>1. u \in Seq(V) /\ c \in V /\ "amp" \in V /\ Names \subseteq V
      OBVIOUS
    <3> HIDE DEF V
    <3> QED BY <3>1, EscapeAppend
  <2>3. c \in V /\ "amp" \in V /\ Append(u, c) \in Seq(S) /\ c # "control"
    OBVIOUS
  <2> HIDE DEF e, V
  <2>4. CASE c \notin Entities
    <3> DEFINE t == Append(e, c)
    <3>1. /\ t \in Seq(V) /\ Len(t) = Len(e) + 1 /\ t[Len(e) + 1] = c /\ t # <<>>
          /\ \A i \in 1 .. Len(e) : t[i] = e[i]
          /\ DOMAIN t = 1 .. Len(e) + 1 /\ DOMAIN e = 1 .. Len(e) /\ Len(e) \in Nat
      BY <2>1, <2>3
    <3>2. c # "amp" /\ c # "lt"
      BY <2>4, NameFacts
    <3> HIDE DEF t
    <3>3. WellFormed(t)
      <4>1. \A i \in 1 .. Len(e) : /\ t[i] \notin {"lt", "control"}
                                   /\ t[i] = "amp" => i < Len(t) /\ t[i + 1] \in Names
        <5>1. Len(e) <= Len(t)
          BY <3>1
        <5> QED BY <2>1, <3>1, <5>1, WellFormedPrefix, Zenon
      <4>2. ASSUME NEW i \in DOMAIN t
            PROVE  t[i] \notin {"lt", "control"} /\ (t[i] = "amp" => i < Len(t) /\ t[i + 1] \in Names)
        <5>1. i \in 1 .. Len(e) \/ i = Len(e) + 1
          BY <3>1
        <5>2. CASE i = Len(e) + 1
          BY <2>3, <3>1, <3>2, <5>2
        <5>3. CASE i \in 1 .. Len(e)
          BY <4>1, <5>3, Zenon
        <5> QED BY <5>1, <5>2, <5>3
      <4> QED BY <4>2, Zenon DEF WellFormed
    <3>4. Settled(t)
      BY <3>1, <3>2 DEF Settled
    <3>5. EscapeXml(Append(u, c)) = t
      BY <2>2, <2>4 DEF Verbatim, t
    <3> QED BY <2>3, <3>1, <3>3, <3>4, <3>5
  <2>5. CASE c \in Entities
    <3> DEFINE n == NameOf(c)
               t == Append(a, n)
    <3>1. n \in Names /\ n # "amp" /\ n # "lt" /\ n # "control" /\ n \in V
      <4>1. \A d \in Names : d # "control" /\ d # "amp" /\ d # "lt"
        BY DEF Names, NameOf, Entities
      <4> QED BY <2>5, <4>1, NameFacts DEF V
    <3> HIDE DEF n
    <3>2. /\ t \in Seq(V) /\ Len(t) = Len(e) + 2 /\ t[Len(e) + 2] = n /\ t # <<>>
          /\ t[Len(e) + 1] = "amp" /\ Len(e) \in Nat
          /\ \A i \in 1 .. Len(e) : t[i] = e[i]
          /\ DOMAIN t = 1 .. Len(e) + 2 /\ DOMAIN e = 1 .. Len(e)
      BY <2>1, <2>3, <3>1
    <3> HIDE DEF t
    <3>3. WellFormed(t)
      <4> SUFFICES ASSUME NEW i \in 1 .. Len(e) + 2
                   PROVE  /\ t[i] \notin {"lt", "control"}
                          /\ t[i] = "amp" => i < Len(t) /\ t[i + 1] \in Names
        BY <3>2 DEF WellFormed
      <4>1. CASE i \in 1 .. Len(e)
        BY <2>1, <3>2, <4>1, WellFormedPrefix
      <4>2. CASE i = Len(e) + 1
        <5>1. i + 1 = Len(e) + 2 /\ i < Len(t)
          BY <3>2, <4>2
        <5>2. t[i] = "amp" /\ t[i + 1] = n
          BY <3>2, <4>2, <5>1
        <5> QED BY <3>1, <5>1, <5>2
      <4>3. CASE i = Len(e) + 2
        BY <3>1, <3>2, <4>3
      <4> QED BY <3>2, <4>1, <4>2, <4>3
    <3>4. Settled(t)
      BY <3>1, <3>2 DEF Settled
    <3>5. EscapeXml(Append(u, c)) = t
      BY <2>2, <2>5 DEF Named, a, n, t
    <3> QED BY <2>3, <3>2, <3>3, <3>4, <3>5
  <2> QED BY <2>4, <2>5
<1>3. x \in Q
  <2> HIDE DEF Q
  <2> QED BY <1>1, <1>2, InductionOnSeq
<1> QED BY <1>3

LEMMA ImageUriIs ==
  ASSUME NEW S, "slash" \in S, "scheme" \in S, NEW path \in Seq(S)
  PROVE  ImageUri(path) \in Seq(S)
<1>1. <<"slash">> \in Seq(S) /\ <<"scheme", "slash">> \in Seq(S)
  OBVIOUS
<1>2. Replace(path, "backslash", <<"slash">>) \in Seq(S)
  BY <1>1, ReplaceAppend
<1> DEFINE r == Replace(path, "backslash", <<"slash">>)
<1> HIDE DEF r
<1>3. <<"scheme", "slash">> \o r \in Seq(S)
  BY <1>1, <1>2 DEF r
<1> QED BY <1>3 DEF ImageUri, r

(* build_toast_xml and the XML parser of Windows, put together: what a     *)
(* toast shows is what was asked, for texts of any length.                 *)
THEOREM ReadsAsAsked ==
  ASSUME NEW v, Texts(v) \subseteq Seq(Characters)
  PROVE  Displayed(BuildToastXml(ToastOf(v))) = FaceOf(v)
<1> DEFINE t == ToastOf(v)
           Flat(chars) == Replace(chars, "newline", <<"letter">>)
<1>1. \A x \in Seq(Characters) : Unescaped(EscapeXml(x)) = x /\ Attribute(EscapeXml(x)) = Flat(x)
  BY UnescapeEscape DEF Attribute
<1>2. t.title \in Seq(Characters) /\ t.body \in Seq(Characters) /\ t.image \in Seq(Characters)
  BY DEF Texts, ToastOf
<1>3. t.actions = Actions(v)
  BY DEF ToastOf
<1>4. ASSUME NEW i \in DOMAIN t.actions
      PROVE  /\ Field(t.actions[i], "text") \in Seq(Characters)
             /\ Field(t.actions[i], "arguments") \in Seq(Characters)
  BY <1>3 DEF Texts
<1>5. Attribute(EscapeXml(ImageUri(t.image))) = Flat(ImageUri(t.image))
  <2> DEFINE S == Characters \cup {"slash"}
  <2>1. t.image \in Seq(S) /\ "slash" \in S /\ "scheme" \in S
    BY <1>2 DEF Characters, PlainChars
  <2>2. ImageUri(t.image) \in Seq(S)
    <3> HIDE DEF S, t
    <3> QED BY <2>1, ImageUriIs
  <2>3. Unescaped(EscapeXml(ImageUri(t.image))) = ImageUri(t.image)
    <3> HIDE DEF S, t
    <3> QED BY <2>2, UnescapeEscape
  <2> QED BY <2>3 DEF Attribute
<1>6. BuildToastXml(t) =
        [title |-> EscapeXml(t.title), body |-> EscapeXml(t.body),
         image |-> EscapeXml(ImageUri(t.image)),
         actions |-> [i \in DOMAIN t.actions |->
                        <<EscapeXml(Field(t.actions[i], "text")),
                          EscapeXml(Field(t.actions[i], "arguments"))>>]]
  BY DEF BuildToastXml
<1> DEFINE xml == BuildToastXml(t)
<1>7. /\ xml.title = EscapeXml(t.title) /\ xml.body = EscapeXml(t.body)
      /\ xml.image = EscapeXml(ImageUri(t.image))
      /\ DOMAIN xml.actions = DOMAIN t.actions
      /\ \A i \in DOMAIN t.actions : /\ xml.actions[i][1] = EscapeXml(Field(t.actions[i], "text"))
                                     /\ xml.actions[i][2] = EscapeXml(Field(t.actions[i], "arguments"))
  BY <1>6
<1> HIDE DEF xml, t, Flat
<1>8. [i \in DOMAIN xml.actions |-> <<Attribute(xml.actions[i][1]), Attribute(xml.actions[i][2])>>]
        = [i \in DOMAIN t.actions |-> <<Flat(Field(t.actions[i], "text")),
                                        Flat(Field(t.actions[i], "arguments"))>>]
  BY <1>1, <1>4, <1>7
<1>9. Unescaped(xml.title) = t.title /\ Unescaped(xml.body) = t.body
      /\ Attribute(xml.image) = Flat(ImageUri(t.image))
  BY <1>1, <1>2, <1>5, <1>7
<1> QED BY <1>8, <1>9 DEF Displayed, FaceOf, xml, t, Flat

(* A toast that has no control character in it loads, whatever else is in  *)
(* its texts: show fails only when Windows does.                           *)
THEOREM LoadsUnlessControl ==
  ASSUME NEW v, Texts(v) \subseteq Seq(Characters \ {"control"})
  PROVE  Loads(BuildToastXml(ToastOf(v)))
<1> DEFINE t == ToastOf(v)
           C == Characters \ {"control"}
           S == C \cup {"slash"}
           xml == BuildToastXml(t)
<1>1. "control" \notin S /\ "slash" \in S /\ "scheme" \in S /\ Seq(C) \subseteq Seq(S)
  <2>1. "control" \notin S /\ "scheme" \in S
    BY DEF Characters, PlainChars
  <2> HIDE DEF C
  <2> QED BY <2>1, LargerSeq
<1> HIDE DEF C
<1>2. t.title \in Seq(S) /\ t.body \in Seq(S) /\ t.image \in Seq(S) /\ t.actions = Actions(v)
  <2>1. Texts(v) \subseteq Seq(S)
    BY <1>1 DEF C
  <2> HIDE DEF S
  <2> QED BY <2>1 DEF Texts, ToastOf
<1>3. \A i \in DOMAIN t.actions : /\ Field(t.actions[i], "text") \in Seq(S)
                                  /\ Field(t.actions[i], "arguments") \in Seq(S)
  <2>1. Texts(v) \subseteq Seq(S)
    BY <1>1 DEF C
  <2> HIDE DEF S, t
  <2> QED BY <1>2, <2>1 DEF Texts
<1>4. /\ xml.title = EscapeXml(t.title) /\ xml.body = EscapeXml(t.body)
      /\ xml.image = EscapeXml(ImageUri(t.image))
      /\ DOMAIN xml.actions = DOMAIN t.actions
      /\ \A i \in DOMAIN t.actions : /\ xml.actions[i][1] = EscapeXml(Field(t.actions[i], "text"))
                                     /\ xml.actions[i][2] = EscapeXml(Field(t.actions[i], "arguments"))
  <2>1. xml =
          [title |-> EscapeXml(t.title), body |-> EscapeXml(t.body),
           image |-> EscapeXml(ImageUri(t.image)),
           actions |-> [i \in DOMAIN t.actions |->
                          <<EscapeXml(Field(t.actions[i], "text")),
                            EscapeXml(Field(t.actions[i], "arguments"))>>]]
    BY DEF BuildToastXml
  <2> HIDE DEF t, xml
  <2> QED BY <2>1
<1> HIDE DEF t, S, xml
<1>5. ImageUri(t.image) \in Seq(S)
  <2>1. t.image \in Seq(S)
    BY <1>2
  <2> QED BY <1>1, <2>1, ImageUriIs
<1>6. \A x \in Seq(S) : WellFormed(EscapeXml(x))
  BY <1>1, WellFormedEscape
<1>7. Loads(xml)
  BY <1>2, <1>3, <1>4, <1>5, <1>6 DEF Loads
<1> QED BY <1>7 DEF xml, t

-----------------------------------------------------------------------------
(* The two canonical forms.                                                *)

LEMMA ScalarAgrees ==
  ASSUME NEW writer, NEW v, PlainScalar(v)
  PROVE  Scalar("net", writer, v) = Scalar("rust", writer, v)
<1>1. CASE v.kind = "text"
  <2>1. \A c : c \in PlainChars \cup ShortChars => Escaped("net", c) = Escaped("rust", c)
    BY DEF Escaped, PlainChars, ShortChars
  <2>2. \A i \in DOMAIN v.chars : Escaped("net", v.chars[i]) = Escaped("rust", v.chars[i])
    BY <1>1, <2>1 DEF PlainScalar, PlainText
  <2>3. [i \in DOMAIN v.chars |-> Escaped("net", v.chars[i])]
          = [i \in DOMAIN v.chars |-> Escaped("rust", v.chars[i])]
    BY <2>2
  <2>4. String("net", v.chars) = String("rust", v.chars)
    BY <2>3 DEF String
  <2> QED BY <1>1, <2>4 DEF Scalar
<1>2. CASE v.kind = "number"
  BY <1>2 DEF Scalar, Spelled, PlainScalar
<1>3. CASE v.kind \notin {"text", "number"}
  BY <1>3 DEF Scalar
<1> QED BY <1>1, <1>2, <1>3

LEMMA SortedMembers ==
  ASSUME NEW style, NEW keys
  PROVE  \A i \in DOMAIN SortedKeys(style, keys) : SortedKeys(style, keys)[i] \in keys
<1>1. SortedKeys(style, keys) \in Seq(STRING \cap keys)
  BY KeepMembers, KeysAssumption DEF SortedKeys
<1> HIDE DEF SortedKeys
<1> QED BY <1>1

LEMMA ItemAgrees ==
  ASSUME NEW writer, NEW v, PlainItem(v)
  PROVE  Item("net", writer, v) = Item("rust", writer, v)
<1>1. CASE v.kind = "array"
  <2>1. \A i \in DOMAIN v.items : Scalar("net", writer, v.items[i]) = Scalar("rust", writer, v.items[i])
    BY <1>1, ScalarAgrees DEF PlainItem, PlainLevel
  <2>2. [i \in DOMAIN v.items |-> Scalar("net", writer, v.items[i])]
          = [i \in DOMAIN v.items |-> Scalar("rust", writer, v.items[i])]
    BY <2>1
  <2> QED BY <1>1, <2>2 DEF Item, Level
<1>2. CASE v.kind = "object"
  <2> DEFINE keys == SortedKeys("net", DOMAIN v.fields)
  <2>1. keys = SortedKeys("rust", DOMAIN v.fields)
    BY <1>2 DEF PlainItem, PlainLevel
  <2>2. \A key \in DOMAIN v.fields :
          Scalar("net", writer, v.fields[key]) = Scalar("rust", writer, v.fields[key])
    BY <1>2, ScalarAgrees DEF PlainItem, PlainLevel
  <2>3. \A i \in DOMAIN keys : keys[i] \in DOMAIN v.fields
    BY SortedMembers
  <2> HIDE DEF keys
  <2>4. [i \in DOMAIN keys |-> <<keys[i], Scalar("net", writer, v.fields[keys[i]])>>]
          = [i \in DOMAIN keys |-> <<keys[i], Scalar("rust", writer, v.fields[keys[i]])>>]
    BY <2>2, <2>3
  <2> QED BY <1>2, <2>1, <2>4 DEF Item, Level, keys
<1>3. CASE v.kind \notin {"array", "object"}
  BY <1>3, ScalarAgrees DEF Item, Level, PlainItem, PlainLevel
<1> QED BY <1>1, <1>2, <1>3

LEMMA MemberAgrees ==
  ASSUME NEW writer, NEW v, PlainMember(v)
  PROVE  Member("net", writer, v) = Member("rust", writer, v)
<1>1. CASE v.kind = "array"
  <2>1. \A i \in DOMAIN v.items : Item("net", writer, v.items[i]) = Item("rust", writer, v.items[i])
    BY <1>1, ItemAgrees DEF PlainMember, PlainLevel
  <2>2. [i \in DOMAIN v.items |-> Item("net", writer, v.items[i])]
          = [i \in DOMAIN v.items |-> Item("rust", writer, v.items[i])]
    BY <2>1
  <2> QED BY <1>1, <2>2 DEF Member, Level
<1>2. CASE v.kind = "object"
  <2> DEFINE keys == SortedKeys("net", DOMAIN v.fields)
  <2>1. keys = SortedKeys("rust", DOMAIN v.fields)
    BY <1>2 DEF PlainMember, PlainLevel
  <2>2. \A key \in DOMAIN v.fields :
          Item("net", writer, v.fields[key]) = Item("rust", writer, v.fields[key])
    BY <1>2, ItemAgrees DEF PlainMember, PlainLevel
  <2>3. \A i \in DOMAIN keys : keys[i] \in DOMAIN v.fields
    BY SortedMembers
  <2> HIDE DEF keys
  <2>4. [i \in DOMAIN keys |-> <<keys[i], Item("net", writer, v.fields[keys[i]])>>]
          = [i \in DOMAIN keys |-> <<keys[i], Item("rust", writer, v.fields[keys[i]])>>]
    BY <2>2, <2>3
  <2> QED BY <1>2, <2>1, <2>4 DEF Member, Level, keys
<1>3. CASE v.kind \notin {"array", "object"}
  BY <1>3, ScalarAgrees DEF Member, Level, PlainMember, PlainLevel
<1> QED BY <1>1, <1>2, <1>3

(* canonical_json of the daemon and CanonicalJson of the client write the  *)
(* same of a plain value, whoever has put it on the wire and whatever its  *)
(* texts are: a signature of either verifies with the other.               *)
THEOREM PlainValuesAgree ==
  ASSUME NEW writer, NEW v, PlainValue(v)
  PROVE  Agrees("net", "rust", writer, v) /\ Agrees("rust", "net", writer, v)
<1>1. CASE v.kind = "array"
  <2>1. \A i \in DOMAIN v.items : Member("net", writer, v.items[i]) = Member("rust", writer, v.items[i])
    BY <1>1, MemberAgrees DEF PlainValue, PlainLevel
  <2>2. [i \in DOMAIN v.items |-> Member("net", writer, v.items[i])]
          = [i \in DOMAIN v.items |-> Member("rust", writer, v.items[i])]
    BY <2>1
  <2> QED BY <1>1, <2>2 DEF Agrees, Canonical, Level
<1>2. CASE v.kind = "object"
  <2> DEFINE keys == SortedKeys("net", DOMAIN v.fields)
  <2>1. keys = SortedKeys("rust", DOMAIN v.fields)
    BY <1>2 DEF PlainValue, PlainLevel
  <2>2. \A key \in DOMAIN v.fields :
          Member("net", writer, v.fields[key]) = Member("rust", writer, v.fields[key])
    BY <1>2, MemberAgrees DEF PlainValue, PlainLevel
  <2>3. \A i \in DOMAIN keys : keys[i] \in DOMAIN v.fields
    BY SortedMembers
  <2> HIDE DEF keys
  <2>4. [i \in DOMAIN keys |-> <<keys[i], Member("net", writer, v.fields[keys[i]])>>]
          = [i \in DOMAIN keys |-> <<keys[i], Member("rust", writer, v.fields[keys[i]])>>]
    BY <2>2, <2>3
  <2> QED BY <1>2, <2>1, <2>4 DEF Agrees, Canonical, Level, keys
<1>3. CASE v.kind \notin {"array", "object"}
  BY <1>3, ScalarAgrees DEF Agrees, Canonical, Level, PlainValue, PlainLevel
<1> QED BY <1>1, <1>2, <1>3

(* The answer to a success of toast/ is plain: it has one key.             *)
LEMMA SuccessIsPlain == PlainValue(Object([ok |-> True]))
<1> DEFINE v == Object([ok |-> True])
<1>1. v.kind = "object" /\ DOMAIN v.fields = {"ok"} /\ v.fields["ok"] = True
  BY DEF Object
<1>2. Distinct(ByteOrder) /\ Distinct(CultureOrder) /\ ToSet(ByteOrder) = ToSet(CultureOrder)
  BY KeysAssumption DEF Distinct
<1>3. SortedKeys("net", {"ok"}) = SortedKeys("rust", {"ok"})
  BY <1>2, KeysAssumption, KeepOne DEF SortedKeys
<1>4. PlainMember(True)
  BY DEF True, PlainMember, PlainLevel, PlainScalar
<1> HIDE DEF v
<1>5. PlainValue(v)
  BY <1>1, <1>3, <1>4 DEF PlainValue, PlainLevel, PlainScalar
<1> QED BY <1>5 DEF v

=============================================================================
