--------------------------- MODULE Exchange_proofs ---------------------------
(***************************************************************************)
(* The invariants of Exchange, for every set of requests, every number of  *)
(* frames in a pipe, every size of a frame up to what its header can say,  *)
(* and every way to cut it.                                                *)
(***************************************************************************)
EXTENDS Exchange, Toast_proofs

-----------------------------------------------------------------------------
(* The inductive invariant.  The daemon has worked on the first requests   *)
(* and the client has taken the first answers; what a reader has of a      *)
(* frame and what the pipe holds are, together, the frames that follow.    *)

Bytes == [of : Nat, value : Nat]
Kinds == {"result", "error", "auth", "stale", "parse"}
Asking == Requests \cup {Garbage}
Contents ==
  {Answer(r, stale, outcome).content :
     r \in Asking, stale \in BOOLEAN, outcome \in HandlerOutcomes}
Replies == [to : Nat, bytes : Seq(Bytes), kind : Kinds, content : Contents, size : Nat \ {0}]
Toasts ==
  {[app |-> AppId, group |-> <<>>, tag |-> ToastOf(r.params).tag, face |-> FaceOf(r.params)] :
     r \in Requests}

Types ==
  /\ calls \in Seq([req : Requests, outcome : Outcomes]) /\ Len(calls) <= MaxCalls
  /\ up \in Seq(Bytes) /\ upGot \in Seq(Bytes)
  /\ down \in Seq(Bytes) /\ downGot \in Seq(Bytes)
  /\ session \in {"open", "ended", "lost"}
  /\ replies \in Seq(Replies) /\ Len(replies) <= Len(calls)
  /\ heard \in Seq(Seq(Bytes)) /\ Len(heard) <= Len(replies)
  /\ effects \subseteq DOMAIN replies
  /\ shown \in Seq(Toasts)

(* Frames of these sizes, one behind the other, after the first m of them. *)
Frames(sizes) == [i \in 1 .. Len(sizes) |-> Up!Frame(i, sizes[i])]
Ahead(sizes, m) == FlattenSeq(SubSeq(Frames(sizes), m + 1, Len(sizes)))

(* A reader asks for nothing of the frame behind the one it is reading.    *)
InPipe(have, rest, sizes, m) ==
  /\ have \o rest = Ahead(sizes, m)
  /\ m < Len(sizes) => Len(have) <= 4 + sizes[m + 1]

Asks == [i \in 1 .. Len(calls) |-> calls[i].req.size]
Answers == [i \in 1 .. Len(replies) |-> replies[i].size]

InStep ==
  IF session = "open"
  THEN /\ InPipe(upGot, up, Asks, Len(replies))
       /\ InPipe(downGot, down, Answers, Len(heard))
       /\ \A i \in DOMAIN replies : replies[i].size <= MaxPayload
  ELSE Up!Idle /\ Down!Idle

Whole ==
  /\ \A i \in DOMAIN replies : replies[i].bytes = Up!Payload(i, calls[i].req.size)
  /\ \A i \in DOMAIN heard : heard[i] = Up!Payload(i, replies[i].size)

(* Only an empty request is not known by its bytes, and it does not parse. *)
Known ==
  \A i \in DOMAIN replies :
    replies[i].to = i \/ (replies[i].to = 0 /\ replies[i].kind = "parse")

Told ==
  \A i \in DOMAIN calls : calls[i].outcome \in {"result", "error"} => i \in DOMAIN heard

(* The answer to a success verifies whatever the request was.              *)
Succeeded ==
  \A k \in effects :
    /\ replies[k].kind = "result"
    /\ replies[k].content = Object([ok |-> True])
    /\ calls[k].outcome # "error"

PlainNotRefused ==
  \A i \in DOMAIN replies :
    PlainValue(calls[i].req.params) => replies[i].kind # "auth"

(* Who still waits when its answer has been taken got one that was dropped.*)
Dropped ==
  \A i \in DOMAIN heard : calls[i].outcome = "waiting" => ~Verifies(replies[i])

History ==
  /\ Whole /\ Known /\ Told /\ Succeeded
  /\ PlainNotRefused /\ Dropped /\ ShownAsAsked

IInv == Types /\ InStep /\ History

-----------------------------------------------------------------------------
(* Lengths: four digits say what they are made of.                         *)

LEMMA DivMod ==
  ASSUME NEW m \in Nat, NEW b \in Nat \ {0}
  PROVE  m \div b \in Nat /\ m % b \in Nat /\ m % b < b /\ m = (m % b) + b * (m \div b)
  OBVIOUS

LEMMA TimesMonotonic ==
  ASSUME NEW a \in Nat, NEW b \in Nat, NEW c \in Nat, a <= b PROVE c * a <= c * b
  OBVIOUS

LEMMA DivLess ==
  ASSUME NEW m \in Nat, NEW b \in Nat \ {0}, NEW x \in Nat, m < b * x
  PROVE  m \div b < x
<1> DEFINE q == m \div b
<1>1. q \in Nat /\ m = (m % b) + b * q /\ m % b \in Nat
  BY DivMod
<1>2. SUFFICES ASSUME x <= q PROVE FALSE
  BY <1>1
<1> HIDE DEF q
<1>3. b * x <= b * q
  BY <1>1, <1>2, TimesMonotonic
<1>4. b * x \in Nat /\ b * q \in Nat
  BY <1>1
<1> QED BY <1>1, <1>3, <1>4

LEMMA Digits ==
  ASSUME NEW n \in Nat
  PROVE  /\ Up!ToLE(n) \in Seq(Bytes) /\ Len(Up!ToLE(n)) = 4
         /\ Up!ToLE(n)[1].value = n % Base
         /\ Up!ToLE(n)[2].value = (n \div Base) % Base
         /\ Up!ToLE(n)[3].value = ((n \div Base) \div Base) % Base
         /\ Up!ToLE(n)[4].value = (((n \div Base) \div Base) \div Base) % Base
<1> DEFINE n1 == n \div Base
           n2 == n1 \div Base
           n3 == n2 \div Base
<1>1. Base \in Nat \ {0}
  BY ExchangeAssumption
<1>2. n1 \in Nat /\ n % Base \in Nat
  BY <1>1, DivMod
<1> HIDE DEF n1
<1>3. n2 \in Nat /\ n1 % Base \in Nat
  BY <1>1, <1>2, DivMod
<1> HIDE DEF n2
<1>4. n3 \in Nat /\ n2 % Base \in Nat
  BY <1>1, <1>3, DivMod
<1> HIDE DEF n3
<1>5. n3 % Base \in Nat
  BY <1>1, <1>4, DivMod
<1> DEFINE f == [d \in 1 .. 4 |-> [of |-> 0, value |-> <<n, n1, n2, n3>>[d] % Base]]
<1>6. f = Up!ToLE(n)
  BY DEF Up!ToLE, Up!HeaderSize, n1, n2, n3
<1>7. /\ f[1] = [of |-> 0, value |-> n % Base] /\ f[2] = [of |-> 0, value |-> n1 % Base]
      /\ f[3] = [of |-> 0, value |-> n2 % Base] /\ f[4] = [of |-> 0, value |-> n3 % Base]
  OBVIOUS
<1>8. \A d \in 1 .. 4 : f[d] \in Bytes
  <2>1. \A v \in Nat : [of |-> 0, value |-> v] \in Bytes
    BY DEF Bytes
  <2>2. f[1] \in Bytes /\ f[2] \in Bytes /\ f[3] \in Bytes /\ f[4] \in Bytes
    <3> HIDE DEF f
    <3> QED BY <1>2, <1>3, <1>4, <1>5, <1>7, <2>1
  <2> HIDE DEF f
  <2> QED BY <2>2
<1>9. f \in Seq(Bytes) /\ Len(f) = 4
  <2>1. f \in [1 .. 4 -> Bytes]
    <3>1. DOMAIN f = 1 .. 4 /\ f = [d \in 1 .. 4 |-> f[d]]
      OBVIOUS
    <3> HIDE DEF f
    <3> QED BY <1>8, <3>1
  <2> HIDE DEF f
  <2>2. f \in Seq(Bytes)
    BY <2>1, FunctionIsSeq
  <2> QED BY <2>1, <2>2
<1> HIDE DEF f
<1> QED BY <1>6, <1>7, <1>9 DEF n1, n2, n3

(* from_le_bytes after to_le_bytes.                                        *)
LEMMA DigitsSay ==
  ASSUME NEW n \in Nat, n < Base * (Base * (Base * Base)), NEW g,
         \A d \in 1 .. 4 : g[d] = Up!ToLE(n)[d]
  PROVE  Up!FromLE(g) = n
<1> DEFINE n1 == n \div Base
           n2 == n1 \div Base
           n3 == n2 \div Base
<1>1. Base \in Nat \ {0}
  BY ExchangeAssumption
<1>2. Base * Base \in Nat /\ Base * (Base * Base) \in Nat
  BY <1>1
<1>3. n1 \in Nat /\ n = (n % Base) + Base * n1 /\ n1 < Base * (Base * Base)
  BY <1>1, <1>2, DivMod, DivLess
<1> HIDE DEF n1
<1>4. n2 \in Nat /\ n1 = (n1 % Base) + Base * n2 /\ n2 < Base * Base
  BY <1>1, <1>2, <1>3, DivMod, DivLess
<1> HIDE DEF n2
<1>5. n3 \in Nat /\ n2 = (n2 % Base) + Base * n3 /\ n3 < Base
  BY <1>1, <1>4, DivMod, DivLess
<1> HIDE DEF n3
<1>6. n3 % Base = n3
  BY <1>1, <1>5
<1>7. /\ g[1].value = n % Base /\ g[2].value = n1 % Base
      /\ g[3].value = n2 % Base /\ g[4].value = n3 % Base
  BY Digits DEF n1, n2, n3
<1>8. Up!FromLE(g) = (n % Base) + Base * ((n1 % Base) + Base * ((n2 % Base) + Base * n3))
  BY <1>6, <1>7 DEF Up!FromLE
<1> QED BY <1>3, <1>4, <1>5, <1>8

-----------------------------------------------------------------------------
(* Frames.                                                                 *)

LEMMA SameFrames ==
  /\ \A k, size : Down!Frame(k, size) = Up!Frame(k, size) /\ Down!Payload(k, size) = Up!Payload(k, size)
  /\ \A bytes : Down!FromLE(bytes) = Up!FromLE(bytes)
  /\ Up!HeaderSize = 4 /\ Down!HeaderSize = 4
  BY DEF Down!Frame, Up!Frame, Down!ToLE, Up!ToLE, Down!Payload, Up!Payload,
         Down!FromLE, Up!FromLE, Up!HeaderSize, Down!HeaderSize

LEMMA ConcatIs ==
  ASSUME NEW S, NEW a \in Seq(S), NEW b \in Seq(S)
  PROVE  /\ a \o b \in Seq(S) /\ Len(a \o b) = Len(a) + Len(b)
         /\ \A i \in 1 .. Len(a) + Len(b) :
              (a \o b)[i] = IF i <= Len(a) THEN a[i] ELSE b[i - Len(a)]
  OBVIOUS

LEMMA FrameIs ==
  ASSUME NEW k \in Nat, NEW size \in Nat
  PROVE  /\ Up!Frame(k, size) \in Seq(Bytes) /\ Len(Up!Frame(k, size)) = 4 + size
         /\ \A d \in 1 .. 4 : Up!Frame(k, size)[d] = Up!ToLE(size)[d]
         /\ \A i \in 1 .. size : Up!Frame(k, size)[4 + i] = [of |-> k, value |-> 1]
         /\ Up!Payload(k, size) = [i \in 1 .. size |-> [of |-> k, value |-> 1]]
         /\ Up!Payload(k, size) \in Seq(Bytes) /\ Len(Up!Payload(k, size)) = size
<1> DEFINE h == Up!ToLE(size)
           b == Up!Payload(k, size)
<1>1. h \in Seq(Bytes) /\ Len(h) = 4
  BY Digits
<1>2. [of |-> k, value |-> 1] \in Bytes
  BY DEF Bytes
<1>3. /\ b \in Seq(Bytes) /\ Len(b) = size
      /\ b = [i \in 1 .. size |-> [of |-> k, value |-> 1]]
      /\ \A i \in 1 .. size : b[i] = [of |-> k, value |-> 1]
  BY <1>2 DEF Up!Payload
<1>4. Up!Frame(k, size) = h \o b
  BY DEF Up!Frame
<1> HIDE DEF h, b
<1>5. /\ h \o b \in Seq(Bytes) /\ Len(h \o b) = 4 + size
      /\ \A d \in 1 .. 4 : (h \o b)[d] = h[d]
      /\ \A i \in 1 .. size : (h \o b)[4 + i] = b[i]
  <2>1. /\ h \o b \in Seq(Bytes) /\ Len(h \o b) = Len(h) + Len(b)
        /\ \A i \in 1 .. Len(h) + Len(b) :
             (h \o b)[i] = IF i <= Len(h) THEN h[i] ELSE b[i - Len(h)]
    <3>1. h \in Seq(Bytes) /\ b \in Seq(Bytes)
      BY <1>1, <1>3
    <3> HIDE <1>1, <1>3
    <3> QED BY <3>1, ConcatIs
  <2>2. ASSUME NEW i \in 1 .. size PROVE (h \o b)[4 + i] = b[i]
    <3>1. 4 + i \in 1 .. 4 + size /\ ~(4 + i <= 4) /\ (4 + i) - 4 = i
      OBVIOUS
    <3> QED BY <1>1, <1>3, <2>1, <3>1
  <2>3. ASSUME NEW d \in 1 .. 4 PROVE (h \o b)[d] = h[d]
    <3>1. d \in 1 .. 4 + size
      OBVIOUS
    <3> QED BY <1>1, <1>3, <2>1, <3>1
  <2> QED BY <1>1, <1>3, <2>1, <2>2, <2>3
<1> QED BY <1>3, <1>4, <1>5 DEF h, b

(* A read moves bytes from the pipe to the reader, and none is lost.       *)
LEMMA ReadKeeps ==
  ASSUME NEW g \in Seq(Bytes), NEW s \in Seq(Bytes), NEW n \in Nat, n <= Len(s)
  PROVE  /\ g \o SubSeq(s, 1, n) \in Seq(Bytes) /\ SubSeq(s, n + 1, Len(s)) \in Seq(Bytes)
         /\ (g \o SubSeq(s, 1, n)) \o SubSeq(s, n + 1, Len(s)) = g \o s
<1> DEFINE a == SubSeq(s, 1, n)
           b == SubSeq(s, n + 1, Len(s))
<1>1. a \in Seq(Bytes) /\ b \in Seq(Bytes)
  OBVIOUS
<1>2. a \o b = s
  <2>1. 1 \in 1 .. Len(s) + 1 /\ n \in 1 - 1 .. Len(s) /\ Len(s) \in n .. Len(s)
    OBVIOUS
  <2>2. SubSeq(s, 1, n) \o SubSeq(s, n + 1, Len(s)) = SubSeq(s, 1, Len(s))
    BY <2>1, ConcatAdjacentSubSeq, Zenon
  <2>3. SubSeq(s, 1, Len(s)) = s
    BY SubSeqFull
  <2> QED BY <2>2, <2>3
<1> HIDE DEF a, b
<1>3. g \o a \in Seq(Bytes) /\ (g \o a) \o b = g \o (a \o b)
  <2>1. g \o a \in Seq(Bytes)
    BY <1>1, ConcatProperties
  <2>2. (g \o a) \o b = g \o (a \o b)
    BY <1>1, ConcatAssociative
  <2> QED BY <2>1, <2>2
<1>4. g \o a \in Seq(Bytes) /\ b \in Seq(Bytes) /\ (g \o a) \o b = g \o s
  BY <1>1, <1>2, <1>3
<1> QED BY <1>4 DEF a, b

LEMMA PayloadTells ==
  ASSUME NEW k \in Nat, NEW j \in Nat, NEW a \in Nat \ {0}, NEW b \in Nat \ {0},
         Up!Payload(k, a) = Up!Payload(j, b)
  PROVE  k = j
<1>1. Up!Payload(k, a)[1] = [of |-> k, value |-> 1] /\ Up!Payload(j, b)[1] = [of |-> j, value |-> 1]
  BY DEF Up!Payload
<1> QED BY <1>1

-----------------------------------------------------------------------------
(* Frames behind each other.                                               *)

LEMMA FlattenFirst ==
  ASSUME NEW S, NEW a \in Seq(S)
  PROVE  \A t \in Seq(Seq(S)) : FlattenSeq(<<a>> \o t) = a \o FlattenSeq(t)
<1> DEFINE Q == {t \in Seq(Seq(S)) : FlattenSeq(<<a>> \o t) = a \o FlattenSeq(t)}
<1>1. <<>> \in Q
  <2>1. <<a>> \o <<>> = Append(<<>>, a) /\ <<>> \in Seq(Seq(S))
    OBVIOUS
  <2>2. FlattenSeq(Append(<<>>, a)) = FlattenSeq(<<>>) \o a
    BY <2>1, FlattenAppend
  <2>3. <<>> \o a = a /\ a \o <<>> = a
    BY ConcatEmptySeq
  <2> QED BY <2>1, <2>2, <2>3, FlattenEmpty
<1>2. ASSUME NEW s \in Seq(Seq(S)), NEW c \in Seq(S), s \in Q PROVE Append(s, c) \in Q
  <2> DEFINE r == <<a>> \o s
  <2>1. r \in Seq(Seq(S)) /\ <<a>> \o Append(s, c) = Append(r, c) /\ Append(s, c) \in Seq(Seq(S))
    OBVIOUS
  <2>2. FlattenSeq(r) = a \o FlattenSeq(s)
    BY <1>2
  <2> HIDE DEF r
  <2>3. FlattenSeq(Append(r, c)) = FlattenSeq(r) \o c
    BY <2>1, FlattenAppend
  <2>4. FlattenSeq(Append(s, c)) = FlattenSeq(s) \o c /\ FlattenSeq(s) \in Seq(S)
    BY FlattenAppend
  <2>5. (a \o FlattenSeq(s)) \o c = a \o (FlattenSeq(s) \o c)
    BY <2>4, ConcatAssociative
  <2> QED BY <2>1, <2>2, <2>3, <2>4, <2>5
<1>3. \A t \in Seq(Seq(S)) : t \in Q
  <2> HIDE DEF Q
  <2> QED BY <1>1, <1>2, InductionOnSeq
<1> QED BY <1>3

LEMMA FramesAre ==
  ASSUME NEW sizes \in Seq(Nat)
  PROVE  /\ Frames(sizes) \in Seq(Seq(Bytes)) /\ Len(Frames(sizes)) = Len(sizes)
         /\ \A i \in 1 .. Len(sizes) : Frames(sizes)[i] = Up!Frame(i, sizes[i])
<1>1. \A i \in 1 .. Len(sizes) : Up!Frame(i, sizes[i]) \in Seq(Bytes)
  <2> TAKE i \in 1 .. Len(sizes)
  <2>1. i \in Nat /\ sizes[i] \in Nat
    OBVIOUS
  <2> QED BY <2>1, FrameIs
<1>2. Frames(sizes) \in [1 .. Len(sizes) -> Seq(Bytes)] /\ Len(sizes) \in Nat
  BY <1>1 DEF Frames
<1>3. Frames(sizes) \in Seq(Seq(Bytes))
  BY <1>2, FunctionIsSeq, Zenon
<1> QED BY <1>2, <1>3 DEF Frames

LEMMA AheadIs ==
  ASSUME NEW sizes \in Seq(Nat), NEW m \in Nat, m <= Len(sizes)
  PROVE  /\ Ahead(sizes, m) \in Seq(Bytes)
         /\ m = Len(sizes) => Ahead(sizes, m) = <<>>
         /\ m < Len(sizes) =>
              Ahead(sizes, m) = Up!Frame(m + 1, sizes[m + 1]) \o Ahead(sizes, m + 1)
<1> DEFINE fs == Frames(sizes)
           n == Len(sizes)
<1>1. /\ fs \in Seq(Seq(Bytes)) /\ Len(fs) = n /\ n \in Nat
      /\ \A i \in 1 .. n : fs[i] = Up!Frame(i, sizes[i])
  BY FramesAre
<1>2. \A d \in Nat : Ahead(sizes, d) = FlattenSeq(SubSeq(fs, d + 1, n))
  BY DEF Ahead
<1> HIDE DEF fs, n
<1>3. \A d \in Nat : d <= n => SubSeq(fs, d + 1, n) \in Seq(Seq(Bytes))
  BY <1>1
<1>4. Ahead(sizes, m) \in Seq(Bytes)
  <2>1. SubSeq(fs, m + 1, n) \in Seq(Seq(Bytes)) /\ <<>> \in Seq(Bytes)
    BY <1>3 DEF n
  <2> QED BY <1>2, <2>1, FlattenAppend
<1>5. ASSUME m = n PROVE Ahead(sizes, m) = <<>>
  <2>1. SubSeq(fs, m + 1, n) = <<>>
    BY <1>1, <1>5, SubSeqEmpty
  <2> QED BY <1>2, <2>1, FlattenEmpty
<1>6. ASSUME m < n
      PROVE  Ahead(sizes, m) = Up!Frame(m + 1, sizes[m + 1]) \o Ahead(sizes, m + 1)
  <2> DEFINE t == SubSeq(fs, m + 2, n)
             a == fs[m + 1]
  <2>1. m + 1 \in 1 .. Len(fs) /\ n \in m + 1 .. Len(fs) /\ (m + 1) + 1 = m + 2
    BY <1>1, <1>6
  <2>2. SubSeq(fs, m + 1, n) = <<a>> \o t
    BY <1>1, <2>1, SubSeqRecursiveFirst
  <2>3. a \in Seq(Bytes) /\ a = Up!Frame(m + 1, sizes[m + 1])
    BY <1>1, <2>1, ElementOfSeq
  <2>4. t \in Seq(Seq(Bytes)) /\ Ahead(sizes, m + 1) = FlattenSeq(t)
    <3>1. m + 1 \in Nat /\ m + 1 <= n
      BY <1>1, <1>6
    <3> QED BY <1>2, <1>3, <2>1, <3>1
  <2> HIDE DEF t, a
  <2>5. FlattenSeq(<<a>> \o t) = a \o FlattenSeq(t)
    BY <2>3, <2>4, FlattenFirst
  <2> QED BY <1>2, <2>2, <2>3, <2>4, <2>5
<1> QED BY <1>4, <1>5, <1>6 DEF n

LEMMA RestIs ==
  ASSUME NEW S, NEW f \in Seq(S), NEW d \in Nat, NEW k \in Nat, d <= k, k <= Len(f)
  PROVE  /\ SubSeq(f, d + 1, k) \in Seq(S) /\ Len(SubSeq(f, d + 1, k)) = k - d
         /\ \A i \in 1 .. k - d : SubSeq(f, d + 1, k)[i] = f[d + i]
<1>1. /\ d + 1 \in Int /\ k \in Int
      /\ \A i \in d + 1 .. k : f[i] \in S
      /\ k - (d + 1) + 1 = k - d /\ (~(d + 1 <= k) => k - d = 0)
      /\ \A i \in 1 .. k - d : (d + 1) + i - 1 = d + i
  OBVIOUS
<1> DEFINE r == SubSeq(f, d + 1, k)
<1>2. /\ r \in Seq(S) /\ Len(r) = IF d + 1 <= k THEN k - (d + 1) + 1 ELSE 0
      /\ \A i \in 1 .. k - (d + 1) + 1 : r[i] = f[(d + 1) + i - 1]
  BY <1>1, SubSeqProperties
<1> HIDE DEF r
<1>3. r \in Seq(S) /\ Len(r) = k - d /\ \A i \in 1 .. k - d : r[i] = f[d + i]
  BY <1>1, <1>2
<1> QED BY <1>3 DEF r

LEMMA AheadAppend ==
  ASSUME NEW sizes \in Seq(Nat), NEW m \in Nat, m <= Len(sizes), NEW size \in Nat
  PROVE  Ahead(Append(sizes, size), m) = Ahead(sizes, m) \o Up!Frame(Len(sizes) + 1, size)
<1> DEFINE more == Append(sizes, size)
           fs == Frames(sizes)
           gs == Frames(more)
           n == Len(sizes)
           e == Up!Frame(n + 1, size)
           s == SubSeq(fs, m + 1, n)
           t == SubSeq(gs, m + 1, n + 1)
<1>1. /\ more \in Seq(Nat) /\ Len(more) = n + 1 /\ more[n + 1] = size /\ n \in Nat
      /\ \A i \in 1 .. n : more[i] = sizes[i]
  OBVIOUS
<1>2. fs \in Seq(Seq(Bytes)) /\ Len(fs) = n /\ \A i \in 1 .. n : fs[i] = Up!Frame(i, sizes[i])
  BY FramesAre
<1>3. gs \in Seq(Seq(Bytes)) /\ Len(gs) = n + 1
      /\ \A i \in 1 .. n + 1 : gs[i] = Up!Frame(i, more[i])
  BY <1>1, FramesAre
<1>4. /\ Ahead(sizes, m) = FlattenSeq(s)
      /\ Ahead(more, m) = FlattenSeq(t)
  BY <1>1 DEF Ahead
<1>5. e \in Seq(Bytes)
  <2>1. n + 1 \in Nat
    BY <1>1
  <2> HIDE DEF n
  <2> QED BY <2>1, FrameIs
<1>6. gs[n + 1] = e /\ \A i \in 1 .. n : gs[i] = fs[i]
  <2>1. n + 1 \in 1 .. n + 1 /\ \A i \in 1 .. n : i \in 1 .. n + 1
    BY <1>1
  <2> QED BY <1>1, <1>2, <1>3, <2>1
<1> HIDE DEF more, fs, gs, e
<1>7. s \in Seq(Seq(Bytes)) /\ t = Append(s, e)
  <2>0. m <= n /\ n \in Nat
    BY <1>1
  <2> HIDE DEF n
  <2>1. s \in Seq(Seq(Bytes)) /\ Len(s) = n - m /\ \A i \in 1 .. n - m : s[i] = fs[m + i]
    BY <1>2, <2>0, RestIs
  <2>2. t \in Seq(Seq(Bytes)) /\ Len(t) = n - m + 1 /\ \A i \in 1 .. n - m + 1 : t[i] = gs[m + i]
    <3>1. n + 1 \in Nat /\ m <= n + 1 /\ (n + 1) - m = n - m + 1
      BY <2>0
    <3>2. n + 1 <= Len(gs)
      BY <1>3, <3>1
    <3> QED BY <1>3, <3>1, <3>2, RestIs
  <2> DEFINE u == Append(s, e)
  <2>3. u \in Seq(Seq(Bytes)) /\ Len(u) = n - m + 1 /\ u[n - m + 1] = e
        /\ \A i \in 1 .. n - m : u[i] = s[i]
    <3>1. s \in Seq(Seq(Bytes)) /\ Len(s) = n - m
      BY <2>1
    <3> HIDE DEF s
    <3> QED BY <1>5, <3>1, AppendProperties
  <2>4. \A i \in 1 .. Len(t) : t[i] = u[i]
    <3> SUFFICES ASSUME NEW i \in 1 .. n - m + 1 PROVE t[i] = u[i]
      BY <2>2
    <3>1. CASE i = n - m + 1
      <4>1. m + i = n + 1
        BY <2>0, <3>1
      <4>2. t[i] = gs[m + i]
        BY <2>2
      <4> HIDE DEF t, u
      <4> QED BY <1>6, <2>3, <3>1, <4>1, <4>2
    <3>2. CASE i \in 1 .. n - m
      <4>1. m + i \in 1 .. n
        BY <2>0, <3>2
      <4>2. t[i] = gs[m + i]
        BY <2>2
      <4>3. u[i] = s[i] /\ s[i] = fs[m + i]
        BY <2>1, <2>3, <3>2
      <4> HIDE DEF t, u, s
      <4> QED BY <1>6, <4>1, <4>2, <4>3
    <3>3. i = n - m + 1 \/ i \in 1 .. n - m
      BY <2>0
    <3> QED BY <3>1, <3>2, <3>3
  <2>5. t = u
    <3> HIDE DEF t, u, s
    <3> QED BY <2>2, <2>3, <2>4, SeqEqual
  <2> QED BY <2>1, <2>5
<1>8. FlattenSeq(Append(s, e)) = FlattenSeq(s) \o e
  <2> HIDE DEF s
  <2> QED BY <1>5, <1>7, FlattenAppend
<1> QED BY <1>4, <1>7, <1>8 DEF e, more

(* What a reader makes of what it has of a frame, whatever is behind it.   *)
LEMMA FrameRead ==
  ASSUME NEW k \in Nat, NEW size \in Nat, size < Base * (Base * (Base * Base)),
         NEW g \in Seq(Bytes), NEW s \in Seq(Bytes), NEW rest \in Seq(Bytes),
         g \o s = Up!Frame(k, size) \o rest, Len(g) <= 4 + size
  PROVE  /\ Len(g) >= 4 => Up!FromLE(SubSeq(g, 1, 4)) = size
         /\ Len(g) = 4 + size => s = rest /\ SubSeq(g, 5, Len(g)) = Up!Payload(k, size)
<1> DEFINE fr == Up!Frame(k, size)
<1>1. /\ fr \in Seq(Bytes) /\ Len(fr) = 4 + size
      /\ \A d \in 1 .. 4 : fr[d] = Up!ToLE(size)[d]
      /\ \A i \in 1 .. size : fr[4 + i] = [of |-> k, value |-> 1]
  BY FrameIs
<1>2. g \o s = fr \o rest
  OBVIOUS
<1> HIDE DEF fr
<1>3. Len(g) \in Nat /\ \A i \in 1 .. Len(g) : g[i] = fr[i]
  <2>1. \A i \in 1 .. Len(g) + Len(s) : (g \o s)[i] = IF i <= Len(g) THEN g[i] ELSE s[i - Len(g)]
    BY ConcatIs
  <2>2. \A i \in 1 .. Len(fr) + Len(rest) :
          (fr \o rest)[i] = IF i <= Len(fr) THEN fr[i] ELSE rest[i - Len(fr)]
    BY <1>1, ConcatIs
  <2>3. Len(g) \in Nat /\ Len(s) \in Nat /\ Len(rest) \in Nat
    OBVIOUS
  <2>4. ASSUME NEW i \in 1 .. Len(g) PROVE g[i] = fr[i]
    <3>1. i \in 1 .. Len(g) + Len(s) /\ i \in 1 .. Len(fr) + Len(rest) /\ i <= Len(g) /\ i <= Len(fr)
      BY <1>1, <2>3
    <3> QED BY <1>2, <2>1, <2>2, <3>1
  <2> QED BY <2>3, <2>4
<1>4. ASSUME Len(g) >= 4 PROVE Up!FromLE(SubSeq(g, 1, 4)) = size
  <2>1. \A d \in 1 .. 4 : SubSeq(g, 1, 4)[d] = g[d]
    BY <1>3, <1>4
  <2>2. \A d \in 1 .. 4 : SubSeq(g, 1, 4)[d] = Up!ToLE(size)[d]
    <3> TAKE d \in 1 .. 4
    <3>1. d \in 1 .. Len(g)
      BY <1>3, <1>4
    <3> QED BY <1>1, <1>3, <2>1, <3>1
  <2> QED BY <2>2, DigitsSay
<1>5. ASSUME Len(g) = 4 + size
      PROVE  s = rest /\ SubSeq(g, 5, Len(g)) = Up!Payload(k, size)
  <2>1. g = fr
    BY <1>1, <1>3, <1>5, SeqEqual
  <2>2. s = rest
    BY <1>1, <1>2, <2>1, ConcatSimplifications
  <2> DEFINE b == SubSeq(g, 5, Len(g))
  <2>3. /\ DOMAIN b = 1 .. size /\ b = [i \in 1 .. size |-> b[i]]
        /\ \A i \in 1 .. size : b[i] = g[4 + i]
    BY <1>5
  <2> HIDE DEF b
  <2>4. \A i \in 1 .. size : b[i] = [of |-> k, value |-> 1]
    BY <1>1, <2>1, <2>3
  <2>5. b = Up!Payload(k, size)
    <3>1. [i \in 1 .. size |-> b[i]] = [i \in 1 .. size |-> [of |-> k, value |-> 1]]
      BY <2>4
    <3> QED BY <2>3, <3>1, FrameIs
  <2> QED BY <2>2, <2>5 DEF b
<1> QED BY <1>4, <1>5


(* A direction of the pipe: reading on, taking a frame, writing one.       *)
Sizes == {sizes \in Seq(Nat) : \A i \in 1 .. Len(sizes) :
            sizes[i] < Base * (Base * (Base * Base))}

LEMMA InPipeIs ==
  ASSUME NEW sizes \in Sizes, NEW m \in Nat, m <= Len(sizes),
         NEW g \in Seq(Bytes), NEW s \in Seq(Bytes), InPipe(g, s, sizes, m)
  PROVE  /\ m < Len(sizes) \/ (g = <<>> /\ s = <<>>)
         /\ m < Len(sizes) =>
              /\ sizes[m + 1] \in Nat
              /\ Len(g) >= 4 => Up!FromLE(SubSeq(g, 1, 4)) = sizes[m + 1]
              /\ Len(g) = 4 + sizes[m + 1] =>
                   /\ SubSeq(g, 5, Len(g)) = Up!Payload(m + 1, sizes[m + 1])
                   /\ s = Ahead(sizes, m + 1)
<1>1. sizes \in Seq(Nat) /\ Len(sizes) \in Nat
      /\ \A i \in 1 .. Len(sizes) : sizes[i] < Base * (Base * (Base * Base))
  BY DEF Sizes
<1>2. CASE m = Len(sizes)
  <2>1. g \o s = <<>>
    BY <1>1, <1>2, AheadIs DEF InPipe
  <2> QED BY <1>2, <2>1, ConcatEqualIffEmpty
<1>3. CASE m < Len(sizes)
  <2> DEFINE z == sizes[m + 1]
             k == m + 1
             rest == Ahead(sizes, m + 1)
  <2>1. k \in Nat /\ z \in Nat /\ z < Base * (Base * (Base * Base))
    BY <1>1, <1>3
  <2>2. rest \in Seq(Bytes)
    BY <1>1, <1>3, AheadIs
  <2>3. g \o s = Up!Frame(k, z) \o rest /\ Len(g) <= 4 + z
    BY <1>1, <1>3, AheadIs DEF InPipe
  <2> HIDE DEF z, k, rest
  <2>4. /\ Len(g) >= 4 => Up!FromLE(SubSeq(g, 1, 4)) = z
        /\ Len(g) = 4 + z => s = rest /\ SubSeq(g, 5, Len(g)) = Up!Payload(k, z)
    BY <2>1, <2>2, <2>3, FrameRead
  <2> QED BY <1>3, <2>1, <2>4 DEF z, k, rest
<1> QED BY <1>1, <1>2, <1>3

LEMMA PipeReadSome ==
  ASSUME NEW sizes \in Sizes, NEW m \in Nat, m <= Len(sizes),
         NEW g \in Seq(Bytes), NEW s \in Seq(Bytes), InPipe(g, s, sizes, m),
         NEW n \in Nat \ {0}, n <= Len(s),
         n <= (IF Len(g) >= 4 THEN 4 + Up!FromLE(SubSeq(g, 1, 4)) ELSE 4) - Len(g)
  PROVE  /\ g \o SubSeq(s, 1, n) \in Seq(Bytes) /\ SubSeq(s, n + 1, Len(s)) \in Seq(Bytes)
         /\ InPipe(g \o SubSeq(s, 1, n), SubSeq(s, n + 1, Len(s)), sizes, m)
<1> DEFINE a == SubSeq(s, 1, n)
           b == SubSeq(s, n + 1, Len(s))
<1>1. a \in Seq(Bytes) /\ Len(a) = n /\ g \o a \in Seq(Bytes) /\ Len(g \o a) = Len(g) + n
      /\ Len(g) \in Nat
  <2>1. a \in Seq(Bytes) /\ Len(a) = n /\ Len(g) \in Nat
    OBVIOUS
  <2> HIDE DEF a
  <2>2. g \o a \in Seq(Bytes) /\ Len(g \o a) = Len(g) + Len(a)
    BY <2>1, ConcatProperties
  <2> QED BY <2>1, <2>2
<1>2. b \in Seq(Bytes) /\ (g \o a) \o b = g \o s
  BY ReadKeeps
<1> HIDE DEF a, b
<1>3. m < Len(sizes) => Len(g) + n <= 4 + sizes[m + 1]
  <2> SUFFICES ASSUME m < Len(sizes) PROVE Len(g) + n <= 4 + sizes[m + 1]
    OBVIOUS
  <2>1. sizes[m + 1] \in Nat /\ (Len(g) >= 4 => Up!FromLE(SubSeq(g, 1, 4)) = sizes[m + 1])
    BY InPipeIs
  <2> QED BY <1>1, <2>1
<1>4. InPipe(g \o a, b, sizes, m)
  BY <1>1, <1>2, <1>3 DEF InPipe
<1> QED BY <1>1, <1>2, <1>4 DEF a, b

LEMMA PipeTake ==
  ASSUME NEW sizes \in Sizes, NEW m \in Nat, m <= Len(sizes),
         NEW g \in Seq(Bytes), NEW s \in Seq(Bytes), InPipe(g, s, sizes, m),
         Len(g) >= 4, Len(g) >= 4 + Up!FromLE(SubSeq(g, 1, 4))
  PROVE  /\ m < Len(sizes)
         /\ SubSeq(g, 5, Len(g)) = Up!Payload(m + 1, sizes[m + 1])
         /\ InPipe(<<>>, s, sizes, m + 1)
<1>1. Len(g) \in Nat /\ Len(<<>>) = 0 /\ Len(sizes) \in Nat /\ sizes \in Seq(Nat)
  BY DEF Sizes
<1>2. m < Len(sizes)
  BY <1>1, InPipeIs
<1>3. /\ sizes[m + 1] \in Nat
      /\ Len(g) = 4 + sizes[m + 1]
  <2>1. sizes[m + 1] \in Nat /\ Up!FromLE(SubSeq(g, 1, 4)) = sizes[m + 1]
    BY <1>2, InPipeIs
  <2>2. Len(g) <= 4 + sizes[m + 1]
    BY <1>2 DEF InPipe
  <2> QED BY <1>1, <2>1, <2>2
<1>4. SubSeq(g, 5, Len(g)) = Up!Payload(m + 1, sizes[m + 1]) /\ s = Ahead(sizes, m + 1)
  BY <1>2, <1>3, InPipeIs
<1>5. <<>> \o s = s
  BY ConcatEmptySeq
<1>6. m + 1 < Len(sizes) => 0 <= 4 + sizes[(m + 1) + 1]
  <2> SUFFICES ASSUME m + 1 < Len(sizes) PROVE 0 <= 4 + sizes[(m + 1) + 1]
    OBVIOUS
  <2>1. (m + 1) + 1 \in 1 .. Len(sizes)
    BY <1>1
  <2>2. sizes[(m + 1) + 1] \in Nat
    BY <1>1, <2>1, ElementOfSeq
  <2> QED BY <2>2
<1> QED BY <1>1, <1>2, <1>4, <1>5, <1>6 DEF InPipe

LEMMA PipeWrite ==
  ASSUME NEW sizes \in Sizes, NEW m \in Nat, m <= Len(sizes),
         NEW g \in Seq(Bytes), NEW s \in Seq(Bytes), InPipe(g, s, sizes, m),
         NEW size \in Nat
  PROVE  /\ s \o Up!Frame(Len(sizes) + 1, size) \in Seq(Bytes)
         /\ InPipe(g, s \o Up!Frame(Len(sizes) + 1, size), Append(sizes, size), m)
<1> DEFINE e == Up!Frame(Len(sizes) + 1, size)
           more == Append(sizes, size)
<1>1. sizes \in Seq(Nat) /\ Len(sizes) \in Nat
  BY DEF Sizes
<1>2. e \in Seq(Bytes)
  <2>1. Len(sizes) + 1 \in Nat
    BY <1>1
  <2> QED BY <2>1, FrameIs
<1>3. Ahead(more, m) = Ahead(sizes, m) \o e
  BY <1>1, AheadAppend
<1>4. /\ Len(more) = Len(sizes) + 1 /\ more[Len(sizes) + 1] = size
      /\ \A i \in 1 .. Len(sizes) : more[i] = sizes[i]
  BY <1>1
<1> HIDE DEF e, more
<1>5. s \o e \in Seq(Bytes) /\ (g \o s) \o e = g \o (s \o e)
  BY <1>2, ConcatIs, ConcatAssociative
<1>6. Len(g) <= 4 + more[m + 1]
  <2>1. CASE m = Len(sizes)
    <3>1. g = <<>>
      BY <1>1, <2>1, InPipeIs
    <3> QED BY <1>4, <2>1, <3>1
  <2>2. CASE m < Len(sizes)
    <3>1. m + 1 \in 1 .. Len(sizes)
      BY <1>1, <2>2
    <3> QED BY <1>4, <2>2, <3>1 DEF InPipe
  <2> QED BY <1>1, <2>1, <2>2
<1> QED BY <1>3, <1>5, <1>6 DEF InPipe, e, more

-----------------------------------------------------------------------------
(* What the inductive invariant says in every state.                       *)

LEMMA Facts ==
  ASSUME IInv
  PROVE  /\ Len(calls) \in Nat /\ DOMAIN calls = 1 .. Len(calls)
         /\ Len(replies) \in Nat /\ DOMAIN replies = 1 .. Len(replies)
         /\ Len(heard) \in Nat /\ DOMAIN heard = 1 .. Len(heard)
         /\ Len(heard) <= Len(replies) /\ Len(replies) <= Len(calls)
         /\ effects \subseteq 1 .. Len(replies)
         /\ \A i \in 1 .. Len(calls) : /\ calls[i].req \in Requests
                                       /\ calls[i].outcome \in Outcomes
         /\ \A i \in 1 .. Len(replies) : /\ replies[i].kind \in Kinds
                                         /\ replies[i].size \in Nat \ {0}
                                         /\ i \in 1 .. Len(calls)
         /\ \A i \in 1 .. Len(heard) : i \in 1 .. Len(replies)
<1>1. /\ calls \in Seq([req : Requests, outcome : Outcomes])
      /\ replies \in Seq(Replies) /\ Len(replies) <= Len(calls)
      /\ heard \in Seq(Seq(Bytes)) /\ Len(heard) <= Len(replies)
      /\ effects \subseteq DOMAIN replies
  BY DEF IInv, Types
<1>2. ASSUME NEW i \in 1 .. Len(calls)
      PROVE  calls[i].req \in Requests /\ calls[i].outcome \in Outcomes
  <2>1. calls[i] \in [req : Requests, outcome : Outcomes]
    BY <1>1, ElementOfSeq
  <2> QED BY <2>1
<1>3. ASSUME NEW i \in 1 .. Len(replies)
      PROVE  replies[i].kind \in Kinds /\ replies[i].size \in Nat \ {0}
  <2>1. replies[i] \in Replies
    BY <1>1, ElementOfSeq
  <2> QED BY <2>1 DEF Replies
<1>4. /\ Len(calls) \in Nat /\ DOMAIN calls = 1 .. Len(calls)
      /\ Len(replies) \in Nat /\ DOMAIN replies = 1 .. Len(replies)
      /\ Len(heard) \in Nat /\ DOMAIN heard = 1 .. Len(heard)
  BY <1>1
<1>5. /\ \A i \in 1 .. Len(replies) : i \in 1 .. Len(calls)
      /\ \A i \in 1 .. Len(heard) : i \in 1 .. Len(replies)
  BY <1>1, <1>4
<1> QED BY <1>1, <1>2, <1>3, <1>4, <1>5

LEMMA SizesAre ==
  ASSUME IInv
  PROVE  /\ Asks \in Sizes /\ Len(Asks) = Len(calls)
         /\ \A i \in 1 .. Len(calls) : Asks[i] = calls[i].req.size
         /\ Answers \in Seq(Nat) /\ Len(Answers) = Len(replies)
         /\ \A i \in 1 .. Len(replies) : Answers[i] = replies[i].size
         /\ session = "open" => Answers \in Sizes
<1> DEFINE Limit == Base * (Base * (Base * Base))
<1>0. Limit \in Nat /\ MaxPayload \in Nat /\ MaxPayload < Limit
  BY ExchangeAssumption
<1>1. \A i \in 1 .. Len(calls) : calls[i].req.size \in Nat /\ calls[i].req.size < Limit
  <2> TAKE i \in 1 .. Len(calls)
  <2>1. calls[i].req \in Requests
    BY Facts
  <2> QED BY <2>1, ExchangeAssumption
<1> HIDE DEF Limit
<1>2. Len(calls) \in Nat /\ Asks \in [1 .. Len(calls) -> Nat]
  BY <1>1, Facts DEF Asks
<1>3. Asks \in Seq(Nat) /\ Len(Asks) = Len(calls)
      /\ \A i \in 1 .. Len(calls) : Asks[i] = calls[i].req.size
  <2>1. Asks \in Seq(Nat)
    BY <1>2, FunctionIsSeq, Zenon
  <2> QED BY <1>2, <2>1 DEF Asks
<1>4. Len(replies) \in Nat /\ Answers \in [1 .. Len(replies) -> Nat]
  BY Facts DEF Answers
<1>5. Answers \in Seq(Nat) /\ Len(Answers) = Len(replies)
      /\ \A i \in 1 .. Len(replies) : Answers[i] = replies[i].size
  <2>1. Answers \in Seq(Nat)
    BY <1>4, FunctionIsSeq, Zenon
  <2> QED BY <1>4, <2>1 DEF Answers
<1>6. ASSUME session = "open", NEW i \in 1 .. Len(replies) PROVE Answers[i] < Limit
  <2>1. replies[i].size <= MaxPayload /\ replies[i].size \in Nat
    BY <1>6, Facts DEF IInv, InStep
  <2> QED BY <1>0, <1>5, <2>1
<1> QED BY <1>1, <1>3, <1>5, <1>6 DEF Sizes, Limit

LEMMA IdleIs ==
  /\ Up!Idle <=> up = <<>> /\ upGot = <<>>
  /\ Down!Idle <=> down = <<>> /\ downGot = <<>>
  BY DEF Up!Idle, Down!Idle

(* No frame of the daemon is refused.                                      *)
LEMMA NotRefused ==
  ASSUME IInv PROVE ~Down!Refused
<1> SUFFICES ASSUME Len(downGot) >= 4
             PROVE  Down!Accepted(Down!PayloadLen)
  BY DEF Down!Refused, Down!HeaderRead, Down!HeaderSize
<1>1. session = "open"
  <2>1. downGot # <<>>
    OBVIOUS
  <2> QED BY <2>1, IdleIs DEF IInv, InStep
<1>2. /\ downGot \in Seq(Bytes) /\ down \in Seq(Bytes)
      /\ InPipe(downGot, down, Answers, Len(heard))
  BY <1>1 DEF IInv, Types, InStep
<1>3. Answers \in Sizes /\ Len(Answers) = Len(replies)
      /\ Len(heard) \in Nat /\ Len(heard) <= Len(Answers)
  BY <1>1, Facts, SizesAre
<1>4. Len(heard) < Len(replies)
  <2>1. downGot # <<>>
    OBVIOUS
  <2> QED BY <1>2, <1>3, <2>1, InPipeIs
<1>5. Up!FromLE(SubSeq(downGot, 1, 4)) = Answers[Len(heard) + 1]
  BY <1>2, <1>3, <1>4, InPipeIs
<1>6. Len(heard) + 1 \in 1 .. Len(replies)
  BY <1>3, <1>4, Facts
<1>7. /\ replies[Len(heard) + 1].size \in Nat \ {0}
      /\ replies[Len(heard) + 1].size <= MaxPayload
      /\ Answers[Len(heard) + 1] = replies[Len(heard) + 1].size
  BY <1>1, <1>6, Facts, SizesAre DEF IInv, InStep
<1> QED BY <1>5, <1>7, SameFrames DEF Down!Accepted, Down!PayloadLen, Down!HeaderSize

-----------------------------------------------------------------------------
(* The steps.                                                              *)

LEMMA HistoryKept ==
  ASSUME IInv, UNCHANGED <<calls, replies, heard, effects, shown>>
  PROVE  History'
<1> USE DEF IInv, History
<1>1. Whole' /\ Known' /\ Told'
  BY DEF Whole, Known, Told
<1>2. Succeeded' /\ PlainNotRefused'
  BY DEF Succeeded, PlainNotRefused
<1>3. Dropped'
  BY DEF Dropped, Verifies
<1>4. ShownAsAsked'
  BY DEF ShownAsAsked, AsAsked
<1> QED BY <1>1, <1>2, <1>3, <1>4

LEMMA ReadUpStep ==
  ASSUME IInv, NEW n \in 1 .. Up!HeaderSize + MaxPayload, ReadUp(n)
  PROVE  IInv'
<1>1. /\ n <= Len(up)
      /\ n <= (IF Len(upGot) >= 4 THEN 4 + Up!FromLE(SubSeq(upGot, 1, 4)) ELSE 4) - Len(upGot)
      /\ upGot' = upGot \o SubSeq(up, 1, n) /\ up' = SubSeq(up, n + 1, Len(up))
      /\ UNCHANGED <<calls, down, downGot, session, replies, heard, effects, shown>>
  BY DEF ReadUp, Up!ReadSome, Up!Wanted, Up!HeaderRead, Up!HeaderSize, Up!PayloadLen
<1>2. n \in Nat \ {0}
  BY ExchangeAssumption DEF Up!HeaderSize
<1>3. session = "open"
  <2>1. up # <<>>
    BY <1>1, <1>2
  <2> QED BY <2>1, IdleIs DEF IInv, InStep
<1>4. /\ up \in Seq(Bytes) /\ upGot \in Seq(Bytes)
      /\ InPipe(upGot, up, Asks, Len(replies))
      /\ Asks \in Sizes /\ Len(replies) \in Nat /\ Len(replies) <= Len(Asks)
  BY <1>3, Facts, SizesAre DEF IInv, Types, InStep
<1>5. up' \in Seq(Bytes) /\ upGot' \in Seq(Bytes) /\ InPipe(upGot', up', Asks, Len(replies))
  BY <1>1, <1>2, <1>4, PipeReadSome
<1>6. Types'
  BY <1>1, <1>5 DEF IInv, Types
<1>7. InStep'
  BY <1>1, <1>3, <1>5 DEF IInv, InStep, Asks, Answers
<1> QED BY <1>1, <1>6, <1>7, HistoryKept DEF IInv

LEMMA ReadDownStep ==
  ASSUME IInv, NEW n \in 1 .. Up!HeaderSize + MaxPayload, ReadDown(n)
  PROVE  IInv'
<1>1. /\ n <= Len(down)
      /\ n <= (IF Len(downGot) >= 4 THEN 4 + Up!FromLE(SubSeq(downGot, 1, 4)) ELSE 4) - Len(downGot)
      /\ downGot' = downGot \o SubSeq(down, 1, n) /\ down' = SubSeq(down, n + 1, Len(down))
      /\ UNCHANGED <<calls, up, upGot, session, replies, heard, effects, shown>>
  BY SameFrames
     DEF ReadDown, Down!ReadSome, Down!Wanted, Down!HeaderRead, Down!HeaderSize, Down!PayloadLen
<1>2. n \in Nat \ {0}
  BY ExchangeAssumption DEF Up!HeaderSize
<1>3. session = "open"
  <2>1. down # <<>>
    BY <1>1, <1>2
  <2> QED BY <2>1, IdleIs DEF IInv, InStep
<1>4. /\ down \in Seq(Bytes) /\ downGot \in Seq(Bytes)
      /\ InPipe(downGot, down, Answers, Len(heard))
      /\ Answers \in Sizes /\ Len(heard) \in Nat /\ Len(heard) <= Len(Answers)
  BY <1>3, Facts, SizesAre DEF IInv, Types, InStep
<1>5. down' \in Seq(Bytes) /\ downGot' \in Seq(Bytes) /\ InPipe(downGot', down', Answers, Len(heard))
  BY <1>1, <1>2, <1>4, PipeReadSome
<1>6. Types'
  BY <1>1, <1>5 DEF IInv, Types
<1>7. InStep'
  BY <1>1, <1>3, <1>5 DEF IInv, InStep, Asks, Answers
<1> QED BY <1>1, <1>6, <1>7, HistoryKept DEF IInv

LEMMA HangUpIs ==
  ASSUME NEW how, HangUp(how)
  PROVE  /\ session' = how
         /\ up' = <<>> /\ upGot' = <<>> /\ down' = <<>> /\ downGot' = <<>>
         /\ Up!Idle' /\ Down!Idle'
  BY DEF HangUp, Up!Idle, Down!Idle

(* Both ways to end a session between two requests.                        *)
LEMMA EndStep ==
  ASSUME IInv, NEW how \in {"ended", "lost"}, HangUp(how),
         UNCHANGED <<calls, replies, heard, effects, shown>>
  PROVE  IInv'
<1>1. Types'
  BY HangUpIs, EmptySeq DEF IInv, Types
<1>2. InStep'
  BY HangUpIs DEF InStep
<1> QED BY <1>1, <1>2, HistoryKept DEF IInv

LEMMA RefuseFrameStep ==
  ASSUME IInv, RefuseFrame
  PROVE  IInv'
<1>1. HangUp("ended") /\ UNCHANGED <<calls, replies, heard, effects, shown>>
  BY DEF RefuseFrame
<1> QED BY <1>1, EndStep

LEMMA LoseStep ==
  ASSUME IInv, Lose
  PROVE  IInv'
<1>1. HangUp("lost") /\ UNCHANGED <<calls, replies, heard, effects, shown>>
  BY DEF Lose
<1> QED BY <1>1, EndStep

(* Selecting from what is shown keeps the invariant's word on it.          *)
LEMMA KeptToasts ==
  ASSUME NEW X, shown \in Seq(Toasts)
  PROVE  /\ Keep(shown, X) \in Seq(Toasts)
         /\ ToSet(Keep(shown, X)) \subseteq ToSet(shown) \cap X
<1>1. Keep(shown, X) \in Seq(Toasts \cap X)
  BY KeepMembers
<1>2. shown \in Seq(ToSet(shown))
  BY DEF ToSet
<1>3. Keep(shown, X) \in Seq(ToSet(shown) \cap X)
  BY <1>2, KeepMembers
<1>4. Keep(shown, X) \in Seq(Toasts)
  BY <1>1, LargerSeq
<1>5. \A W : \A s \in Seq(W) : ToSet(s) \subseteq W
  BY DEF ToSet
<1> QED BY <1>3, <1>4, <1>5

LEMMA DismissStep ==
  ASSUME IInv, Dismiss
  PROVE  IInv'
<1> DEFINE X == {toast \in ToSet(shown) : toast.app # AppId}
<1>1. /\ shown' = Keep(shown, X)
      /\ UNCHANGED <<calls, up, upGot, down, downGot, session, replies, heard, effects>>
  BY DEF Dismiss, ClearAll
<1> HIDE DEF X
<1>2. shown' \in Seq(Toasts) /\ ToSet(shown') \subseteq ToSet(shown)
  BY <1>1, KeptToasts DEF IInv, Types
<1>3. Types'
  BY <1>1, <1>2 DEF IInv, Types
<1>4. InStep'
  BY <1>1 DEF IInv, InStep, Asks, Answers, Up!Idle, Down!Idle
<1>5. Whole' /\ Known' /\ Told'
  BY <1>1 DEF IInv, History, Whole, Known, Told
<1>6. Succeeded' /\ PlainNotRefused'
  BY <1>1 DEF IInv, History, Succeeded, PlainNotRefused
<1>7. Dropped'
  BY <1>1 DEF IInv, History, Dropped, Verifies
<1>8. ShownAsAsked'
  BY <1>1, <1>2 DEF IInv, History, ShownAsAsked, AsAsked
<1> QED BY <1>3, <1>4, <1>5, <1>6, <1>7, <1>8 DEF IInv, History

(* A call returns: its outcome changes, and nothing else of the calls.     *)
LEMMA ReturnIs ==
  ASSUME IInv, NEW k \in 1 .. Len(calls), NEW outcome \in Outcomes, Return(k, outcome)
  PROVE  /\ calls' \in Seq([req : Requests, outcome : Outcomes]) /\ Len(calls') = Len(calls)
         /\ DOMAIN calls' = DOMAIN calls
         /\ \A i \in 1 .. Len(calls) :
              /\ calls'[i].req = calls[i].req
              /\ calls'[i].outcome = IF i = k THEN outcome ELSE calls[i].outcome
         /\ Asks' = Asks
<1> DEFINE CallSet == [req : Requests, outcome : Outcomes]
<1>1. calls \in Seq(CallSet) /\ Len(calls) \in Nat
  BY Facts DEF IInv, Types
<1>2. calls' = [calls EXCEPT ![k] = [calls[k] EXCEPT !.outcome = outcome]]
  BY DEF Return
<1> DEFINE c == [calls[k] EXCEPT !.outcome = outcome]
<1>3. c \in CallSet /\ c.req = calls[k].req /\ c.outcome = outcome
  <2>1. calls[k] \in CallSet
    BY <1>1, ElementOfSeq
  <2> QED BY <2>1
<1> HIDE DEF c, CallSet
<1>4. /\ calls' \in Seq(CallSet) /\ Len(calls') = Len(calls) /\ DOMAIN calls' = DOMAIN calls
      /\ \A i \in 1 .. Len(calls) : calls'[i] = IF i = k THEN c ELSE calls[i]
  BY <1>1, <1>2, <1>3, ExceptSeq DEF c
<1>5. \A i \in 1 .. Len(calls) : calls'[i].req = calls[i].req
  BY <1>3, <1>4
<1>6. Asks' = Asks
  BY <1>4, <1>5 DEF Asks
<1> QED BY <1>3, <1>4, <1>5, <1>6 DEF CallSet

(* The answer to a success verifies.                                       *)
LEMMA SuccessVerifies ==
  ASSUME IInv, NEW k \in effects
  PROVE  Verifies(replies[k])
<1>1. replies[k].kind = "result" /\ replies[k].content = Object([ok |-> True])
  BY DEF IInv, History, Succeeded
<1>2. Agrees("rust", "net", "rust", replies[k].content)
  BY <1>1, SuccessIsPlain, PlainValuesAgree
<1> QED BY <1>1, <1>2 DEF Verifies

(* What a return leaves of the history, whoever it is that returns, and    *)
(* whether the read loop has just taken its answer or not.                 *)
LEMMA HistoryReturned ==
  ASSUME IInv, NEW k \in 1 .. Len(calls), NEW outcome \in Outcomes \ {"waiting"},
         Return(k, outcome), UNCHANGED <<replies, effects, shown>>,
         Len(heard') \in Nat, DOMAIN heard' = 1 .. Len(heard'), Len(heard) <= Len(heard'),
         \A i \in 1 .. Len(heard') : i \in 1 .. Len(heard) \/ i = k,
         \A i \in 1 .. Len(heard') : heard'[i] = Up!Payload(i, replies[i].size),
         outcome \in {"result", "error"} => k \in 1 .. Len(heard'),
         k \in effects => outcome # "error"
  PROVE  History'
<1>1. /\ DOMAIN calls' = 1 .. Len(calls) /\ Len(calls) \in Nat
      /\ \A i \in 1 .. Len(calls) :
           /\ calls'[i].req = calls[i].req
           /\ calls'[i].outcome = IF i = k THEN outcome ELSE calls[i].outcome
  BY Facts, ReturnIs
<1>2. /\ DOMAIN replies = 1 .. Len(replies) /\ DOMAIN calls = 1 .. Len(calls)
      /\ DOMAIN heard = 1 .. Len(heard) /\ Len(heard) \in Nat
      /\ effects \subseteq 1 .. Len(replies)
      /\ \A i \in 1 .. Len(replies) : i \in 1 .. Len(calls)
      /\ \A i \in 1 .. Len(heard) : i \in 1 .. Len(replies)
  BY Facts
<1>3. Whole' /\ Known'
  BY <1>1, <1>2 DEF IInv, History, Whole, Known
<1>4. Told'
  <2>1. \A i \in 1 .. Len(heard) : i \in 1 .. Len(heard')
    BY <1>2
  <2> QED BY <1>1, <1>2, <2>1 DEF IInv, History, Told
<1>5. Succeeded'
  <2> SUFFICES ASSUME NEW i \in effects
               PROVE  /\ replies[i].kind = "result"
                      /\ replies[i].content = Object([ok |-> True])
                      /\ calls'[i].outcome # "error"
    BY DEF Succeeded
  <2>1. i \in 1 .. Len(calls)
    BY <1>2
  <2> QED BY <1>1, <2>1 DEF IInv, History, Succeeded
<1>6. PlainNotRefused'
  BY <1>1, <1>2 DEF IInv, History, PlainNotRefused
<1>7. Dropped'
  <2> SUFFICES ASSUME NEW i \in 1 .. Len(heard'), calls'[i].outcome = "waiting"
               PROVE  ~Verifies(replies[i])
    BY DEF Dropped, Verifies
  <2>1. i \in 1 .. Len(heard) \/ i = k
    OBVIOUS
  <2>2. i \in 1 .. Len(calls)
    BY <1>2, <2>1
  <2>3. i # k /\ calls[i].outcome = "waiting"
    BY <1>1, <2>2
  <2> QED BY <1>2, <2>1, <2>3 DEF IInv, History, Dropped
<1>8. ShownAsAsked'
  <2>1. \A i \in effects : calls'[i].req = calls[i].req
    BY <1>1, <1>2
  <2> QED BY <2>1 DEF IInv, History, ShownAsAsked, AsAsked
<1> QED BY <1>3, <1>4, <1>5, <1>6, <1>7, <1>8 DEF History

LEMMA TimerStep ==
  ASSUME IInv, Timer
  PROVE  IInv'
<1>1. PICK k \in DOMAIN calls : calls[k].outcome = "waiting" /\ Return(k, "timeout")
  BY DEF Timer
<1>2. UNCHANGED <<up, upGot, down, downGot, session, replies, heard, effects, shown>>
  BY DEF Timer
<1>3. k \in 1 .. Len(calls) /\ "timeout" \in Outcomes \ {"waiting"}
  BY Facts DEF Outcomes
<1>4. /\ Len(heard) \in Nat /\ DOMAIN heard = 1 .. Len(heard)
      /\ \A i \in 1 .. Len(heard) : heard[i] = Up!Payload(i, replies[i].size)
  BY Facts DEF IInv, History, Whole
<1>5. History'
  BY <1>1, <1>2, <1>3, <1>4, HistoryReturned
<1>6. /\ calls' \in Seq([req : Requests, outcome : Outcomes]) /\ Len(calls') = Len(calls)
      /\ Asks' = Asks
  BY <1>1, <1>3, ReturnIs
<1>7. Types'
  BY <1>2, <1>6 DEF IInv, Types
<1>8. InStep'
  BY <1>2, <1>6 DEF IInv, InStep, Answers, Up!Idle, Down!Idle
<1> QED BY <1>5, <1>7, <1>8 DEF IInv

(* The client reads the next answer, whole, and knows it from all others.  *)
LEMMA ReadAnswer ==
  ASSUME IInv, Down!Complete
  PROVE  /\ session = "open" /\ Len(heard) + 1 \in 1 .. Len(replies)
         /\ Down!Message = Up!Payload(Len(heard) + 1, replies[Len(heard) + 1].size)
         /\ InPipe(<<>>, down, Answers, Len(heard) + 1)
         /\ \A i \in DOMAIN replies :
              Down!Message = Down!Payload(i, replies[i].size) <=> i = Len(heard) + 1
<1> DEFINE n == Len(heard) + 1
<1>1. Len(downGot) >= 4 /\ Len(downGot) >= 4 + Up!FromLE(SubSeq(downGot, 1, 4))
  BY SameFrames DEF Down!Complete, Down!HeaderRead, Down!HeaderSize, Down!Wanted, Down!PayloadLen
<1>2. session = "open"
  <2>1. downGot # <<>>
    BY <1>1
  <2> QED BY <2>1, IdleIs DEF IInv, InStep
<1>3. /\ downGot \in Seq(Bytes) /\ down \in Seq(Bytes)
      /\ InPipe(downGot, down, Answers, Len(heard))
      /\ Answers \in Sizes /\ Len(Answers) = Len(replies)
      /\ Len(heard) \in Nat /\ Len(heard) <= Len(Answers)
  BY <1>2, Facts, SizesAre DEF IInv, Types, InStep
<1>4. /\ Len(heard) < Len(Answers)
      /\ SubSeq(downGot, 5, Len(downGot)) = Up!Payload(Len(heard) + 1, Answers[Len(heard) + 1])
      /\ InPipe(<<>>, down, Answers, Len(heard) + 1)
  BY <1>1, <1>3, PipeTake
<1>5. n \in 1 .. Len(replies)
  BY <1>3, <1>4
<1>6. Answers[n] = replies[n].size
  BY <1>5, SizesAre
<1>7. Down!Message = Up!Payload(n, replies[n].size)
  BY <1>4, <1>6 DEF Down!Message, Down!HeaderSize
<1> HIDE DEF n
<1>8. ASSUME NEW i \in DOMAIN replies
      PROVE  Down!Message = Down!Payload(i, replies[i].size) <=> i = n
  <2>1. /\ i \in Nat /\ n \in Nat
        /\ replies[i].size \in Nat \ {0} /\ replies[n].size \in Nat \ {0}
    BY <1>5, Facts
  <2>2. Down!Payload(i, replies[i].size) = Up!Payload(i, replies[i].size)
    BY SameFrames
  <2> QED BY <1>7, <2>1, <2>2, PayloadTells
<1> QED BY <1>2, <1>4, <1>5, <1>7, <1>8 DEF n

LEMMA ReceiveStep ==
  ASSUME IInv, Receive
  PROVE  IInv'
<1> DEFINE n == Len(heard) + 1
           reply == replies[n]
           outcome == IF reply.kind = "result" THEN "result" ELSE "error"
<1>1. /\ Down!Complete /\ downGot' = <<>> /\ down' = down
      /\ heard' = Append(heard, Down!Message)
      /\ UNCHANGED <<up, upGot, session, replies, effects, shown>>
  BY DEF Receive, Down!Take
<1>2. /\ session = "open" /\ n \in 1 .. Len(replies)
      /\ Down!Message = Up!Payload(n, reply.size)
      /\ InPipe(<<>>, down, Answers, n)
      /\ \A i \in DOMAIN replies : Down!Message = Down!Payload(i, replies[i].size) <=> i = n
  BY <1>1, ReadAnswer
<1>3. /\ Len(heard) \in Nat /\ DOMAIN heard = 1 .. Len(heard) /\ DOMAIN replies = 1 .. Len(replies)
      /\ \A i \in 1 .. Len(replies) : i \in 1 .. Len(calls)
  BY Facts
<1>4. n \in 1 .. Len(calls) /\ n \in DOMAIN replies
  BY <1>2, <1>3
<1>5. /\ heard' \in Seq(Seq(Bytes)) /\ Len(heard') = n /\ DOMAIN heard' = 1 .. n
      /\ heard'[n] = Down!Message /\ \A i \in 1 .. Len(heard) : heard'[i] = heard[i]
  <2>1. Down!Message \in Seq(Bytes)
    <3>1. reply.size \in Nat /\ n \in Nat
      BY <1>2, <1>4, Facts
    <3> HIDE DEF n, reply
    <3> QED BY <1>2, <3>1, FrameIs
  <2>2. heard \in Seq(Seq(Bytes))
    BY DEF IInv, Types
  <2> DEFINE m == Down!Message
  <2> HIDE DEF m
  <2>3. m \in Seq(Bytes) /\ heard' = Append(heard, m)
    BY <1>1, <2>1 DEF m
  <2>4. heard' \in Seq(Seq(Bytes)) /\ Len(heard') = Len(heard) + 1 /\ heard'[Len(heard) + 1] = m
        /\ \A i \in 1 .. Len(heard) : heard'[i] = heard[i]
    BY <2>2, <2>3, AppendProperties
  <2> QED BY <2>4 DEF m
<1> HIDE DEF n, reply, outcome
<1>6. \A i \in 1 .. n : i \in 1 .. Len(heard) \/ i = n
  BY <1>3 DEF n
<1>7. \A i \in 1 .. n : heard'[i] = Up!Payload(i, replies[i].size)
  BY <1>2, <1>3, <1>5, <1>6 DEF reply, IInv, History, Whole
<1>8. Awaited = IF Verifies(reply) /\ calls[reply.to].outcome = "waiting" THEN {n} ELSE {}
  BY <1>2, <1>4 DEF Awaited, reply
<1>9. Verifies(reply) => reply.to = n
  BY <1>4 DEF Verifies, reply, IInv, History, Known
<1>10. Len(heard') <= Len(replies) /\ n \in Nat /\ Len(heard) <= n
  BY <1>2, <1>3, <1>5 DEF n
<1>11. CASE Verifies(reply) /\ calls[n].outcome = "waiting"
  <2>1. Awaited = {n} /\ reply.to = n
    BY <1>8, <1>9, <1>11
  <2>2. Return(n, outcome)
    BY <2>1 DEF Receive, outcome, reply
  <2>3. outcome \in Outcomes \ {"waiting"}
    BY DEF Outcomes, outcome
  <2>4. n \in effects => outcome # "error"
    BY DEF IInv, History, Succeeded, outcome, reply
  <2>5. History'
    BY <1>1, <1>4, <1>5, <1>6, <1>7, <1>10, <2>2, <2>3, <2>4, HistoryReturned
  <2>6. /\ calls' \in Seq([req : Requests, outcome : Outcomes]) /\ Len(calls') = Len(calls)
        /\ Asks' = Asks
    BY <1>4, <2>2, <2>3, ReturnIs
  <2>7. Types'
    BY <1>1, <1>5, <1>10, <2>6, EmptySeq DEF IInv, Types
  <2>8. InStep'
    BY <1>1, <1>2, <1>5, <2>6 DEF IInv, InStep, Answers
  <2> QED BY <2>5, <2>7, <2>8 DEF IInv
<1>12. CASE ~(Verifies(reply) /\ calls[n].outcome = "waiting")
  <2>1. Awaited = {}
    BY <1>8, <1>9, <1>12
  <2>2. calls' = calls
    BY <2>1 DEF Receive
  <2>3. Types'
    BY <1>1, <1>5, <1>10, <2>2, EmptySeq DEF IInv, Types
  <2>4. InStep'
    BY <1>1, <1>2, <1>5, <2>2 DEF IInv, InStep, Asks, Answers
  <2>5. Whole' /\ Known'
    BY <1>1, <1>5, <1>7, <2>2 DEF IInv, History, Whole, Known
  <2>6. Told'
    <3>1. \A i \in 1 .. Len(heard) : i \in 1 .. n
      BY <1>3 DEF n
    <3> QED BY <1>3, <1>5, <2>2, <3>1 DEF IInv, History, Told
  <2>7. Succeeded' /\ PlainNotRefused'
    BY <1>1, <2>2 DEF IInv, History, Succeeded, PlainNotRefused
  <2>8. Dropped'
    <3> SUFFICES ASSUME NEW i \in 1 .. n, calls[i].outcome = "waiting"
                 PROVE  ~Verifies(replies[i])
      BY <1>1, <1>5, <2>2 DEF Dropped, Verifies
    <3>1. CASE i = n
      BY <1>12, <3>1 DEF reply
    <3>2. CASE i \in 1 .. Len(heard)
      BY <1>3, <3>2 DEF IInv, History, Dropped
    <3> QED BY <1>6, <3>1, <3>2
  <2>9. ShownAsAsked'
    BY <1>1, <2>2 DEF IInv, History, ShownAsAsked, AsAsked
  <2> QED BY <2>3, <2>4, <2>5, <2>6, <2>7, <2>8, <2>9 DEF IInv, History
<1> QED BY <1>11, <1>12

LEMMA CallStep ==
  ASSUME IInv, NEW r \in Requests, Call(r)
  PROVE  IInv'
<1> DEFINE n == Len(calls) + 1
           c == [req |-> r, outcome |-> IF session = "open" THEN "waiting" ELSE "broken"]
           CallSet == [req : Requests, outcome : Outcomes]
<1>1. /\ Len(calls) < MaxCalls /\ calls' = Append(calls, c)
      /\ UNCHANGED <<down, downGot, session, replies, heard, effects, shown>>
      /\ IF session = "open" THEN Up!Write(n, r.size) ELSE UNCHANGED <<up, upGot>>
  BY DEF Call
<1>2. c \in CallSet
  BY DEF Outcomes
<1>3. c.req = r /\ c.outcome \in {"waiting", "broken"}
  OBVIOUS
<1>4. calls \in Seq(CallSet) /\ Len(calls) \in Nat
  BY Facts DEF IInv, Types
<1> HIDE DEF c, CallSet
<1>5. /\ calls' \in Seq(CallSet) /\ Len(calls') = n /\ DOMAIN calls' = 1 .. n
      /\ calls'[n] = c
      /\ \A i \in 1 .. Len(calls) : calls'[i] = calls[i]
  BY <1>1, <1>2, <1>4
<1>6. /\ Len(replies) \in Nat /\ DOMAIN replies = 1 .. Len(replies)
      /\ Len(replies) <= Len(calls) /\ effects \subseteq 1 .. Len(replies)
      /\ DOMAIN calls = 1 .. Len(calls)
      /\ \A i \in 1 .. Len(replies) : i \in 1 .. Len(calls)
      /\ \A i \in DOMAIN heard : i \in 1 .. Len(replies)
  BY Facts
<1>7. \A i \in 1 .. Len(replies) : calls'[i] = calls[i]
  BY <1>5, <1>6
<1>8. r.size \in Nat
  BY ExchangeAssumption
<1>9. Asks' = Append(Asks, r.size) /\ Len(Asks) = Len(calls)
  <2>1. /\ Asks' = [i \in 1 .. n |-> calls'[i].req.size]
        /\ Asks \in Seq(Nat) /\ Len(Asks) = Len(calls)
        /\ \A i \in 1 .. Len(calls) : Asks[i] = calls[i].req.size
    BY <1>5, SizesAre DEF Asks, Sizes
  <2>2. \A i \in 1 .. n : calls'[i].req.size = IF i = n THEN r.size ELSE calls[i].req.size
    <3>1. \A i \in 1 .. n : i \in 1 .. Len(calls) \/ i = n
      BY <1>4
    <3>2. n \notin 1 .. Len(calls)
      BY <1>4
    <3> HIDE DEF n
    <3> QED BY <1>3, <1>5, <3>1, <3>2
  <2> DEFINE t == Asks' 
             u == Append(Asks, r.size)
  <2>3. u \in Seq(Nat) /\ Len(u) = n /\ u[n] = r.size /\ \A i \in 1 .. Len(calls) : u[i] = Asks[i]
    BY <1>8, <2>1, AppendProperties
  <2>4. \A i \in 1 .. n : u[i] = IF i = n THEN r.size ELSE calls[i].req.size
    <3>1. \A i \in 1 .. n : i \in 1 .. Len(calls) \/ i = n
      BY <1>4
    <3>2. n \notin 1 .. Len(calls)
      BY <1>4
    <3> HIDE DEF n, u
    <3> QED BY <2>1, <2>3, <3>1, <3>2
  <2>5. u = [i \in 1 .. n |-> u[i]]
    <3>1. DOMAIN u = 1 .. n
      BY <2>3
    <3>2. u = [i \in DOMAIN u |-> u[i]]
      BY <2>3
    <3> HIDE DEF u, n
    <3> QED BY <3>1, <3>2
  <2>6. [i \in 1 .. n |-> calls'[i].req.size] = [i \in 1 .. n |-> u[i]]
    <3> HIDE DEF u, n
    <3> QED BY <2>2, <2>4
  <2> HIDE DEF n
  <2> QED BY <2>1, <2>5, <2>6
<1>10. Types'
  <2>1. Len(calls') <= MaxCalls /\ Len(replies) <= n
    BY <1>1, <1>4, <1>5, <1>6, ExchangeAssumption
  <2>2. up' \in Seq(Bytes) /\ upGot' \in Seq(Bytes)
    <3>1. up \in Seq(Bytes) /\ upGot \in Seq(Bytes)
      BY DEF IInv, Types
    <3>2. n \in Nat
      BY <1>4
    <3> HIDE DEF n
    <3>3. Up!Frame(n, r.size) \in Seq(Bytes)
      BY <1>8, <3>2, FrameIs
    <3>4. up \o Up!Frame(n, r.size) \in Seq(Bytes)
      BY <3>1, <3>3, ConcatProperties
    <3> QED BY <1>1, <3>1, <3>4 DEF Up!Write
  <2> HIDE DEF n
  <2> QED BY <1>1, <1>5, <2>1, <2>2 DEF IInv, Types, CallSet
<1>11. InStep'
  <2>1. CASE session = "open"
    <3>1. upGot' = upGot /\ up' = up \o Up!Frame(Len(Asks) + 1, r.size)
      BY <1>1, <1>9, <2>1 DEF Up!Write
    <3>2. /\ up \in Seq(Bytes) /\ upGot \in Seq(Bytes)
          /\ InPipe(upGot, up, Asks, Len(replies))
          /\ Asks \in Sizes /\ Len(replies) <= Len(Asks)
      BY <1>6, <1>9, <2>1, SizesAre DEF IInv, Types, InStep
    <3>3. InPipe(upGot, up \o Up!Frame(Len(Asks) + 1, r.size), Append(Asks, r.size), Len(replies))
      BY <1>6, <1>8, <3>2, PipeWrite
    <3> QED BY <1>1, <1>9, <2>1, <3>1, <3>3 DEF IInv, InStep, Answers
  <2>2. CASE session # "open"
    BY <1>1, <2>2 DEF IInv, InStep, Up!Idle, Down!Idle
  <2> QED BY <2>1, <2>2
<1>12. Whole' /\ Known'
  BY <1>1, <1>6, <1>7 DEF IInv, History, Whole, Known
<1>13. Told'
  <2> SUFFICES ASSUME NEW i \in 1 .. n, calls'[i].outcome \in {"result", "error"}
               PROVE  i \in DOMAIN heard
    BY <1>1, <1>5 DEF Told
  <2>1. i # n
    BY <1>3, <1>5
  <2>2. i \in 1 .. Len(calls)
    BY <1>4, <2>1
  <2> HIDE DEF n
  <2> QED BY <1>5, <1>6, <2>2 DEF IInv, History, Told
<1>14. Succeeded' /\ PlainNotRefused'
  BY <1>1, <1>6, <1>7 DEF IInv, History, Succeeded, PlainNotRefused
<1>15. Dropped'
  BY <1>1, <1>6, <1>7 DEF IInv, History, Dropped, Verifies
<1>16. ShownAsAsked'
  <2>1. \A k \in effects : calls'[k].req = calls[k].req
    BY <1>6, <1>7
  <2>2. shown' = shown /\ effects' = effects
    BY <1>1
  <2> QED BY <2>1, <2>2 DEF IInv, History, ShownAsAsked, AsAsked
<1> QED BY <1>10, <1>11, <1>12, <1>13, <1>14, <1>15, <1>16 DEF IInv, History

-----------------------------------------------------------------------------
(* The step of the daemon.                                                 *)

Now == Len(replies) + 1
Whose == IF calls[Now].req.size > 0 THEN Now ELSE 0
Request == IF calls[Now].req.size > 0 THEN calls[Now].req ELSE Garbage

(* The daemon reads the next request, whole, and knows it from all others, *)
(* unless it is empty.                                                     *)
LEMMA ReadRequest ==
  ASSUME IInv, Up!Complete
  PROVE  /\ session = "open" /\ Now \in 1 .. Len(calls)
         /\ calls[Now].req \in Requests /\ calls[Now].req.size \in Nat
         /\ Up!Message = Up!Payload(Now, calls[Now].req.size)
         /\ InPipe(<<>>, up, Asks, Now)
         /\ Asked = IF calls[Now].req.size > 0 THEN {Now} ELSE {}
<1>1. Len(upGot) >= 4 /\ Len(upGot) >= 4 + Up!FromLE(SubSeq(upGot, 1, 4))
  BY DEF Up!Complete, Up!HeaderRead, Up!HeaderSize, Up!Wanted, Up!PayloadLen
<1>2. session = "open"
  <2>1. upGot # <<>>
    BY <1>1
  <2> QED BY <2>1, IdleIs DEF IInv, InStep
<1>3. /\ upGot \in Seq(Bytes) /\ up \in Seq(Bytes)
      /\ InPipe(upGot, up, Asks, Len(replies))
      /\ Asks \in Sizes /\ Len(Asks) = Len(calls) /\ Len(calls) \in Nat
      /\ Len(replies) \in Nat /\ Len(replies) <= Len(Asks)
  BY <1>2, Facts, SizesAre DEF IInv, Types, InStep
<1>4. /\ Len(replies) < Len(Asks)
      /\ SubSeq(upGot, 5, Len(upGot)) = Up!Payload(Now, Asks[Now])
      /\ InPipe(<<>>, up, Asks, Now)
  BY <1>1, <1>3, PipeTake DEF Now
<1>5. Now \in 1 .. Len(calls)
  BY <1>3, <1>4 DEF Now
<1>6. calls[Now].req \in Requests /\ Asks[Now] = calls[Now].req.size
  BY <1>5, Facts, SizesAre
<1>7. \A i \in DOMAIN calls : i \in 1 .. Len(calls) /\ calls[i].req.size \in Nat
  <2> TAKE i \in DOMAIN calls
  <2>1. i \in 1 .. Len(calls)
    BY Facts
  <2>2. calls[i].req \in Requests
    BY <2>1, Facts
  <2> QED BY <2>1, <2>2, ExchangeAssumption
<1>8. Now \in DOMAIN calls /\ calls[Now].req.size \in Nat
  <2>1. Now \in DOMAIN calls
    BY <1>5, Facts
  <2> QED BY <1>7, <2>1
<1>9. Up!Message = Up!Payload(Now, calls[Now].req.size)
  BY <1>4, <1>6 DEF Up!Message, Up!HeaderSize
<1>10. Asked = IF calls[Now].req.size > 0 THEN {Now} ELSE {}
  <2>1. CASE calls[Now].req.size > 0
    <3>1. ASSUME NEW i \in DOMAIN calls, calls[i].req.size > 0,
                 Up!Message = Up!Payload(i, calls[i].req.size)
          PROVE  i = Now
      <4>1. i \in Nat /\ Now \in Nat
            /\ calls[i].req.size \in Nat \ {0} /\ calls[Now].req.size \in Nat \ {0}
        BY <1>5, <1>7, <1>8, <2>1, <3>1
      <4>2. Up!Payload(Now, calls[Now].req.size) = Up!Payload(i, calls[i].req.size)
        BY <1>9, <3>1
      <4> QED BY <4>1, <4>2, PayloadTells
    <3> QED BY <1>8, <1>9, <2>1, <3>1 DEF Asked
  <2>2. CASE ~(calls[Now].req.size > 0)
    <3>1. calls[Now].req.size = 0
      BY <1>8, <2>2
    <3>2. Len(Up!Message) = 0
      <4>1. Up!Message = Up!Payload(Now, 0)
        BY <1>9, <3>1
      <4> QED BY <4>1 DEF Up!Payload
    <3>3. ASSUME NEW i \in DOMAIN calls, calls[i].req.size > 0
          PROVE  Up!Message # Up!Payload(i, calls[i].req.size)
      <4>1. i \in Nat /\ calls[i].req.size \in Nat /\ calls[i].req.size # 0
        BY <1>7, <3>3
      <4>2. Len(Up!Payload(i, calls[i].req.size)) = calls[i].req.size
        BY <4>1, FrameIs
      <4> QED BY <3>2, <4>1, <4>2
    <3> QED BY <2>2, <3>3 DEF Asked
  <2> QED BY <2>1, <2>2
<1> QED BY <1>2, <1>4, <1>5, <1>6, <1>8, <1>9, <1>10

LEMMA AnswerIs ==
  ASSUME NEW r \in Asking, NEW stale \in BOOLEAN, NEW outcome \in HandlerOutcomes
  PROVE  /\ Answer(r, stale, outcome).kind \in Kinds
         /\ Answer(r, stale, outcome).content \in Contents
         /\ Answer(r, stale, outcome).size \in Nat \ {0}
         /\ Answer(r, stale, outcome).kind = "auth" => ~Authentic(r)
         /\ r.method = "malformed" => Answer(r, stale, outcome).kind = "parse"
<1>1. Answer(r, stale, outcome).content \in Contents
  BY DEF Contents
<1>2. r.size + 1 \in Nat \ {0}
  BY ExchangeAssumption DEF Asking, Garbage
<1>3. /\ HandleResult(r, outcome).kind \in {"result", "error"}
      /\ HandleResult(r, outcome).size = 1
  BY DEF HandleResult, Result, Refusal
<1>4. /\ Answer(r, stale, outcome).kind \in Kinds
      /\ Answer(r, stale, outcome).size \in {1, r.size + 1}
      /\ Answer(r, stale, outcome).kind = "auth" => ~Authentic(r)
      /\ r.method = "malformed" => Answer(r, stale, outcome).kind = "parse"
  <2> DEFINE Late == stale /\ r.method # "system/ping"
  <2>1. CASE r.method = "malformed"
    BY <2>1 DEF Answer, Refusal, Kinds
  <2>2. CASE r.method # "malformed" /\ ~Authentic(r)
    BY <2>2 DEF Answer, Refusal, Kinds
  <2>3. CASE r.method # "malformed" /\ Authentic(r) /\ Late
    BY <2>3 DEF Answer, Refusal, Kinds
  <2>4. CASE r.method = "system/ping" /\ Authentic(r)
    BY <2>4 DEF Answer, Result, Kinds
  <2>5. CASE r.method = "smtc/setTimeline" /\ Authentic(r) /\ ~Late
    BY <2>5 DEF Answer, Result, Kinds
  <2>6. CASE r.method = "unknown" /\ Authentic(r) /\ ~Late
    BY <2>6 DEF Answer, Result, Refusal, Kinds
  <2>7. CASE /\ r.method \notin {"malformed", "system/ping", "smtc/setTimeline", "unknown"}
             /\ Authentic(r) /\ ~Late
    <3>1. Answer(r, stale, outcome) = HandleResult(r, outcome)
      BY <2>7 DEF Answer
    <3> QED BY <1>3, <2>7, <3>1 DEF Kinds
  <2> QED BY <2>1, <2>2, <2>3, <2>4, <2>5, <2>6, <2>7
<1> QED BY <1>1, <1>2, <1>4

LEMMA PlainAuthentic ==
  ASSUME NEW r \in Requests, PlainValue(r.params)
  PROVE  Authentic(r)
<1>1. r.signer \in {"rust", "net"}
  BY ExchangeAssumption DEF Styles
<1>2. CASE r.signer = "rust"
  BY <1>2 DEF Authentic, Agrees
<1>3. CASE r.signer = "net"
  BY <1>3, PlainValuesAgree DEF Authentic
<1> QED BY <1>1, <1>2, <1>3

(* What handlers do to what is shown.  Clearing by tag does nothing: no    *)
(* toast is of the group that is cleared.                                  *)
TagOf(r) == ToastOf(r.params).tag
Put(r) == [app |-> AppId, group |-> <<>>, tag |-> TagOf(r), face |-> FaceOf(r.params)]
Others(r) == {old \in ToSet(shown) : TagOf(r) = <<>> \/ old.tag # TagOf(r)}

LEMMA ToastsAre ==
  /\ \A r \in Requests : Put(r) \in Toasts
  /\ \A toast \in Toasts : toast.group = <<>>
  /\ AppId # <<>>
<1>1. \A r \in Requests : Put(r) \in Toasts
  BY DEF Put, TagOf, Toasts
<1>2. \A toast \in Toasts : toast.group = <<>>
  BY DEF Toasts
<1>3. AppId # <<>>
  BY DEF AppId
<1> QED BY <1>1, <1>2, <1>3

LEMMA HandlerShows ==
  ASSUME IInv, NEW r \in Requests, NEW stale \in BOOLEAN, NEW outcome,
         Handler(r, stale, outcome)
  PROVE  \/ shown' = shown
         \/ /\ r.method = "toast/show" /\ Authentic(r) /\ ~stale /\ outcome = Ok
            /\ shown' = Append(Keep(shown, Others(r)), Put(r))
<1>0. shown \in Seq(Toasts)
  BY DEF IInv, Types
<1>1. CASE /\ HandleToastShow(r.params, outcome)
           /\ r.method = "toast/show" /\ Authentic(r) /\ ~stale
  <2>1. CASE shown' = shown
    BY <2>1
  <2>2. CASE shown' # shown
    <3>1. Show(ToastOf(r.params), outcome)
      BY <1>1, <2>2 DEF HandleToastShow
    <3>2. /\ outcome = Ok
          /\ shown' = Append(Keep(shown, Others(r)),
                             [app |-> AppId, group |-> <<>>, tag |-> TagOf(r),
                              face |-> Displayed(BuildToastXml(ToastOf(r.params)))])
      BY <2>2, <3>1 DEF Show, Others, TagOf
    <3>3. Displayed(BuildToastXml(ToastOf(r.params))) = FaceOf(r.params)
      BY ExchangeAssumption, ReadsAsAsked
    <3> QED BY <1>1, <3>2, <3>3 DEF Put
  <2> QED BY <2>1, <2>2
<1>2. CASE HandleToastClear(r.params, outcome)
  <2> DEFINE tag == Field(r.params, "tag")
             X == {toast \in ToSet(shown) : ~(toast.group = AppId /\ toast.app = tag)}
  <2>1. shown' = shown \/ shown' = Keep(shown, X)
    BY <1>2 DEF HandleToastClear, ClearByTag, RemoveGroupWithId
  <2>2. X = ToSet(shown)
    <3>1. \A toast \in ToSet(shown) : toast \in Toasts
      BY <1>0 DEF ToSet
    <3> QED BY <3>1, ToastsAre
  <2>3. shown \in Seq(ToSet(shown))
    BY <1>0 DEF ToSet
  <2>4. Keep(shown, ToSet(shown)) = shown
    BY <2>3, KeepAll
  <2> HIDE DEF X
  <2> QED BY <2>1, <2>2, <2>4
<1>3. CASE UNCHANGED shown
  BY <1>3
<1> QED BY <1>1, <1>2, <1>3 DEF Handler

Made(stale, outcome) ==
  [to |-> Whose, bytes |-> Up!Payload(Now, calls[Now].req.size),
   kind |-> Answer(Request, stale, outcome).kind,
   content |-> Answer(Request, stale, outcome).content,
   size |-> Answer(Request, stale, outcome).size]

(* What Handle does to a state of the invariant.                           *)
LEMMA HandleIs ==
  ASSUME IInv, Handle
  PROVE  /\ UNCHANGED <<calls, heard>>
         /\ \E stale \in BOOLEAN, outcome \in HandlerOutcomes :
              /\ Handler(Request, stale, outcome)
              /\ replies' = Append(replies, Made(stale, outcome))
              /\ effects' = IF shown' # shown THEN effects \cup {Whose} ELSE effects
              /\ IF Made(stale, outcome).size <= MaxPayload
                 THEN /\ upGot' = <<>> /\ up' = up
                      /\ down' = down \o Down!Frame(Len(replies) + 1, Made(stale, outcome).size)
                      /\ downGot' = downGot
                      /\ session' = session
                 ELSE HangUp("ended")
<1>1. /\ Asked = IF calls[Now].req.size > 0 THEN {Now} ELSE {}
      /\ Up!Message = Up!Payload(Now, calls[Now].req.size)
      /\ Now # 0
  BY ReadRequest DEF Handle
<1>2. /\ (IF Asked = {} THEN 0 ELSE CHOOSE j \in Asked : TRUE) = Whose
      /\ (IF Whose = 0 THEN Garbage ELSE calls[Whose].req) = Request
  BY <1>1 DEF Whose, Request
<1>3. PICK stale \in BOOLEAN, outcome \in HandlerOutcomes :
        LET k == IF Asked = {} THEN 0 ELSE CHOOSE j \in Asked : TRUE
            r == IF k = 0 THEN Garbage ELSE calls[k].req
            reply == Answer(r, stale, outcome)
        IN  /\ Handler(r, stale, outcome)
            /\ replies' = Append(replies, [to |-> k, bytes |-> Up!Message, kind |-> reply.kind,
                                           content |-> reply.content, size |-> reply.size])
            /\ effects' = IF shown' # shown THEN effects \cup {k} ELSE effects
            /\ IF Up!Fits(reply.size)
               THEN /\ Up!Take
                    /\ Down!Write(Len(replies) + 1, reply.size)
                    /\ UNCHANGED session
               ELSE HangUp("ended")
  BY DEF Handle
<1>4. /\ Handler(Request, stale, outcome)
      /\ replies' = Append(replies, Made(stale, outcome))
      /\ effects' = IF shown' # shown THEN effects \cup {Whose} ELSE effects
      /\ IF Up!Fits(Answer(Request, stale, outcome).size)
         THEN /\ Up!Take
              /\ Down!Write(Len(replies) + 1, Answer(Request, stale, outcome).size)
              /\ UNCHANGED session
         ELSE HangUp("ended")
  BY <1>1, <1>2, <1>3 DEF Made
<1>5. Made(stale, outcome).size = Answer(Request, stale, outcome).size
  BY DEF Made
<1>6. UNCHANGED <<calls, heard>>
  BY DEF Handle
<1> QED BY <1>4, <1>5, <1>6 DEF Up!Fits, Up!Take, Down!Write

LEMMA AppendIs ==
  ASSUME NEW s \in Seq(Nat), NEW size \in Nat
  PROVE  /\ Len(Append(s, size)) = Len(s) + 1 /\ Append(s, size)[Len(s) + 1] = size
         /\ Append(s, size) = [i \in 1 .. Len(s) + 1 |-> Append(s, size)[i]]
         /\ \A i \in 1 .. Len(s) : Append(s, size)[i] = s[i]
<1> DEFINE u == Append(s, size)
<1>1. /\ u \in Seq(Nat) /\ Len(u) = Len(s) + 1 /\ u[Len(s) + 1] = size
      /\ \A i \in 1 .. Len(s) : u[i] = s[i]
  BY AppendProperties
<1> HIDE DEF u
<1>2. u = [i \in 1 .. Len(s) + 1 |-> u[i]]
  BY <1>1
<1> QED BY <1>1, <1>2 DEF u

LEMMA HandleStep ==
  ASSUME IInv, Handle
  PROVE  IInv'
<1> DEFINE n == Now
           r == Request
           asked == calls[n].req
<1>1. /\ session = "open" /\ n \in 1 .. Len(calls)
      /\ asked \in Requests /\ asked.size \in Nat
      /\ InPipe(<<>>, up, Asks, n)
  BY ReadRequest DEF Handle
<1>2. UNCHANGED <<calls, heard>>
  BY HandleIs
<1>3. PICK stale \in BOOLEAN, outcome \in HandlerOutcomes :
        /\ Handler(r, stale, outcome)
        /\ replies' = Append(replies, Made(stale, outcome))
        /\ effects' = IF shown' # shown THEN effects \cup {Whose} ELSE effects
        /\ IF Made(stale, outcome).size <= MaxPayload
           THEN /\ upGot' = <<>> /\ up' = up
                /\ down' = down \o Down!Frame(Len(replies) + 1, Made(stale, outcome).size)
                /\ downGot' = downGot
                /\ session' = session
           ELSE HangUp("ended")
  BY HandleIs
<1> DEFINE new == Made(stale, outcome)
<1>4. /\ Len(replies) \in Nat /\ DOMAIN replies = 1 .. Len(replies)
      /\ Len(heard) \in Nat /\ DOMAIN heard = 1 .. Len(heard) /\ Len(heard) <= Len(replies)
      /\ Len(calls) \in Nat /\ DOMAIN calls = 1 .. Len(calls)
      /\ effects \subseteq 1 .. Len(replies)
      /\ n = Len(replies) + 1
  BY Facts DEF Now
<1>5. /\ r \in Asking
      /\ asked.size > 0 => r = asked /\ Whose = n
      /\ ~(asked.size > 0) => r.method = "malformed" /\ Whose = 0
  BY <1>1 DEF Request, Whose, Asking, Garbage
<1> HIDE DEF r
<1>6. /\ Answer(r, stale, outcome).kind \in Kinds
      /\ Answer(r, stale, outcome).content \in Contents
      /\ Answer(r, stale, outcome).size \in Nat \ {0}
      /\ Answer(r, stale, outcome).kind = "auth" => ~Authentic(r)
      /\ r.method = "malformed" => Answer(r, stale, outcome).kind = "parse"
  BY <1>5, AnswerIs
<1>7. /\ new.to = Whose /\ new.bytes = Up!Payload(n, asked.size)
      /\ new.kind = Answer(r, stale, outcome).kind
      /\ new.content = Answer(r, stale, outcome).content
      /\ new.size = Answer(r, stale, outcome).size
      /\ new = [to |-> new.to, bytes |-> new.bytes, kind |-> new.kind,
                content |-> new.content, size |-> new.size]
  BY DEF Made, r
<1> HIDE DEF new
<1>8. new \in Replies
  <2>1. n \in Nat /\ asked.size \in Nat
    BY <1>1, <1>4
  <2> HIDE DEF n, asked
  <2>2. Up!Payload(n, asked.size) \in Seq(Bytes)
    BY <2>1, FrameIs
  <2>3. new.to \in Nat
    BY <1>5, <1>7, <2>1
  <2> QED BY <1>6, <1>7, <2>2, <2>3 DEF Replies
<1>9. /\ replies \in Seq(Replies) /\ replies' \in Seq(Replies) /\ Len(replies') = n
      /\ DOMAIN replies' = 1 .. n
      /\ replies'[n] = new /\ \A i \in 1 .. Len(replies) : replies'[i] = replies[i]
  <2>1. replies \in Seq(Replies)
    BY DEF IInv, Types
  <2>2. replies' = Append(replies, new)
    BY <1>3 DEF new
  <2> HIDE DEF n
  <2> QED BY <1>4, <1>8, <2>1, <2>2, AppendProperties
<1> HIDE DEF n, asked
<1>10. \A i \in 1 .. n : i \in 1 .. Len(replies) \/ i = n
  BY <1>4
<1>11. n \notin effects /\ n \notin 1 .. Len(heard)
  BY <1>4
(* Who came to an effect is answered with a success.                       *)
<1>12. \/ shown' = shown /\ effects' = effects
       \/ /\ asked.method = "toast/show" /\ outcome = Ok /\ asked.size > 0
          /\ shown' = Append(Keep(shown, Others(asked)), Put(asked))
          /\ effects' = effects \cup {n}
          /\ new.kind = "result" /\ new.content = Object([ok |-> True])
  <2>1. CASE asked.size > 0
    <3>1. r = asked /\ Whose = n
      BY <1>5, <2>1
    <3>2. \/ shown' = shown
          \/ /\ r.method = "toast/show" /\ Authentic(r) /\ ~stale /\ outcome = Ok
             /\ shown' = Append(Keep(shown, Others(r)), Put(r))
      BY <1>1, <1>3, <3>1, HandlerShows
    <3>3. CASE shown' # shown
      <4>1. Answer(r, stale, outcome) = HandleResult(r, Ok)
        BY <3>2, <3>3 DEF Answer
      <4>2. HandleResult(r, Ok) = Result(Object([ok |-> True]))
        BY DEF HandleResult, Ok
      <4>3. /\ Result(Object([ok |-> True])).kind = "result"
            /\ Result(Object([ok |-> True])).content = Object([ok |-> True])
        BY DEF Result
      <4> QED BY <1>3, <1>7, <2>1, <3>1, <3>2, <3>3, <4>1, <4>2, <4>3
    <3>4. CASE shown' = shown
      BY <1>3, <3>4
    <3> QED BY <3>3, <3>4
  <2>2. CASE ~(asked.size > 0)
    <3>1. shown' = shown
      BY <1>3, <1>5, <2>2 DEF Handler
    <3> QED BY <1>3, <3>1
  <2> QED BY <2>1, <2>2
(* The pipes.                                                              *)
<1>13. \A i \in DOMAIN replies' : i = n \/ (i \in DOMAIN replies /\ replies'[i] = replies[i])
  BY <1>4, <1>9, <1>10
<1>14. /\ up' \in Seq(Bytes) /\ upGot' \in Seq(Bytes)
       /\ down' \in Seq(Bytes) /\ downGot' \in Seq(Bytes)
       /\ session' \in {"open", "ended"}
       /\ InStep'
  <2>1. CASE new.size <= MaxPayload
    <3>1. /\ upGot' = <<>> /\ up' = up /\ downGot' = downGot /\ session' = "open"
          /\ down' = down \o Up!Frame(Len(Answers) + 1, new.size)
      BY <1>1, <1>3, <2>1, SameFrames, SizesAre DEF new
    <3>2. /\ down \in Seq(Bytes) /\ downGot \in Seq(Bytes) /\ up \in Seq(Bytes)
          /\ InPipe(downGot, down, Answers, Len(heard))
          /\ \A i \in DOMAIN replies : replies[i].size <= MaxPayload
          /\ Answers \in Sizes /\ Len(Answers) = Len(replies)
      BY <1>1, SizesAre DEF IInv, Types, InStep
    <3>3. new.size \in Nat
      BY <1>6, <1>7
    <3>4. /\ down' \in Seq(Bytes)
          /\ InPipe(downGot, down', Append(Answers, new.size), Len(heard))
      BY <1>4, <3>1, <3>2, <3>3, PipeWrite
    <3>5. Answers' = Append(Answers, new.size)
      <4>1. \A s \in Seq(Nat), size \in Nat :
              /\ Len(Append(s, size)) = Len(s) + 1 /\ Append(s, size)[Len(s) + 1] = size
              /\ Append(s, size) = [i \in 1 .. Len(s) + 1 |-> Append(s, size)[i]]
              /\ \A i \in 1 .. Len(s) : Append(s, size)[i] = s[i]
        BY AppendIs
      <4>2. /\ Answers \in Seq(Nat) /\ Len(Answers) + 1 = n
            /\ \A i \in 1 .. Len(replies) : Answers[i] = replies[i].size
        BY <1>4, SizesAre
      <4>3. Answers' = [i \in 1 .. n |-> replies'[i].size]
        BY <1>9 DEF Answers
      <4> DEFINE u == Append(Answers, new.size)
      <4>4. /\ u[n] = new.size /\ u = [i \in 1 .. n |-> u[i]]
            /\ \A i \in 1 .. Len(replies) : u[i] = Answers[i]
        BY <1>4, <3>3, <4>1, <4>2
      <4> HIDE DEF u
      <4>5. \A i \in 1 .. n : replies'[i].size = u[i]
        BY <1>9, <1>10, <4>2, <4>4
      <4>6. [i \in 1 .. n |-> replies'[i].size] = [i \in 1 .. n |-> u[i]]
        BY <4>5
      <4> QED BY <4>3, <4>4, <4>6 DEF u
    <3>6. Asks' = Asks
      BY <1>2 DEF Asks
    <3>7. InPipe(upGot', up', Asks', Len(replies'))
      BY <1>1, <1>9, <3>1, <3>6
    <3>8. \A i \in DOMAIN replies' : replies'[i].size <= MaxPayload
      BY <1>9, <1>13, <2>1, <3>2
    <3>9. InStep'
      BY <1>2, <3>1, <3>4, <3>5, <3>7, <3>8 DEF InStep
    <3> QED BY <3>1, <3>2, <3>4, <3>9, EmptySeq
  <2>2. CASE ~(new.size <= MaxPayload)
    <3>1. HangUp("ended")
      BY <1>3, <2>2 DEF new
    <3>2. <<>> \in Seq(Bytes)
      OBVIOUS
    <3>3. /\ session' = "ended" /\ up' = <<>> /\ upGot' = <<>> /\ down' = <<>> /\ downGot' = <<>>
      BY <3>1 DEF HangUp
    <3>4. InStep'
      BY <3>3 DEF InStep, Up!Idle, Down!Idle
    <3> QED BY <3>2, <3>3, <3>4
  <2> QED BY <2>1, <2>2
<1>15. Types'
  <2>1. effects' \subseteq DOMAIN replies'
    <3>1. \A i \in 1 .. Len(replies) : i \in 1 .. n
      BY <1>4
    <3>2. n \in 1 .. n
      BY <1>4
    <3> QED BY <1>4, <1>9, <1>12, <3>1, <3>2
  <2>2. shown' \in Seq(Toasts)
    <3>1. shown \in Seq(Toasts) /\ Put(asked) \in Toasts
      BY <1>1, ToastsAre DEF IInv, Types
    <3>2. Keep(shown, Others(asked)) \in Seq(Toasts)
      BY <3>1, KeptToasts
    <3>3. Append(Keep(shown, Others(asked)), Put(asked)) \in Seq(Toasts)
      BY <3>1, <3>2, AppendProperties
    <3> QED BY <1>12, <3>1, <3>3
  <2>3. n <= Len(calls) /\ Len(heard) <= n
    BY <1>1, <1>4
  <2> QED BY <1>2, <1>9, <1>14, <2>1, <2>2, <2>3 DEF IInv, Types
<1>16. Whole'
  <2>1. \A i \in DOMAIN heard : i \in DOMAIN replies /\ replies'[i] = replies[i]
    BY <1>4, <1>9
  <2>2. calls[n].req = asked
    BY DEF asked
  <2>3. \A i \in DOMAIN replies' : replies'[i].bytes = Up!Payload(i, calls[i].req.size)
    BY <1>7, <1>9, <1>13, <2>2 DEF IInv, History, Whole
  <2> QED BY <1>2, <2>1, <2>3 DEF IInv, History, Whole
<1>17. Known'
  <2>1. Whose = n \/ (Whose = 0 /\ new.kind = "parse")
    BY <1>5, <1>6, <1>7
  <2> QED BY <1>7, <1>9, <1>13, <2>1 DEF IInv, History, Known
<1>18. Told'
  BY <1>2 DEF IInv, History, Told
<1>19. Succeeded'
  <2> SUFFICES ASSUME NEW k \in effects'
               PROVE  /\ replies'[k].kind = "result"
                      /\ replies'[k].content = Object([ok |-> True])
                      /\ calls[k].outcome # "error"
    BY <1>2 DEF Succeeded
  <2>1. CASE k = n
    <3>1. calls[n].outcome # "error"
      BY <1>1, <1>4, <1>11 DEF IInv, History, Told
    <3> QED BY <1>9, <1>11, <1>12, <2>1, <3>1
  <2>2. CASE k # n
    <3>1. k \in effects /\ k \in 1 .. Len(replies)
      BY <1>4, <1>12, <2>2
    <3> QED BY <1>9, <3>1 DEF IInv, History, Succeeded
  <2> QED BY <2>1, <2>2
<1>20. PlainNotRefused'
  <2> SUFFICES ASSUME NEW i \in DOMAIN replies', PlainValue(calls[i].req.params)
               PROVE  replies'[i].kind # "auth"
    BY <1>2 DEF PlainNotRefused
  <2>1. CASE i = n
    <3>1. PlainValue(asked.params)
      BY <2>1 DEF asked
    <3>2. Authentic(asked)
      BY <1>1, <3>1, PlainAuthentic
    <3> QED BY <1>5, <1>6, <1>7, <1>9, <2>1, <3>2
  <2>2. CASE i \in DOMAIN replies /\ replies'[i] = replies[i]
    BY <2>2 DEF IInv, History, PlainNotRefused
  <2> QED BY <1>13, <2>1, <2>2
<1>21. Dropped'
  <2>1. \A i \in DOMAIN heard : replies'[i] = replies[i]
    BY <1>4, <1>9
  <2> QED BY <1>2, <2>1 DEF IInv, History, Dropped, Verifies
<1>22. ShownAsAsked'
  <2>1. CASE shown' = shown /\ effects' = effects
    BY <1>2, <2>1 DEF IInv, History, ShownAsAsked, AsAsked
  <2>2. CASE /\ asked.method = "toast/show"
             /\ shown' = Append(Keep(shown, Others(asked)), Put(asked))
             /\ effects' = effects \cup {n}
    <3>1. ToSet(shown') \subseteq (ToSet(shown) \cap Others(asked)) \cup {Put(asked)}
      <4>1. Keep(shown, Others(asked)) \in Seq(Toasts)
            /\ ToSet(Keep(shown, Others(asked))) \subseteq ToSet(shown) \cap Others(asked)
        BY KeptToasts DEF IInv, Types
      <4>2. \A s \in Seq(Toasts) : \A t : ToSet(Append(s, t)) \subseteq ToSet(s) \cup {t}
        BY DEF ToSet
      <4> QED BY <2>2, <4>1, <4>2
    <3>2. calls[n].req = asked
      BY DEF asked
    <3> SUFFICES ASSUME NEW toast \in ToSet(shown') PROVE AsAsked(toast)'
      BY DEF ShownAsAsked
    <3>3. CASE toast = Put(asked)
      <4>1. toast.tag = ToastOf(calls[n].req.params).tag /\ toast.face = FaceOf(calls[n].req.params)
        BY <3>2, <3>3 DEF Put, TagOf
      <4>2. \A j \in effects' : ~(j > n)
        BY <1>4, <2>2
      <4> QED BY <1>2, <2>2, <3>2, <4>1, <4>2 DEF AsAsked
    <3>4. CASE toast \in ToSet(shown) /\ toast \in Others(asked)
      <4>1. PICK k \in effects :
              /\ calls[k].req.method = "toast/show"
              /\ ToastOf(calls[k].req.params).tag = toast.tag
              /\ FaceOf(calls[k].req.params) = toast.face
              /\ toast.tag # <<>> =>
                   \A j \in effects : j > k => ToastOf(calls[j].req.params).tag # toast.tag
        BY <3>4 DEF IInv, History, ShownAsAsked, AsAsked
      <4>2. toast.tag # <<>> => ToastOf(calls[n].req.params).tag # toast.tag
        BY <3>2, <3>4 DEF Others, TagOf
      <4>3. toast.tag # <<>> =>
              \A j \in effects' : j > k => ToastOf(calls[j].req.params).tag # toast.tag
        BY <2>2, <4>1, <4>2
      <4> QED BY <1>2, <2>2, <4>1, <4>3 DEF AsAsked
    <3> QED BY <3>1, <3>3, <3>4
  <2> QED BY <1>12, <2>1, <2>2
<1> QED BY <1>15, <1>14, <1>16, <1>17, <1>18, <1>19, <1>20, <1>21, <1>22 DEF IInv, History

-----------------------------------------------------------------------------
(* The theorems.                                                           *)

LEMMA Start == Init => IInv
<1> SUFFICES ASSUME Init PROVE IInv
  OBVIOUS
<1> USE DEF Init
<1>1. Types
  BY ExchangeAssumption DEF Types
<1>2. InStep
  <2>1. Asks = <<>> /\ Answers = <<>> /\ <<>> \in Seq(Nat) /\ Len(<<>>) = 0
    BY DEF Asks, Answers
  <2>2. Ahead(<<>>, 0) = <<>>
    <3>1. 0 \in Nat /\ 0 <= Len(<<>>) /\ 0 = Len(<<>>)
      BY <2>1
    <3> QED BY <2>1, <3>1, AheadIs
  <2>3. <<>> \o <<>> = <<>>
    OBVIOUS
  <2> QED BY <2>1, <2>2, <2>3 DEF InStep, InPipe
<1>3. Whole /\ Known /\ Told /\ PlainNotRefused /\ Dropped
  BY DEF Whole, Known, Told, PlainNotRefused, Dropped
<1>4. Succeeded
  BY DEF Succeeded
<1>5. ShownAsAsked
  BY DEF ShownAsAsked, ToSet
<1> QED BY <1>1, <1>2, <1>3, <1>4, <1>5 DEF IInv, History

LEMMA Stutter == IInv /\ UNCHANGED vars => IInv'
<1> SUFFICES ASSUME IInv, UNCHANGED vars PROVE IInv'
  OBVIOUS
<1> USE DEF vars
<1>1. Types'
  BY DEF IInv, Types
<1>2. InStep'
  BY DEF IInv, InStep, Asks, Answers, Up!Idle, Down!Idle
<1> QED BY <1>1, <1>2, HistoryKept DEF IInv

(* In every reachable state the bytes of a direction are the frames of the *)
(* calls that are not done, in their order, and the histories fit them.    *)
THEOREM InductiveInvariant == Spec => []IInv
<1>1. IInv /\ [Next]_vars => IInv'
  <2> SUFFICES ASSUME IInv, [Next]_vars PROVE IInv'
    OBVIOUS
  <2>1. ASSUME NEW r \in Requests, Call(r) PROVE IInv'
    BY <2>1, CallStep
  <2>2. ASSUME NEW n \in 1 .. Up!HeaderSize + MaxPayload, ReadUp(n) PROVE IInv'
    BY <2>2, ReadUpStep
  <2>3. ASSUME NEW n \in 1 .. Up!HeaderSize + MaxPayload, ReadDown(n) PROVE IInv'
    BY <2>3, ReadDownStep
  <2>4. CASE RefuseFrame
    BY <2>4, RefuseFrameStep
  <2>5. CASE Handle
    BY <2>5, HandleStep
  <2>6. CASE Receive
    BY <2>6, ReceiveStep
  <2>7. CASE Timer
    BY <2>7, TimerStep
  <2>8. CASE Lose
    BY <2>8, LoseStep
  <2>9. CASE Dismiss
    BY <2>9, DismissStep
  <2>10. CASE UNCHANGED vars
    BY <2>10, Stutter
  <2> QED BY <2>1, <2>2, <2>3, <2>4, <2>5, <2>6, <2>7, <2>8, <2>9, <2>10 DEF Next
<1> QED BY <1>1, Start, PTL DEF Spec

(* The outcomes of calls and the kinds of answers are what they may be,    *)
(* effects are those of calls, and nothing is left in the pipes of a       *)
(* session that is over.                                                   *)
THEOREM TypeCorrect == Spec => []TypeOK
<1>1. IInv => TypeOK
  <2> SUFFICES ASSUME IInv PROVE TypeOK
    OBVIOUS
  <2>1. \A i \in DOMAIN replies :
          replies[i].kind \in {"result", "error", "auth", "stale", "parse"}
    BY Facts DEF Kinds
  <2>2. effects \subseteq DOMAIN calls
    BY Facts
  <2>3. session # "open" => Up!Idle /\ Down!Idle
    BY DEF IInv, InStep
  <2> QED BY <2>1, <2>2, <2>3 DEF TypeOK, IInv, Types
<1> QED BY <1>1, InductiveInvariant, PTL

(* read_frame and ReadFrameAsync: however the pipes cut the frames and     *)
(* however many are in them, the daemon works on the n-th request and the  *)
(* client takes the n-th answer, both whole, and the client's limits       *)
(* refuse no frame of the daemon.                                          *)
THEOREM Intact == Spec => []FramesIntact
<1>1. IInv => FramesIntact
  BY NotRefused, SameFrames DEF FramesIntact, IInv, History, Whole
<1> QED BY <1>1, InductiveInvariant, PTL

(* VerifyResponseHmac drops answers it cannot verify, but while its caller *)
(* waits never that of a call that had an effect, and of no such call an   *)
(* error is told.  When the timer fires is left open.                      *)
THEOREM Effects == Spec => []EffectsReported
<1>1. IInv => EffectsReported
  <2> SUFFICES ASSUME IInv, NEW k \in effects
               PROVE  calls[k].outcome # "error" /\ ~LeftToTimer(k)
    BY DEF EffectsReported
  <2>1. Verifies(replies[k])
    BY SuccessVerifies
  <2> QED BY <2>1 DEF LeftToTimer, IInv, History, Succeeded, Dropped
<1> QED BY <1>1, InductiveInvariant, PTL

(* build_toast_xml and show: every toast on the screen reads as the last   *)
(* call with its tag asked, for texts of any length.                       *)
THEOREM Shown == Spec => []ShownAsAsked
<1>1. IInv => ShownAsAsked
  BY DEF IInv, History
<1> QED BY <1>1, InductiveInvariant, PTL

(* verify_request_hmac and VerifyResponseHmac: a plain request is not      *)
(* refused as a forgery, and an answer a caller waits for is dropped only  *)
(* when it is not plain.                                                   *)
THEOREM Plain == Spec => []PlainCallsAnswered
<1>1. IInv => PlainCallsAnswered
  <2> SUFFICES ASSUME IInv, NEW i \in DOMAIN replies
               PROVE  /\ PlainValue(calls[i].req.params) => replies[i].kind # "auth"
                      /\ LeftToTimer(i) =>
                           replies[i].kind = "parse" \/ ~PlainValue(replies[i].content)
    BY DEF PlainCallsAnswered
  <2>1. PlainValue(calls[i].req.params) => replies[i].kind # "auth"
    BY DEF IInv, History, PlainNotRefused
  <2>2. ASSUME LeftToTimer(i), PlainValue(replies[i].content)
        PROVE  replies[i].kind = "parse"
    <3>1. ~Verifies(replies[i])
      BY <2>2 DEF LeftToTimer, IInv, History, Dropped
    <3>2. Agrees("rust", "net", "rust", replies[i].content)
      BY <2>2, PlainValuesAgree
    <3> QED BY <3>1, <3>2 DEF Verifies
  <2> QED BY <2>1, <2>2
<1> QED BY <1>1, InductiveInvariant, PTL

=============================================================================
