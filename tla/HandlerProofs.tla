--------------------------- MODULE HandlerProofs ---------------------------
(***************************************************************************)
(* Theorems about Routing, about RoundRobin and about Handler, which       *)
(* composes them: for every set of segments, every depth of a path and     *)
(* every table of routes without a last slash, every number of backends    *)
(* and every size of the counter that this number divides.                 *)
(*                                                                         *)
(* The text of a path is built by a fold, so what it looks like is proved  *)
(* by induction on the number of segments.                                 *)
(***************************************************************************)
EXTENDS Handler, FoldLemmas

-----------------------------------------------------------------------------
(***************************************************************************)
(* Text: where the segments are.                                           *)
(***************************************************************************)
\* The elements of a text.
Bytes == STRING \cup {"/"}

LEMMA PathTypes ==
    ASSUME NEW p \in Paths \cup {NoRoute}
    PROVE  /\ p.segs \in Seq(Segments) /\ p.slash \in BOOLEAN
           /\ Len(p.segs) \in Nat
           /\ \A i \in 1 .. Len(p.segs) :
                /\ p.segs[i] \in Seq(Bytes) /\ Len(p.segs[i]) \in Nat \ {0}
                /\ \A j \in 1 .. Len(p.segs[i]) : p.segs[i][j] # "/"
<1>1. ASSUME NEW s \in Depths PROVE s \in Seq(Segments)
  BY RoutingAssumption DEF Depths
<1>2. <<>> \in Seq(Segments)
  OBVIOUS
<1>3. p.segs \in Seq(Segments) /\ p.slash \in BOOLEAN
  <2>1. CASE p = NoRoute
    BY <1>2, <2>1 DEF NoRoute
  <2>2. CASE p \in Paths
    <3>1. PICK s \in Depths, b \in BOOLEAN : p = [segs |-> s, slash |-> b]
      BY <2>2 DEF Paths
    <3>. QED
      BY <1>1, <3>1
  <2>. QED
    BY <2>1, <2>2
<1>4. ASSUME NEW i \in 1 .. Len(p.segs)
      PROVE  /\ p.segs[i] \in Seq(Bytes) /\ Len(p.segs[i]) \in Nat \ {0}
             /\ \A j \in 1 .. Len(p.segs[i]) : p.segs[i][j] # "/"
  <2>1. p.segs[i] \in Segments
    BY <1>3
  <2>2. /\ p.segs[i] \in Seq(Bytes) /\ p.segs[i] # <<>> /\ "/" \notin Range(p.segs[i])
    <3>1. p.segs[i] \in Seq(STRING) /\ p.segs[i] # <<>> /\ "/" \notin Range(p.segs[i])
      BY <2>1, RoutingAssumption
    <3>. QED
      BY <3>1, SeqMonotonic DEF Bytes
  <2>3. Len(p.segs[i]) \in Nat \ {0} /\ DOMAIN p.segs[i] = 1 .. Len(p.segs[i])
    BY <2>2, EmptySeq, LenProperties
  <2>4. ASSUME NEW j \in 1 .. Len(p.segs[i]) PROVE p.segs[i][j] \in Range(p.segs[i])
    BY <2>3 DEF Range
  <2>. QED
    BY <2>2, <2>3, <2>4
<1>. QED
  BY <1>3, <1>4

\* Text(p) is the segments one after the other, each behind a slash, and the
\* last slash if there is one.
LEMMA TextSteps ==
    ASSUME NEW p \in Paths \cup {NoRoute}
    PROVE  \E g \in [0 .. Len(p.segs) -> Seq(Bytes)] :
             /\ g[0] = <<>>
             /\ \A i \in 1 .. Len(p.segs) : g[i] = g[i - 1] \o (<<"/">> \o p.segs[i])
             /\ Text(p) = g[Len(p.segs)] \o (IF p.slash THEN <<"/">> ELSE <<>>)
<1>. DEFINE n == Len(p.segs)
            piece == [i \in 1 .. n |-> <<"/">> \o p.segs[i]]
<1>0. n \in Nat /\ \A i \in 1 .. n : p.segs[i] \in Seq(Bytes)
  BY PathTypes
<1>1. ASSUME NEW i \in 1 .. n PROVE <<"/">> \o p.segs[i] \in Seq(Bytes)
  <2>1. <<"/">> \in Seq(Bytes)
    BY DEF Bytes
  <2>. QED
    BY <1>0, <2>1, ConcatProperties
<1>2. piece \in Seq(Seq(Bytes)) /\ Len(piece) = n
  BY <1>0, <1>1
<1>3. Text(p) = FlattenSeq(piece) \o (IF p.slash THEN <<"/">> ELSE <<>>)
  BY DEF Text
<1>4. \A i \in 1 .. n : piece[i] = <<"/">> \o p.segs[i] /\ piece[i] \in Seq(Bytes)
  BY <1>1
<1>. HIDE DEF piece
<1>5. CASE n = 0
  <2>1. FlattenSeq(piece) = piece /\ piece = <<>>
    BY <1>2, <1>5 DEF FlattenSeq
  <2>. DEFINE g == [i \in 0 .. n |-> <<>>]
  <2>2. g \in [0 .. n -> Seq(Bytes)] /\ g[0] = <<>> /\ g[n] = <<>>
    BY <1>5
  <2>3. Text(p) = g[n] \o (IF p.slash THEN <<"/">> ELSE <<>>)
    BY <1>3, <2>1, <2>2
  <2>4. \A i \in 1 .. n : g[i] = g[i - 1] \o (<<"/">> \o p.segs[i])
    BY <1>5
  <2>. HIDE DEF g
  <2>. QED
    BY <2>2, <2>3, <2>4
<1>6. CASE n # 0
  <2>1. piece # <<>>
    BY <1>0, <1>2, <1>6
  <2>2. PICK f \in [1 .. n -> Seq(Bytes)] :
          IsFold(f, piece, n) /\ FlattenSeq(piece) = f[n]
    BY <1>2, <2>1, FlattenIsFold
  <2>. DEFINE g == [i \in 0 .. n |-> IF i = 0 THEN <<>> ELSE f[i]]
  <2>3. /\ g \in [0 .. n -> Seq(Bytes)] /\ g[0] = <<>> /\ g[n] = f[n]
        /\ \A i \in 1 .. n : g[i] = f[i]
    <3>1. \A i \in 1 .. n : i \in 0 .. n /\ i # 0
      BY <1>0
    <3>2. n \in 1 .. n /\ 0 \in 0 .. n
      BY <1>0, <1>6
    <3>3. \A i \in 0 .. n : i # 0 => i \in 1 .. n
      BY <1>0
    <3>4. <<>> \in Seq(Bytes)
      OBVIOUS
    <3>. QED
      BY <2>2, <3>1, <3>2, <3>3, <3>4
  <2>. HIDE DEF g
  <2>4. ASSUME NEW i \in 1 .. n PROVE g[i] = g[i - 1] \o (<<"/">> \o p.segs[i])
    <3>1. g[i] = IF i = 1 THEN piece[i] ELSE f[i - 1] \o piece[i]
      BY <2>2, <2>3 DEF IsFold
    <3>2. CASE i = 1
      <4>1. g[i] = piece[i] /\ g[i - 1] = <<>>
        BY <2>3, <3>1, <3>2
      <4>2. <<>> \o piece[i] = piece[i]
        BY <1>4, ConcatEmptySeq
      <4>. QED
        BY <1>4, <4>1, <4>2
    <3>3. CASE i # 1
      <4>1. i - 1 \in 1 .. n
        BY <1>0, <3>3
      <4>. QED
        BY <1>4, <2>3, <3>1, <3>3, <4>1
    <3>. QED
      BY <3>2, <3>3
  <2>5. Text(p) = g[n] \o (IF p.slash THEN <<"/">> ELSE <<>>)
    BY <1>3, <2>2, <2>3
  <2>. QED
    BY <2>3, <2>4, <2>5
<1>. QED
  BY <1>5, <1>6

\* Segment i of p, behind its slash, ends at o[i].
Layout(p, o) ==
    /\ o \in [0 .. Len(p.segs) -> Nat] /\ o[0] = 0
    /\ \A i \in 1 .. Len(p.segs) : o[i] = o[i - 1] + 1 + Len(p.segs[i])

\* x is the place of the slash of segment i or of one of its bytes.
Within(x, p, o, i) == x = o[i - 1] + 1 \/ \E j \in 1 .. Len(p.segs[i]) : x = o[i - 1] + 1 + j

\* The first m segments of p are the text t up to o[m].
LaidOut(t, p, o, m) ==
    /\ \A i \in 1 .. m :
         /\ t[o[i - 1] + 1] = "/"
         /\ \A j \in 1 .. Len(p.segs[i]) : t[o[i - 1] + 1 + j] = p.segs[i][j]
    /\ \A i \in 0 .. m : o[i] <= o[m]
    /\ \A x \in 1 .. o[m] : \E i \in 1 .. m : Within(x, p, o, i)

\* A text that only grows at its end keeps its segments.
LEMMA LayoutGrows ==
    ASSUME NEW p \in Paths \cup {NoRoute}, NEW o, Layout(p, o),
           NEW m \in 0 .. Len(p.segs), NEW t, NEW u, LaidOut(t, p, o, m),
           \A x \in 1 .. o[m] : u[x] = t[x]
    PROVE  LaidOut(u, p, o, m)
<1>0. Len(p.segs) \in Nat
  BY PathTypes
<1>1. ASSUME NEW i \in 1 .. m
      PROVE  /\ u[o[i - 1] + 1] = "/"
             /\ \A j \in 1 .. Len(p.segs[i]) : u[o[i - 1] + 1 + j] = p.segs[i][j]
  <2>1. /\ i \in 1 .. Len(p.segs) /\ i \in 0 .. Len(p.segs) /\ i \in 0 .. m
        /\ i - 1 \in 0 .. Len(p.segs)
    BY <1>0
  <2>2. /\ o[i - 1] \in Nat /\ o[i] \in Nat /\ o[m] \in Nat /\ o[i] <= o[m]
        /\ o[i] = o[i - 1] + 1 + Len(p.segs[i]) /\ Len(p.segs[i]) \in Nat
    <3>1. Len(p.segs[i]) \in Nat
      BY <2>1, PathTypes
    <3>2. o[i] <= o[m]
      BY <2>1 DEF LaidOut
    <3>3. /\ o[i - 1] \in Nat /\ o[i] \in Nat /\ o[m] \in Nat
          /\ o[i] = o[i - 1] + 1 + Len(p.segs[i])
      BY <2>1 DEF Layout
    <3>. QED
      BY <3>1, <3>2, <3>3
  <2>3. o[i - 1] + 1 \in 1 .. o[m]
    BY <2>2
  <2>4. ASSUME NEW j \in 1 .. Len(p.segs[i])
        PROVE  o[i - 1] + 1 + j \in 1 .. o[m]
    <3>1. PICK a \in Nat, b \in Nat, c \in Nat :
            a = o[i - 1] /\ b = Len(p.segs[i]) /\ c = o[m]
      BY <2>2
    <3>2. a + 1 + b <= c /\ j \in 1 .. b
      BY <2>2, <3>1
    <3>3. a + 1 + j \in 1 .. c
      BY <3>2
    <3>. QED
      BY <3>1, <3>3
  <2>. QED
    BY <2>3, <2>4 DEF LaidOut
<1>. QED
  BY <1>1 DEF LaidOut

\* Where the next segment comes to stand.
LEMMA PieceAt ==
    ASSUME NEW t \in Seq(Bytes), NEW s \in Seq(Bytes)
    PROVE  LET u == t \o (<<"/">> \o s)
           IN  /\ \A x \in 1 .. Len(t) : u[x] = t[x]
               /\ u[Len(t) + 1] = "/"
               /\ \A j \in 1 .. Len(s) : u[Len(t) + 1 + j] = s[j]
<1>. DEFINE v == <<"/">> \o s
            u == t \o v
<1>1. <<"/">> \in Seq(Bytes) /\ Len(<<"/">>) = 1 /\ Len(s) \in Nat /\ Len(t) \in Nat
  BY DEF Bytes
<1>2. v \in Seq(Bytes) /\ Len(v) = 1 + Len(s)
  BY <1>1, ConcatProperties
<1>3. /\ \A x \in 1 .. 1 : v[x] = <<"/">>[x]
      /\ \A x \in 1 .. Len(s) : v[1 + x] = s[x]
  BY <1>1, ConcatParts
<1>. HIDE DEF v
<1>4. /\ \A x \in 1 .. Len(t) : u[x] = t[x]
      /\ \A x \in 1 .. Len(v) : u[Len(t) + x] = v[x]
  BY <1>2, ConcatParts
<1>. HIDE DEF u
<1>5. u[Len(t) + 1] = "/"
  BY <1>1, <1>2, <1>3, <1>4
<1>6. ASSUME NEW j \in 1 .. Len(s) PROVE u[Len(t) + 1 + j] = s[j]
  <2>1. 1 + j \in 1 .. Len(v) /\ Len(t) + 1 + j = Len(t) + (1 + j)
    BY <1>1, <1>2
  <2>. QED
    BY <1>3, <1>4, <2>1
<1>. QED
  BY <1>4, <1>5, <1>6 DEF u, v

LEMMA LayoutStep ==
    ASSUME NEW p \in Paths \cup {NoRoute}, NEW o, Layout(p, o),
           NEW m \in 0 .. Len(p.segs), m < Len(p.segs), NEW t \in Seq(Bytes),
           Len(t) = o[m], LaidOut(t, p, o, m)
    PROVE  LaidOut(t \o (<<"/">> \o p.segs[m + 1]), p, o, m + 1)
<1>. DEFINE s == p.segs[m + 1]
            u == t \o (<<"/">> \o s)
<1>1. /\ m + 1 \in 1 .. Len(p.segs) /\ m \in Nat /\ (m + 1) - 1 = m
      /\ s \in Seq(Bytes) /\ Len(s) \in Nat /\ <<"/">> \in Seq(Bytes) /\ Len(<<"/">>) = 1
  <2>1. Len(p.segs) \in Nat
    BY PathTypes
  <2>2. m + 1 \in 1 .. Len(p.segs) /\ m \in Nat /\ (m + 1) - 1 = m
    BY <2>1
  <2>3. s \in Seq(Bytes) /\ Len(s) \in Nat
    BY <2>2, PathTypes
  <2>4. <<"/">> \in Seq(Bytes) /\ Len(<<"/">>) = 1
    BY DEF Bytes
  <2>. QED
    BY <2>2, <2>3, <2>4
<1>2. /\ o[m] \in Nat /\ o[m + 1] = o[m] + 1 + Len(s)
  <2>1. o[m + 1] = o[(m + 1) - 1] + 1 + Len(s)
    BY <1>1 DEF Layout
  <2>. QED
    BY <1>1, <2>1 DEF Layout
<1>3. /\ \A x \in 1 .. o[m] : u[x] = t[x]
      /\ u[o[m] + 1] = "/"
      /\ \A j \in 1 .. Len(s) : u[o[m] + 1 + j] = s[j]
  <2>. HIDE DEF s
  <2>1. /\ \A x \in 1 .. Len(t) : u[x] = t[x]
        /\ u[Len(t) + 1] = "/"
        /\ \A j \in 1 .. Len(s) : u[Len(t) + 1 + j] = s[j]
    BY <1>1, PieceAt, Zenon
  <2>. HIDE DEF u
  <2>. QED
    BY <2>1
<1>4. LaidOut(u, p, o, m)
  BY <1>3, LayoutGrows
<1>. HIDE DEF u
<1>5. ASSUME NEW i \in 1 .. m + 1
      PROVE  /\ u[o[i - 1] + 1] = "/"
             /\ \A j \in 1 .. Len(p.segs[i]) : u[o[i - 1] + 1 + j] = p.segs[i][j]
  <2>1. CASE i = m + 1
    BY <1>1, <1>3, <2>1
  <2>2. CASE i # m + 1
    <3>1. i \in 1 .. m
      BY <1>1, <2>2
    <3>. QED
      BY <1>4, <3>1 DEF LaidOut
  <2>. QED
    BY <2>1, <2>2
<1>6. ASSUME NEW i \in 0 .. m + 1 PROVE o[i] <= o[m + 1]
  <2>1. CASE i = m + 1
    BY <1>1, <1>2, <2>1
  <2>2. CASE i # m + 1
    <3>1. i \in 0 .. m /\ i \in 0 .. Len(p.segs)
      BY <1>1, <2>2
    <3>2. o[i] <= o[m] /\ o[i] \in Nat
      BY <3>1 DEF LaidOut, Layout
    <3>. QED
      BY <1>1, <1>2, <3>2
  <2>. QED
    BY <2>1, <2>2
<1>7. ASSUME NEW x \in 1 .. o[m + 1] PROVE \E i \in 1 .. m + 1 : Within(x, p, o, i)
  <2>1. CASE x <= o[m]
    <3>1. PICK i \in 1 .. m : Within(x, p, o, i)
      BY <1>2, <2>1 DEF LaidOut
    <3>2. i \in 1 .. m + 1
      BY <1>1
    <3>. QED
      BY <3>1, <3>2
  <2>2. CASE x = o[m] + 1
    <3>1. Within(x, p, o, m + 1)
      BY <1>1, <2>2 DEF Within
    <3>. QED
      BY <1>1, <3>1
  <2>3. CASE x > o[m] + 1
    <3>1. x - (o[m] + 1) \in 1 .. Len(s) /\ x = o[m] + 1 + (x - (o[m] + 1))
      <4>. HIDE DEF s
      <4>. QED
        BY <1>1, <1>2, <2>3
    <3>2. Within(x, p, o, m + 1)
      BY <1>1, <3>1 DEF Within
    <3>. QED
      BY <1>1, <3>2
  <2>. QED
    BY <1>2, <2>1, <2>2, <2>3
<1>8. LaidOut(u, p, o, m + 1)
  <2>. HIDE DEF s
  <2>. QED
    BY <1>5, <1>6, <1>7 DEF LaidOut
<1>. QED
  BY <1>8 DEF u

\* The shape of a text.
Shape(p, o) ==
    /\ Layout(p, o)
    /\ Text(p) \in Seq(Bytes)
    /\ Len(Text(p)) = o[Len(p.segs)] + (IF p.slash THEN 1 ELSE 0)
    /\ LaidOut(Text(p), p, o, Len(p.segs))
    /\ p.slash => Text(p)[o[Len(p.segs)] + 1] = "/"

LEMMA TextShape ==
    ASSUME NEW p \in Paths \cup {NoRoute}
    PROVE  \E o : Shape(p, o)
<1>. DEFINE n == Len(p.segs)
<1>0. /\ n \in Nat /\ p.slash \in BOOLEAN
      /\ \A i \in 1 .. n : p.segs[i] \in Seq(Bytes) /\ Len(p.segs[i]) \in Nat
      /\ <<"/">> \in Seq(Bytes) /\ Len(<<"/">>) = 1 /\ <<>> \in Seq(Bytes)
  BY PathTypes DEF Bytes
<1>1. PICK g \in [0 .. n -> Seq(Bytes)] :
        /\ g[0] = <<>>
        /\ \A i \in 1 .. n : g[i] = g[i - 1] \o (<<"/">> \o p.segs[i])
        /\ Text(p) = g[n] \o (IF p.slash THEN <<"/">> ELSE <<>>)
  BY TextSteps
<1>. DEFINE o == [i \in 0 .. n |-> Len(g[i])]
<1>2. Layout(p, o)
  <2>1. o \in [0 .. n -> Nat] /\ o[0] = 0
    BY <1>0, <1>1
  <2>2. ASSUME NEW i \in 1 .. n PROVE o[i] = o[i - 1] + 1 + Len(p.segs[i])
    <3>1. i \in 0 .. n /\ i - 1 \in 0 .. n
      BY <1>0
    <3>2. g[i - 1] \in Seq(Bytes) /\ Len(g[i - 1]) \in Nat /\ Len(p.segs[i]) \in Nat
      <4>1. g[i - 1] \in Seq(Bytes)
        BY <1>1, <3>1
      <4>. QED
        BY <1>0, <4>1
    <3>3. /\ <<"/">> \o p.segs[i] \in Seq(Bytes)
          /\ Len(<<"/">> \o p.segs[i]) = 1 + Len(p.segs[i])
      BY <1>0, ConcatProperties
    <3>4. Len(g[i]) = Len(g[i - 1]) + (1 + Len(p.segs[i]))
      <4>1. Len(g[i - 1] \o (<<"/">> \o p.segs[i]))
              = Len(g[i - 1]) + Len(<<"/">> \o p.segs[i])
        BY <3>2, <3>3, ConcatProperties
      <4>2. g[i] = g[i - 1] \o (<<"/">> \o p.segs[i])
        BY <1>1
      <4>. QED
        BY <3>3, <4>1, <4>2
    <3>5. o[i] = Len(g[i]) /\ o[i - 1] = Len(g[i - 1])
      BY <3>1
    <3>6. PICK a \in Nat, b \in Nat : a = Len(g[i - 1]) /\ b = Len(p.segs[i])
      BY <3>2
    <3>7. Len(g[i]) = a + 1 + b
      <4>1. a + (1 + b) = a + 1 + b
        OBVIOUS
      <4>. QED
        BY <3>4, <3>6, <4>1, Zenon
    <3>. HIDE DEF o
    <3>. QED
      BY <3>5, <3>6, <3>7, Zenon
  <2>. QED
    BY <2>1, <2>2 DEF Layout
<1>3. \A i \in 0 .. n : o[i] = Len(g[i])
  OBVIOUS
<1>. HIDE DEF o
<1>. DEFINE S == {m \in 0 .. n : LaidOut(g[m], p, o, m)}
<1>4. 0 \in S
  BY <1>0, <1>2 DEF LaidOut, Layout
<1>5. ASSUME NEW m \in 0 .. n, m \in S, m < n PROVE m + 1 \in S
  <2>1. m + 1 \in 1 .. n /\ m + 1 \in 0 .. n /\ (m + 1) - 1 = m
    BY <1>0, <1>5
  <2>2. g[m + 1] = g[m] \o (<<"/">> \o p.segs[m + 1])
    BY <1>1, <2>1
  <2>3. g[m] \in Seq(Bytes) /\ Len(g[m]) = o[m]
    BY <1>1, <1>3
  <2>4. LaidOut(g[m + 1], p, o, m + 1)
    BY <1>2, <1>5, <2>2, <2>3, LayoutStep
  <2>. QED
    BY <2>1, <2>4
<1>6. LaidOut(g[n], p, o, n)
  <2>1. \A i \in 0 .. n : i \in S
    <3>. HIDE DEF S
    <3>. QED
      BY <1>0, <1>4, <1>5, InductionUpTo
  <2>. QED
    BY <1>0, <2>1
<1>7. g[n] \in Seq(Bytes) /\ Len(g[n]) = o[n] /\ o[n] \in Nat
  <2>1. n \in 0 .. n
    BY <1>0
  <2>. HIDE DEF n
  <2>2. g[n] \in Seq(Bytes) /\ Len(g[n]) = o[n]
    BY <1>1, <1>3, <2>1
  <2>. QED
    BY <2>2
<1>. DEFINE tail == IF p.slash THEN <<"/">> ELSE <<>>
<1>8. tail \in Seq(Bytes) /\ Len(tail) = (IF p.slash THEN 1 ELSE 0)
      /\ (p.slash => tail[1] = "/")
  BY <1>0
<1>9. Text(p) = g[n] \o tail
  BY <1>1
<1>. HIDE DEF tail
<1>10. /\ Text(p) \in Seq(Bytes) /\ Len(Text(p)) = o[n] + (IF p.slash THEN 1 ELSE 0)
       /\ \A x \in 1 .. o[n] : Text(p)[x] = g[n][x]
       /\ p.slash => Text(p)[o[n] + 1] = "/"
  <2>1. \A x \in 1 .. o[n] + Len(tail) :
          (g[n] \o tail)[x] = IF x <= o[n] THEN g[n][x] ELSE tail[x - o[n]]
    BY <1>7, <1>8, ConcatProperties
  <2>2. g[n] \o tail \in Seq(Bytes) /\ Len(g[n] \o tail) = o[n] + Len(tail)
    BY <1>7, <1>8, ConcatProperties
  <2>3. ASSUME p.slash PROVE Text(p)[o[n] + 1] = "/"
    <3>1. o[n] + 1 \in 1 .. o[n] + Len(tail) /\ ~(o[n] + 1 <= o[n]) /\ (o[n] + 1) - o[n] = 1
      BY <1>7, <1>8, <2>3
    <3>. QED
      BY <1>8, <1>9, <2>1, <2>3, <3>1
  <2>4. ASSUME NEW x \in 1 .. o[n] PROVE Text(p)[x] = g[n][x]
    <3>1. x \in 1 .. o[n] + Len(tail) /\ x <= o[n]
      BY <1>0, <1>7, <1>8
    <3>2. (g[n] \o tail)[x] = g[n][x]
      BY <2>1, <3>1
    <3>. QED
      BY <1>9, <3>2
  <2>. QED
    BY <1>8, <1>9, <2>2, <2>3, <2>4
<1>11. LaidOut(Text(p), p, o, n)
  <2>1. n \in 0 .. Len(p.segs)
    BY <1>0
  <2>2. \A x \in 1 .. o[n] : Text(p)[x] = g[n][x]
    BY <1>10
  <2>. QED
    BY <1>2, <1>6, <2>1, <2>2, LayoutGrows
<1>. QED
  BY <1>2, <1>10, <1>11 DEF Shape

-----------------------------------------------------------------------------
(***************************************************************************)
(* Comparing bytes decides what a route covers.                            *)
(***************************************************************************)
LEMMA PrefixIs ==
    ASSUME NEW C, NEW s \in Seq(C), NEW t \in Seq(C)
    PROVE  IsPrefix(s, t) <=> Len(s) <= Len(t) /\ \A i \in 1 .. Len(s) : s[i] = t[i]
<1>0. Len(s) \in Nat /\ Len(t) \in Nat
  OBVIOUS
<1>1. SubSeq(s, 1, Len(s)) = s
  BY SubSeqFull
<1>2. ASSUME Len(s) <= Len(t)
      PROVE  /\ SubSeq(t, 1, Len(s)) \in Seq(C) /\ Len(SubSeq(t, 1, Len(s))) = Len(s)
             /\ \A i \in 1 .. Len(s) : SubSeq(t, 1, Len(s))[i] = t[i]
  <2>1. \A i \in 1 .. Len(s) : t[i] \in C
    BY <1>0, <1>2
  <2>. QED
    BY <1>0, <2>1, SubSeqProperties
<1>3. ASSUME Len(s) <= Len(t), \A i \in 1 .. Len(s) : s[i] = t[i]
      PROVE  SubSeq(t, 1, Len(s)) = s
  BY <1>2, <1>3, SeqEqual
<1>. QED
  BY <1>1, <1>2, <1>3 DEF IsPrefix

\* The places in a text, as numbers.
LEMMA Places ==
    ASSUME NEW p \in Paths \cup {NoRoute}, NEW o, Shape(p, o)
    PROVE  /\ Len(Text(p)) \in Nat
           /\ \A i \in 0 .. Len(p.segs) :
                o[i] \in Nat /\ o[i] <= o[Len(p.segs)] /\ o[i] <= Len(Text(p))
           /\ \A i \in 1 .. Len(p.segs) :
                /\ Len(p.segs[i]) \in Nat \ {0} /\ o[i - 1] \in Nat
                /\ o[i] = o[i - 1] + 1 + Len(p.segs[i])
<1>0. Len(p.segs) \in Nat /\ p.slash \in BOOLEAN
  BY PathTypes
<1>1. ASSUME NEW i \in 0 .. Len(p.segs)
      PROVE  o[i] \in Nat /\ o[i] <= o[Len(p.segs)]
  BY <1>1 DEF Shape, Layout, LaidOut
<1>2. o[Len(p.segs)] \in Nat /\ o[Len(p.segs)] <= Len(Text(p)) /\ Len(Text(p)) \in Nat
  <2>1. o[Len(p.segs)] \in Nat
    BY <1>0, <1>1
  <2>2. Len(Text(p)) = o[Len(p.segs)] + (IF p.slash THEN 1 ELSE 0)
    BY DEF Shape
  <2>. QED
    BY <2>1, <2>2
<1>3. ASSUME NEW i \in 0 .. Len(p.segs) PROVE o[i] <= Len(Text(p))
  BY <1>1, <1>2
<1>4. ASSUME NEW i \in 1 .. Len(p.segs)
      PROVE  /\ Len(p.segs[i]) \in Nat \ {0} /\ o[i - 1] \in Nat
             /\ o[i] = o[i - 1] + 1 + Len(p.segs[i])
  <2>1. Len(p.segs[i]) \in Nat \ {0}
    BY PathTypes
  <2>2. i - 1 \in 0 .. Len(p.segs)
    BY <1>0
  <2>3. o[i - 1] \in Nat
    BY <1>1, <2>2
  <2>4. o[i] = o[i - 1] + 1 + Len(p.segs[i])
    BY DEF Shape, Layout
  <2>. QED
    BY <2>1, <2>3, <2>4
<1>. QED
  BY <1>1, <1>2, <1>3, <1>4

\* Behind a segment the text ends or goes on with a slash.
LEMMA Boundary ==
    ASSUME NEW p \in Paths \cup {NoRoute}, NEW o, Shape(p, o), NEW i \in 0 .. Len(p.segs)
    PROVE  \/ i = Len(p.segs) /\ ~p.slash /\ Len(Text(p)) = o[i]
           \/ Len(Text(p)) >= o[i] + 1 /\ Text(p)[o[i] + 1] = "/"
<1>0. Len(p.segs) \in Nat /\ p.slash \in BOOLEAN
  BY PathTypes
<1>1. CASE i = Len(p.segs)
  <2>1. /\ Len(Text(p)) = o[i] + (IF p.slash THEN 1 ELSE 0)
        /\ p.slash => Text(p)[o[i] + 1] = "/"
    BY <1>1 DEF Shape
  <2>2. o[i] \in Nat
    BY Places
  <2>. QED
    BY <1>0, <1>1, <2>1, <2>2
<1>2. CASE i # Len(p.segs)
  <2>1. i + 1 \in 1 .. Len(p.segs) /\ i + 1 \in 0 .. Len(p.segs) /\ (i + 1) - 1 = i
    BY <1>0, <1>2
  <2>2. Text(p)[o[(i + 1) - 1] + 1] = "/"
    BY <2>1 DEF Shape, LaidOut
  <2>3. o[i] \in Nat /\ Len(Text(p)) \in Nat /\ o[i + 1] <= Len(Text(p))
    BY <2>1, Places
  <2>4. o[i + 1] = o[(i + 1) - 1] + 1 + Len(p.segs[i + 1]) /\ Len(p.segs[i + 1]) \in Nat
    BY <2>1, Places
  <2>5. PICK a \in Nat, b \in Nat, c \in Nat :
          a = o[i] /\ b = Len(p.segs[i + 1]) /\ c = Len(Text(p))
    BY <2>3, <2>4
  <2>6. a + 1 + b <= c
    BY <2>1, <2>3, <2>4, <2>5
  <2>7. c >= a + 1
    BY <2>6
  <2>. QED
    BY <2>1, <2>2, <2>5, <2>7
<1>. QED
  BY <1>1, <1>2

\* The bytes of a segment.
LEMMA SegmentBytes ==
    ASSUME NEW p \in Paths \cup {NoRoute}, NEW o, Shape(p, o), NEW i \in 1 .. Len(p.segs)
    PROVE  /\ Text(p)[o[i - 1] + 1] = "/"
           /\ \A j \in 1 .. Len(p.segs[i]) :
                Text(p)[o[i - 1] + 1 + j] = p.segs[i][j] /\ p.segs[i][j] # "/"
  BY PathTypes DEF Shape, LaidOut

\* Segments that agree stand at the same places.
LEMMA SamePlaces ==
    ASSUME NEW k \in Paths \cup {NoRoute}, NEW ok, Shape(k, ok),
           NEW p \in Paths \cup {NoRoute}, NEW op, Shape(p, op),
           Len(k.segs) <= Len(p.segs), \A i \in 1 .. Len(k.segs) : k.segs[i] = p.segs[i]
    PROVE  \A i \in 0 .. Len(k.segs) : ok[i] = op[i]
<1>. DEFINE n == Len(k.segs)
            S == {i \in 0 .. n : ok[i] = op[i]}
<1>0. n \in Nat /\ Len(p.segs) \in Nat
  BY PathTypes
<1>1. 0 \in S
  <2>1. ok[0] = 0 /\ op[0] = 0
    BY DEF Shape, Layout
  <2>. QED
    BY <1>0, <2>1
<1>2. ASSUME NEW i \in 0 .. n, i \in S, i < n PROVE i + 1 \in S
  <2>1. /\ i + 1 \in 1 .. n /\ i + 1 \in 0 .. n /\ i + 1 \in 1 .. Len(p.segs)
        /\ (i + 1) - 1 = i /\ ok[i] = op[i]
    BY <1>0, <1>2
  <2>2. ok[i + 1] = ok[(i + 1) - 1] + 1 + Len(k.segs[i + 1])
    BY <2>1, Places
  <2>3. op[i + 1] = op[(i + 1) - 1] + 1 + Len(p.segs[i + 1])
    BY <2>1, Places
  <2>4. ok[i + 1] = op[i + 1]
    BY <2>1, <2>2, <2>3
  <2>. QED
    BY <2>1, <2>4
<1>. HIDE DEF S
<1>3. \A i \in 0 .. n : i \in S
  BY <1>0, <1>1, <1>2, InductionUpTo
<1>. QED
  BY <1>3 DEF S

\* A route with no last slash matches every path below it.
LEMMA CoverMatches ==
    ASSUME NEW k \in Paths, ~k.slash, NEW p \in Paths, Covers(k, p)
    PROVE  Matches(k, p)
<1>. DEFINE n == Len(k.segs)
<1>0. n \in Nat /\ Len(p.segs) \in Nat /\ k.segs \in Seq(Segments) /\ p.segs \in Seq(Segments)
  BY PathTypes
<1>1. n <= Len(p.segs) /\ \A i \in 1 .. n : k.segs[i] = p.segs[i]
  BY <1>0, PrefixIs DEF Covers
<1>2. PICK ok : Shape(k, ok)
  BY TextShape
<1>3. PICK op : Shape(p, op)
  BY TextShape
<1>4. \A i \in 0 .. n : ok[i] = op[i]
  BY <1>1, <1>2, <1>3, SamePlaces
<1>5. n \in 0 .. n /\ n \in 0 .. Len(p.segs)
  BY <1>0, <1>1
<1>6. Len(Text(k)) = op[n] /\ op[n] \in Nat
  <2>1. Len(Text(k)) = ok[n] + 0 /\ ok[n] \in Nat
    BY <1>2, <1>5, Places DEF Shape
  <2>. QED
    BY <1>4, <1>5, <2>1
<1>7. /\ Text(k) \in Seq(Bytes) /\ Text(p) \in Seq(Bytes)
      /\ Len(Text(p)) \in Nat /\ op[n] <= Len(Text(p))
  BY <1>2, <1>3, <1>5, Places DEF Shape
<1>8. ASSUME NEW x \in 1 .. Len(Text(k)) PROVE Text(k)[x] = Text(p)[x]
  <2>1. x \in 1 .. ok[n]
    BY <1>4, <1>5, <1>6
  <2>2. PICK i \in 1 .. n : Within(x, k, ok, i)
    BY <1>2, <2>1 DEF Shape, LaidOut
  <2>3. i \in 1 .. Len(p.segs) /\ i - 1 \in 0 .. n
    BY <1>0, <1>1
  <2>4. ok[i - 1] = op[i - 1] /\ k.segs[i] = p.segs[i]
    BY <1>1, <1>4, <2>3
  <2>5. /\ Text(k)[ok[i - 1] + 1] = "/"
        /\ \A j \in 1 .. Len(k.segs[i]) : Text(k)[ok[i - 1] + 1 + j] = k.segs[i][j]
    BY <1>2, SegmentBytes
  <2>6. /\ Text(p)[op[i - 1] + 1] = "/"
        /\ \A j \in 1 .. Len(p.segs[i]) : Text(p)[op[i - 1] + 1 + j] = p.segs[i][j]
    <3>1. p \in Paths \cup {NoRoute} /\ i \in 1 .. Len(p.segs)
      BY <2>3
    <3>2. /\ Text(p)[op[i - 1] + 1] = "/"
          /\ \A j \in 1 .. Len(p.segs[i]) :
               Text(p)[op[i - 1] + 1 + j] = p.segs[i][j] /\ p.segs[i][j] # "/"
      BY <1>3, <3>1, SegmentBytes, Zenon
    <3>. QED
      BY <3>2, Zenon
  <2>7. CASE x = ok[i - 1] + 1
    BY <2>4, <2>5, <2>6, <2>7
  <2>8. ASSUME NEW j \in 1 .. Len(k.segs[i]), x = ok[i - 1] + 1 + j
        PROVE  Text(k)[x] = Text(p)[x]
    <3>1. Text(k)[x] = k.segs[i][j]
      BY <2>5, <2>8
    <3>2. Text(p)[x] = p.segs[i][j]
      BY <2>4, <2>6, <2>8
    <3>. QED
      BY <2>4, <3>1, <3>2
  <2>. QED
    BY <2>2, <2>7, <2>8 DEF Within
<1>9. IsPrefix(Text(k), Text(p))
  BY <1>6, <1>7, <1>8, PrefixIs
<1>10. \/ Len(Text(p)) = op[n]
       \/ Text(p)[op[n] + 1] = "/"
  BY <1>3, <1>5, Boundary
<1>. QED
  BY <1>6, <1>9, <1>10 DEF Matches

\* A segment of the key and the segment of the path at the same place agree.
LEMMA SegmentsAgree ==
    ASSUME NEW k \in Paths, ~k.slash, NEW ok, Shape(k, ok),
           NEW p \in Paths, NEW op, Shape(p, op), Matches(k, p),
           NEW i \in 1 .. Len(k.segs), i <= Len(p.segs), ok[i - 1] = op[i - 1]
    PROVE  k.segs[i] = p.segs[i]
<1>0. /\ Len(k.segs) \in Nat /\ Len(p.segs) \in Nat
      /\ i \in 1 .. Len(p.segs) /\ i \in 0 .. Len(p.segs) /\ i \in 0 .. Len(k.segs)
  BY PathTypes
<1>1. /\ Len(k.segs[i]) \in Nat \ {0} /\ ok[i - 1] \in Nat
      /\ ok[i] = ok[i - 1] + 1 + Len(k.segs[i]) /\ ok[i] <= Len(Text(k))
  BY <1>0, Places
<1>2. /\ Len(p.segs[i]) \in Nat \ {0}
      /\ op[i] = op[i - 1] + 1 + Len(p.segs[i]) /\ op[i] <= Len(Text(p))
  BY <1>0, Places
<1>3. Len(Text(k)) \in Nat /\ Len(Text(p)) \in Nat
  BY Places
<1>4. PICK L \in Nat, a \in Nat, b \in Nat, ek \in Nat, ep \in Nat :
        /\ L = ok[i - 1] + 1 /\ a = Len(k.segs[i]) /\ b = Len(p.segs[i])
        /\ ek = Len(Text(k)) /\ ep = Len(Text(p))
  <2>1. ok[i - 1] + 1 \in Nat /\ Len(k.segs[i]) \in Nat /\ Len(p.segs[i]) \in Nat
    BY <1>1, <1>2
  <2>. QED
    BY <1>3, <2>1, Zenon
<1>5. ok[i] = L + a /\ op[i] = L + b /\ L + a <= ek /\ L + b <= ep
  BY <1>1, <1>2, <1>4
<1>6. /\ ek <= ep /\ \A x \in 1 .. ek : Text(k)[x] = Text(p)[x]
      /\ ep = ek \/ Text(p)[ek + 1] = "/"
  <2>1. Text(k) \in Seq(Bytes) /\ Text(p) \in Seq(Bytes)
    BY DEF Shape
  <2>. QED
    BY <1>4, <2>1, PrefixIs DEF Matches
<1>7. \A j \in 1 .. a : Text(k)[L + j] = k.segs[i][j] /\ k.segs[i][j] # "/"
  <2>1. k \in Paths \cup {NoRoute}
    OBVIOUS
  <2>2. \A j \in 1 .. Len(k.segs[i]) :
          Text(k)[ok[i - 1] + 1 + j] = k.segs[i][j] /\ k.segs[i][j] # "/"
    BY <2>1, SegmentBytes, Zenon
  <2>. QED
    BY <1>4, <2>2, Zenon
<1>8. \A j \in 1 .. b : Text(p)[L + j] = p.segs[i][j] /\ p.segs[i][j] # "/"
  <2>1. L = op[i - 1] + 1
    BY <1>4
  <2>2. p \in Paths \cup {NoRoute} /\ i \in 1 .. Len(p.segs)
    BY <1>0
  <2>3. \A j \in 1 .. Len(p.segs[i]) :
          Text(p)[op[i - 1] + 1 + j] = p.segs[i][j] /\ p.segs[i][j] # "/"
    BY <2>2, SegmentBytes, Zenon
  <2>. QED
    BY <1>4, <2>1, <2>3, Zenon
<1>9. ek = L + a \/ (ek >= (L + a) + 1 /\ Text(k)[(L + a) + 1] = "/")
  <2>1. k \in Paths \cup {NoRoute} /\ i \in 0 .. Len(k.segs)
    BY <1>0
  <2>2. \/ i = Len(k.segs) /\ ~k.slash /\ Len(Text(k)) = ok[i]
        \/ Len(Text(k)) >= ok[i] + 1 /\ Text(k)[ok[i] + 1] = "/"
    BY <2>1, Boundary, Zenon
  <2>. QED
    BY <1>4, <1>5, <2>2, Zenon
<1>10. ep = L + b \/ (ep >= (L + b) + 1 /\ Text(p)[(L + b) + 1] = "/")
  <2>1. p \in Paths \cup {NoRoute} /\ i \in 0 .. Len(p.segs)
    BY <1>0
  <2>2. \/ i = Len(p.segs) /\ ~p.slash /\ Len(Text(p)) = op[i]
        \/ Len(Text(p)) >= op[i] + 1 /\ Text(p)[op[i] + 1] = "/"
    BY <2>1, Boundary, Zenon
  <2>. QED
    BY <1>4, <1>5, <2>2, Zenon
<1>11. ~(a < b)
  <2>. SUFFICES ASSUME a < b PROVE FALSE
    OBVIOUS
  <2>1. a + 1 \in 1 .. b /\ L + (a + 1) = (L + a) + 1
    OBVIOUS
  <2>2. Text(p)[(L + a) + 1] # "/"
    BY <1>8, <2>1
  <2>3. CASE ek = L + a
    BY <1>5, <1>6, <2>2, <2>3
  <2>4. CASE ek >= (L + a) + 1 /\ Text(k)[(L + a) + 1] = "/"
    <3>1. (L + a) + 1 \in 1 .. ek
      BY <2>4
    <3>. QED
      BY <1>6, <2>2, <2>4, <3>1
  <2>. QED
    BY <1>9, <2>3, <2>4
<1>12. ~(b < a)
  <2>. SUFFICES ASSUME b < a PROVE FALSE
    OBVIOUS
  <2>1. b + 1 \in 1 .. a /\ L + (b + 1) = (L + b) + 1
    OBVIOUS
  <2>2. Text(k)[(L + b) + 1] # "/"
    BY <1>7, <2>1
  <2>3. (L + b) + 1 \in 1 .. ek /\ (L + b) + 1 <= ep
    BY <1>5, <1>6
  <2>. QED
    BY <1>6, <1>10, <2>2, <2>3
<1>13. a = b
  BY <1>11, <1>12
<1>14. ASSUME NEW j \in 1 .. a PROVE k.segs[i][j] = p.segs[i][j]
  <2>1. L + j \in 1 .. ek
    BY <1>5
  <2>. QED
    BY <1>6, <1>7, <1>8, <1>13, <2>1
<1>15. k.segs[i] \in Seq(Bytes) /\ p.segs[i] \in Seq(Bytes)
  BY <1>0, PathTypes
<1>. QED
  BY <1>4, <1>13, <1>14, <1>15, SeqEqual

\* A route with no last slash matches only paths below it.
LEMMA MatchCovers ==
    ASSUME NEW k \in Paths, ~k.slash, NEW p \in Paths, Matches(k, p)
    PROVE  Covers(k, p)
<1>0. /\ Len(k.segs) \in Nat /\ Len(p.segs) \in Nat
      /\ k.segs \in Seq(Segments) /\ p.segs \in Seq(Segments)
  BY PathTypes
<1>1. PICK ok : Shape(k, ok)
  BY TextShape
<1>2. PICK op : Shape(p, op)
  BY TextShape
<1>. DEFINE n == Len(k.segs)
            S == {i \in 0 .. n : /\ i <= Len(p.segs) /\ ok[i] = op[i]
                                 /\ \A j \in 1 .. i : k.segs[j] = p.segs[j]}
<1>3. 0 \in S
  <2>1. ok[0] = 0 /\ op[0] = 0
    BY <1>1, <1>2 DEF Shape, Layout
  <2>. QED
    BY <1>0, <2>1
<1>4. ASSUME NEW i \in 0 .. n, i \in S, i < n PROVE i + 1 \in S
  <2>1. /\ i + 1 \in 1 .. n /\ i + 1 \in 0 .. n /\ (i + 1) - 1 = i /\ i \in Nat
        /\ i <= Len(p.segs) /\ i \in 0 .. Len(p.segs)
        /\ ok[i] = op[i] /\ \A j \in 1 .. i : k.segs[j] = p.segs[j]
    BY <1>0, <1>4
  <2>2. i + 1 <= Len(p.segs)
    <3>. SUFFICES ASSUME i = Len(p.segs) PROVE FALSE
      BY <1>0, <2>1
    <3>1. Len(Text(p)) <= op[i] + 1 /\ op[i] \in Nat /\ Len(Text(p)) \in Nat
      <4>1. op[i] \in Nat
        BY <1>2, <2>1, Places
      <4>2. Len(Text(p)) = op[i] + (IF p.slash THEN 1 ELSE 0)
        BY <1>2 DEF Shape
      <4>. QED
        BY <4>1, <4>2
    <3>2. /\ ok[i + 1] = ok[(i + 1) - 1] + 1 + Len(k.segs[i + 1])
          /\ Len(k.segs[i + 1]) \in Nat \ {0} /\ ok[i + 1] <= Len(Text(k))
          /\ Len(Text(k)) \in Nat
      BY <1>1, <2>1, Places
    <3>3. Len(Text(k)) <= Len(Text(p))
      BY DEF Matches, IsPrefix
    <3>4. PICK a \in Nat, b \in Nat \ {0}, c \in Nat, d \in Nat :
            /\ a = op[i] /\ b = Len(k.segs[i + 1]) /\ c = Len(Text(k)) /\ d = Len(Text(p))
      BY <3>1, <3>2
    <3>5. d <= a + 1 /\ a + 1 + b <= c /\ c <= d
      BY <2>1, <3>1, <3>2, <3>3, <3>4
    <3>. QED
      BY <3>5
  <2>3. k.segs[i + 1] = p.segs[i + 1]
    BY <1>1, <1>2, <2>1, <2>2, SegmentsAgree
  <2>4. ok[i + 1] = op[i + 1]
    <3>1. i + 1 \in 1 .. Len(p.segs)
      BY <1>0, <2>1, <2>2
    <3>2. /\ ok[i + 1] = ok[(i + 1) - 1] + 1 + Len(k.segs[i + 1])
          /\ op[i + 1] = op[(i + 1) - 1] + 1 + Len(p.segs[i + 1])
      BY <1>1, <1>2, <2>1, <3>1, Places
    <3>. QED
      BY <2>1, <2>3, <3>2
  <2>5. ASSUME NEW j \in 1 .. i + 1 PROVE k.segs[j] = p.segs[j]
    BY <2>1, <2>3
  <2>. QED
    BY <2>1, <2>2, <2>4, <2>5
<1>5. n \in S
  <2>. HIDE DEF S
  <2>1. \A i \in 0 .. n : i \in S
    BY <1>0, <1>3, <1>4, InductionUpTo
  <2>. QED
    BY <1>0, <2>1
<1>. QED
  BY <1>0, <1>5, PrefixIs DEF Covers

\* Of two routes over the same path, the one with more segments is the longer
\* string; NoRoute, whose text is empty, is the shortest.
LEMMA LongerText ==
    ASSUME NEW k \in Paths \cup {NoRoute}, NEW l \in Paths \cup {NoRoute}, NEW p \in Paths,
           ~k.slash, ~l.slash, Covers(k, p), Covers(l, p), Len(k.segs) < Len(l.segs)
    PROVE  Len(Text(k)) < Len(Text(l))
<1>. DEFINE n == Len(k.segs)
<1>0. /\ n \in Nat /\ Len(l.segs) \in Nat /\ Len(p.segs) \in Nat
      /\ k.segs \in Seq(Segments) /\ l.segs \in Seq(Segments) /\ p.segs \in Seq(Segments)
  BY PathTypes
<1>1. /\ \A i \in 1 .. n : k.segs[i] = p.segs[i]
      /\ \A i \in 1 .. Len(l.segs) : l.segs[i] = p.segs[i]
  BY <1>0, PrefixIs DEF Covers
<1>2. n <= Len(l.segs) /\ \A i \in 1 .. n : k.segs[i] = l.segs[i]
  BY <1>0, <1>1
<1>3. PICK ok : Shape(k, ok)
  BY TextShape
<1>4. PICK ol : Shape(l, ol)
  BY TextShape
<1>5. \A i \in 0 .. n : ok[i] = ol[i]
  BY <1>2, <1>3, <1>4, SamePlaces
<1>6. /\ n \in 0 .. n /\ n + 1 \in 1 .. Len(l.segs) /\ n + 1 \in 0 .. Len(l.segs)
      /\ (n + 1) - 1 = n
  BY <1>0
<1>7. Len(Text(k)) = ok[n] + 0 /\ ok[n] \in Nat
  BY <1>3, <1>6, Places DEF Shape
<1>8. /\ ol[n + 1] = ol[(n + 1) - 1] + 1 + Len(l.segs[n + 1])
      /\ Len(l.segs[n + 1]) \in Nat /\ ol[n + 1] <= Len(Text(l)) /\ Len(Text(l)) \in Nat
  <2>1. PICK m : m = n + 1
    OBVIOUS
  <2>2. m \in 1 .. Len(l.segs) /\ m \in 0 .. Len(l.segs)
    BY <1>6, <2>1
  <2>3. /\ ol[m] = ol[m - 1] + 1 + Len(l.segs[m])
        /\ Len(l.segs[m]) \in Nat /\ ol[m] <= Len(Text(l)) /\ Len(Text(l)) \in Nat
    BY <1>4, <2>2, Places
  <2>. QED
    BY <2>1, <2>3, Zenon
<1>9. PICK a \in Nat, b \in Nat, c \in Nat :
        a = ok[n] /\ b = Len(l.segs[n + 1]) /\ c = Len(Text(l))
  BY <1>7, <1>8
<1>10. ol[n] = a
  BY <1>5, <1>6, <1>9
<1>11. a + 1 + b <= c
  BY <1>6, <1>8, <1>9, <1>10
<1>12. a < c /\ a + 0 = a
  BY <1>11
<1>. QED
  BY <1>7, <1>9, <1>12

-----------------------------------------------------------------------------
(***************************************************************************)
(* The loop of Route.  Its invariant says of the routes it has visited     *)
(* what the result says of all of them.                                    *)
(***************************************************************************)
RouteInv ==
    /\ RoutingTypeOK
    /\ bestmatch # NoRoute => Matches(bestmatch, path)
    /\ \A k \in table \ remaining :
         Matches(k, path) => Len(Text(k)) <= Len(Text(bestmatch))

LEMMA TextLength ==
    ASSUME NEW p \in Paths \cup {NoRoute}
    PROVE  Len(Text(p)) \in Nat
<1>1. PICK o : Shape(p, o)
  BY TextShape
<1>. QED
  BY <1>1, Places

\* Before the first route nothing has been visited.
LEMMA RouteInitially ==
    RoutingInit => RouteInv
<1>. SUFFICES ASSUME RoutingInit PROVE RouteInv
  OBVIOUS
<1>1. table \in SUBSET Keys
  BY DEF RoutingInit, kSubset
<1>. QED
  BY <1>1 DEF RoutingInit, RouteInv, RoutingTypeOK

\* A visit keeps the longest match.
LEMMA RouteStepwise ==
    RouteInv /\ [RoutingNext]_routingVars => RouteInv'
<1>. SUFFICES ASSUME RouteInv, [RoutingNext]_routingVars PROVE RouteInv'
  OBVIOUS
<1>1. CASE UNCHANGED routingVars
  BY <1>1 DEF routingVars, RouteInv, RoutingTypeOK, Matches
<1>2. ASSUME NEW k \in remaining, Visit(k) PROVE RouteInv'
  <2>0. /\ table' = table /\ path' = path /\ remaining' = remaining \ {k}
        /\ bestmatch' = IF Matches(k, path) /\ Len(Text(k)) > Len(Text(bestmatch))
                        THEN k ELSE bestmatch
    BY <1>2 DEF Visit
  <2>1. /\ k \in table /\ table \in SUBSET Keys /\ bestmatch \in table \cup {NoRoute}
        /\ remaining \subseteq table /\ path \in Paths
    BY DEF RouteInv, RoutingTypeOK
  <2>2. table \subseteq Paths
    BY <2>1 DEF Keys
  <2>3. /\ \A l \in table : Len(Text(l)) \in Nat
        /\ Len(Text(bestmatch)) \in Nat
    BY <2>1, <2>2, TextLength
  <2>4. RoutingTypeOK'
    BY <2>0, <2>1 DEF RoutingTypeOK
  <2>5. bestmatch' # NoRoute => Matches(bestmatch', path)
    BY <2>0 DEF RouteInv
  <2>6. ASSUME NEW l \in table \ (remaining \ {k}), Matches(l, path)
        PROVE  Len(Text(l)) <= Len(Text(bestmatch'))
    <3>1. PICK a \in Nat, b \in Nat, c \in Nat :
            a = Len(Text(l)) /\ b = Len(Text(bestmatch)) /\ c = Len(Text(k))
      BY <2>1, <2>3
    <3>2. CASE l = k
      BY <2>0, <2>6, <3>1, <3>2
    <3>3. CASE l # k
      <4>1. l \in table \ remaining
        BY <3>3
      <4>2. a <= b
        BY <2>6, <3>1, <4>1 DEF RouteInv
      <4>. QED
        BY <2>0, <3>1, <4>2
    <3>. QED
      BY <3>2, <3>3
  <2>7. (bestmatch # NoRoute => Matches(bestmatch, path))'
    BY <2>0, <2>5 DEF Matches
  <2>8. (\A l \in table \ remaining :
           Matches(l, path) => Len(Text(l)) <= Len(Text(bestmatch)))'
    BY <2>0, <2>6 DEF Matches
  <2>. QED
    BY <2>4, <2>7, <2>8 DEF RouteInv
<1>. QED
  BY <1>1, <1>2 DEF RoutingNext

\* When every route has been visited, the longest string is the longest route.
LEMMA VisitedAll ==
    ASSUME ~RouteSlash, RouteInv
    PROVE  RouteIsLongestMatch
<1>. SUFFICES ASSUME remaining = {}
              PROVE  LET C == {k \in table : Covers(k, path)}
                     IN  IF C = {} THEN bestmatch = NoRoute ELSE bestmatch \in Longest(C)
  BY DEF RouteIsLongestMatch
<1>. DEFINE C == {k \in table : Covers(k, path)}
<1>1. /\ table \in SUBSET Keys /\ bestmatch \in table \cup {NoRoute} /\ path \in Paths
  BY DEF RouteInv, RoutingTypeOK
<1>2. \A k \in table : k \in Paths /\ ~k.slash
  BY <1>1 DEF Keys
<1>3. \A k \in table : Matches(k, path) <=> Covers(k, path)
  BY <1>1, <1>2, CoverMatches, MatchCovers
<1>4. ASSUME bestmatch # NoRoute PROVE bestmatch \in C
  <2>1. bestmatch \in table /\ Matches(bestmatch, path)
    BY <1>1, <1>4 DEF RouteInv
  <2>. QED
    BY <1>3, <2>1
<1>5. ASSUME NEW k \in C PROVE Len(Text(k)) <= Len(Text(bestmatch))
  <2>1. k \in table \ remaining /\ Matches(k, path)
    BY <1>3
  <2>. QED
    BY <2>1 DEF RouteInv
<1>6. /\ NoRoute \in Paths \cup {NoRoute} /\ ~NoRoute.slash
      /\ NoRoute.segs = <<>> /\ Len(NoRoute.segs) = 0
  BY DEF NoRoute
<1>7. Covers(NoRoute, path)
  <2>1. path.segs \in Seq(Segments) /\ Len(path.segs) \in Nat
    BY <1>1, PathTypes
  <2>2. <<>> \in Seq(Segments) /\ Len(<<>>) = 0
    OBVIOUS
  <2>3. IsPrefix(<<>>, path.segs)
    <3>1. 0 <= Len(path.segs) /\ \A i \in 1 .. 0 : <<>>[i] = path.segs[i]
      BY <2>1
    <3>. QED
      BY <2>1, <2>2, <3>1, PrefixIs, Zenon
  <2>. QED
    BY <1>6, <2>3 DEF Covers
<1>8. /\ bestmatch \in Paths \cup {NoRoute} /\ ~bestmatch.slash /\ Covers(bestmatch, path)
  BY <1>1, <1>2, <1>4, <1>6, <1>7
<1>9. ASSUME NEW k \in C PROVE Len(k.segs) <= Len(bestmatch.segs)
  <2>1. k \in Paths \cup {NoRoute} /\ ~k.slash /\ Covers(k, path)
    BY <1>2
  <2>2. /\ Len(k.segs) \in Nat /\ Len(bestmatch.segs) \in Nat
        /\ Len(Text(k)) \in Nat /\ Len(Text(bestmatch)) \in Nat
    BY <1>8, <2>1, PathTypes, TextLength
  <2>3. ASSUME Len(bestmatch.segs) < Len(k.segs) PROVE FALSE
    <3>1. Len(Text(bestmatch)) < Len(Text(k))
      BY <1>1, <1>8, <2>1, <2>3, LongerText
    <3>. QED
      BY <1>5, <2>2, <3>1
  <2>. QED
    BY <2>2, <2>3
<1>10. ASSUME NEW k \in C PROVE bestmatch # NoRoute
  <2>1. Len(k.segs) \in Nat /\ k.segs \in Seq(Segments)
    BY <1>2, PathTypes
  <2>2. Len(k.segs) # 0
    <3>. SUFFICES ASSUME Len(k.segs) = 0 PROVE FALSE
      OBVIOUS
    <3>1. k.segs = <<>>
      BY <2>1, EmptySeq
    <3>2. k.slash = FALSE /\ k \in Paths
      <4>1. k.slash \in BOOLEAN
        BY <1>2, PathTypes
      <4>. QED
        BY <1>2, <4>1
    <3>3. PICK s \in Depths, b \in BOOLEAN : k = [segs |-> s, slash |-> b]
      BY <3>2 DEF Paths
    <3>4. k = [segs |-> <<>>, slash |-> FALSE]
      BY <3>1, <3>2, <3>3
    <3>. QED
      BY <3>2, <3>4 DEF Paths
  <2>. QED
    BY <1>6, <1>9, <2>1, <2>2
<1>. QED
  BY <1>4, <1>9, <1>10 DEF Longest

\* The type invariant of routing.Router.Route: what it holds as its best match
\* is a route of the table or none.
THEOREM RoutingTypeCorrect ==
    RoutingSpec => []RoutingTypeOK
<1>1. RouteInv => RoutingTypeOK
  BY DEF RouteInv
<1>. QED
  BY <1>1, RouteInitially, RouteStepwise, PTL DEF RoutingSpec

\* Where no route of the table ends in a slash, Route, which compares bytes in
\* whatever order Go visits the map, ends with the longest route that covers
\* the path segment by segment, and with none only when no route covers it.
THEOREM RouteIsLongest ==
    ASSUME ~RouteSlash
    PROVE  RoutingSpec => []RouteIsLongestMatch
<1>1. RouteInv => RouteIsLongestMatch
  BY VisitedAll
<1>. QED
  BY <1>1, RouteInitially, RouteStepwise, PTL DEF RoutingSpec

-----------------------------------------------------------------------------
(***************************************************************************)
(* The counter.                                                            *)
(***************************************************************************)
\* The remainder is the only number below n that completes a multiple of n.
LEMMA RemainderIs ==
    ASSUME NEW n \in Nat \ {0}, NEW d \in Nat, NEW r \in 0 .. n - 1
    PROVE  (d * n + r) % n = r
  OBVIOUS

LEMMA Remainder ==
    ASSUME NEW n \in Nat \ {0}, NEW x \in Nat
    PROVE  \E d \in Nat, r \in 0 .. n - 1 : x = d * n + r /\ x % n = r
  OBVIOUS


\* The backend j places before b, around the ring.
Before(b, j) == IF j <= b THEN b - j ELSE (b + N) - j

\* At most one caller of Next at a time.
OneCaller == \A g, h \in Handlers : g = h

\* The ring fits the counter: a wrap of the counter skips no backend.
RingFits == \E q \in Nat : IndexSize = q * N

-----------------------------------------------------------------------------
(***************************************************************************)
(* The scan of Next.  Its invariant says which backends have been seen     *)
(* unhealthy: the last tries of them up to the one the counter points to.  *)
(***************************************************************************)
SteadyInv == \A h \in Handlers : \A b \in steady[h] : healthy[b]

ScanInv ==
    \A h \in Handlers :
      /\ at[h] = "add" =>
           /\ tries[h] < N
           /\ \A j \in 0 .. N - 1 : j < tries[h] => Before(index % N, j) \notin steady[h]
      /\ at[h] = "load" =>
           /\ tries[h] < N
           /\ picked[h] = index % N
           /\ \A j \in 0 .. N - 1 :
                1 <= j /\ j <= tries[h] => Before(index % N, j) \notin steady[h]

RRInv == RRTypeOK /\ SteadyInv /\ ScanInv /\ NilMeansNoneHealthy

\* The request: a scan only runs, and an answer is only given, for a routed
\* request, and an answer stands on a scan that has ended.
RequestInv ==
    /\ bound \subseteq table
    /\ response \in {"none", "404", "503", "backend"}
    /\ \A h \in Handlers : at[h] # "idle" => Routed /\ HasService
    /\ response = "404" => Routed /\ ~HasService
    /\ response \in {"503", "backend"} => Routed /\ HasService
    /\ response = "503" => \A h \in Handlers : at[h] = "done" /\ chosen[h] = Nil
    /\ response = "backend" => \A h \in Handlers : at[h] = "done" /\ chosen[h] \in Backends

HandlerInv == RouteInv /\ RRInv /\ RequestInv

LEMMA IndexInRing ==
    ASSUME NEW x \in Nat
    PROVE  x % N \in Backends
  BY RoundRobinAssumption DEF Backends

\* One Add moves to the next backend, also where the counter wraps.
LEMMA RingStep ==
    ASSUME RingFits, NEW x \in 0 .. IndexSize - 1
    PROVE  ((x + 1) % IndexSize) % N = IF x % N = N - 1 THEN 0 ELSE (x % N) + 1
<1>0. N \in Nat \ {0} /\ IndexSize \in Nat \ {0} /\ x \in Nat
  BY RoundRobinAssumption
<1>1. PICK q \in Nat : IndexSize = q * N
  BY DEF RingFits
<1>2. PICK d \in Nat, r \in 0 .. N - 1 : x = d * N + r /\ x % N = r
  BY <1>0, Remainder
<1>3. CASE r = N - 1
  <2>1. x + 1 = (d + 1) * N
    BY <1>0, <1>2, <1>3
  <2>2. ((d + 1) * N) % N = 0
    <3>1. (d + 1) * N = (d + 1) * N + 0 /\ d + 1 \in Nat /\ 0 \in 0 .. N - 1
      BY <1>0
    <3>. QED
      BY <1>0, <3>1, RemainderIs
  <2>3. CASE x + 1 = IndexSize
    <3>1. (x + 1) % IndexSize = 0
      BY <1>0, <2>3
    <3>2. 0 % N = 0
      BY <1>0
    <3>. QED
      BY <1>2, <1>3, <3>1, <3>2
  <2>4. CASE x + 1 # IndexSize
    <3>1. (x + 1) % IndexSize = x + 1
      BY <1>0, <2>4
    <3>. QED
      BY <1>2, <1>3, <2>1, <2>2, <3>1
  <2>. QED
    BY <2>3, <2>4
<1>4. CASE r # N - 1
  <2>1. x + 1 = d * N + (r + 1) /\ r + 1 \in 0 .. N - 1 /\ r + 1 # 0
    BY <1>0, <1>2, <1>4
  <2>2. (x + 1) % N = r + 1
    BY <1>0, <2>1, RemainderIs
  <2>3. x + 1 # IndexSize
    <3>. SUFFICES ASSUME x + 1 = IndexSize PROVE FALSE
      OBVIOUS
    <3>1. (q * N + 0) % N = 0 /\ q * N + 0 = q * N
      <4>1. 0 \in 0 .. N - 1 /\ q * N + 0 = q * N
        BY <1>0
      <4>. QED
        BY <1>0, <4>1, RemainderIs
    <3>. QED
      BY <1>1, <2>1, <2>2, <3>1
  <2>4. (x + 1) % IndexSize = x + 1
    BY <1>0, <2>3
  <2>. QED
    BY <1>2, <1>4, <2>2, <2>4
<1>. QED
  BY <1>3, <1>4

\* Moving the counter on moves every backend one place back.
LEMMA BeforeNext ==
    ASSUME NEW c \in Backends, NEW e, e = IF c = N - 1 THEN 0 ELSE c + 1,
           NEW j \in 0 .. N - 1, 1 <= j
    PROVE  Before(e, j) = Before(c, j - 1)
  BY RoundRobinAssumption DEF Backends, Before

\* The N places before c hold all backends.
LEMMA BeforeOnto ==
    ASSUME NEW c \in Backends, NEW b \in Backends
    PROVE  \E j \in 0 .. N - 1 : Before(c, j) = b
<1>0. N \in Nat \ {0}
  BY RoundRobinAssumption
<1>1. CASE b <= c
  <2>1. c - b \in 0 .. N - 1 /\ Before(c, c - b) = b
    BY <1>0, <1>1 DEF Backends, Before
  <2>. QED
    BY <2>1
<1>2. CASE ~(b <= c)
  <2>1. (c + N) - b \in 0 .. N - 1 /\ Before(c, (c + N) - b) = b
    BY <1>0, <1>2 DEF Backends, Before
  <2>. QED
    BY <2>1
<1>. QED
  BY <1>1, <1>2

-----------------------------------------------------------------------------
(***************************************************************************)
(* The scan.                                                               *)
(***************************************************************************)
LEMMA RRInitially ==
    RRInit => RRInv
<1>. SUFFICES ASSUME RRInit PROVE RRInv
  OBVIOUS
<1>0. N \in Nat \ {0} /\ 0 \in Backends /\ 0 \in 0 .. N
  BY RoundRobinAssumption DEF Backends
<1>1. RRTypeOK
  BY <1>0 DEF RRInit, RRTypeOK, Nil
<1>2. SteadyInv /\ ScanInv /\ NilMeansNoneHealthy
  BY DEF RRInit, SteadyInv, ScanInv, NilMeansNoneHealthy
<1>. QED
  BY <1>1, <1>2 DEF RRInv

\* Every step keeps the types, whoever else calls Next.
LEMMA RRTypes ==
    RRTypeOK /\ [RRNext]_rrVars => RRTypeOK'
<1>. SUFFICES ASSUME RRTypeOK, [RRNext]_rrVars PROVE RRTypeOK'
  OBVIOUS
<1>0. N \in Nat \ {0} /\ IndexSize \in Nat \ {0} /\ 0 \in 0 .. N
  BY RoundRobinAssumption
<1>1. ASSUME NEW h \in Handlers, Call(h) PROVE RRTypeOK'
  BY <1>0, <1>1 DEF Call, RRTypeOK, HealthyNow
<1>2. ASSUME NEW h \in Handlers, Add(h) PROVE RRTypeOK'
  <2>1. index' \in 0 .. IndexSize - 1
    <3>1. index' = (index + 1) % IndexSize /\ index \in 0 .. IndexSize - 1
      BY <1>2 DEF Add, RRTypeOK
    <3>. QED
      BY <1>0, <3>1
  <2>2. index' % N \in Backends
    BY <1>0, <2>1, IndexInRing
  <2>. QED
    BY <1>2, <2>1, <2>2 DEF Add, RRTypeOK
<1>3. ASSUME NEW h \in Handlers, Take(h) PROVE RRTypeOK'
  BY <1>3 DEF Take, RRTypeOK
<1>4. ASSUME NEW h \in Handlers, Skip(h) PROVE RRTypeOK'
  <2>1. tries[h] + 1 \in 0 .. N
    <3>1. tries[h] \in 0 .. N /\ tries'[h] = tries[h] + 1
      BY <1>4 DEF Skip, RRTypeOK
    <3>2. tries'[h] < N \/ tries'[h] = N
      BY <1>4 DEF Skip
    <3>. QED
      BY <1>0, <3>1, <3>2
  <2>. QED
    BY <1>4, <2>1 DEF Skip, RRTypeOK
<1>5. ASSUME NEW b \in Backends, NEW val \in BOOLEAN, SetHealthy(b, val) PROVE RRTypeOK'
  BY <1>5 DEF SetHealthy, RRTypeOK
<1>6. CASE UNCHANGED rrVars
  BY <1>6 DEF rrVars, RRTypeOK
<1>. QED
  BY <1>1, <1>2, <1>3, <1>4, <1>5, <1>6 DEF RRNext, NextStep

\* What stayed healthy since a call began is healthy now.
LEMMA RRSteady ==
    RRInv /\ [RRNext]_rrVars => SteadyInv'
<1>. SUFFICES ASSUME RRInv, [RRNext]_rrVars, NEW g \in Handlers, NEW d \in steady'[g]
              PROVE  healthy'[d]
  BY DEF SteadyInv
<1>0. RRTypeOK /\ \A h \in Handlers : \A b \in steady[h] : healthy[b]
  BY DEF RRInv, SteadyInv
<1>1. ASSUME NEW h \in Handlers, Call(h) PROVE healthy'[d]
  <2>1. steady' = [steady EXCEPT ![h] = HealthyNow] /\ healthy' = healthy
    BY <1>1 DEF Call
  <2>. QED
    BY <1>0, <2>1 DEF RRTypeOK, HealthyNow
<1>2. ASSUME steady' = steady, healthy' = healthy PROVE healthy'[d]
  BY <1>0, <1>2
<1>3. ASSUME NEW b \in Backends, NEW val \in BOOLEAN, SetHealthy(b, val) PROVE healthy'[d]
  BY <1>3 DEF SetHealthy
<1>. QED
  BY <1>1, <1>2, <1>3 DEF RRNext, NextStep, Add, Take, Skip, rrVars

\* With one caller, the backends between its first Add and the counter are
\* those its scan has seen, and a full round has seen them all.
LEMMA RRScan ==
    ASSUME OneCaller, RingFits, RRInv, [RRNext]_rrVars
    PROVE  ScanInv' /\ NilMeansNoneHealthy'
<1>0. /\ N \in Nat \ {0} /\ IndexSize \in Nat \ {0}
      /\ RRTypeOK /\ SteadyInv /\ ScanInv /\ NilMeansNoneHealthy
      /\ index \in 0 .. IndexSize - 1 /\ index \in Nat
  BY RoundRobinAssumption DEF RRInv, RRTypeOK
<1>. DEFINE c == index % N
<1>1. c \in Backends
  BY <1>0, IndexInRing
<1>2. ASSUME NEW h \in Handlers, Call(h) PROVE ScanInv' /\ NilMeansNoneHealthy'
  <2>1. /\ at' = [at EXCEPT ![h] = "add"] /\ tries' = [tries EXCEPT ![h] = 0]
        /\ index' = index
    BY <1>2 DEF Call
  <2>2. \A g \in Handlers : g = h /\ at'[g] = "add" /\ tries'[g] = 0
    BY <1>0, <2>1 DEF OneCaller, RRTypeOK
  <2>3. ScanInv'
    BY <1>0, <2>2 DEF ScanInv
  <2>4. NilMeansNoneHealthy'
    BY <2>2 DEF NilMeansNoneHealthy
  <2>. QED
    BY <2>3, <2>4
<1>3. ASSUME NEW h \in Handlers, Add(h) PROVE ScanInv' /\ NilMeansNoneHealthy'
  <2>1. /\ at[h] = "add" /\ at' = [at EXCEPT ![h] = "load"]
        /\ index' = (index + 1) % IndexSize /\ picked' = [picked EXCEPT ![h] = index' % N]
        /\ tries' = tries /\ steady' = steady
    BY <1>3 DEF Add
  <2>2. \A g \in Handlers : g = h /\ at'[g] = "load" /\ picked'[g] = index' % N
    BY <1>0, <2>1 DEF OneCaller, RRTypeOK
  <2>3. index' % N = IF c = N - 1 THEN 0 ELSE c + 1
    BY <1>0, <2>1, RingStep
  <2>4. /\ tries[h] \in Nat /\ tries[h] < N
        /\ \A j \in 0 .. N - 1 : j < tries[h] => Before(c, j) \notin steady[h]
    BY <1>0, <2>1 DEF ScanInv, RRTypeOK
  <2>. HIDE DEF c
  <2>5. ASSUME NEW j \in 0 .. N - 1, 1 <= j, j <= tries[h]
        PROVE  Before(index' % N, j) \notin steady[h]
    <3>1. Before(index' % N, j) = Before(c, j - 1)
      BY <1>1, <2>3, <2>5, BeforeNext
    <3>2. j - 1 \in 0 .. N - 1 /\ j - 1 < tries[h]
      BY <1>0, <2>4, <2>5
    <3>. QED
      BY <2>4, <3>1, <3>2
  <2>6. ScanInv'
    BY <2>1, <2>2, <2>4, <2>5 DEF ScanInv, Before
  <2>7. NilMeansNoneHealthy'
    BY <2>2 DEF NilMeansNoneHealthy
  <2>. QED
    BY <2>6, <2>7
<1>4. ASSUME NEW h \in Handlers, Take(h) PROVE ScanInv' /\ NilMeansNoneHealthy'
  <2>1. /\ at' = [at EXCEPT ![h] = "done"] /\ chosen' = [chosen EXCEPT ![h] = picked[h]]
        /\ picked[h] \in Backends
    BY <1>0, <1>4 DEF Take, RRTypeOK
  <2>2. \A g \in Handlers : g = h /\ at'[g] = "done" /\ chosen'[g] # Nil
    BY <1>0, <2>1 DEF OneCaller, RRTypeOK, Nil, Backends
  <2>. QED
    BY <2>2 DEF ScanInv, NilMeansNoneHealthy
<1>5. ASSUME NEW h \in Handlers, Skip(h) PROVE ScanInv' /\ NilMeansNoneHealthy'
  <2>1. /\ at[h] = "load" /\ ~healthy[picked[h]] /\ tries' = [tries EXCEPT ![h] = @ + 1]
        /\ steady' = steady /\ index' = index
    BY <1>5 DEF Skip
  <2>2. /\ tries[h] \in Nat /\ tries[h] < N /\ picked[h] = c
        /\ \A j \in 0 .. N - 1 : 1 <= j /\ j <= tries[h] => Before(c, j) \notin steady[h]
    BY <1>0, <2>1 DEF ScanInv, RRTypeOK
  <2>3. c \notin steady[h]
    BY <1>0, <2>1, <2>2 DEF SteadyInv
  <2>4. Before(c, 0) = c
    BY <1>0, <1>1 DEF Before, Backends
  <2>5. \A g \in Handlers : g = h /\ tries'[g] = tries[h] + 1
    BY <1>0, <2>1 DEF OneCaller, RRTypeOK
  <2>. HIDE DEF c
  <2>6. ASSUME NEW j \in 0 .. N - 1, j < tries[h] + 1 PROVE Before(c, j) \notin steady[h]
    <3>1. CASE j = 0
      BY <2>3, <2>4, <3>1
    <3>2. CASE j # 0
      <4>1. 1 <= j /\ j <= tries[h]
        BY <1>0, <2>2, <2>6, <3>2
      <4>. QED
        BY <2>2, <4>1
    <3>. QED
      BY <3>1, <3>2
  <2>7. CASE tries'[h] < N /\ at' = [at EXCEPT ![h] = "add"]
    <3>1. \A g \in Handlers : g = h /\ at'[g] = "add"
      BY <1>0, <2>7 DEF OneCaller, RRTypeOK
    <3>2. ScanInv'
      <4>1. \A j \in 0 .. N - 1 : j < tries'[h] => Before(c, j) \notin steady[h]
        BY <2>5, <2>6
      <4>2. index' % N = c
        BY <2>1 DEF c
      <4>. QED
        BY <2>1, <2>7, <3>1, <4>1, <4>2 DEF ScanInv, Before
    <3>. QED
      BY <3>1, <3>2 DEF NilMeansNoneHealthy
  <2>8. CASE tries'[h] = N /\ at' = [at EXCEPT ![h] = "done"]
    <3>1. \A g \in Handlers : g = h /\ at'[g] = "done"
      BY <1>0, <2>8 DEF OneCaller, RRTypeOK
    <3>2. ASSUME NEW b \in steady[h] PROVE FALSE
      <4>1. b \in Backends
        BY <1>0 DEF RRTypeOK
      <4>2. PICK j \in 0 .. N - 1 : Before(c, j) = b
        BY <1>1, <4>1, BeforeOnto
      <4>3. j < tries[h] + 1
        BY <1>0, <2>5, <2>8
      <4>. QED
        BY <2>6, <4>2, <4>3
    <3>3. NilMeansNoneHealthy'
      BY <2>1, <3>1, <3>2 DEF NilMeansNoneHealthy
    <3>4. ScanInv'
      BY <3>1 DEF ScanInv
    <3>. QED
      BY <3>3, <3>4
  <2>. QED
    BY <1>5, <2>7, <2>8 DEF Skip
<1>6. ASSUME NEW b \in Backends, NEW val \in BOOLEAN, SetHealthy(b, val)
      PROVE  ScanInv' /\ NilMeansNoneHealthy'
  <2>1. /\ index' = index /\ at' = at /\ tries' = tries /\ picked' = picked
        /\ chosen' = chosen /\ \A g \in Handlers : steady'[g] \subseteq steady[g]
    BY <1>6 DEF SetHealthy
  <2>2. ScanInv'
    BY <1>0, <2>1 DEF ScanInv, Before
  <2>3. NilMeansNoneHealthy'
    BY <1>0, <2>1 DEF NilMeansNoneHealthy
  <2>. QED
    BY <2>2, <2>3
<1>7. CASE UNCHANGED rrVars
  BY <1>0, <1>7 DEF rrVars, ScanInv, NilMeansNoneHealthy, Before
<1>. QED
  BY <1>2, <1>3, <1>4, <1>5, <1>6, <1>7 DEF RRNext, NextStep

LEMMA RRStepwise ==
    ASSUME OneCaller, RingFits
    PROVE  RRInv /\ [RRNext]_rrVars => RRInv'
<1>. SUFFICES ASSUME RRInv, [RRNext]_rrVars PROVE RRInv'
  OBVIOUS
<1>1. RRTypeOK'
  BY RRTypes DEF RRInv
<1>2. SteadyInv'
  BY RRSteady
<1>3. ScanInv' /\ NilMeansNoneHealthy'
  BY RRScan
<1>. QED
  BY <1>1, <1>2, <1>3 DEF RRInv

\* The type invariant of loadbalancer.RoundRobin.Next, for any number of
\* concurrent callers: idx is always the index of a backend.
THEOREM RoundRobinTypeCorrect ==
    RRSpec => []RRTypeOK
<1>1. RRInit => RRTypeOK
  BY RRInitially DEF RRInv
<1>. QED
  BY <1>1, RRTypes, PTL DEF RRSpec

\* RoundRobin.Next returns nil to a caller that is alone only if every backend
\* was unhealthy at some time during its scan, however the probers flip them
\* and wherever the counter starts or wraps.
THEOREM NilIsHonest ==
    ASSUME OneCaller, RingFits
    PROVE  RRSpec => []NilMeansNoneHealthy
<1>1. RRInv => NilMeansNoneHealthy
  BY DEF RRInv
<1>. QED
  BY <1>1, RRInitially, RRStepwise, PTL DEF RRSpec

-----------------------------------------------------------------------------
(***************************************************************************)
(* The request: routing, then the scan, then the answer.                   *)
(***************************************************************************)
\* A step of the handler is a step of Route, of Next, or of neither.
LEMMA HandlerSplits ==
    ASSUME [HandlerNext]_handlerVars
    PROVE  [RoutingNext]_routingVars /\ [RRNext]_rrVars
<1>1. CASE RouteStep
  BY <1>1 DEF RouteStep, RoutingNext, rrVars
<1>2. CASE NotFound
  BY <1>2 DEF NotFound
<1>3. ASSUME NEW h \in Handlers, NextBackend(h)
      PROVE  [RoutingNext]_routingVars /\ [RRNext]_rrVars
  BY <1>3 DEF NextBackend, RRNext
<1>4. ASSUME NEW h \in Handlers, Respond(h)
      PROVE  [RoutingNext]_routingVars /\ [RRNext]_rrVars
  BY <1>4 DEF Respond
<1>5. ASSUME NEW b \in Backends, NEW val \in BOOLEAN, Flip(b, val)
      PROVE  [RoutingNext]_routingVars /\ [RRNext]_rrVars
  BY <1>5 DEF Flip, RRNext
<1>6. CASE UNCHANGED handlerVars
  BY <1>6 DEF handlerVars
<1>. QED
  BY <1>1, <1>2, <1>3, <1>4, <1>5, <1>6 DEF HandlerNext, HandlerStep

HandlerTypes ==
    /\ RouteInv /\ RRTypeOK
    /\ bound \subseteq table
    /\ response \in {"none", "404", "503", "backend"}

LEMMA HandlerTypesStep ==
    HandlerTypes /\ [HandlerNext]_handlerVars => HandlerTypes'
<1>. SUFFICES ASSUME HandlerTypes, [HandlerNext]_handlerVars PROVE HandlerTypes'
  OBVIOUS
<1>1. RouteInv' /\ RRTypeOK'
  BY HandlerSplits, RouteStepwise, RRTypes DEF HandlerTypes
<1>2. bound' = bound /\ table' = table
  BY DEF HandlerNext, HandlerStep, RouteStep, Visit, NotFound, NextBackend, Respond, Flip,
         handlerVars, routingVars
<1>3. response' \in {"none", "404", "503", "backend"}
  BY DEF HandlerNext, HandlerStep, RouteStep, NotFound, NextBackend, Respond, Flip,
         handlerVars, HandlerTypes
<1>. QED
  BY <1>1, <1>2, <1>3 DEF HandlerTypes

LEMMA HandlerInitially ==
    HandlerInit => HandlerInv
<1>. SUFFICES ASSUME HandlerInit PROVE HandlerInv
  OBVIOUS
<1>1. RouteInv /\ RRInv
  BY RouteInitially, RRInitially DEF HandlerInit
<1>2. bound \subseteq table /\ response = "none" /\ \A h \in Handlers : at[h] = "idle"
  BY DEF HandlerInit, RRInit
<1>3. RequestInv
  BY <1>2 DEF RequestInv
<1>. QED
  BY <1>1, <1>3 DEF HandlerInv

\* The order of the request: what a scan or an answer found does not change.
LEMMA RequestStepwise ==
    ASSUME OneCaller, HandlerInv, [HandlerNext]_handlerVars
    PROVE  RequestInv'
<1>0. /\ RequestInv /\ RRTypeOK
  BY DEF HandlerInv, RRInv
<1>1. CASE RouteStep
  <2>1. remaining # {} /\ UNCHANGED <<rrVars, bound, response, table>>
    BY <1>1 DEF RouteStep, Visit
  <2>2. ~Routed
    BY <2>1 DEF Routed
  <2>. QED
    BY <1>0, <2>1, <2>2 DEF RequestInv, rrVars
<1>2. CASE NotFound
  BY <1>0, <1>2 DEF NotFound, RequestInv, Routed, HasService, rrVars, routingVars
<1>3. ASSUME NEW h \in Handlers, NextBackend(h) PROVE RequestInv'
  <2>1. /\ Routed /\ HasService /\ response = "none"
        /\ UNCHANGED <<routingVars, bound, response>>
    BY <1>3 DEF NextBackend
  <2>2. Routed' /\ HasService' /\ table' = table
    BY <2>1 DEF Routed, HasService, routingVars
  <2>. QED
    BY <1>0, <2>1, <2>2 DEF RequestInv
<1>4. ASSUME NEW h \in Handlers, Respond(h) PROVE RequestInv'
  <2>1. /\ at[h] = "done" /\ response = "none"
        /\ response' = IF chosen[h] = Nil THEN "503" ELSE "backend"
        /\ UNCHANGED <<routingVars, rrVars, bound>>
    BY <1>4 DEF Respond
  <2>2. Routed /\ HasService
    BY <1>0, <2>1 DEF RequestInv
  <2>3. \A g \in Handlers : g = h
    BY DEF OneCaller
  <2>4. chosen[h] \in Backends \cup {Nil}
    BY <1>0 DEF RRTypeOK
  <2>5. /\ Routed' /\ HasService' /\ bound' \subseteq table'
        /\ at' = at /\ chosen' = chosen
    BY <1>0, <2>1, <2>2 DEF RequestInv, Routed, HasService, routingVars, rrVars
  <2>6. CASE chosen[h] = Nil
    BY <2>1, <2>3, <2>5, <2>6 DEF RequestInv
  <2>7. CASE chosen[h] # Nil
    BY <2>1, <2>3, <2>4, <2>5, <2>7 DEF RequestInv
  <2>. QED
    BY <2>6, <2>7
<1>5. ASSUME NEW b \in Backends, NEW val \in BOOLEAN, Flip(b, val) PROVE RequestInv'
  BY <1>0, <1>5 DEF Flip, SetHealthy, RequestInv, Routed, HasService, routingVars
<1>6. CASE UNCHANGED handlerVars
  BY <1>0, <1>6 DEF handlerVars, RequestInv, Routed, HasService, rrVars, routingVars
<1>. QED
  BY <1>1, <1>2, <1>3, <1>4, <1>5, <1>6 DEF HandlerNext, HandlerStep

LEMMA HandlerStepwise ==
    ASSUME OneCaller, RingFits
    PROVE  HandlerInv /\ [HandlerNext]_handlerVars => HandlerInv'
<1>. SUFFICES ASSUME HandlerInv, [HandlerNext]_handlerVars PROVE HandlerInv'
  OBVIOUS
<1>1. RouteInv'
  BY HandlerSplits, RouteStepwise DEF HandlerInv
<1>2. RRInv'
  BY HandlerSplits, RRStepwise DEF HandlerInv
<1>3. RequestInv'
  BY RequestStepwise
<1>. QED
  BY <1>1, <1>2, <1>3 DEF HandlerInv

\* Only one route of a length covers a path.
LEMMA OneLongest ==
    ASSUME NEW k \in Paths, NEW l \in Paths, NEW p \in Paths, ~k.slash, ~l.slash,
           Covers(k, p), Covers(l, p), Len(k.segs) = Len(l.segs)
    PROVE  k = l
<1>0. /\ k.segs \in Seq(Segments) /\ l.segs \in Seq(Segments) /\ p.segs \in Seq(Segments)
      /\ Len(k.segs) \in Nat /\ Len(l.segs) \in Nat
      /\ k.slash \in BOOLEAN /\ l.slash \in BOOLEAN
  BY PathTypes
<1>1. /\ \A i \in 1 .. Len(k.segs) : k.segs[i] = p.segs[i]
      /\ \A i \in 1 .. Len(l.segs) : l.segs[i] = p.segs[i]
  BY <1>0, PrefixIs DEF Covers
<1>2. k.segs = l.segs
  <2>1. \A i \in 1 .. Len(k.segs) : k.segs[i] = l.segs[i]
    BY <1>1
  <2>. QED
    BY <1>0, <2>1, SeqEqual
<1>3. PICK s \in Depths, b \in BOOLEAN : k = [segs |-> s, slash |-> b]
  BY DEF Paths
<1>4. PICK t \in Depths, e \in BOOLEAN : l = [segs |-> t, slash |-> e]
  BY DEF Paths
<1>. QED
  BY <1>0, <1>2, <1>3, <1>4

\* What the invariant says of the answer is what the client may rely on.
LEMMA AnswerFromInv ==
    ASSUME ~RouteSlash, HandlerInv
    PROVE  AnswerJustified
<1>. DEFINE C == {k \in table : Covers(k, path)}
<1>0. /\ RequestInv /\ RouteIsLongestMatch /\ NilMeansNoneHealthy
      /\ table \in SUBSET Keys /\ path \in Paths /\ bestmatch \in table \cup {NoRoute}
  BY VisitedAll DEF HandlerInv, RRInv, RouteInv, RoutingTypeOK
<1>1. \A k \in table : k \in Paths /\ ~k.slash
  BY <1>0 DEF Keys
<1>2. ASSUME Routed PROVE IF C = {} THEN bestmatch = NoRoute ELSE bestmatch \in Longest(C)
  BY <1>0, <1>2 DEF RouteIsLongestMatch, Routed
<1>3. ASSUME Routed, NEW k \in Longest(C) PROVE k = bestmatch
  <2>1. k \in C /\ bestmatch \in C /\ bestmatch \in Longest(C)
    BY <1>2, <1>3 DEF Longest
  <2>2. Len(k.segs) \in Nat /\ Len(bestmatch.segs) \in Nat
    BY <1>1, <2>1, PathTypes
  <2>3. Len(k.segs) = Len(bestmatch.segs)
    <3>1. Len(k.segs) <= Len(bestmatch.segs) /\ Len(bestmatch.segs) <= Len(k.segs)
      BY <1>3, <2>1 DEF Longest
    <3>. QED
      BY <2>2, <3>1
  <2>. QED
    BY <1>0, <1>1, <2>1, <2>3, OneLongest
<1>4. ASSUME response = "404" PROVE Longest(C) \cap bound = {}
  <2>1. Routed /\ bestmatch \notin bound
    BY <1>0, <1>4 DEF RequestInv, HasService
  <2>. QED
    BY <1>3, <2>1
<1>5. ASSUME response \in {"503", "backend"} PROVE Longest(C) \cap bound # {}
  <2>1. Routed /\ bestmatch \in bound /\ bestmatch \in table
    BY <1>0, <1>5 DEF RequestInv, HasService
  <2>2. bestmatch # NoRoute
    BY <1>1, <2>1 DEF Paths, NoRoute
  <2>. QED
    BY <1>2, <2>1, <2>2
<1>6. ASSUME response = "503" PROVE \A h \in Handlers : steady[h] = {}
  BY <1>0, <1>6 DEF RequestInv, NilMeansNoneHealthy
<1>7. ASSUME response = "backend" PROVE \A h \in Handlers : chosen[h] \in Backends
  BY <1>0, <1>7 DEF RequestInv
<1>. QED
  BY <1>4, <1>5, <1>6, <1>7 DEF AnswerJustified

\* The type invariant of httpHandler with Route and Next inside it, for any
\* number of handlers.
THEOREM HandlerTypeCorrect ==
    HandlerSpec => []HandlerTypeOK
<1>1. HandlerInit => HandlerTypes
  BY HandlerInitially DEF HandlerInv, RRInv, RequestInv, HandlerTypes
<1>2. HandlerTypes => HandlerTypeOK
  BY DEF HandlerTypes, HandlerTypeOK, RouteInv
<1>. QED
  BY <1>1, <1>2, HandlerTypesStep, PTL DEF HandlerSpec

\* httpHandler routes by the longest route that covers the path.
THEOREM HandlerRoutesLongest ==
    ASSUME ~RouteSlash
    PROVE  HandlerSpec => []RouteIsLongestMatch
<1>1. HandlerInit => HandlerTypes
  BY HandlerInitially DEF HandlerInv, RRInv, RequestInv, HandlerTypes
<1>2. HandlerTypes => RouteIsLongestMatch
  BY VisitedAll DEF HandlerTypes
<1>. QED
  BY <1>1, <1>2, HandlerTypesStep, PTL DEF HandlerSpec

\* Every answer of httpHandler to a request that is alone on its service has
\* its reason: a 404 the want of a service for the longest route that covers
\* the path, a 503 a scan in which no backend stayed healthy, and a proxied
\* answer a backend of such a route that the scan saw healthy.
THEOREM AnswersAreJustified ==
    ASSUME ~RouteSlash, OneCaller, RingFits
    PROVE  HandlerSpec => []AnswerJustified
<1>1. HandlerInv => AnswerJustified
  BY AnswerFromInv
<1>. QED
  BY <1>1, HandlerInitially, HandlerStepwise, PTL DEF HandlerSpec

=============================================================================
