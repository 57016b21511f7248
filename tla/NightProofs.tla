----------------------------- MODULE NightProofs -----------------------------
(***************************************************************************)
(* A night, for every catalogue, basket, payment method and bound: what    *)
(* the books say is what happened, a tick moves the prices in step, a      *)
(* score settles, and a catalogue that is exported comes back.             *)
(***************************************************************************)
EXTENDS Night, PricingProofs, SequenceTheorems

-----------------------------------------------------------------------------
(* Sequences, one element at a time.                                       *)

LEMMA SeqInduction ==
  ASSUME NEW S, NEW F \in SUBSET Seq(S), <<>> \in F,
         \A w \in F : \A c \in S : w \o <<c>> \in F
  PROVE  Seq(S) = F
<1> DEFINE T == {Len(w) : w \in Seq(S) \ F}
<1>1. SUFFICES ASSUME T # {}
               PROVE  FALSE
  OBVIOUS
<1>2. T \in SUBSET Nat
  BY LenProperties
<1>3. PICK n \in T : \A m \in T : n <= m
  <2> HIDE DEF T
  <2> QED
    BY <1>1, <1>2, LeastNumber
<1>4. PICK w \in Seq(S) \ F : Len(w) = n
  OBVIOUS
<1>5. w # <<>>
  OBVIOUS
<1>6. PICK u \in Seq(S), c \in S : w = Append(u, c)
  BY <1>4, <1>5, SequenceEmptyOrAppend
<1>7. Len(u) \in Nat /\ Len(w) = Len(u) + 1 /\ w = u \o <<c>>
  BY <1>6, LenProperties, AppendProperties, AppendIsConcat
<1>8. Len(u) \notin T
  <2>1. Len(u) \in T => n <= Len(u)
    BY <1>3
  <2> QED
    BY <1>4, <1>7, <2>1
<1> QED
  BY <1>4, <1>7, <1>8

-----------------------------------------------------------------------------
(* What FlattenSeq and ReadAll compute: their recursions have one solution. *)

FlattensTo(g, seqs, n) ==
  g = [i \in 1 .. n |-> IF i = 1 THEN seqs[i] ELSE g[i - 1] \o seqs[i]]

LEMMA FlattenUnique ==
  ASSUME NEW seqs, NEW n \in Nat, NEW g, FlattensTo(g, seqs, n), NEW h, FlattensTo(h, seqs, n)
  PROVE  g = h
<1> DEFINE T == {i \in 1 .. n : g[i] # h[i]}
<1>4. g = [i \in 1 .. n |-> g[i]] /\ h = [i \in 1 .. n |-> h[i]]
  BY DEF FlattensTo
<1>1. SUFFICES ASSUME T # {}
               PROVE  FALSE
  BY <1>4
<1>2. PICK i \in T : \A j \in T : i <= j
  <2> HIDE DEF T
  <2> SUFFICES T \in SUBSET Nat
    BY <1>1, LeastNumber
  <2> QED
    BY DEF T
<1>3. g[i] = (IF i = 1 THEN seqs[i] ELSE g[i - 1] \o seqs[i])
      /\ h[i] = (IF i = 1 THEN seqs[i] ELSE h[i - 1] \o seqs[i])
  BY DEF FlattensTo
<1>5. i # 1 => g[i - 1] = h[i - 1]
  <2>1. i # 1 => i - 1 \in 1 .. n /\ ~(i <= i - 1)
    BY <1>2
  <2> QED
    BY <1>2, <2>1
<1> QED
  BY <1>2, <1>3, <1>5

LEMMA FlattenExists ==
  ASSUME NEW seqs, NEW n \in Nat
  PROVE  \E g : FlattensTo(g, seqs, n)
<1> DEFINE T == {m \in Nat : ~\E g : FlattensTo(g, seqs, m)}
<1>1. SUFFICES ASSUME T # {}
               PROVE  FALSE
  OBVIOUS
<1>2. PICK m \in T : \A k \in T : m <= k
  <2> HIDE DEF T
  <2> SUFFICES T \in SUBSET Nat
    BY <1>1, LeastNumber
  <2> QED
    BY DEF T
<1>3. CASE m = 0
  <2> DEFINE g == [i \in 1 .. 0 |-> seqs[i]]
  <2>1. g = [i \in 1 .. 0 |-> IF i = 1 THEN seqs[i] ELSE g[i - 1] \o seqs[i]]
    OBVIOUS
  <2> HIDE DEF g
  <2> QED
    BY <1>2, <1>3, <2>1 DEF FlattensTo
<1>4. CASE m # 0
  <2>1. m - 1 \in Nat /\ m - 1 \notin T
    BY <1>2, <1>4
  <2>2. PICK g : FlattensTo(g, seqs, m - 1)
    BY <2>1
  <2> DEFINE h == [i \in 1 .. m |-> IF i = 1 THEN seqs[i]
                                    ELSE IF i = m THEN g[m - 1] \o seqs[i] ELSE g[i]]
  <2>3. \A i \in 1 .. m - 1 : g[i] = (IF i = 1 THEN seqs[i] ELSE g[i - 1] \o seqs[i])
    BY <2>2 DEF FlattensTo
  <2>4. \A i \in 1 .. m - 1 : h[i] = g[i]
    BY <2>3
  <2>5. \A i \in 1 .. m : h[i] = (IF i = 1 THEN seqs[i] ELSE h[i - 1] \o seqs[i])
    <3> TAKE i \in 1 .. m
    <3>1. CASE i = 1
      BY <3>1
    <3>2. CASE i # 1
      <4>1. i - 1 \in 1 .. m - 1
        BY <1>2, <3>2
      <4>4. h[i - 1] = g[i - 1]
        BY <2>4, <4>1
      <4> HIDE DEF h
      <4>2. CASE i = m
        <5>1. h[i] = g[i - 1] \o seqs[i]
          BY <3>2, <4>2 DEF h
        <5> QED
          BY <3>2, <4>4, <5>1
      <4>3. CASE i # m
        <5>1. i \in 1 .. m - 1
          BY <1>2, <4>3
        <5>2. h[i] = g[i] /\ g[i] = g[i - 1] \o seqs[i]
          BY <2>3, <2>4, <3>2, <5>1
        <5> QED
          BY <3>2, <4>4, <5>2
      <4> QED
        BY <4>2, <4>3
    <3> QED
      BY <3>1, <3>2
  <2>6. h = [i \in 1 .. m |-> h[i]]
    OBVIOUS
  <2> HIDE DEF h
  <2>7. FlattensTo(h, seqs, m)
    BY <2>5, <2>6 DEF FlattensTo
  <2> QED
    BY <1>2, <2>7
<1> QED
  BY <1>3, <1>4

LEMMA FlattenIs ==
  ASSUME NEW seqs, Len(seqs) \in Nat \ {0}, NEW g, FlattensTo(g, seqs, Len(seqs))
  PROVE  FlattenSeq(seqs) = g[Len(seqs)]
<1>1. \A h : FlattensTo(h, seqs, Len(seqs)) => h = g
  BY FlattenUnique
<1> QED
  BY <1>1 DEF FlattensTo, FlattenSeq

LEMMA FlattenAppend ==
  ASSUME NEW S, NEW seqs \in Seq(Seq(S)), NEW x \in Seq(S)
  PROVE  FlattenSeq(seqs \o <<x>>) = FlattenSeq(seqs) \o x
<1> DEFINE n == Len(seqs)
           more == seqs \o <<x>>
<1>1. n \in Nat /\ Len(more) = n + 1 /\ more[n + 1] = x /\ \A i \in 1 .. n : more[i] = seqs[i]
  BY LenProperties
<1>2. PICK g : FlattensTo(g, more, n + 1)
  <2>1. n + 1 \in Nat
    BY <1>1
  <2> HIDE DEF n, more
  <2> QED
    BY <2>1, FlattenExists
<1>3. FlattenSeq(more) = g[n + 1]
  <2> HIDE DEF more, n
  <2> QED
    BY <1>1, <1>2, FlattenIs
<1>4. \A i \in 1 .. n + 1 : g[i] = (IF i = 1 THEN more[i] ELSE g[i - 1] \o more[i])
  BY <1>2 DEF FlattensTo
<1> HIDE DEF more
<1>5. CASE n = 0
  <2>1. FlattenSeq(seqs) = <<>>
    BY <1>5 DEF FlattenSeq
  <2>2. g[n + 1] = x
    BY <1>1, <1>4, <1>5
  <2> QED
    BY <1>3, <2>1, <2>2 DEF more
<1>6. CASE n # 0
  <2> DEFINE h == [i \in 1 .. n |-> g[i]]
  <2>1. \A i \in 1 .. n : h[i] = (IF i = 1 THEN seqs[i] ELSE h[i - 1] \o seqs[i])
    BY <1>1, <1>4
  <2>2. h = [i \in 1 .. n |-> h[i]]
    OBVIOUS
  <2>3. h[n] = g[n]
    BY <1>1, <1>6
  <2> HIDE DEF h
  <2>4. FlattensTo(h, seqs, n)
    BY <2>1, <2>2 DEF FlattensTo
  <2>5. FlattenSeq(seqs) = h[n]
    BY <1>1, <1>6, <2>4, FlattenIs
  <2>6. g[n + 1] = g[n] \o x
    <3>1. n + 1 \in 1 .. n + 1 /\ n + 1 # 1 /\ (n + 1) - 1 = n
      BY <1>1, <1>6
    <3> QED
      BY <1>1, <1>4, <3>1
  <2> QED
    BY <1>3, <2>3, <2>5, <2>6 DEF more
<1> QED
  BY <1>5, <1>6

LEMMA FlattenType ==
  ASSUME NEW S, NEW seqs \in Seq(Seq(S))
  PROVE  FlattenSeq(seqs) \in Seq(S)
<1> DEFINE F == {w \in Seq(Seq(S)) : FlattenSeq(w) \in Seq(S)}
<1>1. <<>> \in F
  BY DEF FlattenSeq
<1>2. ASSUME NEW w \in F, NEW x \in Seq(S)
      PROVE  w \o <<x>> \in F
  <2>1. FlattenSeq(w \o <<x>>) = FlattenSeq(w) \o x
    BY FlattenAppend
  <2>2. FlattenSeq(w) \o x \in Seq(S) /\ w \o <<x>> \in Seq(Seq(S))
    BY ConcatProperties
  <2> QED
    BY <2>1, <2>2
<1>3. F \in SUBSET Seq(Seq(S))
  OBVIOUS
<1>4. Seq(Seq(S)) = F
  <2> HIDE DEF F
  <2> QED
    BY <1>1, <1>2, <1>3, SeqInduction
<1> QED
  BY <1>4

ReadsTo(g, s, text, n) ==
  g = [i \in 0 .. n |-> IF i = 0 THEN s ELSE Read(g[i - 1], text[i])]

LEMMA ReadUnique ==
  ASSUME NEW s, NEW text, NEW n \in Nat, NEW g, ReadsTo(g, s, text, n),
         NEW h, ReadsTo(h, s, text, n)
  PROVE  g = h
<1> DEFINE T == {i \in 0 .. n : g[i] # h[i]}
<1>4. g = [i \in 0 .. n |-> g[i]] /\ h = [i \in 0 .. n |-> h[i]]
  BY DEF ReadsTo
<1>1. SUFFICES ASSUME T # {}
               PROVE  FALSE
  BY <1>4
<1>2. PICK i \in T : \A j \in T : i <= j
  <2> HIDE DEF T
  <2> SUFFICES T \in SUBSET Nat
    BY <1>1, LeastNumber
  <2> QED
    BY DEF T
<1>3. g[i] = (IF i = 0 THEN s ELSE Read(g[i - 1], text[i]))
      /\ h[i] = (IF i = 0 THEN s ELSE Read(h[i - 1], text[i]))
  BY DEF ReadsTo
<1>5. i # 0 => g[i - 1] = h[i - 1]
  <2>1. i # 0 => i - 1 \in 0 .. n /\ ~(i <= i - 1)
    BY <1>2
  <2> QED
    BY <1>2, <2>1
<1> QED
  BY <1>2, <1>3, <1>5

LEMMA ReadExists ==
  ASSUME NEW s, NEW text, NEW n \in Nat
  PROVE  \E g : ReadsTo(g, s, text, n)
<1> DEFINE T == {m \in Nat : ~\E g : ReadsTo(g, s, text, m)}
<1>1. SUFFICES ASSUME T # {}
               PROVE  FALSE
  OBVIOUS
<1>2. PICK m \in T : \A k \in T : m <= k
  <2> HIDE DEF T
  <2> SUFFICES T \in SUBSET Nat
    BY <1>1, LeastNumber
  <2> QED
    BY DEF T
<1>3. CASE m = 0
  <2> DEFINE g == [i \in 0 .. 0 |-> s]
  <2>1. g = [i \in 0 .. 0 |-> IF i = 0 THEN s ELSE Read(g[i - 1], text[i])]
    OBVIOUS
  <2> HIDE DEF g
  <2> QED
    BY <1>2, <1>3, <2>1 DEF ReadsTo
<1>4. CASE m # 0
  <2>1. m - 1 \in Nat /\ m - 1 \notin T
    BY <1>2, <1>4
  <2>2. PICK g : ReadsTo(g, s, text, m - 1)
    BY <2>1
  <2> DEFINE h == [i \in 0 .. m |-> IF i = m THEN Read(g[m - 1], text[i]) ELSE g[i]]
  <2>3. \A i \in 0 .. m - 1 : g[i] = (IF i = 0 THEN s ELSE Read(g[i - 1], text[i]))
    BY <2>2 DEF ReadsTo
  <2>4. \A i \in 0 .. m - 1 : h[i] = g[i]
    BY <1>2
  <2>5. \A i \in 0 .. m : h[i] = (IF i = 0 THEN s ELSE Read(h[i - 1], text[i]))
    <3> TAKE i \in 0 .. m
    <3>1. CASE i = 0
      BY <1>2, <1>4, <2>3, <2>4, <3>1
    <3>2. CASE i # 0
      <4>1. i - 1 \in 0 .. m - 1
        BY <1>2, <3>2
      <4>2. h[i - 1] = g[i - 1]
        BY <2>4, <4>1
      <4> HIDE DEF h
      <4>3. CASE i = m
        <5>1. h[i] = Read(g[i - 1], text[i])
          BY <3>2, <4>3 DEF h
        <5> QED
          BY <3>2, <4>2, <5>1
      <4>4. CASE i # m
        <5>1. i \in 0 .. m - 1
          BY <1>2, <4>4
        <5>2. h[i] = g[i] /\ g[i] = Read(g[i - 1], text[i])
          BY <2>3, <2>4, <3>2, <5>1
        <5> QED
          BY <3>2, <4>2, <5>2
      <4> QED
        BY <4>3, <4>4
    <3> QED
      BY <3>1, <3>2
  <2>6. h = [i \in 0 .. m |-> h[i]]
    OBVIOUS
  <2> HIDE DEF h
  <2>7. ReadsTo(h, s, text, m)
    BY <2>5, <2>6 DEF ReadsTo
  <2> QED
    BY <1>2, <2>7
<1> QED
  BY <1>3, <1>4

LEMMA ReadAllIs ==
  ASSUME NEW s, NEW text, Len(text) \in Nat, NEW g, ReadsTo(g, s, text, Len(text))
  PROVE  ReadAll(s, text) = g[Len(text)]
<1>1. \A h : ReadsTo(h, s, text, Len(text)) => h = g
  BY ReadUnique
<1> QED
  BY <1>1 DEF ReadsTo, ReadAll

LEMMA ReadNone ==
  ASSUME NEW s
  PROVE  ReadAll(s, <<>>) = s
<1>1. Len(<<>>) = 0
  OBVIOUS
<1>2. PICK g : ReadsTo(g, s, <<>>, 0)
  BY ReadExists
<1>3. g[0] = s
  BY <1>2 DEF ReadsTo
<1> QED
  BY <1>1, <1>2, <1>3, ReadAllIs

LEMMA ReadOne ==
  ASSUME NEW C, NEW s, NEW w \in Seq(C), NEW c \in C
  PROVE  ReadAll(s, w \o <<c>>) = Read(ReadAll(s, w), c)
<1> DEFINE n == Len(w)
           more == w \o <<c>>
<1>1. n \in Nat /\ Len(more) = n + 1 /\ more[n + 1] = c /\ \A i \in 1 .. n : more[i] = w[i]
  BY LenProperties
<1>2. PICK g : ReadsTo(g, s, more, n + 1)
  <2>1. n + 1 \in Nat
    BY <1>1
  <2> HIDE DEF n, more
  <2> QED
    BY <2>1, ReadExists
<1>3. ReadAll(s, more) = g[n + 1]
  <2> HIDE DEF more, n
  <2> QED
    BY <1>1, <1>2, ReadAllIs
<1>4. \A i \in 0 .. n + 1 : g[i] = (IF i = 0 THEN s ELSE Read(g[i - 1], more[i]))
  BY <1>2 DEF ReadsTo
<1> HIDE DEF more
<1> DEFINE h == [i \in 0 .. n |-> g[i]]
<1>5. \A i \in 0 .. n : h[i] = (IF i = 0 THEN s ELSE Read(h[i - 1], w[i]))
  <2> TAKE i \in 0 .. n
  <2>1. i \in 0 .. n + 1 /\ h[i] = g[i]
    BY <1>1
  <2>2. i # 0 => h[i - 1] = g[i - 1] /\ more[i] = w[i]
    BY <1>1
  <2> QED
    BY <1>4, <2>1, <2>2
<1>6. h = [i \in 0 .. n |-> h[i]] /\ h[n] = g[n]
  BY <1>1
<1> HIDE DEF h
<1>7. ReadsTo(h, s, w, n)
  BY <1>5, <1>6 DEF ReadsTo
<1>8. ReadAll(s, w) = h[n]
  BY <1>1, <1>7, ReadAllIs
<1>9. g[n + 1] = Read(g[n], c)
  <2>1. n + 1 \in 0 .. n + 1 /\ n + 1 # 0 /\ (n + 1) - 1 = n
    BY <1>1
  <2> QED
    BY <1>1, <1>4, <2>1
<1> QED
  BY <1>3, <1>6, <1>8, <1>9 DEF more

LEMMA ReadConcat ==
  ASSUME NEW C, NEW s, NEW u \in Seq(C), NEW v \in Seq(C)
  PROVE  ReadAll(s, u \o v) = ReadAll(ReadAll(s, u), v)
<1> DEFINE F == {w \in Seq(C) : ReadAll(s, u \o w) = ReadAll(ReadAll(s, u), w)}
<1>1. <<>> \in F
  <2>1. u \o <<>> = u
    BY ConcatEmptySeq
  <2> QED
    BY <2>1, ReadNone, EmptySeq
<1>2. ASSUME NEW w \in F, NEW c \in C
      PROVE  w \o <<c>> \in F
  <2>1. <<c>> \in Seq(C) /\ w \in Seq(C) /\ u \o w \in Seq(C) /\ w \o <<c>> \in Seq(C)
    BY ConcatProperties
  <2>2. u \o (w \o <<c>>) = (u \o w) \o <<c>>
    BY <2>1, ConcatAssociative
  <2>3. ReadAll(s, (u \o w) \o <<c>>) = Read(ReadAll(s, u \o w), c)
    <3>1. PICK x \in Seq(C) : x = u \o w
      BY <2>1
    <3>2. ReadAll(s, x \o <<c>>) = Read(ReadAll(s, x), c)
      BY ReadOne
    <3> QED
      BY <3>1, <3>2
  <2>4. ReadAll(ReadAll(s, u), w \o <<c>>) = Read(ReadAll(ReadAll(s, u), w), c)
    BY <2>1, ReadOne
  <2> QED
    BY <2>1, <2>2, <2>3, <2>4
<1>3. F \in SUBSET Seq(C)
  OBVIOUS
<1>4. Seq(C) = F
  <2> HIDE DEF F
  <2> QED
    BY <1>1, <1>2, <1>3, SeqInduction
<1> QED
  BY <1>4

-----------------------------------------------------------------------------
(* The catalogue as CSV.  STRING holds every string; a prover has to be     *)
(* told of the ones a file is written with.                                *)

Char == STRING \cup {BOM, "\"", ",", "\n", "\r", "sim", "nao", "nome", "grupo", "alcoolica",
                     "base", "minimo", "maximo", "stock", "ordem"}
Special == {"\"", ",", "\n", "\r"}

At(rows, row, cell, quoted, closed) ==
  [rows |-> rows, row |-> row, cell |-> cell, quoted |-> quoted, closed |-> closed]

LEMMA Pair ==
  ASSUME NEW C, NEW q \in C, NEW z \in C
  PROVE  <<q>> \in Seq(C) /\ <<q, z>> \in Seq(C) /\ <<q>> \o <<z>> = <<q, z>>
<1>1. <<q>> \in Seq(C) /\ <<z>> \in Seq(C) /\ <<q, z>> \in Seq(C)
  OBVIOUS
<1>2. <<q>> \o <<z>> \in Seq(C)
  BY <1>1, ConcatProperties
<1>3. Len(<<q>> \o <<z>>) = 2 /\ Len(<<q, z>>) = 2
  BY <1>1, ConcatProperties
<1>4. (<<q>> \o <<z>>)[1] = q /\ (<<q>> \o <<z>>)[2] = z
  OBVIOUS
<1>5. \A i \in 1 .. 2 : (<<q>> \o <<z>>)[i] = <<q, z>>[i]
  BY <1>4
<1> QED
  BY <1>1, <1>2, <1>3, <1>5, SeqEqual

Doubled(c) == IF c = "\"" THEN <<"\"", "\"">> ELSE <<c>>
Escaped(w) == FlattenSeq([i \in DOMAIN w |-> Doubled(w[i])])

LEMMA EscapedAppend ==
  ASSUME NEW w \in Seq(Char), NEW c \in Char
  PROVE  /\ Escaped(<<>>) = <<>>
         /\ Escaped(w \o <<c>>) = Escaped(w) \o Doubled(c)
         /\ Escaped(w) \in Seq(Char)
<1> DEFINE f == [i \in DOMAIN w |-> Doubled(w[i])]
           g == [i \in DOMAIN (w \o <<c>>) |-> Doubled((w \o <<c>>)[i])]
           n == Len(w)
<1>1. \A d \in Char : Doubled(d) \in Seq(Char)
  <2>1. "\"" \in Char
    BY DEF Char
  <2>2. <<"\"", "\"">> \in Seq(Char)
    BY <2>1, Pair
  <2>3. \A d \in Char : <<d>> \in Seq(Char)
    OBVIOUS
  <2> QED
    BY <2>2, <2>3, Zenon DEF Doubled
<1>2. n \in Nat /\ DOMAIN w = 1 .. n /\ \A i \in 1 .. n : w[i] \in Char
  BY LenProperties
<1>3. w \o <<c>> \in Seq(Char) /\ Len(w \o <<c>>) = n + 1 /\ DOMAIN (w \o <<c>>) = 1 .. n + 1
      /\ (w \o <<c>>)[n + 1] = c /\ \A i \in 1 .. n : (w \o <<c>>)[i] = w[i]
  BY <1>2, LenProperties
<1>4. f \in Seq(Seq(Char)) /\ Len(f) = n /\ \A i \in 1 .. n : f[i] = Doubled(w[i])
  BY <1>1, <1>2
<1>5. \A i \in 1 .. n + 1 : (w \o <<c>>)[i] \in Char
  BY <1>2, <1>3
<1>6. g \in Seq(Seq(Char)) /\ Len(g) = n + 1
      /\ \A i \in 1 .. n + 1 : g[i] = Doubled((w \o <<c>>)[i])
  BY <1>1, <1>2, <1>3, <1>5
<1> HIDE DEF f, g, n
<1>7. f \o <<Doubled(c)>> \in Seq(Seq(Char)) /\ Len(f \o <<Doubled(c)>>) = n + 1
      /\ \A i \in 1 .. n + 1 : (f \o <<Doubled(c)>>)[i] = IF i <= n THEN f[i] ELSE Doubled(c)
  BY <1>1, <1>2, <1>4
<1>8. g = f \o <<Doubled(c)>>
  <2>1. \A i \in 1 .. n + 1 : g[i] = (f \o <<Doubled(c)>>)[i]
    BY <1>2, <1>3, <1>4, <1>6, <1>7
  <2> QED
    BY <1>6, <1>7, <2>1, SeqEqual
<1>9. FlattenSeq(g) = FlattenSeq(f) \o Doubled(c)
  BY <1>1, <1>4, <1>8, FlattenAppend
<1>10. FlattenSeq(f) \in Seq(Char)
  BY <1>4, FlattenType
<1>11. Escaped(<<>>) = <<>>
  BY DEF Escaped, FlattenSeq
<1> QED
  BY <1>9, <1>10, <1>11 DEF Escaped, f, g

Reads(s, text, t) == text \in Seq(Char) /\ ReadAll(s, text) = t

LEMMA ReadsThen ==
  ASSUME NEW s, NEW u, NEW t, NEW v, NEW e, Reads(s, u, t), Reads(t, v, e)
  PROVE  Reads(s, u \o v, e)
BY ReadConcat, ConcatProperties DEF Reads

LEMMA ReadsChar ==
  ASSUME NEW s, NEW c \in Char
  PROVE  Reads(s, <<c>>, Read(s, c))
<1>1. PICK e \in Seq(Char) : e = <<>>
  BY EmptySeq
<1>2. e \o <<c>> = <<c>> /\ <<c>> \in Seq(Char)
  BY <1>1, ConcatEmptySeq
<1>3. ReadAll(s, e \o <<c>>) = Read(ReadAll(s, e), c)
  BY ReadOne
<1>4. ReadAll(s, e) = s
  BY <1>1, ReadNone
<1> QED
  BY <1>2, <1>3, <1>4 DEF Reads

LEMMA ReadsIs ==
  ASSUME NEW R, NEW r, NEW w, NEW k \in BOOLEAN
  PROVE  /\ \A c \in Char : c \notin Special =>
              Reads(At(R, r, w, FALSE, k), <<c>>, At(R, r, Append(w, c), FALSE, FALSE))
         /\ \A c \in Char : c # "\"" =>
              Reads(At(R, r, w, TRUE, FALSE), <<c>>, At(R, r, Append(w, c), TRUE, FALSE))
         /\ Reads(At(R, r, w, FALSE, FALSE), <<"\"">>, At(R, r, w, TRUE, FALSE))
         /\ Reads(At(R, r, w, TRUE, FALSE), <<"\"">>, At(R, r, w, FALSE, TRUE))
         /\ Reads(At(R, r, w, FALSE, TRUE), <<"\"">>, At(R, r, Append(w, "\""), TRUE, FALSE))
         /\ Reads(At(R, r, w, FALSE, k), <<",">>, At(R, Append(r, w), <<>>, FALSE, FALSE))
         /\ Reads(At(R, r, w, FALSE, k), <<"\r">>, At(R, r, w, FALSE, FALSE))
         /\ Reads(At(R, r, w, FALSE, k), <<"\n">>,
                  At(Append(R, Append(r, w)), <<>>, <<>>, FALSE, FALSE))
<1>1. "\"" \in Char /\ "," \in Char /\ "\r" \in Char /\ "\n" \in Char
  BY DEF Char
<1>2. \A s : \A c \in Char : Reads(s, <<c>>, Read(s, c))
  BY ReadsChar
<1>3. \A c \in Char : c \notin Special =>
        Reads(At(R, r, w, FALSE, k), <<c>>, At(R, r, Append(w, c), FALSE, FALSE))
  <2>1. ASSUME NEW c \in Char, c \notin Special
        PROVE  Read(At(R, r, w, FALSE, k), c) = At(R, r, Append(w, c), FALSE, FALSE)
    BY <2>1 DEF Special, Read, ReadPlain, Take, At
  <2> QED
    BY <1>2, <2>1, Zenon
<1>4. \A c \in Char : c # "\"" =>
        Reads(At(R, r, w, TRUE, FALSE), <<c>>, At(R, r, Append(w, c), TRUE, FALSE))
  <2>1. ASSUME NEW c \in Char, c # "\""
        PROVE  Read(At(R, r, w, TRUE, FALSE), c) = At(R, r, Append(w, c), TRUE, FALSE)
    BY <2>1 DEF Read, ReadQuoted, Take, At
  <2> QED
    BY <1>2, <2>1, Zenon
<1>5. Reads(At(R, r, w, FALSE, FALSE), <<"\"">>, At(R, r, w, TRUE, FALSE))
  <2>1. Read(At(R, r, w, FALSE, FALSE), "\"") = At(R, r, w, TRUE, FALSE)
    BY DEF Read, ReadQuoted, ReadPlain, Take, EndRow, EndCell, At
  <2> QED
    BY <1>1, <1>2, <2>1, Zenon
<1>6. Reads(At(R, r, w, TRUE, FALSE), <<"\"">>, At(R, r, w, FALSE, TRUE))
  <2>1. Read(At(R, r, w, TRUE, FALSE), "\"") = At(R, r, w, FALSE, TRUE)
    BY DEF Read, ReadQuoted, ReadPlain, Take, EndRow, EndCell, At
  <2> QED
    BY <1>1, <1>2, <2>1, Zenon
<1>7. Reads(At(R, r, w, FALSE, TRUE), <<"\"">>, At(R, r, Append(w, "\""), TRUE, FALSE))
  <2>1. Read(At(R, r, w, FALSE, TRUE), "\"") = At(R, r, Append(w, "\""), TRUE, FALSE)
    BY DEF Read, ReadQuoted, ReadPlain, Take, EndRow, EndCell, At
  <2> QED
    BY <1>1, <1>2, <2>1, Zenon
<1>8. Reads(At(R, r, w, FALSE, k), <<",">>, At(R, Append(r, w), <<>>, FALSE, FALSE))
  <2>1. Read(At(R, r, w, FALSE, k), ",") = At(R, Append(r, w), <<>>, FALSE, FALSE)
    BY DEF Read, ReadQuoted, ReadPlain, Take, EndRow, EndCell, At
  <2> QED
    BY <1>1, <1>2, <2>1, Zenon
<1>9. Reads(At(R, r, w, FALSE, k), <<"\r">>, At(R, r, w, FALSE, FALSE))
  <2>1. Read(At(R, r, w, FALSE, k), "\r") = At(R, r, w, FALSE, FALSE)
    BY DEF Read, ReadQuoted, ReadPlain, Take, EndRow, EndCell, At
  <2> QED
    BY <1>1, <1>2, <2>1, Zenon
<1>10. Reads(At(R, r, w, FALSE, k), <<"\n">>,
             At(Append(R, Append(r, w)), <<>>, <<>>, FALSE, FALSE))
  <2>1. Read(At(R, r, w, FALSE, k), "\n")
          = At(Append(R, Append(r, w)), <<>>, <<>>, FALSE, FALSE)
    BY DEF Read, ReadQuoted, ReadPlain, Take, EndRow, EndCell, At
  <2> QED
    BY <1>1, <1>2, <2>1, Zenon
<1> QED
  BY <1>3, <1>4, <1>5, <1>6, <1>7, <1>8, <1>9, <1>10, Zenon

LEMMA EscapedReads ==
  ASSUME NEW R, NEW r, NEW cell \in Seq(Char)
  PROVE  Reads(At(R, r, <<>>, TRUE, FALSE), Escaped(cell), At(R, r, cell, TRUE, FALSE))
<1> DEFINE F == {w \in Seq(Char) :
                   Reads(At(R, r, <<>>, TRUE, FALSE), Escaped(w), At(R, r, w, TRUE, FALSE))}
<1>1. "\"" \in Char
  BY DEF Char
<1>2. <<>> \in F
  <2>1. Escaped(<<>>) = <<>> /\ <<>> \in Seq(Char)
    BY <1>1, EscapedAppend, EmptySeq
  <2>2. \A s : Reads(s, <<>>, s)
    BY <2>1, ReadNone DEF Reads
  <2> QED
    BY <2>1, <2>2
<1>3. ASSUME NEW w \in F, NEW c \in Char
      PROVE  w \o <<c>> \in F
  <2>1. Escaped(w \o <<c>>) = Escaped(w) \o Doubled(c) /\ Escaped(w) \in Seq(Char)
    BY EscapedAppend
  <2>2. w \o <<c>> \in Seq(Char) /\ Append(w, c) = w \o <<c>> /\ w \in Seq(Char)
    BY ConcatProperties, AppendIsConcat
  <2>3. Reads(At(R, r, w, TRUE, FALSE), Doubled(c), At(R, r, w \o <<c>>, TRUE, FALSE))
    <3>1. CASE c = "\""
      <4>1. Doubled(c) = <<"\"">> \o <<"\"">>
        BY <1>1, <3>1, Pair DEF Doubled
      <4>2. Reads(At(R, r, w, TRUE, FALSE), <<"\"">>, At(R, r, w, FALSE, TRUE))
        BY ReadsIs
      <4>3. Reads(At(R, r, w, FALSE, TRUE), <<"\"">>, At(R, r, Append(w, "\""), TRUE, FALSE))
        BY ReadsIs
      <4>4. Reads(At(R, r, w, TRUE, FALSE), <<"\"">> \o <<"\"">>,
                  At(R, r, Append(w, "\""), TRUE, FALSE))
        BY <4>2, <4>3, ReadsThen, Zenon
      <4> QED
        BY <2>2, <3>1, <4>1, <4>4, Zenon
    <3>2. CASE c # "\""
      <4>1. Doubled(c) = <<c>>
        BY <3>2 DEF Doubled
      <4>2. Reads(At(R, r, w, TRUE, FALSE), <<c>>, At(R, r, Append(w, c), TRUE, FALSE))
        BY <3>2, ReadsIs
      <4> QED
        BY <2>2, <4>1, <4>2, Zenon
    <3> QED
      BY <3>1, <3>2
  <2>4. Reads(At(R, r, <<>>, TRUE, FALSE), Escaped(w), At(R, r, w, TRUE, FALSE))
    OBVIOUS
  <2>5. Reads(At(R, r, <<>>, TRUE, FALSE), Escaped(w) \o Doubled(c),
              At(R, r, w \o <<c>>, TRUE, FALSE))
    BY <2>3, <2>4, ReadsThen, Zenon
  <2> QED
    BY <2>1, <2>2, <2>5
<1>4. F \in SUBSET Seq(Char)
  OBVIOUS
<1>5. Seq(Char) = F
  <2> HIDE DEF F
  <2> QED
    BY <1>2, <1>3, <1>4, SeqInduction
<1> QED
  BY <1>5

LEMMA PlainReads ==
  ASSUME NEW R, NEW r, NEW cell \in Seq(Char), \A i \in DOMAIN cell : cell[i] \notin Special
  PROVE  Reads(At(R, r, <<>>, FALSE, FALSE), cell, At(R, r, cell, FALSE, FALSE))
<1> DEFINE Plain(w) == \A i \in DOMAIN w : w[i] \notin Special
           F == {w \in Seq(Char) : Plain(w) =>
                   Reads(At(R, r, <<>>, FALSE, FALSE), w, At(R, r, w, FALSE, FALSE))}
<1>1. <<>> \in F
  <2>1. <<>> \in Seq(Char)
    BY EmptySeq
  <2>2. \A s : Reads(s, <<>>, s)
    BY <2>1, ReadNone DEF Reads
  <2> QED
    BY <2>1, <2>2
<1>2. ASSUME NEW w \in F, NEW c \in Char
      PROVE  w \o <<c>> \in F
  <2>1. w \o <<c>> \in Seq(Char) /\ Append(w, c) = w \o <<c>> /\ w \in Seq(Char)
    BY ConcatProperties, AppendIsConcat
  <2>2. SUFFICES ASSUME Plain(w \o <<c>>)
                 PROVE  Reads(At(R, r, <<>>, FALSE, FALSE), w \o <<c>>,
                              At(R, r, w \o <<c>>, FALSE, FALSE))
    BY <2>1
  <2>3. Len(w) \in Nat /\ DOMAIN (w \o <<c>>) = 1 .. Len(w) + 1 /\ DOMAIN w = 1 .. Len(w)
        /\ (w \o <<c>>)[Len(w) + 1] = c /\ \A i \in 1 .. Len(w) : (w \o <<c>>)[i] = w[i]
    BY <2>1, LenProperties
  <2>4. c \notin Special /\ Plain(w)
    BY <2>2, <2>3
  <2>5. Reads(At(R, r, <<>>, FALSE, FALSE), w, At(R, r, w, FALSE, FALSE))
    BY <2>4
  <2>6. Reads(At(R, r, w, FALSE, FALSE), <<c>>, At(R, r, Append(w, c), FALSE, FALSE))
    BY <2>4, ReadsIs
  <2> QED
    BY <2>1, <2>5, <2>6, ReadsThen, Zenon
<1>3. F \in SUBSET Seq(Char)
  OBVIOUS
<1>4. Seq(Char) = F
  <2> HIDE DEF F
  <2> QED
    BY <1>1, <1>2, <1>3, SeqInduction
<1> QED
  BY <1>4

\* A cell that is written reads back, whatever it is made of.
LEMMA CellReads ==
  ASSUME NEW R, NEW r, NEW cell \in Seq(Char)
  PROVE  \E k \in BOOLEAN : Reads(At(R, r, <<>>, FALSE, FALSE), escapeCell(cell),
                                  At(R, r, cell, FALSE, k))
<1>1. CASE \E i \in DOMAIN cell : cell[i] \in Special
  <2>1. escapeCell(cell) = (<<"\"">> \o Escaped(cell)) \o <<"\"">>
    BY <1>1, Zenon DEF escapeCell, Special, Escaped, Doubled
  <2>2. Reads(At(R, r, <<>>, FALSE, FALSE), <<"\"">>, At(R, r, <<>>, TRUE, FALSE))
    BY ReadsIs
  <2>3. Reads(At(R, r, <<>>, TRUE, FALSE), Escaped(cell), At(R, r, cell, TRUE, FALSE))
    BY EscapedReads
  <2>4. Reads(At(R, r, cell, TRUE, FALSE), <<"\"">>, At(R, r, cell, FALSE, TRUE))
    BY ReadsIs
  <2>5. Reads(At(R, r, <<>>, FALSE, FALSE), <<"\"">> \o Escaped(cell),
              At(R, r, cell, TRUE, FALSE))
    BY <2>2, <2>3, ReadsThen, Zenon
  <2>6. Reads(At(R, r, <<>>, FALSE, FALSE), (<<"\"">> \o Escaped(cell)) \o <<"\"">>,
              At(R, r, cell, FALSE, TRUE))
    BY <2>4, <2>5, ReadsThen, Zenon
  <2> QED
    BY <2>1, <2>6
<1>2. CASE ~\E i \in DOMAIN cell : cell[i] \in Special
  <2>1. escapeCell(cell) = cell
    BY <1>2, Zenon DEF escapeCell, Special
  <2>2. Reads(At(R, r, <<>>, FALSE, FALSE), cell, At(R, r, cell, FALSE, FALSE))
    BY <1>2, PlainReads
  <2> QED
    BY <2>1, <2>2
<1> QED
  BY <1>1, <1>2

-----------------------------------------------------------------------------
(* Cells joined into lines, lines into a file.                             *)

Joins(T, parts, separator, x) ==
  /\ join(parts, separator) \in T
  /\ join(parts \o <<x>>, separator)
       = IF parts = <<>> THEN x ELSE join(parts, separator) \o (separator \o x)

LEMMA JoinAppend ==
  ASSUME NEW C, NEW parts \in Seq(Seq(C)), NEW separator \in Seq(C), NEW x \in Seq(C)
  PROVE  Joins(Seq(C), parts, separator, x)
<1> DEFINE more == parts \o <<x>>
           part(s) == [i \in DOMAIN s |-> IF i = 1 THEN s[1] ELSE separator \o s[i]]
           n == Len(parts)
           y == IF n = 0 THEN x ELSE separator \o x
<1>1. n \in Nat /\ DOMAIN parts = 1 .. n /\ \A i \in 1 .. n : parts[i] \in Seq(C)
  BY LenProperties
<1>2. DOMAIN more = 1 .. n + 1 /\ more[n + 1] = x /\ \A i \in 1 .. n : more[i] = parts[i]
  BY <1>1
<1>3. y \in Seq(C)
  BY ConcatProperties
<1>4. \A i \in 1 .. n : part(parts)[i] \in Seq(C)
  <2> TAKE i \in 1 .. n
  <2>1. separator \o parts[i] \in Seq(C)
    BY <1>1, ConcatProperties
  <2>2. 1 \in 1 .. n
    BY <1>1
  <2> QED
    BY <1>1, <2>1, <2>2
<1>5. part(parts) \in Seq(Seq(C)) /\ Len(part(parts)) = n
  <2>1. part(parts) = [i \in 1 .. n |-> part(parts)[i]]
    BY <1>1
  <2> HIDE DEF part
  <2> QED
    BY <1>1, <1>4, <2>1
<1>6. part(more) = part(parts) \o <<y>>
  <2>1. DOMAIN part(more) = 1 .. n + 1 /\ DOMAIN part(parts) = 1 .. n
    BY <1>1, <1>2
  <2>2. \A i \in 1 .. n : part(more)[i] = part(parts)[i]
    <3> TAKE i \in 1 .. n
    <3>1. 1 \in 1 .. n /\ i \in 1 .. n + 1
      BY <1>1
    <3>2. more[1] = parts[1] /\ more[i] = parts[i]
      BY <1>2, <3>1
    <3> HIDE DEF more
    <3> QED
      BY <1>1, <1>2, <3>1, <3>2
  <2>3. part(more)[n + 1] = y
    <3>1. n + 1 \in 1 .. n + 1 /\ (n + 1 = 1 <=> n = 0)
      BY <1>1
    <3> HIDE DEF more
    <3> QED
      BY <1>2, <3>1
  <2>4. part(more) = [i \in 1 .. n + 1 |-> part(more)[i]]
    BY <1>2
  <2>5. part(more) \in Seq(Seq(C)) /\ Len(part(more)) = n + 1
    <3>1. \A i \in 1 .. n + 1 : part(more)[i] \in Seq(C)
      <4>1. \A i \in 1 .. n + 1 : i \in 1 .. n \/ i = n + 1
        BY <1>1
      <4> HIDE DEF part, y, more
      <4> QED
        BY <1>3, <1>4, <2>2, <2>3, <4>1
    <3> HIDE DEF part, more
    <3> QED
      BY <1>1, <2>4, <3>1
  <2> HIDE DEF part, y, more
  <2>6. part(parts) \o <<y>> \in Seq(Seq(C)) /\ Len(part(parts) \o <<y>>) = n + 1
        /\ (part(parts) \o <<y>>)[n + 1] = y
        /\ \A i \in 1 .. n : (part(parts) \o <<y>>)[i] = part(parts)[i]
    <3>1. PICK s \in Seq(Seq(C)) : s = part(parts)
      BY <1>5
    <3> QED
      BY <1>1, <1>3, <1>5, <3>1
  <2>7. \A i \in 1 .. n + 1 : part(more)[i] = (part(parts) \o <<y>>)[i]
    BY <1>1, <2>2, <2>3, <2>6
  <2> QED
    BY <2>5, <2>6, <2>7, SeqEqual
<1>7. join(parts, separator) = FlattenSeq(part(parts)) /\ join(more, separator) = FlattenSeq(part(more))
  BY DEF join
<1>8. FlattenSeq(part(parts)) \in Seq(C)
  <2> HIDE DEF part
  <2> QED
    BY <1>5, FlattenType
<1>9. FlattenSeq(part(more)) = FlattenSeq(part(parts)) \o y
  <2> HIDE DEF part, y, more
  <2> QED
    BY <1>3, <1>5, <1>6, FlattenAppend
<1>13. join(parts, separator) \in Seq(C)
  BY <1>7, <1>8
<1>14. join(more, separator)
         = IF parts = <<>> THEN x ELSE join(parts, separator) \o (separator \o x)
  <2>1. CASE n = 0
    <3>1. parts = <<>>
      BY <2>1, EmptySeq
    <3>2. FlattenSeq(part(parts)) = <<>>
      BY <3>1 DEF FlattenSeq
    <3>3. <<>> \o x = x
      BY ConcatEmptySeq
    <3> HIDE DEF part
    <3> QED
      BY <1>7, <1>8, <1>9, <2>1, <3>1, <3>2, <3>3
  <2>2. CASE n # 0
    <3>1. parts # <<>>
      BY <2>2
    <3> HIDE DEF part
    <3> QED
      BY <1>7, <1>8, <1>9, <2>2, <3>1
  <2> QED
    BY <2>1, <2>2
<1> QED
  BY <1>13, <1>14 DEF Joins

Map(h, w) == [i \in DOMAIN w |-> h[w[i]]]

Maps(C, D, h, w, c) ==
  /\ w \o <<c>> \in Seq(C) /\ Append(w, c) = w \o <<c>>
  /\ Map(h, w) \in Seq(D) /\ Len(Map(h, w)) = Len(w)
  /\ Map(h, w \o <<c>>) = Map(h, w) \o <<h[c]>>

LEMMA MapAppend ==
  ASSUME NEW C, NEW D, NEW h \in [C -> D], NEW w \in Seq(C), NEW c \in C
  PROVE  Maps(C, D, h, w, c)
<1>1. PICK n \in Nat : n = Len(w) /\ DOMAIN w = 1 .. n
  BY LenProperties
<1>2. \A i \in 1 .. n : w[i] \in C
  BY <1>1
<1>3. w \o <<c>> \in Seq(C) /\ Append(w, c) = w \o <<c>>
  BY ConcatProperties, AppendIsConcat
<1>4. PICK more \in Seq(C) : more = w \o <<c>>
  BY <1>3
<1>5. more[n + 1] = c /\ DOMAIN more = 1 .. n + 1 /\ \A i \in 1 .. n : more[i] = w[i]
  BY <1>1, <1>4
<1>6. n + 1 \in 1 .. n + 1 /\ \A i \in 1 .. n + 1 : i \in 1 .. n \/ i = n + 1
  OBVIOUS
<1>7. PICK f \in [1 .. n -> D] : f = Map(h, w)
  BY <1>1, <1>2 DEF Map
<1>8. \A i \in 1 .. n + 1 : more[i] \in C
  BY <1>2, <1>5, <1>6
<1>9. PICK g \in [1 .. n + 1 -> D] : g = Map(h, more)
  BY <1>5, <1>8 DEF Map
<1>10. \A i \in 1 .. n : f[i] = h[w[i]] /\ g[i] = h[w[i]]
  BY <1>1, <1>5, <1>7, <1>9 DEF Map
<1>11. g[n + 1] = h[c]
  BY <1>5, <1>6, <1>9 DEF Map
<1>12. f \in Seq(D) /\ Len(f) = n /\ g \in Seq(D) /\ Len(g) = n + 1
  OBVIOUS
<1>13. PICK e \in D : e = h[c]
  OBVIOUS
<1>14. f \o <<e>> \in Seq(D) /\ Len(f \o <<e>>) = n + 1 /\ (f \o <<e>>)[n + 1] = e
       /\ \A i \in 1 .. n : (f \o <<e>>)[i] = f[i]
  BY <1>12
<1>15. \A i \in 1 .. n + 1 : g[i] = (f \o <<e>>)[i]
  BY <1>6, <1>10, <1>11, <1>13, <1>14
<1>16. g = f \o <<e>>
  BY <1>12, <1>14, <1>15, SeqEqual
<1> QED
  BY <1>1, <1>3, <1>4, <1>7, <1>9, <1>12, <1>13, <1>16 DEF Maps

Text == Seq(Char)
Cells(row) == [i \in DOMAIN row |-> escapeCell(row[i])]
Line(row) == join(Cells(row), <<",">>)
Break == <<"\r", "\n">>

LEMMA EscapeType ==
  ASSUME NEW c \in Text
  PROVE  escapeCell(c) \in Text
<1>1. \E k \in BOOLEAN : Reads(At(<<>>, <<>>, <<>>, FALSE, FALSE), escapeCell(c),
                               At(<<>>, <<>>, c, FALSE, k))
  BY CellReads DEF Text
<1> QED
  BY <1>1 DEF Reads, Text

LEMMA TextType == Break \in Text /\ <<",">> \in Text /\ <<>> \in Text
<1>1. "\r" \in Char /\ "\n" \in Char /\ "," \in Char
  BY DEF Char
<1> QED
  BY <1>1, Pair, EmptySeq DEF Break, Text

LEMMA TextJoin ==
  ASSUME NEW parts \in Seq(Text), NEW separator \in Text, NEW x \in Text
  PROVE  Joins(Text, parts, separator, x)
BY JoinAppend DEF Text

LEMMA LineAppend ==
  ASSUME NEW row \in Seq(Text), NEW c \in Text
  PROVE  /\ Line(row) \in Text
         /\ Line(row \o <<c>>) = IF row = <<>> THEN escapeCell(c)
                                 ELSE Line(row) \o (<<",">> \o escapeCell(c))
<1> DEFINE escape == [d \in Text |-> escapeCell(d)]
<1>1. escape \in [Text -> Text] /\ \A d \in Text : escape[d] = escapeCell(d)
  BY EscapeType
<1>2. \A u \in Seq(Text) : Cells(u) = Map(escape, u)
  <2> TAKE u \in Seq(Text)
  <2>1. \A i \in DOMAIN u : u[i] \in Text
    OBVIOUS
  <2> QED
    BY <2>1 DEF Cells, Map
<1> HIDE DEF escape
<1>3. Maps(Text, Text, escape, row, c)
  BY <1>1, MapAppend
<1>4. row \o <<c>> \in Seq(Text) /\ Map(escape, row) \in Seq(Text)
      /\ Len(Map(escape, row)) = Len(row)
      /\ Map(escape, row \o <<c>>) = Map(escape, row) \o <<escape[c]>>
  BY <1>3, Zenon DEF Maps
<1>5. PICK cells \in Seq(Text) : cells = Map(escape, row)
  BY <1>4
<1>6. PICK e \in Text : e = escapeCell(c)
  BY EscapeType
<1>7. Cells(row) = cells /\ Cells(row \o <<c>>) = cells \o <<e>>
  BY <1>1, <1>2, <1>4, <1>5, <1>6, Zenon
<1>8. cells = <<>> <=> row = <<>>
  BY <1>4, <1>5, EmptySeq
<1>9. Joins(Text, cells, <<",">>, e)
  BY TextType, TextJoin
<1> QED
  BY <1>6, <1>7, <1>8, <1>9, Zenon DEF Line, Joins

\* A line that is written reads back as its row, the last cell still open.
RowReads(R, row) ==
  \E r, w : \E k \in BOOLEAN :
    /\ Append(r, w) = row
    /\ Reads(At(R, <<>>, <<>>, FALSE, FALSE), Line(row), At(R, r, w, FALSE, k))

LEMMA LineReads ==
  ASSUME NEW R, NEW row \in Seq(Text), row # <<>>
  PROVE  RowReads(R, row)
<1> DEFINE F == {u \in Seq(Text) : u # <<>> => RowReads(R, u)}
<1>1. <<>> \in F
  <2>1. <<>> \in Seq(Text)
    BY EmptySeq
  <2> QED
    BY <2>1
<1>2. ASSUME NEW u \in F, NEW c \in Text
      PROVE  u \o <<c>> \in F
  <2>1. u \in Seq(Text) /\ u \o <<c>> \in Seq(Text) /\ Append(u, c) = u \o <<c>>
    BY Pair, ConcatProperties, AppendIsConcat
  <2>2. SUFFICES RowReads(R, u \o <<c>>)
    BY <2>1
  <2>3. PICK k \in BOOLEAN : Reads(At(R, u, <<>>, FALSE, FALSE), escapeCell(c),
                                   At(R, u, c, FALSE, k))
    BY CellReads DEF Text
  <2>4. CASE u = <<>>
    <3>1. Line(u \o <<c>>) = escapeCell(c)
      BY <2>1, <2>4, LineAppend
    <3>2. Reads(At(R, <<>>, <<>>, FALSE, FALSE), Line(u \o <<c>>), At(R, u, c, FALSE, k))
      BY <2>3, <2>4, <3>1, Zenon
    <3> QED
      BY <2>1, <3>2, Zenon DEF RowReads
  <2>5. CASE u # <<>>
    <3>1. Line(u \o <<c>>) = Line(u) \o (<<",">> \o escapeCell(c))
      BY <2>1, <2>5, LineAppend
    <3>2. RowReads(R, u)
      BY <2>5
    <3>3. PICK r, w : \E j \in BOOLEAN :
                 Append(r, w) = u
              /\ Reads(At(R, <<>>, <<>>, FALSE, FALSE), Line(u), At(R, r, w, FALSE, j))
      BY <3>2, Zenon DEF RowReads
    <3>4. PICK j \in BOOLEAN :
                 Append(r, w) = u
              /\ Reads(At(R, <<>>, <<>>, FALSE, FALSE), Line(u), At(R, r, w, FALSE, j))
      BY <3>3
    <3>5. Reads(At(R, r, w, FALSE, j), <<",">>, At(R, Append(r, w), <<>>, FALSE, FALSE))
      BY ReadsIs
    <3>6. Reads(At(R, r, w, FALSE, j), <<",">>, At(R, u, <<>>, FALSE, FALSE))
      BY <3>4, <3>5, Zenon
    <3>7. Reads(At(R, r, w, FALSE, j), <<",">> \o escapeCell(c), At(R, u, c, FALSE, k))
      BY <2>3, <3>6, ReadsThen, Zenon
    <3>8. Reads(At(R, <<>>, <<>>, FALSE, FALSE), Line(u) \o (<<",">> \o escapeCell(c)),
                At(R, u, c, FALSE, k))
      BY <3>4, <3>7, ReadsThen, Zenon
    <3>9. Reads(At(R, <<>>, <<>>, FALSE, FALSE), Line(u \o <<c>>), At(R, u, c, FALSE, k))
      BY <3>1, <3>8, Zenon
    <3> QED
      BY <2>1, <3>9, Zenon DEF RowReads
  <2> QED
    BY <2>4, <2>5
<1>3. F \in SUBSET Seq(Text)
  OBVIOUS
<1>4. Seq(Text) = F
  <2> HIDE DEF F
  <2> QED
    BY <1>1, <1>2, <1>3, SeqInduction
<1> QED
  BY <1>4

LEMMA RowEnds ==
  ASSUME NEW R, NEW row \in Seq(Text), row # <<>>
  PROVE  Reads(At(R, <<>>, <<>>, FALSE, FALSE), Line(row) \o Break,
               At(Append(R, row), <<>>, <<>>, FALSE, FALSE))
<1>1. PICK r, w : \E k \in BOOLEAN :
           Append(r, w) = row
        /\ Reads(At(R, <<>>, <<>>, FALSE, FALSE), Line(row), At(R, r, w, FALSE, k))
  BY LineReads, Zenon DEF RowReads
<1>2. PICK k \in BOOLEAN :
           Append(r, w) = row
        /\ Reads(At(R, <<>>, <<>>, FALSE, FALSE), Line(row), At(R, r, w, FALSE, k))
  BY <1>1
<1>3. Reads(At(R, r, w, FALSE, k), <<"\r">>, At(R, r, w, FALSE, FALSE))
  BY ReadsIs
<1>4. Reads(At(R, r, w, FALSE, FALSE), <<"\n">>,
            At(Append(R, Append(r, w)), <<>>, <<>>, FALSE, FALSE))
  BY ReadsIs
<1>5. Reads(At(R, r, w, FALSE, k), <<"\r">> \o <<"\n">>,
            At(Append(R, Append(r, w)), <<>>, <<>>, FALSE, FALSE))
  BY <1>3, <1>4, ReadsThen, Zenon
<1>6. <<"\r">> \o <<"\n">> = Break
  <2>1. "\r" \in Char /\ "\n" \in Char
    BY DEF Char
  <2> QED
    BY <2>1, Pair DEF Break
<1>7. Reads(At(R, r, w, FALSE, k), Break, At(Append(R, row), <<>>, <<>>, FALSE, FALSE))
  BY <1>2, <1>5, <1>6, Zenon
<1> QED
  BY <1>2, <1>7, ReadsThen, Zenon

Rows == {row \in Seq(Text) : row # <<>>}
Lines(rows) == [i \in DOMAIN rows |-> Line(rows[i])]
File(rows) == join(Lines(rows), Break)

LEMMA FileAppend ==
  ASSUME NEW rows \in Seq(Rows), NEW row \in Rows
  PROVE  /\ File(rows) \in Text /\ Line(row) \in Text
         /\ rows \o <<row>> \in Seq(Rows) /\ Append(rows, row) = rows \o <<row>>
         /\ File(rows \o <<row>>) = IF rows = <<>> THEN Line(row)
                                    ELSE File(rows) \o (Break \o Line(row))
<1> DEFINE write == [d \in Rows |-> Line(d)]
<1>1. \A d \in Rows : Line(d) \in Text
  BY TextType, LineAppend DEF Rows
<1>2. write \in [Rows -> Text] /\ \A d \in Rows : write[d] = Line(d)
  BY <1>1
<1>3. \A u \in Seq(Rows) : Lines(u) = Map(write, u)
  <2> TAKE u \in Seq(Rows)
  <2>1. \A i \in DOMAIN u : u[i] \in Rows
    OBVIOUS
  <2> QED
    BY <2>1 DEF Lines, Map
<1> HIDE DEF write
<1>4. Maps(Rows, Text, write, rows, row)
  BY <1>2, MapAppend
<1>5. rows \o <<row>> \in Seq(Rows) /\ Append(rows, row) = rows \o <<row>>
      /\ Map(write, rows) \in Seq(Text)
      /\ Len(Map(write, rows)) = Len(rows)
      /\ Map(write, rows \o <<row>>) = Map(write, rows) \o <<write[row]>>
  BY <1>4, Zenon DEF Maps
<1>6. PICK lines \in Seq(Text) : lines = Map(write, rows)
  BY <1>5
<1>7. PICK e \in Text : e = Line(row)
  BY <1>1
<1>8. Lines(rows) = lines /\ Lines(rows \o <<row>>) = lines \o <<e>>
  BY <1>2, <1>3, <1>5, <1>6, <1>7, Zenon
<1>9. lines = <<>> <=> rows = <<>>
  BY <1>5, <1>6, EmptySeq
<1>10. Joins(Text, lines, Break, e)
  BY TextType, TextJoin
<1> QED
  BY <1>5, <1>7, <1>8, <1>9, <1>10, Zenon DEF File, Joins

\* Concatenation is associative and stays within the sequences.
LEMMA ConcatRegroups ==
  ASSUME NEW C, NEW p \in Seq(C), NEW q \in Seq(C), NEW r \in Seq(C)
  PROVE  (p \o q) \o r = p \o (q \o r)
  BY ConcatAssociative

LEMMA ConcatStays ==
  ASSUME NEW C, NEW p \in Seq(C), NEW q \in Seq(C)
  PROVE  p \o q \in Seq(C)
  BY ConcatProperties

LEMMA Regroup ==
  ASSUME NEW C, NEW a \in Seq(C), NEW b \in Seq(C), NEW c \in Seq(C)
  PROVE  (a \o b) \o (c \o b) = (a \o (b \o c)) \o b
<1>1. a \o b \in Seq(C) /\ b \o c \in Seq(C) /\ c \o b \in Seq(C)
  BY ConcatStays
<1>2. (a \o b) \o c = a \o (b \o c)
  BY ConcatRegroups
<1>3. ((a \o b) \o c) \o b = (a \o b) \o (c \o b)
  BY <1>1, ConcatRegroups
<1>4. ((a \o b) \o c) \o b = (a \o (b \o c)) \o b
  BY <1>2, Zenon
<1> QED
  BY <1>3, <1>4, Zenon

LEMMA TextRegroups ==
  ASSUME NEW f \in Text, NEW b \in Text, NEW l \in Text
  PROVE  (f \o b) \o (l \o b) = (f \o (b \o l)) \o b
  BY Regroup DEF Text

\* A file that is written reads back as its rows.
LEMMA FileReads ==
  ASSUME NEW rows \in Seq(Rows), rows # <<>>
  PROVE  Reads(At(<<>>, <<>>, <<>>, FALSE, FALSE), File(rows) \o Break,
               At(rows, <<>>, <<>>, FALSE, FALSE))
<1> DEFINE Back(u) == Reads(At(<<>>, <<>>, <<>>, FALSE, FALSE), File(u) \o Break,
                            At(u, <<>>, <<>>, FALSE, FALSE))
           F == {u \in Seq(Rows) : u # <<>> => Back(u)}
<1>1. <<>> \in F
  <2>1. <<>> \in Seq(Rows)
    BY EmptySeq
  <2> HIDE DEF Back
  <2> QED
    BY <2>1
<1>2. ASSUME NEW u \in F, NEW row \in Rows
      PROVE  u \o <<row>> \in F
  <2>1. u \in Seq(Rows) /\ (u # <<>> => Back(u))
    <3> HIDE DEF Back
    <3> QED
      OBVIOUS
  <2>2. /\ File(u) \in Text /\ Line(row) \in Text
        /\ u \o <<row>> \in Seq(Rows) /\ Append(u, row) = u \o <<row>>
        /\ File(u \o <<row>>) = IF u = <<>> THEN Line(row)
                                   ELSE File(u) \o (Break \o Line(row))
    BY <2>1, FileAppend
  <2>3. Reads(At(u, <<>>, <<>>, FALSE, FALSE), Line(row) \o Break,
              At(u \o <<row>>, <<>>, <<>>, FALSE, FALSE))
    <3>1. row \in Seq(Text) /\ row # <<>>
      BY DEF Rows
    <3>2. Reads(At(u, <<>>, <<>>, FALSE, FALSE), Line(row) \o Break,
                At(Append(u, row), <<>>, <<>>, FALSE, FALSE))
      BY <3>1, RowEnds
    <3> QED
      BY <2>2, <3>2, Zenon
  <2>4. Back(u \o <<row>>)
    <3>1. CASE u = <<>>
      BY <2>2, <2>3, <3>1, Zenon
    <3>2. CASE u # <<>>
      <4>1. Reads(At(<<>>, <<>>, <<>>, FALSE, FALSE), (File(u) \o Break) \o (Line(row) \o Break),
                  At(u \o <<row>>, <<>>, <<>>, FALSE, FALSE))
        BY <2>1, <2>3, <3>2, ReadsThen, Zenon
      <4>2. (File(u) \o Break) \o (Line(row) \o Break) = (File(u) \o (Break \o Line(row))) \o Break
        <5>1. File(u) \in Text /\ Line(row) \in Text /\ Break \in Text
          BY <2>2, TextType, Zenon
        <5> QED
          BY <5>1, TextRegroups, Zenon
      <4> QED
        BY <2>2, <3>2, <4>1, <4>2, Zenon
    <3> QED
      BY <3>1, <3>2
  <2> HIDE DEF Back
  <2> QED
    BY <2>2, <2>4
<1>3. F \in SUBSET Seq(Rows)
  OBVIOUS
<1>4. Seq(Rows) = F
  <2> HIDE DEF F
  <2> QED
    BY <1>1, <1>2, <1>3, SeqInduction
<1> HIDE DEF Back
<1>5. Back(rows)
  BY <1>4
<1> QED
  BY <1>5 DEF Back

\* A file that toCsv has written is read back by parseCsv, row by row and
\* cell by cell, whatever characters are in them.
THEOREM FileParses ==
  ASSUME NEW rows \in Seq(Rows), rows # <<>>
  PROVE  parseCsv(toCsv(rows)) = rows
<1>1. BOM \in Char
  BY DEF Char
<1>2. File(rows) \in Seq(Char) /\ Break \in Seq(Char)
  <2>1. PICK row : row \in Rows
    <3>1. <<(<<>>)>> \in Rows
      BY TextType, Pair DEF Rows
    <3> QED
      BY <3>1
  <2> QED
    BY <2>1, FileAppend, TextType DEF Text
<1>3. PICK text \in Seq(Char) : text = File(rows) \o Break
  BY <1>2, ConcatProperties
<1>4. toCsv(rows) = <<BOM>> \o text
  <2>1. toCsv(rows) = (<<BOM>> \o File(rows)) \o Break
    BY DEF toCsv, File, Lines, Line, Cells, Break
  <2>2. <<BOM>> \in Seq(Char)
    BY <1>1, Pair
  <2> QED
    BY <1>2, <1>3, <2>1, <2>2, ConcatAssociative
<1>5. <<BOM>> \o text # <<>> /\ (<<BOM>> \o text)[1] = BOM /\ Tail(<<BOM>> \o text) = text
  <2>1. PICK b \in Char : b = BOM
    BY <1>1
  <2>2. <<b>> \o text # <<>> /\ (<<b>> \o text)[1] = b
    OBVIOUS
  <2>3. Tail(<<b>> \o text) = text
    <3>1. <<b>> \o text \in Seq(Char) /\ Len(<<b>> \o text) = 1 + Len(text)
      BY Pair, ConcatProperties
    <3>2. Tail(<<b>> \o text) \in Seq(Char) /\ Len(Tail(<<b>> \o text)) = Len(text)
          /\ \A i \in 1 .. Len(text) : Tail(<<b>> \o text)[i] = (<<b>> \o text)[i + 1]
      BY <2>2, <3>1
    <3>3. \A i \in 1 .. Len(text) : (<<b>> \o text)[i + 1] = text[i]
      OBVIOUS
    <3> QED
      BY <3>2, <3>3, SeqEqual
  <2> QED
    BY <2>1, <2>2, <2>3
<1>6. ReadAll(Start, text) = At(rows, <<>>, <<>>, FALSE, FALSE)
  <2>1. Start = At(<<>>, <<>>, <<>>, FALSE, FALSE)
    BY DEF Start, At
  <2> QED
    BY <1>3, <2>1, FileReads, Zenon DEF Reads
<1>7. ReadAll(Start, text).cell = <<>> /\ ReadAll(Start, text).row = <<>>
      /\ ReadAll(Start, text).rows = rows
  BY <1>6 DEF At
<1>8. parseCsv(<<BOM>> \o text) = rows
  BY <1>5, <1>7, Zenon DEF parseCsv
<1> QED
  BY <1>4, <1>8

-----------------------------------------------------------------------------
(* The catalogue, in order, as columns and back.                           *)

LEMMA LastOf ==
  ASSUME NEW S, IsFiniteSet(S), S # {}, NEW f, \A x \in S : f[x] \in Nat
  PROVE  \E x \in S : \A y \in S : f[y] <= f[x]
<1> DEFINE Has(T) == T = {} \/ \E x \in T : \A y \in T : f[y] <= f[x]
           F == {T \in SUBSET S : Has(T)}
<1>1. {} \in F
  OBVIOUS
<1>2. ASSUME NEW T \in F, NEW z \in S \ T
      PROVE  T \cup {z} \in F
  <2>1. T \in SUBSET S /\ Has(T)
    OBVIOUS
  <2>2. CASE T = {}
    <3>1. \A y \in T \cup {z} : f[y] <= f[z]
      BY <2>2
    <3> QED
      BY <2>1, <3>1
  <2>3. CASE T # {}
    <3>1. PICK x \in T : \A y \in T : f[y] <= f[x]
      BY <2>1, <2>3
    <3>2. CASE f[z] <= f[x]
      <4>1. \A y \in T \cup {z} : f[y] <= f[x]
        BY <3>1, <3>2
      <4> QED
        BY <2>1, <3>1, <4>1
    <3>3. CASE ~(f[z] <= f[x])
      <4>1. \A y \in T \cup {z} : f[y] <= f[z]
        <5>1. \A y \in S : f[y] \in Nat
          OBVIOUS
        <5> QED
          BY <2>1, <3>1, <3>3, <5>1
      <4> QED
        BY <2>1, <4>1
    <3> QED
      BY <3>2, <3>3
  <2> QED
    BY <2>2, <2>3
<1>3. S \in F
  <2>1. F \in SUBSET SUBSET S
    OBVIOUS
  <2> HIDE DEF F
  <2> QED
    BY <1>1, <1>2, <2>1, SetInduction
<1> QED
  BY <1>3

LEMMA FiniteImage ==
  ASSUME NEW S, IsFiniteSet(S), NEW h
  PROVE  IsFiniteSet({h[x] : x \in S})
<1> DEFINE F == {T \in SUBSET S : IsFiniteSet({h[x] : x \in T})}
<1>1. {} \in F
  <2>1. {h[x] : x \in {}} = {}
    OBVIOUS
  <2> QED
    BY <2>1, FS_EmptySet
<1>2. ASSUME NEW T \in F, NEW x \in S \ T
      PROVE  T \cup {x} \in F
  <2>1. {h[y] : y \in T \cup {x}} = {h[y] : y \in T} \cup {h[x]}
    OBVIOUS
  <2>2. IsFiniteSet({h[y] : y \in T} \cup {h[x]})
    BY FS_AddElement
  <2> QED
    BY <2>1, <2>2
<1>3. F \in SUBSET SUBSET S
  OBVIOUS
<1> HIDE DEF F
<1>4. S \in F
  BY <1>1, <1>2, <1>3, SetInduction
<1> QED
  BY <1>4 DEF F

Ordering(s, f, S) ==
  /\ s \in [1 .. Cardinality(S) -> S]
  /\ \A x \in S : \E i \in 1 .. Cardinality(S) : s[i] = x
  /\ \A i, j \in 1 .. Cardinality(S) : i # j => s[i] # s[j]
  /\ \A i, j \in 1 .. Cardinality(S) : i < j => f[s[i]] <= f[s[j]]

LEMMA OrderingExists ==
  ASSUME NEW S, IsFiniteSet(S), NEW f, \A x \in S : f[x] \in Nat
  PROVE  \E s : Ordering(s, f, S)
<1> DEFINE F == {T \in SUBSET S : ~\E s : Ordering(s, f, T)}
<1>1. SUFFICES ASSUME F # {}
               PROVE  FALSE
  OBVIOUS
<1>2. PICK T \in F : \A U \in F : U \subseteq T => U = T
  <2> HIDE DEF F
  <2> SUFFICES F \in SUBSET SUBSET S
    BY <1>1, LeastSubset
  <2> QED
    BY DEF F
<1>3. T \subseteq S /\ ~\E s : Ordering(s, f, T)
  BY <1>2
<1>4. IsFiniteSet(T) /\ \A x \in T : f[x] \in Nat
  BY <1>3, FS_Subset
<1>5. CASE T = {}
  <2>1. Cardinality(T) = 0 /\ 1 .. 0 = {}
    BY <1>5, FS_EmptySet
  <2>2. Ordering([i \in 1 .. 0 |-> i], f, T)
    BY <1>5, <2>1 DEF Ordering
  <2> QED
    BY <1>3, <2>2
<1>6. CASE T # {}
  <2>1. PICK x \in T : \A y \in T : f[y] <= f[x]
    BY <1>4, <1>6, LastOf
  <2>2. PICK n \in Nat : n = Cardinality(T \ {x})
    BY <1>4, FS_RemoveElement, FS_CardinalityType, FS_Subset
  <2>3. Cardinality(T) = n + 1
    <3>1. Cardinality(T) \in Nat
      BY <1>4, FS_CardinalityType
    <3>2. Cardinality(T \ {x}) = Cardinality(T) - 1
      BY <1>4, FS_RemoveElement
    <3> QED
      BY <2>2, <3>1, <3>2
  <2>4. PICK s : Ordering(s, f, T \ {x})
    <3>1. T \ {x} \in SUBSET S /\ T \ {x} \subseteq T /\ T \ {x} # T
      BY <1>3, <2>1
    <3> QED
      BY <1>2, <3>1
  <2>5. /\ s \in [1 .. n -> T \ {x}]
        /\ \A y \in T \ {x} : \E i \in 1 .. n : s[i] = y
        /\ \A i, j \in 1 .. n : i # j => s[i] # s[j]
        /\ \A i, j \in 1 .. n : i < j => f[s[i]] <= f[s[j]]
    BY <2>2, <2>4 DEF Ordering
  <2>6. PICK r \in [1 .. n + 1 -> T] : r[n + 1] = x /\ \A i \in 1 .. n : r[i] = s[i]
    <3> DEFINE r == [i \in 1 .. n + 1 |-> IF i = n + 1 THEN x ELSE s[i]]
    <3>1. r[n + 1] = x /\ \A i \in 1 .. n : r[i] = s[i]
      OBVIOUS
    <3>2. \A i \in 1 .. n + 1 : r[i] \in T
      <4>1. \A i \in 1 .. n + 1 : i = n + 1 \/ i \in 1 .. n
        OBVIOUS
      <4> QED
        BY <2>1, <2>5, <4>1
    <3>3. r \in [1 .. n + 1 -> T]
      BY <3>2
    <3> HIDE DEF r
    <3> QED
      BY <3>1, <3>3
  <2>7. n + 1 \in 1 .. n + 1 /\ \A i \in 1 .. n + 1 : i = n + 1 \/ i \in 1 .. n
    OBVIOUS
  <2>8. \A i \in 1 .. n : i \in 1 .. n + 1 /\ i # n + 1 /\ ~(n + 1 < i) /\ r[i] \in T \ {x}
    BY <2>5, <2>6
  <2>9. \A y \in T : \E i \in 1 .. n + 1 : r[i] = y
    BY <2>5, <2>6, <2>7, <2>8
  <2>10. \A i, j \in 1 .. n + 1 : i # j => r[i] # r[j]
    BY <2>5, <2>6, <2>7, <2>8
  <2>11. \A i, j \in 1 .. n + 1 : i < j => f[r[i]] <= f[r[j]]
    <3> SUFFICES ASSUME NEW i \in 1 .. n + 1, NEW j \in 1 .. n + 1, i < j
                 PROVE  f[r[i]] <= f[r[j]]
      OBVIOUS
    <3>1. i \in 1 .. n
      OBVIOUS
    <3>2. CASE j \in 1 .. n
      BY <2>5, <2>6, <3>1, <3>2
    <3>3. CASE j = n + 1
      BY <2>1, <2>6, <2>8, <3>1, <3>3
    <3> QED
      BY <2>7, <3>2, <3>3
  <2>12. Ordering(r, f, T)
    BY <2>3, <2>9, <2>10, <2>11 DEF Ordering
  <2> QED
    BY <1>3, <2>12
<1> QED
  BY <1>5, <1>6

LEMMA InOrderIs ==
  ASSUME NEW catalogue, IsFiniteSet(DOMAIN catalogue),
         \A p \in DOMAIN catalogue : catalogue[p].order \in Nat
  PROVE  LET S == {p \in DOMAIN catalogue : ~catalogue[p].archived}
         IN  \E n \in Nat : /\ InOrder(catalogue) \in [1 .. n -> S]
                            /\ \A p \in S : \E i \in 1 .. n : InOrder(catalogue)[i] = p
<1> DEFINE S == {p \in DOMAIN catalogue : ~catalogue[p].archived}
           f == [p \in DOMAIN catalogue |-> catalogue[p].order]
           Fits(s) == \A i, j \in DOMAIN s : i < j => catalogue[s[i]].order <= catalogue[s[j]].order
           All == Bijection(1 .. Cardinality(S), S)
<1>1. IsFiniteSet(S) /\ \A p \in S : f[p] \in Nat /\ f[p] = catalogue[p].order
  BY FS_Subset
<1>2. PICK s : Ordering(s, f, S)
  <2> HIDE DEF S, f
  <2> QED
    BY <1>1, OrderingExists
<1>3. s \in All /\ Fits(s)
  <2>1. /\ s \in [1 .. Cardinality(S) -> S]
        /\ \A x \in S : \E i \in 1 .. Cardinality(S) : s[i] = x
        /\ \A i, j \in 1 .. Cardinality(S) : i # j => s[i] # s[j]
        /\ \A i, j \in 1 .. Cardinality(S) : i < j => f[s[i]] <= f[s[j]]
    <3> HIDE DEF S, f
    <3> QED
      BY <1>2 DEF Ordering
  <2>2. s \in All
    <3> HIDE DEF S
    <3> QED
      BY <2>1 DEF Bijection, Injection, Surjection, IsInjective
  <2>3. Fits(s)
    <3> SUFFICES ASSUME NEW i \in 1 .. Cardinality(S), NEW j \in 1 .. Cardinality(S), i < j
                 PROVE  catalogue[s[i]].order <= catalogue[s[j]].order
      <4> HIDE DEF S
      <4> QED
        BY <2>1
    <3>1. s[i] \in S /\ s[j] \in S /\ f[s[i]] <= f[s[j]]
      <4> HIDE DEF S, f
      <4> QED
        BY <2>1
    <3> QED
      BY <1>1, <3>1
  <2> QED
    BY <2>2, <2>3
<1>4. InOrder(catalogue) = CHOOSE r \in All : Fits(r)
  BY DEF InOrder
<1>5. InOrder(catalogue) \in All
  <2> HIDE DEF All, Fits
  <2> QED
    BY <1>3, <1>4
<1>6. Cardinality(S) \in Nat
  BY <1>1, FS_CardinalityType
<1>7. /\ InOrder(catalogue) \in [1 .. Cardinality(S) -> S]
      /\ \A p \in S : \E i \in 1 .. Cardinality(S) : InOrder(catalogue)[i] = p
  <2> HIDE DEF S
  <2> QED
    BY <1>5, Zenon DEF All, Bijection, Injection, Surjection
<1> QED
  BY <1>6, <1>7

-----------------------------------------------------------------------------
(* Cells.                                                                  *)

LEMMA TrimOne ==
  ASSUME NEW c, c \notin Blank
  PROVE  trim(<<c>>) = <<c>>
<1> DEFINE kept == {i \in DOMAIN <<c>> : <<c>>[i] \notin Blank}
<1>1. kept = {1}
  OBVIOUS
<1>2. (CHOOSE i \in {1} : \A j \in {1} : i <= j) = 1
      /\ (CHOOSE i \in {1} : \A j \in {1} : j <= i) = 1
  OBVIOUS
<1>3. SubSeq(<<c>>, 1, 1) = <<c>>
  <2>1. c \in {c}
    OBVIOUS
  <2>2. <<c>> \in Seq({c})
    BY <2>1, Pair
  <2>3. PICK w \in Seq({c}) : w = <<c>>
    BY <2>2
  <2>4. SubSeq(w, 1, Len(w)) = w
    BY SubSeqFull
  <2>5. Len(<<c>>) = 1
    OBVIOUS
  <2> QED
    BY <2>3, <2>4, <2>5
<1>4. trim(<<c>>) = IF kept = {} THEN <<>>
                    ELSE SubSeq(<<c>>, CHOOSE i \in kept : \A j \in kept : i <= j,
                                       CHOOSE i \in kept : \A j \in kept : j <= i)
  BY DEF trim
<1> HIDE DEF kept
<1>5. kept # {}
  BY <1>1
<1> QED
  BY <1>1, <1>2, <1>3, <1>4, <1>5, Zenon

LEMMA MaxNumberType == MaxNumber \in Nat
BY NumberAssumption, Zenon

LEMMA NumberIs ==
  ASSUME NEW n \in 0 .. MaxNumber
  PROVE  /\ Number(n) \in Text /\ trim(Number(n)) = Number(n) /\ Number(n) # <<>>
         /\ \A m \in 0 .. MaxNumber : Number(m) = Number(n) => m = n
<1>1. ToString(n) \in STRING /\ ToString(n) \notin Blank
      /\ \A m \in 0 .. MaxNumber : m # n => ToString(m) # ToString(n)
  BY NumberAssumption
<1>2. PICK c : c = ToString(n)
  OBVIOUS
<1>3. <<c>> \in Text
  <2>1. c \in Char
    BY <1>1, <1>2 DEF Char
  <2> QED
    BY <2>1, Pair DEF Text
<1>4. trim(<<c>>) = <<c>>
  BY <1>1, <1>2, TrimOne
<1>5. Number(n) = <<c>>
  BY <1>2 DEF Number
<1>6. ASSUME NEW m \in 0 .. MaxNumber, Number(m) = Number(n)
      PROVE  m = n
  <2>1. <<ToString(m)>> = <<ToString(n)>>
    BY <1>6 DEF Number
  <2>2. ToString(m) = ToString(n)
    BY <2>1
  <2> QED
    BY <1>1, <2>2
<1> QED
  BY <1>3, <1>4, <1>5, <1>6

LEMMA Eight ==
  ASSUME NEW C, NEW c1 \in C, NEW c2 \in C, NEW c3 \in C, NEW c4 \in C,
         NEW c5 \in C, NEW c6 \in C, NEW c7 \in C, NEW c8 \in C
  PROVE  LET w == <<c1, c2, c3, c4, c5, c6, c7, c8>>
         IN  /\ w \in Seq(C) /\ w # <<>> /\ DOMAIN w = 1 .. 8
             /\ w[1] = c1 /\ w[2] = c2 /\ w[3] = c3 /\ w[4] = c4
             /\ w[5] = c5 /\ w[6] = c6 /\ w[7] = c7 /\ w[8] = c8
OBVIOUS

LEMMA WordType ==
  ASSUME NEW c \in Char
  PROVE  <<c>> \in Text
BY Pair DEF Text

LEMMA ColumnsAre ==
  /\ Columns \in Rows /\ DOMAIN Columns = 1 .. 8
  /\ Columns[1] = <<"nome">> /\ Columns[2] = <<"grupo">> /\ Columns[3] = <<"alcoolica">>
  /\ Columns[4] = <<"base">> /\ Columns[5] = <<"minimo">> /\ Columns[6] = <<"maximo">>
  /\ Columns[7] = <<"stock">> /\ Columns[8] = <<"ordem">>
  /\ \A i, j \in 1 .. 8 : Columns[i] = Columns[j] => i = j
<1>1. "nome" \in Char /\ "grupo" \in Char /\ "alcoolica" \in Char /\ "base" \in Char
      /\ "minimo" \in Char /\ "maximo" \in Char /\ "stock" \in Char /\ "ordem" \in Char
  BY DEF Char
<1>2. <<"nome">> \in Text /\ <<"grupo">> \in Text /\ <<"alcoolica">> \in Text
      /\ <<"base">> \in Text /\ <<"minimo">> \in Text /\ <<"maximo">> \in Text
      /\ <<"stock">> \in Text /\ <<"ordem">> \in Text
  BY <1>1, WordType
<1>3. /\ Columns \in Seq(Text) /\ Columns # <<>> /\ DOMAIN Columns = 1 .. 8
      /\ Columns[1] = <<"nome">> /\ Columns[2] = <<"grupo">> /\ Columns[3] = <<"alcoolica">>
      /\ Columns[4] = <<"base">> /\ Columns[5] = <<"minimo">> /\ Columns[6] = <<"maximo">>
      /\ Columns[7] = <<"stock">> /\ Columns[8] = <<"ordem">>
  BY <1>2, Eight DEF Columns
<1>4. \A i \in 1 .. 8 : Columns[i] = <<Columns[i][1]>>
  BY <1>3
<1>5. \A i, j \in 1 .. 8 : Columns[i] = Columns[j] => i = j
  <2>1. \A i \in 1 .. 8 : i = 1 \/ i = 2 \/ i = 3 \/ i = 4 \/ i = 5 \/ i = 6 \/ i = 7 \/ i = 8
    OBVIOUS
  <2>2. Columns[1][1] = "nome" /\ Columns[2][1] = "grupo" /\ Columns[3][1] = "alcoolica"
        /\ Columns[4][1] = "base" /\ Columns[5][1] = "minimo" /\ Columns[6][1] = "maximo"
        /\ Columns[7][1] = "stock" /\ Columns[8][1] = "ordem"
    BY <1>3
  <2>3. \A i, j \in 1 .. 8 : Columns[i][1] = Columns[j][1] => i = j
    BY <2>1, <2>2
  <2> QED
    BY <2>3
<1> QED
  BY <1>3, <1>5 DEF Rows

LEMMA ValueIs ==
  ASSUME NEW row, DOMAIN row = 1 .. 8, NEW k \in 1 .. 8
  PROVE  value(Columns, row, Columns[k]) = trim(row[k])
<1> DEFINE at == {i \in DOMAIN Columns \cap DOMAIN row : Columns[i] = Columns[k]}
<1>1. at = {k}
  BY ColumnsAre
<1>2. (CHOOSE i \in {k} : \A j \in {k} : i <= j) = k
  OBVIOUS
<1>3. value(Columns, row, Columns[k])
        = IF at = {} THEN <<>> ELSE trim(row[CHOOSE i \in at : \A j \in at : i <= j])
  BY DEF value
<1> HIDE DEF at
<1>4. at # {}
  BY <1>1
<1> QED
  BY <1>1, <1>2, <1>3, <1>4, Zenon

LEMMA NumberReads ==
  ASSUME NEW row, DOMAIN row = 1 .. 8, NEW k \in 1 .. 8, NEW n \in 0 .. MaxNumber,
         row[k] = Number(n), NEW default
  PROVE  number(Columns, row, Columns[k], default) = n
<1> DEFINE cell == value(Columns, row, Columns[k])
           read == {m \in 0 .. MaxNumber : Number(m) = cell}
<1>1. cell = Number(n) /\ cell # <<>>
  BY ValueIs, NumberIs
<1>2. read = {n}
  BY <1>1, NumberIs
<1>3. number(Columns, row, Columns[k], default)
        = CASE cell = <<>> -> default
            [] read # {} -> CHOOSE m \in read : TRUE
            [] OTHER -> -1
  BY DEF number
<1>4. (CHOOSE m \in {n} : TRUE) = n
  OBVIOUS
<1> HIDE DEF cell, read
<1>5. read # {}
  BY <1>2
<1> QED
  BY <1>1, <1>2, <1>3, <1>4, <1>5

-----------------------------------------------------------------------------
(* A product that productCreateSchema lets through, by its columns.        *)

Exportable(p, q) ==
  /\ p \in Text /\ p # <<>> /\ trim(p) = p
  /\ q.group \in Text /\ q.group # <<>> /\ trim(q.group) = q.group
  /\ q.alcoholic \in BOOLEAN
  /\ q.base \in 1 .. MaxNumber /\ q.min \in 1 .. MaxNumber /\ q.max \in 1 .. MaxNumber
  /\ q.stockInitial \in 0 .. MaxNumber /\ q.order \in 0 .. MaxNumber
  /\ q.min <= q.base /\ q.base <= q.max

RowOf(p, q) == <<p, q.group, <<IF q.alcoholic THEN "sim" ELSE "nao">>, Number(q.base),
                 Number(q.min), Number(q.max), Number(q.stockInitial), Number(q.order)>>

ColumnsOf(p, q) ==
  [name |-> p, group |-> q.group, alcoholic |-> q.alcoholic, base |-> q.base, min |-> q.min,
   max |-> q.max, stockInitial |-> q.stockInitial, order |-> q.order]

LEMMA RowReads8 ==
  ASSUME NEW p, NEW q, Exportable(p, q)
  PROVE  /\ RowOf(p, q) \in Rows
         /\ candidate(Columns, RowOf(p, q)) = ColumnsOf(p, q)
         /\ \E j \in DOMAIN RowOf(p, q) : trim(RowOf(p, q)[j]) # <<>>
         /\ valid(ColumnsOf(p, q))
<1> DEFINE word == IF q.alcoholic THEN "sim" ELSE "nao"
           row == RowOf(p, q)
<1>1. <<word>> \in Text /\ trim(<<word>>) = <<word>> /\ (<<word>> # <<"nao">> <=> q.alcoholic)
  <2>1. "sim" \in Char /\ "nao" \in Char /\ "sim" \notin Blank /\ "nao" \notin Blank
    BY DEF Char, Blank
  <2>2. <<"sim">> \in Text /\ trim(<<"sim">>) = <<"sim">>
    BY <2>1, WordType, TrimOne
  <2>3. <<"nao">> \in Text /\ trim(<<"nao">>) = <<"nao">>
    BY <2>1, WordType, TrimOne
  <2>4. <<"sim">> # <<"nao">>
    OBVIOUS
  <2> QED
    BY <2>2, <2>3, <2>4
<1>2. /\ q.base \in 0 .. MaxNumber /\ q.min \in 0 .. MaxNumber /\ q.max \in 0 .. MaxNumber
      /\ q.stockInitial \in 0 .. MaxNumber /\ q.order \in 0 .. MaxNumber
      /\ q.base > 0 /\ q.min > 0 /\ q.max > 0 /\ q.stockInitial >= 0 /\ q.order >= 0
  <2>1. /\ \A n \in 1 .. MaxNumber : n \in 0 .. MaxNumber /\ n > 0
        /\ \A n \in 0 .. MaxNumber : n >= 0
    BY MaxNumberType
  <2> QED
    BY <2>1, Zenon DEF Exportable
<1>3. /\ Number(q.base) \in Text /\ Number(q.min) \in Text /\ Number(q.max) \in Text
      /\ Number(q.stockInitial) \in Text /\ Number(q.order) \in Text
  BY <1>2, NumberIs
<1>4. p \in Text /\ q.group \in Text
  BY DEF Exportable
<1> HIDE DEF word
<1>5. /\ row \in Seq(Text) /\ row # <<>> /\ DOMAIN row = 1 .. 8
      /\ row[1] = p /\ row[2] = q.group /\ row[3] = <<word>> /\ row[4] = Number(q.base)
      /\ row[5] = Number(q.min) /\ row[6] = Number(q.max)
      /\ row[7] = Number(q.stockInitial) /\ row[8] = Number(q.order)
  BY <1>1, <1>3, <1>4, Eight DEF RowOf, word
<1> HIDE DEF row
<1>6. 1 \in 1 .. 8 /\ 2 \in 1 .. 8 /\ 3 \in 1 .. 8 /\ 4 \in 1 .. 8 /\ 5 \in 1 .. 8
      /\ 6 \in 1 .. 8 /\ 7 \in 1 .. 8 /\ 8 \in 1 .. 8
  OBVIOUS
<1>7. value(Columns, row, <<"nome">>) = p
  <2>1. value(Columns, row, Columns[1]) = trim(row[1])
    BY <1>5, <1>6, ValueIs
  <2> QED
    BY <1>5, <2>1, ColumnsAre DEF Exportable
<1>8. value(Columns, row, <<"grupo">>) = q.group
  <2>1. value(Columns, row, Columns[2]) = trim(row[2])
    BY <1>5, <1>6, ValueIs
  <2> QED
    BY <1>5, <2>1, ColumnsAre DEF Exportable
<1>9. (value(Columns, row, <<"alcoolica">>) # <<"nao">>) = q.alcoholic
  <2>1. value(Columns, row, Columns[3]) = trim(row[3])
    BY <1>5, <1>6, ValueIs
  <2>2. value(Columns, row, <<"alcoolica">>) = <<word>>
    BY <1>1, <1>5, <2>1, ColumnsAre
  <2>3. q.alcoholic \in BOOLEAN
    BY DEF Exportable
  <2> QED
    BY <1>1, <2>2, <2>3
<1>10. number(Columns, row, <<"base">>, -1) = q.base
  <2>1. number(Columns, row, Columns[4], -1) = q.base
    BY <1>2, <1>5, <1>6, NumberReads
  <2> QED
    BY <2>1, ColumnsAre
<1>11. number(Columns, row, <<"minimo">>, -1) = q.min
  <2>1. number(Columns, row, Columns[5], -1) = q.min
    BY <1>2, <1>5, <1>6, NumberReads
  <2> QED
    BY <2>1, ColumnsAre
<1>12. number(Columns, row, <<"maximo">>, -1) = q.max
  <2>1. number(Columns, row, Columns[6], -1) = q.max
    BY <1>2, <1>5, <1>6, NumberReads
  <2> QED
    BY <2>1, ColumnsAre
<1>13. number(Columns, row, <<"stock">>, 0) = q.stockInitial
  <2>1. number(Columns, row, Columns[7], 0) = q.stockInitial
    BY <1>2, <1>5, <1>6, NumberReads
  <2> QED
    BY <2>1, ColumnsAre
<1>14. number(Columns, row, <<"ordem">>, 0) = q.order
  <2>1. number(Columns, row, Columns[8], 0) = q.order
    BY <1>2, <1>5, <1>6, NumberReads
  <2> QED
    BY <2>1, ColumnsAre
<1>15. candidate(Columns, row) = ColumnsOf(p, q)
  BY <1>7, <1>8, <1>9, <1>10, <1>11, <1>12, <1>13, <1>14, Zenon DEF candidate, ColumnsOf
<1>16. trim(row[1]) # <<>> /\ 1 \in DOMAIN row
  BY <1>5, <1>6 DEF Exportable
<1>17. valid(ColumnsOf(p, q))
  <2>1. /\ p # <<>> /\ q.group # <<>> /\ q.min <= q.base /\ q.base <= q.max
    BY DEF Exportable
  <2> QED
    BY <1>2, <2>1, Zenon DEF valid, ColumnsOf
<1> QED
  BY <1>5, <1>15, <1>16, <1>17 DEF row, Rows

\* What is exported reads back, without an error, as the products on sale.
THEOREM RoundTrip ==
  ASSUME NEW catalogue, IsFiniteSet(DOMAIN catalogue),
         \A p \in DOMAIN catalogue : Exportable(p, catalogue[p])
  PROVE  LET read == parseProductsCsv(exportProducts(catalogue))
         IN  /\ read.errors = {}
             /\ {read.products[i] : i \in DOMAIN read.products}
                  = {ColumnsOf(p, catalogue[p]) :
                     p \in {o \in DOMAIN catalogue : ~catalogue[o].archived}}
<1> DEFINE S == {o \in DOMAIN catalogue : ~catalogue[o].archived}
           names == InOrder(catalogue)
           rows == <<Columns>> \o [i \in DOMAIN names |-> RowOf(names[i], catalogue[names[i]])]
<1>1. PICK n \in Nat : names \in [1 .. n -> S] /\ \A p \in S : \E i \in 1 .. n : names[i] = p
  <2>1. \A p \in DOMAIN catalogue : catalogue[p].order \in Nat
    <3>1. MaxNumber \in Nat
      BY NumberAssumption
    <3> QED
      BY <3>1 DEF Exportable
  <2> QED
    BY <2>1, InOrderIs
<1> HIDE DEF names
<1>2. \A i \in 1 .. n : names[i] \in S /\ Exportable(names[i], catalogue[names[i]])
  BY <1>1
<1> DEFINE body == [i \in 1 .. n |-> RowOf(names[i], catalogue[names[i]])]
<1>3. body \in Seq(Rows) /\ Len(body) = n
      /\ \A i \in 1 .. n : body[i] = RowOf(names[i], catalogue[names[i]])
  <2>1. \A i \in 1 .. n : RowOf(names[i], catalogue[names[i]]) \in Rows
    BY <1>2, RowReads8
  <2> QED
    BY <2>1
<1>4. rows = <<Columns>> \o body
  BY <1>1
<1> HIDE DEF body
<1>5. rows \in Seq(Rows) /\ Len(rows) = n + 1 /\ rows[1] = Columns /\ rows # <<>>
      /\ DOMAIN rows = 1 .. n + 1 /\ \A i \in 2 .. n + 1 : rows[i] = body[i - 1]
  <2>1. PICK header \in Rows : header = Columns
    BY ColumnsAre
  <2>2. <<header>> \o body \in Seq(Rows) /\ Len(<<header>> \o body) = n + 1
        /\ (<<header>> \o body)[1] = header
        /\ \A i \in 2 .. n + 1 : (<<header>> \o body)[i] = body[i - 1]
    BY <1>3
  <2> HIDE DEF rows
  <2> QED
    BY <1>4, <2>1, <2>2
<1>6. exportProducts(catalogue) = toCsv(rows)
  BY Zenon DEF exportProducts, RowOf, names
<1> HIDE DEF rows
<1>7. parseCsv(exportProducts(catalogue)) = rows
  BY <1>5, <1>6, FileParses
<1>8. \A i \in 2 .. n + 1 :
        LET p == names[i - 1]
        IN  /\ p \in S /\ rows[i] = RowOf(p, catalogue[p])
            /\ Exportable(p, catalogue[p])
  <2> TAKE i \in 2 .. n + 1
  <2>1. i - 1 \in 1 .. n
    OBVIOUS
  <2> QED
    BY <1>2, <1>3, <1>5, <2>1
<1> DEFINE lines == {i \in 2 .. Len(rows) : \E j \in DOMAIN rows[i] : trim(rows[i][j]) # <<>>}
           good == {i \in lines : valid(candidate(Columns, rows[i]))}
<1>9. \A i \in 2 .. n + 1 : /\ candidate(Columns, rows[i])
                                 = ColumnsOf(names[i - 1], catalogue[names[i - 1]])
                            /\ \E j \in DOMAIN rows[i] : trim(rows[i][j]) # <<>>
                            /\ valid(candidate(Columns, rows[i]))
  <2> TAKE i \in 2 .. n + 1
  <2>1. PICK p : p = names[i - 1]
    OBVIOUS
  <2>2. rows[i] = RowOf(p, catalogue[p]) /\ Exportable(p, catalogue[p])
    BY <1>8, <2>1
  <2> QED
    BY <2>1, <2>2, RowReads8
<1>10. lines = 2 .. n + 1 /\ good = 2 .. n + 1
  BY <1>5, <1>9
<1>11. Required \subseteq Range(Columns)
  BY ColumnsAre DEF Required, Range
<1>12. parseProductsCsv(exportProducts(catalogue))
         = [products |-> [i \in good |-> candidate(Columns, rows[i])],
            errors |-> {i \in lines : ~valid(candidate(Columns, rows[i]))}]
  BY <1>5, <1>7, <1>11, Zenon DEF parseProductsCsv
<1>13. {i \in lines : ~valid(candidate(Columns, rows[i]))} = {}
  BY <1>9, <1>10
<1> DEFINE found == [i \in 2 .. n + 1 |-> candidate(Columns, rows[i])]
<1>14. parseProductsCsv(exportProducts(catalogue)) = [products |-> found, errors |-> {}]
  BY <1>10, <1>12, <1>13, Zenon
<1>15. {found[i] : i \in DOMAIN found} = {ColumnsOf(p, catalogue[p]) : p \in S}
  <2>1. \A i \in 2 .. n + 1 : names[i - 1] \in S
                              /\ found[i] = ColumnsOf(names[i - 1], catalogue[names[i - 1]])
    BY <1>8, <1>9
  <2>2. \A p \in S : \E i \in 2 .. n + 1 : names[i - 1] = p
    <3> TAKE p \in S
    <3>1. PICK i \in 1 .. n : names[i] = p
      BY <1>1
    <3>2. i + 1 \in 2 .. n + 1 /\ (i + 1) - 1 = i
      OBVIOUS
    <3> QED
      BY <3>1, <3>2
  <2>3. DOMAIN found = 2 .. n + 1
    OBVIOUS
  <2> HIDE DEF S, found
  <2>4. ASSUME NEW r, r \in {found[i] : i \in 2 .. n + 1}
        PROVE  r \in {ColumnsOf(p, catalogue[p]) : p \in S}
    BY <2>1, <2>4
  <2>5. ASSUME NEW r, r \in {ColumnsOf(p, catalogue[p]) : p \in S}
        PROVE  r \in {found[i] : i \in 2 .. n + 1}
    <3>1. PICK p \in S : r = ColumnsOf(p, catalogue[p])
      BY <2>5
    <3>2. PICK i \in 2 .. n + 1 : names[i - 1] = p
      BY <2>2
    <3>3. found[i] = r
      BY <2>1, <3>1, <3>2, Zenon
    <3> QED
      BY <3>3, Zenon
  <2> QED
    BY <2>3, <2>4, <2>5, Zenon
<1> HIDE DEF found, S
<1>16. parseProductsCsv(exportProducts(catalogue)).errors = {}
       /\ parseProductsCsv(exportProducts(catalogue)).products = found
  BY <1>14
<1> QED
  BY <1>15, <1>16 DEF S

-----------------------------------------------------------------------------
(* What an uploaded file says: whatever is in it, a line that is read as a  *)
(* product is one that can be exported.                                    *)

LEMMA WiderSeq ==
  ASSUME NEW S, NEW T, S \subseteq T, NEW w \in Seq(S)
  PROVE  w \in Seq(T)
<1>1. Len(w) \in Nat /\ w = [i \in 1 .. Len(w) |-> w[i]]
  BY LenProperties
<1>2. \A i \in 1 .. Len(w) : w[i] \in T
  BY <1>1
<1> QED
  BY <1>1, <1>2

LEMMA StringText ==
  ASSUME NEW w \in Seq(STRING)
  PROVE  w \in Text
<1>1. STRING \subseteq Char
  BY Zenon DEF Char
<1>2. PICK S, T : S = STRING /\ T = Char
  OBVIOUS
<1>3. w \in Seq(S) /\ S \subseteq T
  BY <1>1, <1>2
<1>4. w \in Seq(T)
  BY <1>3, WiderSeq
<1> QED
  BY <1>2, <1>4 DEF Text

ReadStates == [rows : Seq(Seq(Text)), row : Seq(Text), cell : Text,
               quoted : BOOLEAN, closed : BOOLEAN]

LEMMA EndCellType ==
  ASSUME NEW s \in ReadStates
  PROVE  EndCell(s) \in ReadStates /\ EndRow(s) \in ReadStates
<1>1. PICK T : T = Text /\ <<>> \in T
  BY TextType, Zenon
<1>2. PICK R : R = Seq(T) /\ <<>> \in R
  BY EmptySeq, Zenon
<1>3. PICK rows \in Seq(R), row \in R, cell \in T, quoted \in BOOLEAN, closed \in BOOLEAN :
        s = [rows |-> rows, row |-> row, cell |-> cell, quoted |-> quoted, closed |-> closed]
  BY <1>1, <1>2 DEF ReadStates
<1>4. PICK more : more \in R /\ more = Append(row, cell)
  BY <1>2, <1>3, AppendProperties
<1>5. PICK all : all \in Seq(R) /\ all = Append(rows, more)
  BY <1>3, <1>4, AppendProperties
<1>6. PICK nil : nil = <<>> /\ nil \in T /\ nil \in R
  BY <1>1, <1>2, Zenon
<1>7. PICK e : e = EndCell(s)
  OBVIOUS
<1>8. e = [rows |-> rows, row |-> more, cell |-> nil, quoted |-> quoted, closed |-> closed]
  <2>1. EndCell(s) = [s EXCEPT !.row = Append(@, s.cell), !.cell = nil]
    BY <1>6, Zenon DEF EndCell
  <2>2. s.row = row /\ s.cell = cell
    BY <1>3
  <2>3. EndCell(s) = [s EXCEPT !.row = more, !.cell = nil]
    BY <1>4, <2>1, <2>2
  <2> QED
    BY <1>3, <1>7, <2>3
<1>9. EndRow(s) = [rows |-> all, row |-> nil, cell |-> nil, quoted |-> quoted, closed |-> closed]
  <2>1. EndRow(s) = [e EXCEPT !.rows = Append(@, e.row), !.row = nil]
    BY <1>6, <1>7, Zenon DEF EndRow
  <2>2. e.row = more /\ e.rows = rows
    BY <1>8
  <2>3. EndRow(s) = [e EXCEPT !.rows = all, !.row = nil]
    BY <1>5, <2>1, <2>2
  <2> QED
    BY <1>8, <2>3
<1>10. ReadStates = [rows : Seq(R), row : R, cell : T, quoted : BOOLEAN, closed : BOOLEAN]
  BY <1>1, <1>2, Zenon DEF ReadStates
<1>11. e \in ReadStates
  BY <1>3, <1>4, <1>6, <1>8, <1>10
<1>12. EndRow(s) \in ReadStates
  BY <1>3, <1>5, <1>6, <1>9, <1>10
<1> QED
  BY <1>7, <1>11, <1>12

LEMMA ReadType ==
  ASSUME NEW s \in ReadStates, NEW c \in Char
  PROVE  Read(s, c) \in ReadStates
<1>1. PICK more : more \in Text /\ more = Append(s.cell, c)
  <2>1. s.cell \in Seq(Char)
    BY DEF ReadStates, Text
  <2> QED
    BY <2>1, AppendProperties DEF Text
<1>2. Take(s, c) \in ReadStates
  BY <1>1 DEF Take, ReadStates
<1>3. EndCell(s) \in ReadStates /\ EndRow(s) \in ReadStates
  BY EndCellType
<1>4. \A t \in ReadStates : \A k \in BOOLEAN :
        [t EXCEPT !.quoted = k] \in ReadStates /\ [t EXCEPT !.closed = k] \in ReadStates
  BY DEF ReadStates
<1>5. ReadQuoted(s, c) \in ReadStates
  <2>1. [s EXCEPT !.quoted = FALSE, !.closed = TRUE] \in ReadStates
    BY DEF ReadStates
  <2> QED
    BY <1>2, <2>1, Zenon DEF ReadQuoted
<1>6. ReadPlain(s, c) \in ReadStates
  <2>1. [IF s.closed THEN Take(s, c) ELSE s EXCEPT !.quoted = TRUE] \in ReadStates
    BY <1>2, <1>4, Zenon
  <2> QED
    BY <1>2, <1>3, <2>1, Zenon DEF ReadPlain
<1>7. [ReadPlain(s, c) EXCEPT !.closed = FALSE] \in ReadStates
  BY <1>4, <1>6, Zenon
<1> QED
  BY <1>5, <1>7, Zenon DEF Read

LEMMA ReadAllType ==
  ASSUME NEW text \in Text, NEW s \in ReadStates
  PROVE  ReadAll(s, text) \in ReadStates
<1> DEFINE F == {w \in Seq(Char) : ReadAll(s, w) \in ReadStates}
<1>1. <<>> \in F
  BY ReadNone, EmptySeq
<1>2. ASSUME NEW w \in F, NEW c \in Char
      PROVE  w \o <<c>> \in F
  <2>1. ReadAll(s, w \o <<c>>) = Read(ReadAll(s, w), c)
    BY ReadOne
  <2>2. PICK t \in ReadStates : t = ReadAll(s, w)
    OBVIOUS
  <2>3. Read(t, c) \in ReadStates
    BY ReadType
  <2>4. w \o <<c>> \in Seq(Char)
    BY ConcatProperties
  <2> QED
    BY <2>1, <2>2, <2>3, <2>4
<1>3. F \in SUBSET Seq(Char)
  OBVIOUS
<1>4. Seq(Char) = F
  <2> HIDE DEF F
  <2> QED
    BY <1>1, <1>2, <1>3, SeqInduction
<1> QED
  BY <1>4 DEF Text

LEMMA ParseType ==
  ASSUME NEW input \in Text
  PROVE  parseCsv(input) \in Seq(Seq(Text))
<1>1. PICK text : text = IF input # <<>> /\ input[1] = BOM THEN Tail(input) ELSE input
  OBVIOUS
<1>2. text \in Text
  <2>1. input # <<>> => Tail(input) \in Text
    BY HeadTailProperties DEF Text
  <2> QED
    BY <1>1, <2>1
<1>3. Start \in ReadStates
  <2>1. <<>> \in Text /\ <<>> \in Seq(Text) /\ <<>> \in Seq(Seq(Text))
    BY TextType, EmptySeq, Zenon
  <2> QED
    BY <2>1 DEF Start, ReadStates
<1>4. PICK end : end = ReadAll(Start, text)
  OBVIOUS
<1>5. end \in ReadStates
  BY <1>2, <1>3, <1>4, ReadAllType
<1>6. EndRow(end) \in ReadStates
  BY <1>5, EndCellType
<1>7. end.rows \in Seq(Seq(Text)) /\ EndRow(end).rows \in Seq(Seq(Text))
  BY <1>5, <1>6 DEF ReadStates
<1>8. parseCsv(input) = IF end.cell # <<>> \/ end.row # <<>> THEN EndRow(end).rows ELSE end.rows
  BY <1>1, <1>4, Zenon DEF parseCsv
<1> QED
  BY <1>7, <1>8

\* What is trimmed is text, and has nothing left to trim.
LEMMA TrimIs ==
  ASSUME NEW cell \in Text
  PROVE  trim(cell) \in Text /\ trim(trim(cell)) = trim(cell) /\ trim(<<>>) = <<>>
<1>1. trim(<<>>) = <<>>
  <2>1. {i \in DOMAIN <<>> : <<>>[i] \notin Blank} = {}
    OBVIOUS
  <2> QED
    BY <2>1, Zenon DEF trim
<1>2. PICK n \in Nat : n = Len(cell) /\ DOMAIN cell = 1 .. n /\ cell \in Seq(Char)
                       /\ \A i \in 1 .. n : cell[i] \in Char
  BY LenProperties DEF Text
<1>3. PICK kept : kept = {i \in DOMAIN cell : cell[i] \notin Blank}
  OBVIOUS
<1>4. CASE kept = {}
  <2>1. trim(cell) = <<>>
    BY <1>3, <1>4, Zenon DEF trim
  <2> QED
    BY <1>1, <2>1, TextType, Zenon
<1>5. CASE kept # {}
  <2>1. kept \in SUBSET (1 .. n) /\ kept \in SUBSET Nat /\ IsFiniteSet(kept)
    <3>1. kept \in SUBSET (1 .. n)
      BY <1>2, <1>3
    <3>2. IsFiniteSet(1 .. n)
      BY FS_Interval
    <3>3. IsFiniteSet(kept)
      BY <3>1, <3>2, FS_Subset
    <3>4. 1 .. n \subseteq Nat
      OBVIOUS
    <3> QED
      BY <3>1, <3>3, <3>4
  <2>2. PICK lo : lo = CHOOSE i \in kept : \A j \in kept : i <= j
    OBVIOUS
  <2>3. PICK hi : hi = CHOOSE i \in kept : \A j \in kept : j <= i
    OBVIOUS
  <2>4. lo \in kept /\ \A j \in kept : lo <= j
    <3>1. \E i \in kept : \A j \in kept : i <= j
      BY <1>5, <2>1, LeastNumber
    <3> QED
      BY <2>2, <3>1
  <2>5. hi \in kept /\ \A j \in kept : j <= hi
    <3>1. PICK f : f = [i \in kept |-> i]
      OBVIOUS
    <3>2. \A i \in kept : f[i] \in Nat
      BY <2>1, <3>1
    <3>3. \E i \in kept : \A j \in kept : f[j] <= f[i]
      BY <1>5, <2>1, <3>2, LastOf
    <3>4. \E i \in kept : \A j \in kept : j <= i
      BY <3>1, <3>3
    <3> QED
      BY <2>3, <3>4
  <2>6. lo \in 1 .. n /\ hi \in 1 .. n /\ lo <= hi
    BY <2>1, <2>4, <2>5
  <2>7. PICK w : w = SubSeq(cell, lo, hi)
    OBVIOUS
  <2>8. trim(cell) = w
    BY <1>3, <1>5, <2>2, <2>3, <2>7, Zenon DEF trim
  <2>9. /\ w \in Seq(Char) /\ Len(w) = hi - lo + 1
        /\ \A i \in 1 .. hi - lo + 1 : w[i] = cell[lo + i - 1]
    BY <1>2, <2>6, <2>7, SubSeqProperties
  <2>10. PICK m \in Nat : m = hi - lo + 1 /\ m >= 1
    BY <2>6
  <2>11. w[1] \notin Blank /\ w[m] \notin Blank
    <3>1. w[1] = cell[lo] /\ w[m] = cell[hi]
      BY <2>6, <2>9, <2>10
    <3> QED
      BY <1>3, <2>4, <2>5, <3>1
  <2>12. PICK K : K = {i \in DOMAIN w : w[i] \notin Blank}
    OBVIOUS
  <2>13. K \subseteq 1 .. m /\ 1 \in K /\ m \in K
    <3>1. DOMAIN w = 1 .. m
      BY <2>9, <2>10, LenProperties
    <3> QED
      BY <2>10, <2>11, <2>12, <3>1
  <2>14. (CHOOSE i \in K : \A j \in K : i <= j) = 1
    <3>1. \A i \in K : (\A j \in K : i <= j) <=> i = 1
      BY <2>10, <2>13
    <3> QED
      BY <2>13, <3>1
  <2>15. (CHOOSE i \in K : \A j \in K : j <= i) = m
    <3>1. \A i \in K : (\A j \in K : j <= i) <=> i = m
      BY <2>10, <2>13
    <3> QED
      BY <2>13, <3>1
  <2>16. SubSeq(w, 1, m) = w
    <3>1. SubSeq(w, 1, Len(w)) = w
      BY <2>9, SubSeqFull
    <3> QED
      BY <2>9, <2>10, <3>1
  <2>17. K # {}
    BY <2>13
  <2>18. trim(w) = w
    BY <2>12, <2>14, <2>15, <2>16, <2>17, Zenon DEF trim
  <2> QED
    BY <1>1, <2>8, <2>9, <2>18 DEF Text
<1> QED
  BY <1>4, <1>5

LEMMA ValueType ==
  ASSUME NEW header \in Seq(Text), NEW row \in Seq(Text), NEW name
  PROVE  /\ value(header, row, name) \in Text
         /\ trim(value(header, row, name)) = value(header, row, name)
<1>1. PICK at : at = {i \in DOMAIN header \cap DOMAIN row : header[i] = name}
  OBVIOUS
<1>2. value(header, row, name)
        = IF at = {} THEN <<>> ELSE trim(row[CHOOSE i \in at : \A j \in at : i <= j])
  BY <1>1 DEF value
<1>3. CASE at = {}
  <2>1. <<>> \in Text /\ value(header, row, name) = <<>>
    BY <1>2, <1>3, TextType, Zenon
  <2>2. trim(<<>>) = <<>>
    BY <2>1, TrimIs
  <2> QED
    BY <2>1, <2>2, Zenon
<1>4. CASE at # {}
  <2>1. at \in SUBSET Nat
    <3>1. Len(row) \in Nat /\ DOMAIN row = 1 .. Len(row)
      BY LenProperties
    <3> QED
      BY <1>1, <3>1
  <2>2. PICK k : k = CHOOSE i \in at : \A j \in at : i <= j
    OBVIOUS
  <2>3. k \in at
    <3>1. \E i \in at : \A j \in at : i <= j
      BY <1>4, <2>1, LeastNumber
    <3> QED
      BY <2>2, <3>1
  <2>4. PICK cell \in Text : cell = row[k]
    <3>1. k \in DOMAIN row
      BY <1>1, <2>3
    <3> QED
      BY <3>1, LenProperties
  <2>5. value(header, row, name) = trim(cell)
    BY <1>2, <1>4, <2>2, <2>4
  <2> QED
    BY <2>5, TrimIs
<1> QED
  BY <1>3, <1>4

LEMMA NumberType ==
  ASSUME NEW header, NEW row, NEW name, NEW default \in {-1, 0}
  PROVE  number(header, row, name, default) \in (0 .. MaxNumber) \cup {-1}
<1>1. PICK cell : cell = value(header, row, name)
  OBVIOUS
<1>2. PICK read : read = {n \in 0 .. MaxNumber : Number(n) = cell}
  OBVIOUS
<1>3. number(header, row, name, default)
        = CASE cell = <<>> -> default
            [] read # {} -> CHOOSE n \in read : TRUE
            [] OTHER -> -1
  BY <1>1, <1>2 DEF number
<1>4. default \in (0 .. MaxNumber) \cup {-1}
  BY MaxNumberType
<1>5. read # {} => (CHOOSE n \in read : TRUE) \in 0 .. MaxNumber
  BY <1>2
<1> QED
  BY <1>3, <1>4, <1>5

\* A line that is read as a product, by its columns.
LEMMA LineIs ==
  ASSUME NEW header \in Seq(Text), NEW row \in Seq(Text), valid(candidate(header, row))
  PROVE  Exportable(candidate(header, row).name, candidate(header, row))
<1>1. PICK name, group : /\ name = value(header, row, <<"nome">>)
                         /\ group = value(header, row, <<"grupo">>)
  OBVIOUS
<1>2. PICK alcoholic \in BOOLEAN : alcoholic = (value(header, row, <<"alcoolica">>) # <<"nao">>)
  OBVIOUS
<1>3. PICK base, min, max, stockInitial, order :
        /\ base = number(header, row, <<"base">>, -1)
        /\ min = number(header, row, <<"minimo">>, -1)
        /\ max = number(header, row, <<"maximo">>, -1)
        /\ stockInitial = number(header, row, <<"stock">>, 0)
        /\ order = number(header, row, <<"ordem">>, 0)
  OBVIOUS
<1>4. PICK c : c = candidate(header, row)
  OBVIOUS
<1>5. c = [name |-> name, group |-> group, alcoholic |-> alcoholic, base |-> base, min |-> min,
           max |-> max, stockInitial |-> stockInitial, order |-> order]
  BY <1>1, <1>2, <1>3, <1>4, Zenon DEF candidate
<1>6. name \in Text /\ trim(name) = name /\ group \in Text /\ trim(group) = group
  BY <1>1, ValueType
<1>7. PICK N : N = (0 .. MaxNumber) \cup {-1}
  OBVIOUS
<1>8. base \in N /\ min \in N /\ max \in N /\ stockInitial \in N /\ order \in N
  BY <1>3, <1>7, NumberType
<1>9. /\ name # <<>> /\ group # <<>>
      /\ base > 0 /\ min > 0 /\ max > 0 /\ stockInitial >= 0 /\ order >= 0
      /\ min <= base /\ base <= max
  BY <1>4, <1>5 DEF valid
<1>10. /\ base \in 1 .. MaxNumber /\ min \in 1 .. MaxNumber /\ max \in 1 .. MaxNumber
       /\ stockInitial \in 0 .. MaxNumber /\ order \in 0 .. MaxNumber
  BY <1>7, <1>8, <1>9, MaxNumberType
<1>11. Exportable(name, c)
  BY <1>5, <1>6, <1>9, <1>10 DEF Exportable
<1> QED
  BY <1>4, <1>5, <1>11

\* What a file says of products.
LEMMA UploadIs ==
  ASSUME NEW csv \in Text
  PROVE  LET rows == parseProductsCsv(csv).products
         IN  /\ \E n \in Nat : DOMAIN rows \subseteq 1 .. n
             /\ \A i \in DOMAIN rows : Exportable(rows[i].name, rows[i])
<1>1. PICK all \in Seq(Seq(Text)) : all = parseCsv(csv)
  BY ParseType
<1>2. PICK header : header = all[1]
  OBVIOUS
<1>3. PICK lines : lines = {i \in 2 .. Len(all) : \E j \in DOMAIN all[i] : trim(all[i][j]) # <<>>}
  OBVIOUS
<1>4. PICK file : file = parseProductsCsv(csv)
  OBVIOUS
<1>5. file = IF all = <<>> \/ ~Required \subseteq Range(header)
               THEN [products |-> <<>>, errors |-> {1}]
               ELSE [products |-> [i \in {i \in lines : valid(candidate(header, all[i]))} |->
                                     candidate(header, all[i])],
                     errors |-> {i \in lines : ~valid(candidate(header, all[i]))}]
  BY <1>1, <1>2, <1>3, <1>4, Zenon DEF parseProductsCsv
<1>6. CASE all = <<>> \/ ~Required \subseteq Range(header)
  <2>1. file.products = <<>>
    BY <1>5, <1>6
  <2>2. DOMAIN file.products = {} /\ 0 \in Nat
    BY <2>1
  <2> QED
    BY <1>4, <2>2
<1>7. CASE ~(all = <<>> \/ ~Required \subseteq Range(header))
  <2>1. PICK good : good = {i \in lines : valid(candidate(header, all[i]))}
    OBVIOUS
  <2>2. file.products = [i \in good |-> candidate(header, all[i])]
    BY <1>5, <1>7, <2>1
  <2>3. Len(all) \in Nat /\ DOMAIN all = 1 .. Len(all) /\ all # <<>>
    BY <1>7, LenProperties
  <2>4. Len(all) # 0
    BY <2>3, EmptySeq
  <2>5. header \in Seq(Text)
    BY <1>2, <2>3, <2>4, LenProperties
  <2>6. ASSUME NEW i \in good
        PROVE  i \in 1 .. Len(all) /\ Exportable(file.products[i].name, file.products[i])
    <3>1. i \in 1 .. Len(all)
      BY <1>3, <2>1, <2>3
    <3>2. PICK row \in Seq(Text) : row = all[i]
      BY <2>3, <3>1, LenProperties
    <3>3. valid(candidate(header, row))
      BY <2>1, <3>2
    <3>4. Exportable(candidate(header, row).name, candidate(header, row))
      BY <2>5, <3>3, LineIs
    <3> QED
      BY <2>2, <3>1, <3>2, <3>4
  <2>7. DOMAIN file.products = good
    BY <2>2
  <2> QED
    BY <1>4, <2>3, <2>6, <2>7
<1> QED
  BY <1>6, <1>7

-----------------------------------------------------------------------------
(* The catalogue of the night: whatever is edited or imported, a product    *)
(* has columns that can be exported; its price may be outside its range.   *)

Sound(p, q) == q \in ProductStates(Text) /\ Exportable(p, q)

ProductsSound(catalogue) ==
  /\ IsFiniteSet(DOMAIN catalogue) /\ DOMAIN catalogue \subseteq Names
  /\ catalogue = [p \in DOMAIN catalogue |-> catalogue[p]]
  /\ \A p \in DOMAIN catalogue : Sound(p, catalogue[p])

LEMMA OpeningIs ==
  ASSUME NEW p \in DOMAIN Opening
  PROVE  Sound(p, Opening[p])
<1> DEFINE q == Opening[p]
<1>1. Created(p, q)
  BY OpeningAssumption, Zenon
<1> HIDE DEF q
<1>2. /\ p \in Text /\ trim(p) = p /\ q.group \in Text /\ trim(q.group) = q.group
      /\ q.alcoholic \in BOOLEAN
  BY <1>1, StringText, Zenon DEF Created
<1>3. /\ p # <<>> /\ q.group # <<>>
      /\ q.base > 0 /\ q.min > 0 /\ q.max > 0
      /\ q.min <= q.base /\ q.base <= q.max
  <2> DEFINE c == [name |-> p, group |-> q.group, base |-> q.base, min |-> q.min,
                   max |-> q.max, stockInitial |-> q.stockInitial, order |-> q.order]
  <2>1. valid(c)
    BY <1>1, Zenon DEF Created
  <2>2. c.name = p /\ c.group = q.group /\ c.base = q.base /\ c.min = q.min /\ c.max = q.max
    BY Zenon
  <2> HIDE DEF c
  <2> QED
    BY <2>1, <2>2, Zenon DEF valid
<1>4. /\ q.base \in 0 .. MaxNumber /\ q.min \in 0 .. MaxNumber /\ q.max \in 0 .. MaxNumber
      /\ q.stockInitial \in 0 .. MaxNumber /\ q.order \in 0 .. MaxNumber
  BY <1>1, Zenon DEF Created
<1>5. /\ \A n \in 0 .. MaxNumber : n \in Nat /\ (n > 0 => n \in 1 .. MaxNumber /\ n \in Nat \ {0})
      /\ \A n \in 0 .. One : n \in Nat
  BY MaxNumberType DEF One
<1>6. /\ q.base \in 1 .. MaxNumber /\ q.min \in 1 .. MaxNumber /\ q.max \in 1 .. MaxNumber
      /\ q.base \in Nat \ {0} /\ q.min \in Nat \ {0} /\ q.max \in Nat \ {0}
      /\ q.stockInitial \in Nat /\ q.order \in Nat
  BY <1>3, <1>4, <1>5, Zenon
<1>7. q.share \in Nat
  BY <1>1, <1>5, Zenon DEF Created
<1>8. q = [group |-> q.group, alcoholic |-> q.alcoholic, order |-> q.order, base |-> q.base,
           min |-> q.min, max |-> q.max, stockInitial |-> q.stockInitial,
           stock |-> q.stockInitial, price |-> q.base, raw |-> q.base * Fine, demand |-> 0,
           share |-> q.share, archived |-> FALSE, pin |-> 0, until |-> 0]
  BY <1>1, Zenon DEF Created
<1>9. q \in ProductStates(Text) /\ q.price = q.base /\ q.pin = 0
  <2>1. PICK base \in Nat \ {0}, min \in Nat \ {0}, max \in Nat \ {0}, stock \in Nat,
             order \in Nat, share \in Nat, group \in Text, alcoholic \in BOOLEAN :
               /\ base = q.base /\ min = q.min /\ max = q.max /\ stock = q.stockInitial
               /\ order = q.order /\ share = q.share /\ group = q.group
               /\ alcoholic = q.alcoholic
    BY <1>2, <1>6, <1>7, Zenon
  <2>2. q = [group |-> group, alcoholic |-> alcoholic, order |-> order, base |-> base,
             min |-> min, max |-> max, stockInitial |-> stock,
             stock |-> stock, price |-> base, raw |-> base * Fine, demand |-> 0,
             share |-> share, archived |-> FALSE, pin |-> 0, until |-> 0]
    BY <1>8, <2>1, Zenon
  <2>3. base * Fine \in Int
    BY DEF Fine
  <2> QED
    BY <2>2, <2>3 DEF ProductStates
<1> QED
  BY <1>2, <1>3, <1>4, <1>6, <1>9, Zenon DEF Exportable, Sound, q

\* What may be done to a product: its stock, its engine state, its pin, its
\* range, its columns.
SameColumns(q, o) ==
  /\ q.group = o.group /\ q.alcoholic = o.alcoholic /\ q.base = o.base /\ q.min = o.min
  /\ q.max = o.max /\ q.stockInitial = o.stockInitial /\ q.order = o.order

LEMMA SoundSame ==
  ASSUME NEW p, NEW q, Sound(p, q), NEW r \in ProductStates(Text), SameColumns(r, q)
  PROVE  Sound(p, r)
BY Zenon DEF Sound, Exportable, SameColumns

LEMMA SoundStock ==
  ASSUME NEW p, NEW q, Sound(p, q), NEW n \in Nat
  PROVE  Sound(p, [q EXCEPT !.stock = n])
<1>1. [q EXCEPT !.stock = n] \in ProductStates(Text)
  BY DEF Sound, ProductStates
<1>2. SameColumns([q EXCEPT !.stock = n], q)
  BY DEF Sound, ProductStates, SameColumns
<1> QED
  BY <1>1, <1>2, SoundSame

LEMMA SoundPin ==
  ASSUME NEW p, NEW q, Sound(p, q), NEW price \in Nat, NEW until \in Nat
  PROVE  Sound(p, [q EXCEPT !.pin = price, !.until = until])
<1>1. [q EXCEPT !.pin = price, !.until = until] \in ProductStates(Text)
  BY DEF Sound, ProductStates
<1>2. SameColumns([q EXCEPT !.pin = price, !.until = until], q)
  BY DEF Sound, ProductStates, SameColumns
<1> QED
  BY <1>1, <1>2, SoundSame

LEMMA SoundArchive ==
  ASSUME NEW p, NEW q, Sound(p, q), NEW archived \in BOOLEAN
  PROVE  Sound(p, [q EXCEPT !.archived = archived])
<1>1. [q EXCEPT !.archived = archived] \in ProductStates(Text)
  BY DEF Sound, ProductStates
<1>2. SameColumns([q EXCEPT !.archived = archived], q)
  BY DEF Sound, ProductStates, SameColumns
<1> QED
  BY <1>1, <1>2, SoundSame

LEMMA SoundRange ==
  ASSUME NEW p, NEW q, Sound(p, q), NEW base \in 1 .. MaxNumber, NEW min \in 1 .. MaxNumber,
         NEW max \in 1 .. MaxNumber, min <= base, base <= max
  PROVE  Sound(p, [q EXCEPT !.base = base, !.min = min, !.max = max])
<1>1. base \in Nat \ {0} /\ min \in Nat \ {0} /\ max \in Nat \ {0}
  BY MaxNumberType
<1>2. PICK r : r = [q EXCEPT !.base = base, !.min = min, !.max = max]
  OBVIOUS
<1>3. /\ r \in ProductStates(Text) /\ r.base = base /\ r.min = min /\ r.max = max
      /\ r.group = q.group /\ r.alcoholic = q.alcoholic
      /\ r.stockInitial = q.stockInitial /\ r.order = q.order
  BY <1>1, <1>2 DEF Sound, ProductStates
<1> QED
  BY <1>2, <1>3, Zenon DEF Sound, Exportable

LEMMA SoundTick ==
  ASSUME NEW p, NEW q, Sound(p, q), NEW r, NEW c, Ticked(Text, q, r, c)
  PROVE  Sound(p, r)
<1>1. /\ r \in ProductStates(Text)
      /\ r = [q EXCEPT !.price = r.price, !.raw = r.raw, !.demand = r.demand, !.pin = r.pin]
  BY DEF Ticked
<1>2. PICK a, b, d, e : a = r.price /\ b = r.raw /\ d = r.demand /\ e = r.pin
  OBVIOUS
<1>3. r = [q EXCEPT !.price = a, !.raw = b, !.demand = d, !.pin = e]
  BY <1>1, <1>2, Zenon
<1>4. SameColumns(r, q)
  BY <1>3 DEF Sound, ProductStates, SameColumns
<1> QED
  BY <1>1, <1>4, SoundSame

\* A line of an imported file, for a product that is there and for a new one.
Overwritten(q, c) ==
  [q EXCEPT !.group = c.group, !.alcoholic = c.alcoholic, !.base = c.base,
            !.min = c.min, !.max = c.max, !.order = c.order, !.archived = FALSE]
Fresh(c) ==
  [group |-> c.group, alcoholic |-> c.alcoholic, order |-> c.order,
   base |-> c.base, min |-> c.min, max |-> c.max,
   stockInitial |-> c.stockInitial, stock |-> c.stockInitial,
   price |-> c.base, raw |-> c.base * Fine, demand |-> 0, share |-> 0,
   archived |-> FALSE, pin |-> 0, until |-> 0]

LEMMA ColumnTypes ==
  ASSUME NEW p, NEW c, Exportable(p, c)
  PROVE  /\ c.group \in Text /\ c.alcoholic \in BOOLEAN
         /\ c.base \in Nat \ {0} /\ c.min \in Nat \ {0} /\ c.max \in Nat \ {0}
         /\ c.stockInitial \in Nat /\ c.order \in Nat
<1>1. /\ \A n \in 0 .. MaxNumber : n \in Nat
      /\ \A n \in 1 .. MaxNumber : n \in Nat \ {0}
  BY MaxNumberType
<1> QED
  BY <1>1, Zenon DEF Exportable

LEMMA SoundOverwritten ==
  ASSUME NEW p, NEW q, Sound(p, q), NEW c, Exportable(p, c)
  PROVE  Sound(p, Overwritten(q, c)) /\ Overwritten(q, c).price = q.price
<1>1. PICK group \in Text, alcoholic \in BOOLEAN, base \in Nat \ {0}, min \in Nat \ {0},
           max \in Nat \ {0}, order \in Nat :
        /\ group = c.group /\ alcoholic = c.alcoholic /\ base = c.base
        /\ min = c.min /\ max = c.max /\ order = c.order
  BY ColumnTypes
<1>2. PICK r : r = Overwritten(q, c)
  OBVIOUS
<1>3. r = [q EXCEPT !.group = group, !.alcoholic = alcoholic, !.base = base, !.min = min,
                    !.max = max, !.order = order, !.archived = FALSE]
  BY <1>1, <1>2, Zenon DEF Overwritten
<1>4. /\ r \in ProductStates(Text) /\ r.group = group /\ r.alcoholic = alcoholic
      /\ r.base = base /\ r.min = min /\ r.max = max /\ r.order = order
      /\ r.stockInitial = q.stockInitial /\ r.price = q.price
  <2>1. q \in ProductStates(Text)
    BY DEF Sound
  <2> QED
    BY <1>3, <2>1 DEF ProductStates
<1>5. Exportable(p, r)
  BY <1>1, <1>4, Zenon DEF Sound, Exportable
<1> QED
  BY <1>2, <1>4, <1>5 DEF Sound

LEMMA SoundFresh ==
  ASSUME NEW p, NEW c, Exportable(p, c)
  PROVE  Sound(p, Fresh(c))
<1>1. PICK group \in Text, alcoholic \in BOOLEAN, base \in Nat \ {0}, min \in Nat \ {0},
           max \in Nat \ {0}, stock \in Nat, order \in Nat :
        /\ group = c.group /\ alcoholic = c.alcoholic /\ base = c.base
        /\ min = c.min /\ max = c.max /\ stock = c.stockInitial /\ order = c.order
  BY ColumnTypes
<1>2. PICK r : r = Fresh(c)
  OBVIOUS
<1>3. r = [group |-> group, alcoholic |-> alcoholic, order |-> order,
           base |-> base, min |-> min, max |-> max, stockInitial |-> stock,
           stock |-> stock, price |-> base, raw |-> base * Fine, demand |-> 0,
           share |-> 0, archived |-> FALSE, pin |-> 0, until |-> 0]
  BY <1>1, <1>2, Zenon DEF Fresh
<1>4. base * Fine \in Int
  BY DEF Fine
<1>5. /\ r \in ProductStates(Text) /\ r.group = group /\ r.alcoholic = alcoholic
      /\ r.base = base /\ r.min = min /\ r.max = max /\ r.order = order
      /\ r.stockInitial = stock
  BY <1>3, <1>4 DEF ProductStates
<1>6. Exportable(p, r)
  BY <1>1, <1>5, Zenon DEF Exportable
<1> QED
  BY <1>2, <1>5, <1>6 DEF Sound

-----------------------------------------------------------------------------
(* The inductive invariant.  A bill is the sum of its lines, a refund is of *)
(* an order that is there, and the drawer holds what the orders and the     *)
(* refunds say it does.                                                    *)

Item == [product : Names, qty : Nat \ {0}, paid : Nat, base : Nat \ {0}]
Total(items) == SumFunction([i \in DOMAIN items |-> lineTotal(items[i])])

QuoteRows == {q \in [who : DOMAIN People, items : Seq(Item), total : Nat] :
                q.total = Total(q.items)}
Statuses == Settled \cup {"PENDING", "EXPIRED"}
OrderRows == {o \in [who : DOMAIN People, items : Seq(Item), total : Nat, method : Methods,
                     received : Nat, status : Statuses] : o.total = Total(o.items)}
RefundRows == [order : Nat, amount : Nat]

PaidIn(os, m) ==
  SumFunction([n \in DOMAIN os |->
                 IF os[n].method = m /\ os[n].status \in Settled THEN os[n].total ELSE 0])
GivenBack(os, rs, m) ==
  SumFunction([r \in DOMAIN rs |-> IF os[rs[r].order].method = m THEN rs[r].amount ELSE 0])

RowsTyped == /\ quotes \in Seq(QuoteRows) /\ orders \in Seq(OrderRows)
             /\ refunds \in Seq(RefundRows)
             /\ \A r \in DOMAIN refunds : refunds[r].order \in DOMAIN orders
CountsTyped == sold \in [Names -> Nat] /\ tick \in Nat
DrawerIs == drawer = [m \in Methods |-> PaidIn(orders, m) - GivenBack(orders, refunds, m)]

NightInv == ProductsSound(products) /\ RowsTyped /\ CountsTyped /\ DrawerIs

-----------------------------------------------------------------------------
(* Lines.                                                                  *)

\* g is f on T, and nothing on the rest of S.
Supports(f, T, g, S) ==
  /\ IsFiniteSet(S) /\ T \subseteq S
  /\ \A x \in T : f[x] \in Int /\ g[x] = f[x]
  /\ \A x \in S \ T : g[x] = 0

LEMMA SumSupported ==
  ASSUME NEW f, NEW T, NEW g, NEW S, Supports(f, T, g, S)
  PROVE  SumFunctionOnSet(g, S) = SumFunctionOnSet(f, T)
<1>1. T \in SUBSET S
  BY DEF Supports
<1>2. IsFiniteSet(S) /\ (\A x \in T : f[x] \in Int /\ g[x] = f[x]) /\ \A x \in S \ T : g[x] = 0
  BY DEF Supports
<1>3. PICK U \in SUBSET S : U = T
  BY <1>1
<1>4. IsFiniteSet(S) /\ (\A x \in U : f[x] \in Int /\ g[x] = f[x]) /\ \A x \in S \ U : g[x] = 0
  BY <1>2, <1>3
<1> QED
  BY <1>3, <1>4, SumSupport

LEMMA IndexSet ==
  ASSUME NEW C, NEW w \in Seq(C)
  PROVE  /\ Len(w) \in Nat /\ DOMAIN w = 1 .. Len(w) /\ IsFiniteSet(DOMAIN w)
         /\ \A i \in DOMAIN w : w[i] \in C
<1>1. Len(w) \in Nat /\ DOMAIN w = 1 .. Len(w)
  BY LenProperties
<1>2. IsFiniteSet(1 .. Len(w))
  BY <1>1, FS_Interval
<1> QED
  BY <1>1, <1>2

LEMMA QtyIs ==
  ASSUME NEW items, IsFiniteSet(DOMAIN items), \A i \in DOMAIN items : items[i].qty \in Nat,
         NEW p
  PROVE  /\ Qty(items, p) \in Nat
         /\ (\A i, j \in DOMAIN items : items[i].product = items[j].product => i = j) =>
              Qty(items, p) = 0
              \/ \E i \in DOMAIN items : items[i].product = p /\ Qty(items, p) = items[i].qty
<1> DEFINE f == [i \in DOMAIN items |-> IF items[i].product = p THEN items[i].qty ELSE 0]
           D == DOMAIN items
<1>1. Qty(items, p) = SumFunctionOnSet(f, D)
  BY DEF Qty, SumFunction
<1>2. \A i \in D : f[i] \in Nat
  OBVIOUS
<1>3. Qty(items, p) \in Nat
  <2> HIDE DEF f, D
  <2> SUFFICES IsFiniteSet(D)
    BY <1>1, <1>2, SumNat
  <2> QED
    BY DEF D
<1>4. ASSUME \A i, j \in DOMAIN items : items[i].product = items[j].product => i = j
      PROVE  Qty(items, p) = 0
              \/ \E i \in DOMAIN items : items[i].product = p /\ Qty(items, p) = items[i].qty
  <2>1. CASE \E i \in D : items[i].product = p
    <3>1. PICK i \in D : items[i].product = p
      BY <2>1
    <3>2. \A j \in D \ {i} : f[j] = 0
      BY <1>4, <3>1
    <3>3. f[i] = items[i].qty /\ f[i] \in Int
      BY <3>1
    <3>4. SumFunctionOnSet(f, D) = SumFunctionOnSet(f, {i})
      <4>1. \A j \in {i} : f[j] \in Int /\ f[j] = f[j]
        BY <3>3
      <4>2. IsFiniteSet(D) /\ {i} \in SUBSET D
        OBVIOUS
      <4> HIDE DEF f, D
      <4> QED
        BY <3>2, <4>1, <4>2, SumSupport
    <3>5. SumFunctionOnSet(f, {i}) = f[i]
      <4> HIDE DEF f
      <4> QED
        BY <3>3, SumOne
    <3> QED
      BY <1>1, <3>1, <3>3, <3>4, <3>5
  <2>2. CASE ~\E i \in D : items[i].product = p
    <3>1. \A i \in D : f[i] = 0
      BY <2>2
    <3>2. SumFunctionOnSet(f, D) = SumFunctionOnSet(f, {})
      <4>1. IsFiniteSet(D)
        OBVIOUS
      <4> HIDE DEF f, D
      <4> QED
        BY <3>1, <4>1, SumSupport
    <3> QED
      BY <1>1, <3>2, SumNothing
  <2> QED
    BY <2>1, <2>2
<1> QED
  BY <1>3, <1>4

\* What is sold or given back moves only the stock, and never below nothing.
LEMMA MoveSound ==
  ASSUME ProductsSound(products), NEW items, NEW sign \in {-1, 1},
         \A p \in DOMAIN products : Qty(items, p) \in Nat,
         sign = -1 => \A p \in DOMAIN products : Qty(items, p) <= products[p].stock
  PROVE  ProductsSound(Move(items, sign))
<1>1. DOMAIN Move(items, sign) = DOMAIN products
  BY DEF Move
<1>2. ASSUME NEW p \in DOMAIN products
      PROVE  Sound(p, Move(items, sign)[p])
  <2>1. Sound(p, products[p])
    BY DEF ProductsSound
  <2>2. PICK s \in Nat : s = products[p].stock
    BY <2>1 DEF Sound, ProductStates
  <2>3. PICK q \in Nat : q = Qty(items, p)
    OBVIOUS
  <2>4. sign = -1 => q <= s
    BY <2>2, <2>3
  <2>5. PICK n \in Nat : n = s + sign * q
    BY <2>4
  <2>6. Move(items, sign)[p] = [products[p] EXCEPT !.stock = n]
    <3>1. Move(items, sign)[p] = [products[p] EXCEPT !.stock = @ + sign * Qty(items, p)]
      BY <1>1 DEF Move
    <3>2. [products[p] EXCEPT !.stock = @ + sign * Qty(items, p)]
            = [products[p] EXCEPT !.stock = n]
      BY <2>2, <2>3, <2>5
    <3> QED
      BY <3>1, <3>2
  <2> QED
    BY <2>1, <2>6, SoundStock
<1>3. Move(items, sign) = [p \in DOMAIN products |-> Move(items, sign)[p]]
  BY DEF Move
<1> QED
  BY <1>1, <1>2, <1>3 DEF ProductsSound

-----------------------------------------------------------------------------
(* Rows: the sequences of the state, as the actions change them.           *)

LEMMA TotalType ==
  ASSUME NEW items \in Seq(Item)
  PROVE  /\ Total(items) \in Nat
         /\ \A i \in DOMAIN items : lineTotal(items[i]) \in Nat /\ items[i].qty \in Nat
<1> DEFINE f == [i \in DOMAIN items |-> lineTotal(items[i])]
           D == DOMAIN items
<1>1. IsFiniteSet(D) /\ \A i \in D : items[i] \in Item
  BY IndexSet
<1>2. \A i \in D : lineTotal(items[i]) \in Nat /\ items[i].qty \in Nat
  <2> TAKE i \in D
  <2>1. PICK a \in Nat, b \in Nat : a = items[i].paid /\ b = items[i].qty
    BY <1>1 DEF Item
  <2>2. a * b \in Nat
    OBVIOUS
  <2> QED
    BY <2>1, <2>2 DEF lineTotal
<1>3. Total(items) = SumFunctionOnSet(f, D)
  BY DEF Total, SumFunction
<1>4. \A i \in D : f[i] \in Nat
  BY <1>2
<1>5. SumFunctionOnSet(f, D) \in Nat
  <2> HIDE DEF f, D
  <2> QED
    BY <1>1, <1>4, SumNat
<1> QED
  BY <1>2, <1>3, <1>5

LEMMA RemoveType ==
  ASSUME NEW C, NEW w \in Seq(C), NEW i \in DOMAIN w
  PROVE  RemoveAt(w, i) \in Seq(C)
<1>1. Len(w) \in Nat /\ i \in 1 .. Len(w) /\ \A j \in 1 .. Len(w) : w[j] \in C
  BY IndexSet
<1>2. SubSeq(w, 1, i - 1) \in Seq(C) /\ SubSeq(w, i + 1, Len(w)) \in Seq(C)
  BY <1>1, SubSeqProperties
<1> QED
  BY <1>2, ConcatProperties DEF RemoveAt

LEMMA AppendIs ==
  ASSUME NEW C, NEW w \in Seq(C), NEW c \in C
  PROVE  /\ Append(w, c) \in Seq(C) /\ Len(w) + 1 \notin DOMAIN w
         /\ DOMAIN Append(w, c) = DOMAIN w \cup {Len(w) + 1}
         /\ Append(w, c)[Len(w) + 1] = c /\ \A i \in DOMAIN w : Append(w, c)[i] = w[i]
<1>1. PICK n \in Nat : n = Len(w) /\ DOMAIN w = 1 .. n
  BY LenProperties
<1>2. Append(w, c) \in Seq(C) /\ DOMAIN Append(w, c) = 1 .. n + 1
      /\ Append(w, c)[n + 1] = c /\ \A i \in DOMAIN w : Append(w, c)[i] = w[i]
  BY <1>1, AppendProperties
<1>3. 1 .. n + 1 = 1 .. n \cup {n + 1} /\ n + 1 \notin 1 .. n
  OBVIOUS
<1> QED
  BY <1>1, <1>2, <1>3

\* An order whose status changes.
Set(os, n, to) == [os EXCEPT ![n].status = to]

Changed(os, n, to, next) ==
  /\ next \in Seq(OrderRows) /\ DOMAIN next = DOMAIN os
  /\ \A i \in DOMAIN os \ {n} : next[i] = os[i]
  /\ \A i \in DOMAIN os : /\ next[i].method = os[i].method /\ next[i].total = os[i].total
                          /\ next[i].items = os[i].items /\ next[i].who = os[i].who
  /\ next[n].status = to

LEMMA SetIs ==
  ASSUME NEW os \in Seq(OrderRows), NEW n \in DOMAIN os, NEW to \in Statuses
  PROVE  Changed(os, n, to, Set(os, n, to))
<1>1. /\ Len(os) \in Nat /\ DOMAIN os = 1 .. Len(os)
      /\ \A i \in DOMAIN os : os[i] \in OrderRows
  BY IndexSet
<1>2. PICK o : o = [os[n] EXCEPT !.status = to]
  OBVIOUS
<1>3. os[n] \in OrderRows
  BY <1>1
<1>4. /\ o \in OrderRows /\ o.status = to /\ o.method = os[n].method /\ o.total = os[n].total
      /\ o.items = os[n].items /\ o.who = os[n].who
  BY <1>2, <1>3 DEF OrderRows
<1>5. Set(os, n, to) = [os EXCEPT ![n] = o]
  BY <1>2 DEF Set
<1>6. DOMAIN Set(os, n, to) = DOMAIN os
      /\ \A i \in DOMAIN os : Set(os, n, to)[i] = IF i = n THEN o ELSE os[i]
  BY <1>5
<1>7. Set(os, n, to) \in Seq(OrderRows)
  <2>1. \A i \in DOMAIN os : Set(os, n, to)[i] \in OrderRows
    BY <1>1, <1>4, <1>6
  <2>2. Set(os, n, to) = [i \in 1 .. Len(os) |-> Set(os, n, to)[i]]
    BY <1>1, <1>5
  <2> QED
    BY <1>1, <2>1, <2>2
<1> QED
  BY <1>2, <1>4, <1>6, <1>7 DEF Changed

-----------------------------------------------------------------------------
(* The drawer.                                                             *)

PaidBy(o, m) == IF o.method = m /\ o.status \in Settled THEN o.total ELSE 0

LEMMA PaidInIs ==
  ASSUME NEW os \in Seq(OrderRows), NEW m
  PROVE  /\ PaidIn(os, m) = SumFunctionOnSet([n \in DOMAIN os |-> PaidBy(os[n], m)], DOMAIN os)
         /\ \A n \in DOMAIN os : PaidBy(os[n], m) \in Nat
         /\ PaidIn(os, m) \in Nat
<1> DEFINE f == [n \in DOMAIN os |-> PaidBy(os[n], m)]
           D == DOMAIN os
<1>1. IsFiniteSet(D) /\ \A n \in D : os[n] \in OrderRows
  BY IndexSet
<1>2. \A n \in D : PaidBy(os[n], m) \in Nat
  BY <1>1 DEF OrderRows, PaidBy
<1>3. PaidIn(os, m) = SumFunctionOnSet(f, D)
  BY Zenon DEF PaidIn, PaidBy, SumFunction
<1>4. \A n \in D : f[n] \in Nat
  BY <1>2
<1>5. SumFunctionOnSet(f, D) \in Nat
  <2> HIDE DEF f, D
  <2> QED
    BY <1>1, <1>4, SumNat
<1> QED
  BY <1>2, <1>3, <1>5

LEMMA PaidAppend ==
  ASSUME NEW os \in Seq(OrderRows), NEW o \in OrderRows, o.status \notin Settled, NEW m
  PROVE  PaidIn(Append(os, o), m) = PaidIn(os, m)
<1>1. PICK more \in Seq(OrderRows) : more = Append(os, o)
  BY AppendIs
<1>2. PICK D, E : D = DOMAIN os /\ E = DOMAIN more
  OBVIOUS
<1>3. PICK f : f = [n \in DOMAIN os |-> PaidBy(os[n], m)]
  OBVIOUS
<1>4. PICK g : g = [n \in DOMAIN more |-> PaidBy(more[n], m)]
  OBVIOUS
<1>5. E = D \cup {Len(os) + 1} /\ more[Len(os) + 1] = o /\ \A n \in D : more[n] = os[n]
  BY <1>1, <1>2, AppendIs
<1>6. PaidBy(o, m) = 0
  BY DEF PaidBy
<1>7. \A n \in D : f[n] \in Int /\ g[n] = f[n]
  <2>1. \A n \in DOMAIN os : PaidBy(os[n], m) \in Nat
    BY PaidInIs
  <2> QED
    BY <1>2, <1>3, <1>4, <1>5, <2>1
<1>8. \A n \in E \ D : g[n] = 0
  BY <1>2, <1>4, <1>5, <1>6
<1>9. IsFiniteSet(E) /\ D \in SUBSET E
  BY <1>2, <1>5, IndexSet
<1>10. SumFunctionOnSet(g, E) = SumFunctionOnSet(f, D)
  <2>1. Supports(f, D, g, E)
    BY <1>7, <1>8, <1>9 DEF Supports
  <2> QED
    BY <2>1, SumSupported
<1> QED
  BY <1>1, <1>2, <1>3, <1>4, <1>10, PaidInIs

LEMMA PaidSet ==
  ASSUME NEW os \in Seq(OrderRows), NEW k \in DOMAIN os, NEW to \in Statuses, NEW m
  PROVE  PaidIn(Set(os, k, to), m)
           = PaidIn(os, m) - PaidBy(os[k], m) + PaidBy(Set(os, k, to)[k], m)
<1> DEFINE f == [n \in DOMAIN os |-> PaidBy(os[n], m)]
           D == DOMAIN os
<1>0. Changed(os, k, to, Set(os, k, to))
  BY SetIs
<1>1. PICK next \in Seq(OrderRows) : next = Set(os, k, to)
  BY <1>0 DEF Changed
<1> DEFINE g == [n \in DOMAIN next |-> PaidBy(next[n], m)]
<1>2. DOMAIN next = D /\ \A n \in D \ {k} : next[n] = os[n]
  BY <1>0, <1>1 DEF Changed
<1>3. \A n \in D : f[n] = PaidBy(os[n], m) /\ f[n] \in Int
  <2>1. \A n \in DOMAIN os : PaidBy(os[n], m) \in Nat
    BY PaidInIs
  <2> QED
    BY <2>1
<1>4. \A n \in D : g[n] = PaidBy(next[n], m) /\ g[n] \in Int
  <2>1. \A n \in DOMAIN next : PaidBy(next[n], m) \in Nat
    BY PaidInIs
  <2> QED
    BY <1>2, <2>1
<1>5. \A n \in D \ {k} : f[n] = g[n]
  BY <1>2
<1>6. IsFiniteSet(D) /\ IsFiniteSet(D \ {k})
  BY IndexSet, FS_Subset
<1>7. PaidIn(os, m) = SumFunctionOnSet(f, D) /\ PaidIn(next, m) = SumFunctionOnSet(g, D)
  BY <1>2, PaidInIs
<1>8. k \in D
  OBVIOUS
<1> HIDE DEF f, g, D
<1>9. SumFunctionOnSet(f, D \ {k}) = SumFunctionOnSet(g, D \ {k})
  BY <1>5, <1>6, SumSame
<1>10. SumFunctionOnSet(f, D \ {k}) \in Int
  BY <1>3, <1>6, SumType
<1>11. SumFunctionOnSet(f, D) = f[k] + SumFunctionOnSet(f, D \ {k})
  BY <1>3, <1>6, <1>8, SumTake
<1>12. SumFunctionOnSet(g, D) = g[k] + SumFunctionOnSet(g, D \ {k})
  BY <1>4, <1>6, <1>8, SumTake
<1>13. f[k] = PaidBy(os[k], m) /\ f[k] \in Int /\ g[k] = PaidBy(next[k], m) /\ g[k] \in Int
  BY <1>3, <1>4, <1>8
<1> QED
  BY <1>1, <1>7, <1>9, <1>10, <1>11, <1>12, <1>13

BackOf(os, x, m) == IF os[x.order].method = m THEN x.amount ELSE 0

LEMMA GivenBackIs ==
  ASSUME NEW os, NEW rs \in Seq(RefundRows), NEW m
  PROVE  /\ GivenBack(os, rs, m)
              = SumFunctionOnSet([r \in DOMAIN rs |-> BackOf(os, rs[r], m)], DOMAIN rs)
         /\ \A r \in DOMAIN rs : BackOf(os, rs[r], m) \in Nat
         /\ GivenBack(os, rs, m) \in Nat
<1>1. PICK f : f = [r \in DOMAIN rs |-> BackOf(os, rs[r], m)]
  OBVIOUS
<1>2. PICK D : D = DOMAIN rs
  OBVIOUS
<1>3. IsFiniteSet(D) /\ \A r \in D : rs[r] \in RefundRows
  BY <1>2, IndexSet
<1>4. \A r \in D : BackOf(os, rs[r], m) \in Nat
  BY <1>3 DEF RefundRows, BackOf
<1>5. GivenBack(os, rs, m) = SumFunctionOnSet(f, D)
  BY <1>1, <1>2, Zenon DEF GivenBack, BackOf, SumFunction
<1>6. \A r \in D : f[r] \in Nat
  BY <1>1, <1>2, <1>4
<1>7. SumFunctionOnSet(f, D) \in Nat
  BY <1>3, <1>6, SumNat
<1> QED
  BY <1>1, <1>2, <1>4, <1>5, <1>7

\* The orders given back were paid as they were.
SameMethods(os, next, rs) ==
  \A r \in DOMAIN rs : next[rs[r].order].method = os[rs[r].order].method

LEMMA BackSame ==
  ASSUME NEW os, NEW next, NEW rs, SameMethods(os, next, rs), NEW m
  PROVE  GivenBack(next, rs, m) = GivenBack(os, rs, m)
BY Zenon DEF GivenBack, SameMethods

LEMMA BackAppend ==
  ASSUME NEW os, NEW rs \in Seq(RefundRows), NEW x \in RefundRows, NEW m
  PROVE  GivenBack(os, Append(rs, x), m) = GivenBack(os, rs, m) + BackOf(os, x, m)
<1>1. PICK more \in Seq(RefundRows) : more = Append(rs, x)
  BY AppendIs
<1>2. PICK D, k : D = DOMAIN rs /\ k = Len(rs) + 1
  OBVIOUS
<1>3. PICK f : f = [r \in DOMAIN rs |-> BackOf(os, rs[r], m)]
  OBVIOUS
<1>4. PICK g : g = [r \in DOMAIN more |-> BackOf(os, more[r], m)]
  OBVIOUS
<1>5. DOMAIN more = D \cup {k} /\ k \notin D /\ more[k] = x /\ \A r \in D : more[r] = rs[r]
  BY <1>1, <1>2, AppendIs
<1>6. \A r \in DOMAIN more : BackOf(os, more[r], m) \in Nat
  BY GivenBackIs
<1>7. \A r \in D \cup {k} : g[r] = BackOf(os, more[r], m) /\ g[r] \in Int
  BY <1>4, <1>5, <1>6
<1>8. \A r \in D : g[r] = f[r]
  BY <1>2, <1>3, <1>5, <1>7
<1>9. IsFiniteSet(D)
  BY <1>2, IndexSet
<1>10. SumFunctionOnSet(g, D \cup {k}) = g[k] + SumFunctionOnSet(g, D)
  BY <1>5, <1>7, <1>9, SumAdd
<1>11. SumFunctionOnSet(g, D) = SumFunctionOnSet(f, D)
  BY <1>8, <1>9, SumSame
<1>12. g[k] = BackOf(os, x, m)
  BY <1>5, <1>7
<1>13. GivenBack(os, rs, m) = SumFunctionOnSet(f, D) /\ GivenBack(os, rs, m) \in Nat
  BY <1>2, <1>3, GivenBackIs
<1>14. GivenBack(os, more, m) = SumFunctionOnSet(g, D \cup {k})
       /\ GivenBack(os, more, m) \in Nat /\ BackOf(os, x, m) \in Int
  BY <1>4, <1>5, <1>6, <1>7, <1>12, GivenBackIs
<1> QED
  BY <1>1, <1>10, <1>11, <1>12, <1>13, <1>14

-----------------------------------------------------------------------------
(* The invariant is inductive.                                             *)

LEMMA NightInit ==
  ASSUME Init
  PROVE  NightInv
<1> USE DEF Init
<1>1. ProductsSound(products)
  <2>1. Opening = [p \in DOMAIN Opening |-> Opening[p]] /\ IsFiniteSet(DOMAIN Opening)
    BY OpeningAssumption
  <2>2. DOMAIN Opening \subseteq Names
    BY Zenon DEF Names
  <2> QED
    BY <2>1, <2>2, OpeningIs, Zenon DEF ProductsSound
<1>2. RowsTyped
  BY EmptySeq DEF RowsTyped
<1>3. CountsTyped
  BY DEF CountsTyped
<1>4. DrawerIs
  <2>1. ASSUME NEW m \in Methods
        PROVE  PaidIn(orders, m) = 0 /\ GivenBack(orders, refunds, m) = 0
    <3>2. PICK a, b :
               a = [n \in DOMAIN orders |-> IF orders[n].method = m /\ orders[n].status \in Settled
                                              THEN orders[n].total ELSE 0]
            /\ b = [r \in DOMAIN refunds |-> IF orders[refunds[r].order].method = m
                                               THEN refunds[r].amount ELSE 0]
      OBVIOUS
    <3>3. DOMAIN a = {} /\ DOMAIN b = {}
      BY <3>2
    <3>4. SumFunction(a) = 0 /\ SumFunction(b) = 0
      BY <3>3, SumNothing DEF SumFunction
    <3> QED
      BY <3>2, <3>4, Zenon DEF PaidIn, GivenBack
  <2>2. [m \in Methods |-> PaidIn(orders, m) - GivenBack(orders, refunds, m)] = [m \in Methods |-> 0]
    BY <2>1
  <2> QED
    BY <2>2 DEF DrawerIs
<1> QED
  BY <1>1, <1>2, <1>3, <1>4 DEF NightInv

LEMMA QuoteStep ==
  ASSUME NightInv, NEW who \in DOMAIN People, NEW basket \in Baskets, Quote(who, basket)
  PROVE  NightInv'
<1>1. ProductsSound(products) /\ RowsTyped /\ CountsTyped /\ DrawerIs
  BY DEF NightInv
<1>2. /\ basket \in Seq([product : Names, qty : Nat \ {0}])
      /\ \A i, j \in DOMAIN basket : basket[i].product = basket[j].product => i = j
  BY BasketsAssumption, Zenon
<1>3. PICK D : /\ D = DOMAIN basket /\ IsFiniteSet(D) /\ D = 1 .. Len(basket) /\ Len(basket) \in Nat
               /\ \A i \in D : /\ basket[i].product \in DOMAIN products
                                /\ basket[i].product \in Names /\ basket[i].qty \in Nat \ {0}
  <2>1. /\ Len(basket) \in Nat /\ DOMAIN basket = 1 .. Len(basket) /\ IsFiniteSet(DOMAIN basket)
        /\ \A i \in DOMAIN basket : basket[i] \in [product : Names, qty : Nat \ {0}]
    BY <1>2, IndexSet
  <2>2. \A i \in DOMAIN basket : basket[i].product \in Names /\ basket[i].qty \in Nat \ {0}
    BY <2>1
  <2>3. \A i \in DOMAIN basket : basket[i].product \in DOMAIN products
    BY Zenon DEF Quote, Allowed, OnSale
  <2> QED
    BY <2>1, <2>2, <2>3, Zenon
<1>4. ProductsSound(products)'
  <2>1. ASSUME NEW p \in DOMAIN products
        PROVE  Qty(basket, p) \in Nat /\ Qty(basket, p) <= products[p].stock
    <3>1. products[p].stock \in Nat
      BY <1>1 DEF ProductsSound, Sound, ProductStates
    <3>2. \A i \in D : basket[i].qty <= products[basket[i].product].stock
      BY <1>3 DEF Quote
    <3>3. \A i \in DOMAIN basket : basket[i].qty \in Nat
      BY <1>3
    <3>4. /\ Qty(basket, p) \in Nat
          /\ \/ Qty(basket, p) = 0
             \/ \E i \in DOMAIN basket : basket[i].product = p /\ Qty(basket, p) = basket[i].qty
      BY <1>2, <1>3, <3>3, QtyIs
    <3> QED
      BY <1>3, <3>1, <3>2, <3>4
  <2>2. ProductsSound(Move(basket, -1))
    BY <1>1, <2>1, MoveSound
  <2>3. products' = Move(basket, -1)
    BY DEF Quote
  <2> QED
    BY <2>2, <2>3, Zenon DEF ProductsSound
<1>5. PICK items : items = [i \in DOMAIN basket |->
                              [product |-> basket[i].product, qty |-> basket[i].qty,
                               paid |-> products[basket[i].product].price,
                               base |-> products[basket[i].product].base]]
  OBVIOUS
<1>6. items \in Seq(Item)
  <2>1. ASSUME NEW i \in D
        PROVE  items[i] \in Item
    <3>1. PICK p \in DOMAIN products, q \in Nat \ {0} :
            p = basket[i].product /\ q = basket[i].qty /\ p \in Names
      BY <1>3
    <3>2. PICK price \in Nat, base \in Nat \ {0} : price = products[p].price /\ base = products[p].base
      BY <1>1 DEF ProductsSound, Sound, ProductStates
    <3>3. items[i] = [product |-> p, qty |-> q, paid |-> price, base |-> base]
      BY <1>3, <1>5, <3>1, <3>2
    <3> QED
      BY <3>1, <3>3 DEF Item
  <2>2. items = [i \in 1 .. Len(basket) |-> items[i]]
    BY <1>3, <1>5
  <2> QED
    BY <1>3, <2>1, <2>2
<1>7. PICK q : q = [who |-> who, items |-> items, total |-> Total(items)]
  OBVIOUS
<1>8. q \in QuoteRows
  <2>1. Total(items) \in Nat
    BY <1>6, TotalType
  <2> QED
    BY <1>6, <1>7, <2>1 DEF QuoteRows
<1>9. quotes' = Append(quotes, q)
  BY <1>5, <1>7, Zenon DEF Quote, Total
<1>10. RowsTyped'
  <2>1. Append(quotes, q) \in Seq(QuoteRows)
    BY <1>1, <1>8, AppendIs DEF RowsTyped
  <2> QED
    BY <1>1, <1>9, <2>1 DEF RowsTyped, Quote
<1>11. (CountsTyped /\ DrawerIs)'
  BY <1>1 DEF CountsTyped, DrawerIs, Quote
<1> QED
  BY <1>4, <1>10, <1>11 DEF NightInv

\* What a bill takes off the shelf it can give back.
LEMMA ItemsQty ==
  ASSUME NEW items \in Seq(Item), NEW p
  PROVE  Qty(items, p) \in Nat
<1>1. IsFiniteSet(DOMAIN items) /\ \A i \in DOMAIN items : items[i].qty \in Nat
  <2>1. IsFiniteSet(DOMAIN items) /\ \A i \in DOMAIN items : items[i] \in Item
    BY IndexSet
  <2> QED
    BY <2>1 DEF Item
<1> QED
  BY <1>1, QtyIs

LEMMA RestockSound ==
  ASSUME ProductsSound(products), NEW items \in Seq(Item)
  PROVE  ProductsSound(Move(items, 1))
<1>1. \A p \in DOMAIN products : Qty(items, p) \in Nat
  BY ItemsQty
<1>2. 1 \in {-1, 1} /\ 1 # -1
  OBVIOUS
<1> QED
  BY <1>1, <1>2, MoveSound

LEMMA QuoteExpiresStep ==
  ASSUME NightInv, NEW q \in DOMAIN quotes, QuoteExpires(q)
  PROVE  NightInv'
<1>1. ProductsSound(products) /\ RowsTyped /\ CountsTyped /\ DrawerIs
  BY DEF NightInv
<1>2. quotes \in Seq(QuoteRows) /\ quotes[q] \in QuoteRows
  BY <1>1, IndexSet DEF RowsTyped
<1>3. ProductsSound(products)'
  <2>1. ProductsSound(Move(quotes[q].items, 1))
    <3>1. PICK items \in Seq(Item) : items = quotes[q].items
      BY <1>2 DEF QuoteRows
    <3> QED
      BY <1>1, <3>1, RestockSound
  <2>2. products' = Move(quotes[q].items, 1)
    BY DEF QuoteExpires
  <2> QED
    BY <2>1, <2>2, Zenon DEF ProductsSound
<1>4. RowsTyped'
  <2>1. RemoveAt(quotes, q) \in Seq(QuoteRows)
    BY <1>2, RemoveType
  <2> QED
    BY <1>1, <2>1 DEF RowsTyped, QuoteExpires
<1>5. (CountsTyped /\ DrawerIs)'
  BY <1>1 DEF CountsTyped, DrawerIs, QuoteExpires
<1> QED
  BY <1>3, <1>4, <1>5 DEF NightInv

LEMMA PlaceOrderStep ==
  ASSUME NightInv, NEW q \in DOMAIN quotes, NEW method \in Methods, NEW extra \in Extra,
         PlaceOrder(q, method, extra)
  PROVE  NightInv'
<1>1. ProductsSound(products) /\ RowsTyped /\ CountsTyped /\ DrawerIs
  BY DEF NightInv
<1>2. quotes \in Seq(QuoteRows) /\ quotes[q] \in QuoteRows /\ orders \in Seq(OrderRows)
  BY <1>1, IndexSet DEF RowsTyped
<1>3. PICK received : received = IF method = Cash THEN quotes[q].total + extra ELSE 0
  OBVIOUS
<1>4. received \in Nat
  <2>1. extra \in Nat
    BY BoundsAssumption
  <2>2. quotes[q].total \in Nat
    BY <1>2 DEF QuoteRows
  <2> QED
    BY <1>3, <2>1, <2>2
<1>5. PICK o : o = [who |-> quotes[q].who, items |-> quotes[q].items,
                    total |-> quotes[q].total, method |-> method,
                    received |-> received, status |-> "PENDING"]
  OBVIOUS
<1>6. o \in OrderRows /\ o.status \notin Settled
  <2>1. "PENDING" \in Statuses /\ "PENDING" \notin Settled
    BY DEF Statuses, Settled, Counted
  <2>2. o.status = "PENDING"
    BY <1>5
  <2> QED
    BY <1>2, <1>4, <1>5, <2>1, <2>2 DEF QuoteRows, OrderRows
<1>7. orders' = Append(orders, o) /\ quotes' = RemoveAt(quotes, q)
  BY <1>3, <1>5, Zenon DEF PlaceOrder
<1>8. /\ Append(orders, o) \in Seq(OrderRows)
      /\ DOMAIN Append(orders, o) = DOMAIN orders \cup {Len(orders) + 1}
      /\ \A i \in DOMAIN orders : Append(orders, o)[i] = orders[i]
  BY <1>2, <1>6, AppendIs
<1>9. RowsTyped'
  <2>1. RemoveAt(quotes, q) \in Seq(QuoteRows)
    BY <1>2, RemoveType
  <2> QED
    BY <1>1, <1>7, <1>8, <2>1 DEF RowsTyped, PlaceOrder
<1>10. DrawerIs'
  <2>1. ASSUME NEW m \in Methods
        PROVE  /\ PaidIn(orders', m) = PaidIn(orders, m)
               /\ GivenBack(orders', refunds, m) = GivenBack(orders, refunds, m)
    <3>1. PaidIn(Append(orders, o), m) = PaidIn(orders, m)
      BY <1>2, <1>6, PaidAppend
    <3>2. SameMethods(orders, Append(orders, o), refunds)
      BY <1>1, <1>8 DEF RowsTyped, SameMethods
    <3>3. GivenBack(Append(orders, o), refunds, m) = GivenBack(orders, refunds, m)
      BY <3>2, BackSame
    <3> QED
      BY <1>7, <3>1, <3>3
  <2>2. drawer' = drawer /\ refunds' = refunds
    BY DEF PlaceOrder
  <2> QED
    BY <1>1, <2>1, <2>2 DEF DrawerIs
<1>11. (ProductsSound(products) /\ CountsTyped)'
  BY <1>1 DEF ProductsSound, CountsTyped, PlaceOrder
<1> QED
  BY <1>9, <1>10, <1>11 DEF NightInv

\* What every change of an order's status does to the rows and to the drawer.
StatusSet(os, next, rs, n, to) ==
  /\ Changed(os, n, to, next) /\ SameMethods(os, next, rs)
  /\ \A m \in Methods : /\ PaidIn(os, m) \in Nat
                        /\ PaidIn(next, m) = PaidIn(os, m) - PaidBy(os[n], m) + PaidBy(next[n], m)
                        /\ GivenBack(next, rs, m) = GivenBack(os, rs, m)
                        /\ GivenBack(os, rs, m) \in Nat

LEMMA StatusIs ==
  ASSUME RowsTyped, NEW n \in DOMAIN orders, NEW to \in Statuses,
         orders' = [orders EXCEPT ![n].status = to]
  PROVE  StatusSet(orders, orders', refunds, n, to)
<1>1. orders \in Seq(OrderRows) /\ refunds \in Seq(RefundRows)
      /\ \A r \in DOMAIN refunds : refunds[r].order \in DOMAIN orders
  BY DEF RowsTyped
<1>2. orders' = Set(orders, n, to)
  BY DEF Set
<1>3. Changed(orders, n, to, Set(orders, n, to))
  BY <1>1, SetIs
<1>4. SameMethods(orders, Set(orders, n, to), refunds)
  BY <1>1, <1>3 DEF Changed, SameMethods
<1>5. ASSUME NEW m \in Methods
      PROVE  /\ PaidIn(orders, m) \in Nat
             /\ PaidIn(Set(orders, n, to), m)
                  = PaidIn(orders, m) - PaidBy(orders[n], m) + PaidBy(Set(orders, n, to)[n], m)
             /\ GivenBack(Set(orders, n, to), refunds, m) = GivenBack(orders, refunds, m)
             /\ GivenBack(orders, refunds, m) \in Nat
  <2>1. PaidIn(orders, m) \in Nat
    BY <1>1, PaidInIs
  <2>2. PaidIn(Set(orders, n, to), m)
          = PaidIn(orders, m) - PaidBy(orders[n], m) + PaidBy(Set(orders, n, to)[n], m)
    BY <1>1, PaidSet
  <2>3. GivenBack(Set(orders, n, to), refunds, m) = GivenBack(orders, refunds, m)
    BY <1>4, BackSame
  <2>4. GivenBack(orders, refunds, m) \in Nat
    BY <1>1, GivenBackIs
  <2> QED
    BY <2>1, <2>2, <2>3, <2>4
<1>6. StatusSet(orders, Set(orders, n, to), refunds, n, to)
  BY <1>3, <1>4, <1>5 DEF StatusSet
<1> QED
  BY <1>2, <1>6

\* The rows stay rows.
LEMMA StatusTyped ==
  ASSUME RowsTyped, NEW n, NEW to, StatusSet(orders, orders', refunds, n, to),
         quotes' = quotes, refunds' = refunds
  PROVE  RowsTyped'
BY DEF RowsTyped, StatusSet, Changed

\* An order that was not paid and is not now owes the drawer nothing.
LEMMA StatusDrawer ==
  ASSUME RowsTyped, DrawerIs, NEW n \in DOMAIN orders, NEW to,
         StatusSet(orders, orders', refunds, n, to),
         orders[n].status \in Settled <=> to \in Settled,
         drawer' = drawer, refunds' = refunds
  PROVE  DrawerIs'
<1>1. orders'[n].method = orders[n].method /\ orders'[n].total = orders[n].total
      /\ orders'[n].status = to /\ orders[n] \in OrderRows
  BY IndexSet DEF StatusSet, Changed, RowsTyped
<1>2. ASSUME NEW m \in Methods
      PROVE  /\ PaidIn(orders', m) = PaidIn(orders, m)
             /\ GivenBack(orders', refunds, m) = GivenBack(orders, refunds, m)
  <2>1. PaidBy(orders'[n], m) = PaidBy(orders[n], m) /\ PaidBy(orders[n], m) \in Int
    BY <1>1 DEF PaidBy, OrderRows
  <2>2. /\ PaidIn(orders, m) \in Nat
        /\ PaidIn(orders', m)
             = PaidIn(orders, m) - PaidBy(orders[n], m) + PaidBy(orders'[n], m)
        /\ GivenBack(orders', refunds, m) = GivenBack(orders, refunds, m)
    BY DEF StatusSet
  <2> QED
    BY <2>1, <2>2
<1> QED
  BY <1>2 DEF DrawerIs

LEMMA PayStep ==
  ASSUME NightInv, NEW n \in DOMAIN orders, Pay(n)
  PROVE  NightInv'
<1>1. ProductsSound(products) /\ RowsTyped /\ CountsTyped /\ DrawerIs
  BY DEF NightInv
<1>2. orders[n] \in OrderRows
  BY <1>1, IndexSet DEF RowsTyped
<1>3. "PAID" \in Statuses /\ "PAID" \in Settled /\ "PENDING" \notin Settled
  BY DEF Statuses, Settled, Counted
<1>4. StatusSet(orders, orders', refunds, n, "PAID") /\ orders[n].status = "PENDING"
  BY <1>1, <1>3, StatusIs DEF Pay, SetStatus
<1>5. RowsTyped'
  BY <1>1, <1>4, StatusTyped DEF Pay
<1>6. CountsTyped'
  <2>1. PICK items \in Seq(Item) : items = orders[n].items
    BY <1>2 DEF OrderRows
  <2>2. \A p \in Names : Qty(items, p) \in Nat
    BY ItemsQty
  <2>3. sold' = [p \in DOMAIN sold |-> sold[p] + Qty(items, p)]
    BY <2>1 DEF Pay
  <2> QED
    BY <1>1, <2>2, <2>3 DEF CountsTyped, Pay
<1>7. DrawerIs'
  <2>1. orders'[n].method = orders[n].method /\ orders'[n].total = orders[n].total
        /\ orders'[n].status = "PAID"
    BY <1>4 DEF StatusSet, Changed
  <2>2. orders[n].method \in Methods /\ orders[n].total \in Nat
    BY <1>2 DEF OrderRows
  <2>3. drawer' = [drawer EXCEPT ![orders[n].method] = @ + orders[n].total]
        /\ refunds' = refunds
    BY DEF Pay
  <2>4. ASSUME NEW m \in Methods
        PROVE  drawer'[m] = PaidIn(orders', m) - GivenBack(orders', refunds', m)
    <3>1. PaidBy(orders'[n], m) = IF orders[n].method = m THEN orders[n].total ELSE 0
      BY <1>3, <2>1 DEF PaidBy
    <3>2. PaidBy(orders[n], m) = 0
      BY <1>3, <1>4 DEF PaidBy
    <3>3. /\ PaidIn(orders, m) \in Nat /\ GivenBack(orders, refunds, m) \in Nat
          /\ PaidIn(orders', m)
               = PaidIn(orders, m) - PaidBy(orders[n], m) + PaidBy(orders'[n], m)
          /\ GivenBack(orders', refunds, m) = GivenBack(orders, refunds, m)
      BY <1>4 DEF StatusSet
    <3>4. drawer[m] = PaidIn(orders, m) - GivenBack(orders, refunds, m)
          /\ DOMAIN drawer = Methods
      BY <1>1 DEF DrawerIs
    <3> QED
      BY <2>2, <2>3, <3>1, <3>2, <3>3, <3>4
  <2>5. drawer' = [m \in Methods |-> drawer'[m]]
    BY <1>1, <2>3 DEF DrawerIs
  <2> QED
    BY <2>4, <2>5 DEF DrawerIs
<1>8. (ProductsSound(products))'
  BY <1>1 DEF ProductsSound, Pay
<1> QED
  BY <1>5, <1>6, <1>7, <1>8 DEF NightInv

LEMMA OrderExpiresStep ==
  ASSUME NightInv, NEW n \in DOMAIN orders, OrderExpires(n)
  PROVE  NightInv'
<1>1. ProductsSound(products) /\ RowsTyped /\ CountsTyped /\ DrawerIs
  BY DEF NightInv
<1>2. orders[n] \in OrderRows
  BY <1>1, IndexSet DEF RowsTyped
<1>3. "EXPIRED" \in Statuses /\ "EXPIRED" \notin Settled /\ "PENDING" \notin Settled
  BY DEF Statuses, Settled, Counted
<1>4. StatusSet(orders, orders', refunds, n, "EXPIRED") /\ orders[n].status = "PENDING"
  BY <1>1, <1>3, StatusIs DEF OrderExpires, SetStatus
<1>5. RowsTyped'
  BY <1>1, <1>4, StatusTyped DEF OrderExpires
<1>6. DrawerIs'
  BY <1>1, <1>3, <1>4, StatusDrawer DEF OrderExpires
<1>7. ProductsSound(products)'
  <2>1. ProductsSound(Move(orders[n].items, 1))
    <3>1. PICK items \in Seq(Item) : items = orders[n].items
      BY <1>2 DEF OrderRows
    <3> QED
      BY <1>1, <3>1, RestockSound
  <2>2. products' = Move(orders[n].items, 1)
    BY DEF OrderExpires
  <2> QED
    BY <2>1, <2>2, Zenon DEF ProductsSound
<1>8. (CountsTyped)'
  BY <1>1 DEF CountsTyped, OrderExpires
<1> QED
  BY <1>5, <1>6, <1>7, <1>8 DEF NightInv

LEMMA HandOverStep ==
  ASSUME NightInv, NEW n \in DOMAIN orders, HandOver(n)
  PROVE  NightInv'
<1>1. ProductsSound(products) /\ RowsTyped /\ CountsTyped /\ DrawerIs
  BY DEF NightInv
<1>2. "REDEEMED" \in Statuses /\ "REDEEMED" \in Settled /\ "PAID" \in Settled
  BY DEF Statuses, Settled, Counted
<1>3. StatusSet(orders, orders', refunds, n, "REDEEMED") /\ orders[n].status = "PAID"
  BY <1>1, <1>2, StatusIs DEF HandOver, SetStatus
<1>4. RowsTyped'
  BY <1>1, <1>3, StatusTyped DEF HandOver
<1>5. DrawerIs'
  BY <1>1, <1>2, <1>3, StatusDrawer DEF HandOver
<1>6. (ProductsSound(products) /\ CountsTyped)'
  BY <1>1 DEF ProductsSound, CountsTyped, HandOver
<1> QED
  BY <1>4, <1>5, <1>6 DEF NightInv

\* A refund takes from the drawer what it records, and the order still counts
\* as paid in.
LEMMA RefundStep ==
  ASSUME NightInv, NEW n \in DOMAIN orders, NEW amount \in Int, NEW restock \in BOOLEAN,
         Refund(n, amount, restock)
  PROVE  NightInv'
<1>1. ProductsSound(products) /\ RowsTyped /\ CountsTyped /\ DrawerIs
  BY DEF NightInv
<1>2. orders[n] \in OrderRows /\ n \in Nat
  BY <1>1, IndexSet DEF RowsTyped
<1>3. "REFUNDED" \in Statuses /\ "REFUNDED" \in Settled
      /\ "PAID" \in Settled /\ "PARTIALLY_REDEEMED" \in Settled
  BY DEF Statuses, Settled, Counted
<1>4. StatusSet(orders, orders', refunds, n, "REFUNDED") /\ orders[n].status \in Settled
  BY <1>1, <1>3, StatusIs DEF Refund, SetStatus
<1>5. PICK x \in RefundRows : x = [order |-> n, amount |-> amount]
  <2>1. amount \in Nat
    BY DEF Refund
  <2> QED
    BY <1>2, <2>1 DEF RefundRows
<1>6. refunds' = Append(refunds, x) /\ quotes' = quotes
  BY <1>5 DEF Refund
<1>7. RowsTyped'
  <2>1. /\ Append(refunds, x) \in Seq(RefundRows)
        /\ DOMAIN Append(refunds, x) = DOMAIN refunds \cup {Len(refunds) + 1}
        /\ Append(refunds, x)[Len(refunds) + 1] = x
        /\ \A r \in DOMAIN refunds : Append(refunds, x)[r] = refunds[r]
    BY <1>1, AppendIs DEF RowsTyped
  <2>2. orders' \in Seq(OrderRows) /\ DOMAIN orders' = DOMAIN orders
    BY <1>4 DEF StatusSet, Changed
  <2>3. x.order \in DOMAIN orders
    BY <1>5
  <2>4. \A r \in DOMAIN refunds' : refunds'[r].order \in DOMAIN orders'
    BY <1>1, <1>6, <2>1, <2>2, <2>3 DEF RowsTyped
  <2> QED
    BY <1>1, <1>6, <2>1, <2>2, <2>4 DEF RowsTyped
<1>8. DrawerIs'
  <2>1. orders'[n].method = orders[n].method /\ orders'[n].total = orders[n].total
        /\ orders'[n].status = "REFUNDED"
    BY <1>4 DEF StatusSet, Changed
  <2>2. orders[n].method \in Methods /\ orders[n].total \in Nat
    BY <1>2 DEF OrderRows
  <2>3. drawer' = [drawer EXCEPT ![orders[n].method] = @ - amount]
    BY DEF Refund
  <2>4. ASSUME NEW m \in Methods
        PROVE  drawer'[m] = PaidIn(orders', m) - GivenBack(orders', refunds', m)
    <3>1. PaidBy(orders'[n], m) = PaidBy(orders[n], m) /\ PaidBy(orders[n], m) \in Int
      BY <1>3, <1>4, <2>1, <2>2 DEF PaidBy
    <3>2. BackOf(orders', x, m) = IF orders[n].method = m THEN amount ELSE 0
      BY <1>5, <2>1 DEF BackOf
    <3>3. /\ PaidIn(orders, m) \in Nat /\ GivenBack(orders, refunds, m) \in Nat
          /\ PaidIn(orders', m)
               = PaidIn(orders, m) - PaidBy(orders[n], m) + PaidBy(orders'[n], m)
          /\ GivenBack(orders', refunds, m) = GivenBack(orders, refunds, m)
      BY <1>4 DEF StatusSet
    <3>4. GivenBack(orders', refunds', m)
            = GivenBack(orders', refunds, m) + BackOf(orders', x, m)
      <4>1. refunds \in Seq(RefundRows)
        BY <1>1 DEF RowsTyped
      <4>2. PICK next : next = orders'
        OBVIOUS
      <4>3. GivenBack(next, Append(refunds, x), m)
              = GivenBack(next, refunds, m) + BackOf(next, x, m)
        BY <4>1, BackAppend
      <4> QED
        BY <1>6, <4>2, <4>3
    <3>5. drawer[m] = PaidIn(orders, m) - GivenBack(orders, refunds, m)
          /\ DOMAIN drawer = Methods
      BY <1>1 DEF DrawerIs
    <3> QED
      BY <2>2, <2>3, <3>1, <3>2, <3>3, <3>4, <3>5
  <2>5. drawer' = [m \in Methods |-> drawer'[m]]
    BY <1>1, <2>3 DEF DrawerIs
  <2> QED
    BY <2>4, <2>5 DEF DrawerIs
<1>9. ProductsSound(products)'
  <2>1. ProductsSound(Move(orders[n].items, 1))
    <3>1. PICK items \in Seq(Item) : items = orders[n].items
      BY <1>2 DEF OrderRows
    <3> QED
      BY <1>1, <3>1, RestockSound
  <2>2. products' = Move(orders[n].items, 1) \/ products' = products
    BY DEF Refund
  <2> QED
    BY <1>1, <2>1, <2>2, Zenon DEF ProductsSound
<1>10. (CountsTyped)'
  BY <1>1 DEF CountsTyped, Refund
<1> QED
  BY <1>7, <1>8, <1>9, <1>10 DEF NightInv

\* The market moves what is on sale as the engine does, and nothing else.
Moved(was, is, onSale, next) ==
  /\ DOMAIN is = DOMAIN was
  /\ \A p \in DOMAIN was \ DOMAIN onSale : is[p] = was[p]
  /\ \A p \in DOMAIN onSale : ProductTicked(Text, p, onSale, is[p], next, Params)

LEMMA TickMoved ==
  ASSUME NightInv, Tick
  PROVE  /\ DOMAIN products' = DOMAIN products /\ OnSale \subseteq DOMAIN products
         /\ \A p \in OnSale : InRange(products[p])
         /\ Moved(products, products', [p \in OnSale |-> products[p]], tick + 1)
<1>1. ProductsSound(products) /\ CountsTyped /\ OnSale \subseteq DOMAIN products
  BY DEF NightInv, OnSale
<1>2. PICK onSale : onSale = [p \in OnSale |-> products[p]]
  OBVIOUS
<1>3. PICK units : units = sold
  OBVIOUS
<1>4. PICK next : next = tick + 1
  OBVIOUS
<1>5. PICK ticked : ticked = runTick(onSale, next, Params, units)
  OBVIOUS
<1>6. /\ IsFiniteSet(DOMAIN onSale)
      /\ \A o \in DOMAIN onSale : onSale[o] \in ProductStates(Text) /\ InRange(onSale[o])
      /\ \A o \in DOMAIN onSale : units[o] \in Nat
  <2>1. IsFiniteSet(DOMAIN products) /\ DOMAIN products \subseteq Names
    BY <1>1 DEF ProductsSound
  <2>2. IsFiniteSet(OnSale) /\ DOMAIN onSale = OnSale
    BY <1>1, <1>2, <2>1, FS_Subset
  <2>3. \A o \in OnSale : onSale[o] = products[o] /\ Sound(o, products[o]) /\ units[o] \in Nat
    BY <1>1, <1>2, <1>3, <2>1 DEF ProductsSound, CountsTyped
  <2>4. \A o \in OnSale : InRange(onSale[o])
    BY <2>3, Zenon DEF Tick, Readable, validProduct, InRange
  <2> QED
    BY <2>2, <2>3, <2>4, Zenon DEF Sound
<1>7. engineParamsSchema(Params)
  BY ParamsAssumption
<1>8. \A p \in DOMAIN onSale : ProductTicked(Text, p, onSale, ticked[p], next, Params)
  BY <1>5, <1>6, <1>7, TickIs
<1>9. products' = [p \in DOMAIN products |-> IF p \in OnSale THEN ticked[p] ELSE products[p]]
  BY <1>2, <1>3, <1>4, <1>5 DEF Tick
<1>10. DOMAIN onSale = OnSale
  BY <1>2
<1>11. Moved(products, products', onSale, next)
  <2>1. /\ DOMAIN products' = DOMAIN products
        /\ \A p \in DOMAIN products \ OnSale : products'[p] = products[p]
        /\ \A p \in OnSale : products'[p] = ticked[p]
    BY <1>1, <1>9
  <2>2. ASSUME NEW p \in DOMAIN onSale
        PROVE  ProductTicked(Text, p, onSale, products'[p], next, Params)
    <3>1. products'[p] = ticked[p]
      BY <1>10, <2>1
    <3>2. ProductTicked(Text, p, onSale, ticked[p], next, Params)
      BY <1>8
    <3> QED
      BY <3>1, <3>2
  <2>3. \A p \in DOMAIN products \ DOMAIN onSale : products'[p] = products[p]
    BY <1>10, <2>1, Zenon
  <2> QED
    BY <2>1, <2>2, <2>3 DEF Moved
<1>12. \A p \in OnSale : InRange(products[p])
  BY <1>2, <1>6, <1>10
<1> QED
  BY <1>1, <1>2, <1>4, <1>9, <1>11, <1>12

LEMMA TickStep ==
  ASSUME NightInv, Tick
  PROVE  NightInv'
<1>1. ProductsSound(products) /\ RowsTyped /\ CountsTyped /\ DrawerIs
  BY DEF NightInv
<1>2. PICK onSale : onSale = [p \in OnSale |-> products[p]]
  OBVIOUS
<1>3. /\ DOMAIN products' = DOMAIN products /\ OnSale \subseteq DOMAIN products
      /\ Moved(products, products', onSale, tick + 1)
  BY <1>2, TickMoved
<1>4. ProductsSound(products)'
  <2>1. ASSUME NEW p \in DOMAIN products
        PROVE  Sound(p, products'[p])
    <3>1. Sound(p, products[p])
      BY <1>1 DEF ProductsSound
    <3>2. CASE p \notin OnSale
      BY <1>2, <1>3, <3>1, <3>2 DEF Moved
    <3>3. CASE p \in OnSale
      <4>1. PICK q, r : q = products[p] /\ r = products'[p]
        OBVIOUS
      <4>2. onSale[p] = q /\ p \in DOMAIN onSale
        BY <1>2, <3>3, <4>1
      <4>3. ProductTicked(Text, p, onSale, r, tick + 1, Params)
        BY <1>3, <4>1, <4>2 DEF Moved
      <4>4. Ticked(Text, q, r, Params)
        BY <4>2, <4>3, Zenon DEF ProductTicked
      <4>5. Sound(p, r)
        BY <3>1, <4>1, <4>4, SoundTick
      <4> QED
        BY <4>1, <4>5
    <3> QED
      BY <3>2, <3>3
  <2>2. products' = [p \in DOMAIN products |-> products'[p]]
    BY DEF Tick
  <2> QED
    BY <1>1, <1>3, <2>1, <2>2 DEF ProductsSound
<1>5. CountsTyped'
  <2>1. tick' \in Nat
    BY <1>1, BoundsAssumption DEF Tick, Clock, CountsTyped
  <2>2. sold' \in [Names -> Nat]
    BY <1>1 DEF Tick, CountsTyped
  <2> QED
    BY <2>1, <2>2 DEF CountsTyped
<1>6. (RowsTyped /\ DrawerIs)'
  BY <1>1 DEF RowsTyped, DrawerIs, Tick
<1> QED
  BY <1>4, <1>5, <1>6 DEF NightInv

\* An edit of one product.
LEMMA EditSound ==
  ASSUME ProductsSound(products), NEW p \in DOMAIN products, NEW q, Sound(p, q),
         NEW next, next = [products EXCEPT ![p] = q]
  PROVE  ProductsSound(next)
<1>1. DOMAIN next = DOMAIN products /\ \A o \in DOMAIN products : Sound(o, next[o])
  BY DEF ProductsSound
<1>2. next = [o \in DOMAIN products |-> next[o]]
  OBVIOUS
<1> QED
  BY <1>1, <1>2 DEF ProductsSound

LEMMA PinStep ==
  ASSUME NightInv, NEW p \in DOMAIN products, Pin(p, products[p].max)
  PROVE  NightInv'
<1>1. ProductsSound(products) /\ RowsTyped /\ CountsTyped /\ DrawerIs
  BY DEF NightInv
<1>2. Sound(p, products[p])
  BY <1>1 DEF ProductsSound
<1>3. PICK until \in Nat : until = tick + PinTicks
  BY <1>1, BoundsAssumption DEF CountsTyped
<1>4. PICK price : price = products[p].max
  OBVIOUS
<1>5. price \in Nat
  BY <1>2, <1>4 DEF Sound, ProductStates
<1>6. PICK q : q = [products[p] EXCEPT !.pin = price, !.until = until]
  OBVIOUS
<1>7. Sound(p, q)
  <2>1. PICK was : was = products[p]
    OBVIOUS
  <2>2. Sound(p, was)
    BY <1>2, <2>1
  <2>3. Sound(p, [was EXCEPT !.pin = price, !.until = until])
    BY <1>3, <1>5, <2>2, SoundPin, Zenon
  <2> QED
    BY <1>6, <2>1, <2>3
<1>8. products' = [products EXCEPT ![p] = q]
  <2>1. products' = [products EXCEPT ![p].pin = price, ![p].until = until]
    BY <1>3, <1>4 DEF Pin
  <2> QED
    BY <1>6, <2>1
<1>9. ProductsSound(products')
  BY <1>1, <1>7, <1>8, EditSound
<1>10. (RowsTyped /\ CountsTyped /\ DrawerIs)'
  BY <1>1 DEF RowsTyped, CountsTyped, DrawerIs, Pin
<1> QED
  BY <1>9, <1>10 DEF NightInv, ProductsSound

LEMMA ArchiveStep ==
  ASSUME NightInv, NEW p \in DOMAIN products, Archive(p)
  PROVE  NightInv'
<1>1. ProductsSound(products) /\ RowsTyped /\ CountsTyped /\ DrawerIs
  BY DEF NightInv
<1>2. Sound(p, products[p])
  BY <1>1 DEF ProductsSound
<1>3. PICK q : q = [products[p] EXCEPT !.archived = TRUE]
  OBVIOUS
<1>4. Sound(p, q)
  BY <1>2, <1>3, SoundArchive
<1>5. products' = [products EXCEPT ![p] = q]
  BY <1>3 DEF Archive
<1>6. ProductsSound(products')
  BY <1>1, <1>4, <1>5, EditSound
<1>7. (RowsTyped /\ CountsTyped /\ DrawerIs)'
  BY <1>1 DEF RowsTyped, CountsTyped, DrawerIs, Archive
<1> QED
  BY <1>6, <1>7 DEF NightInv, ProductsSound

LEMMA UpdateStep ==
  ASSUME NightInv, NEW p \in DOMAIN products, NEW range \in Ranges, updateProduct(p, range)
  PROVE  NightInv'
<1>1. ProductsSound(products) /\ RowsTyped /\ CountsTyped /\ DrawerIs
  BY DEF NightInv
<1>2. Sound(p, products[p])
  BY <1>1 DEF ProductsSound
<1>3. PICK base \in 1 .. MaxNumber, min \in 1 .. MaxNumber, max \in 1 .. MaxNumber :
        base = range.base /\ min = range.min /\ max = range.max
  BY EditsAssumption
<1>4. min <= base /\ base <= max
  BY <1>3 DEF updateProduct
<1>5. PICK q : q = [products[p] EXCEPT !.base = base, !.min = min, !.max = max]
  OBVIOUS
<1>6. Sound(p, q)
  <2>1. PICK was : was = products[p]
    OBVIOUS
  <2>2. Sound(p, was)
    BY <1>2, <2>1
  <2>3. Sound(p, [was EXCEPT !.base = base, !.min = min, !.max = max])
    BY <1>3, <1>4, <2>2, SoundRange, Zenon
  <2> QED
    BY <1>5, <2>1, <2>3
<1>7. products' = [products EXCEPT ![p] = q]
  <2>1. products' = [products EXCEPT ![p].base = base, ![p].min = min, ![p].max = max]
    BY <1>3 DEF updateProduct
  <2> QED
    BY <1>5, <2>1
<1>8. ProductsSound(products')
  BY <1>1, <1>6, <1>7, EditSound
<1>9. (RowsTyped /\ CountsTyped /\ DrawerIs)'
  BY <1>1 DEF RowsTyped, CountsTyped, DrawerIs, updateProduct
<1> QED
  BY <1>8, <1>9 DEF NightInv, ProductsSound

\* What an uploaded file makes of the catalogue: a product it does not name
\* stays, any other is overwritten by a line of it, and keeps its price.
Imported(next) ==
  /\ IsFiniteSet(DOMAIN next) /\ next = [p \in DOMAIN next |-> next[p]]
  /\ DOMAIN products \subseteq DOMAIN next /\ DOMAIN next \subseteq Names
  /\ \A p \in DOMAIN next : Sound(p, next[p])
  /\ \A p \in DOMAIN products : next[p].price = products[p].price

LEMMA ImportIs ==
  ASSUME ProductsSound(products), NEW file \in Uploads
  PROVE  Imported(importProducts(file.products))
<1>1. PICK rows : rows = file.products
  OBVIOUS
<1>2. PICK n \in Nat : /\ DOMAIN rows \subseteq 1 .. n
                      /\ \A i \in DOMAIN rows : Exportable(rows[i].name, rows[i])
  <2>1. PICK csv \in Files : file = parseProductsCsv(csv)
    BY DEF Uploads
  <2>2. csv \in Text
    BY EditsAssumption, StringText
  <2> QED
    BY <1>1, <2>1, <2>2, UploadIs
<1> DEFINE named == {rows[i].name : i \in DOMAIN rows}
<1>3. IsFiniteSet(1 .. n)
  BY FS_Interval
<1>4. IsFiniteSet(named) /\ named \subseteq Names
  <2>1. IsFiniteSet(DOMAIN rows)
    <3>1. DOMAIN rows \in SUBSET (1 .. n)
      BY <1>2
    <3> QED
      BY <1>3, <3>1, FS_Subset
  <2>2. IsFiniteSet(named)
    <3>1. PICK name : name = [i \in DOMAIN rows |-> rows[i].name]
      OBVIOUS
    <3>2. named = {name[i] : i \in DOMAIN rows}
      BY <3>1
    <3> QED
      BY <2>1, <3>2, FiniteImage
  <2>3. \A i \in DOMAIN rows : rows[i].name \in Names
    <3> TAKE i \in DOMAIN rows
    <3>1. rows[i] \in Range(file.products)
      BY <1>1 DEF Range
    <3> QED
      BY <3>1, Zenon DEF Names
  <2> QED
    BY <2>2, <2>3
<1> DEFINE at(p) == {i \in DOMAIN rows : rows[i].name = p}
           first(p) == CHOOSE i \in at(p) : \A j \in at(p) : i <= j
           last(p) == CHOOSE i \in at(p) : \A j \in at(p) : j <= i
           found(p) == IF p \in DOMAIN products THEN products[p] ELSE Fresh(rows[first(p)])
           next == importProducts(rows)
<1>5. ASSUME NEW p \in named
      PROVE  Exportable(p, rows[first(p)]) /\ Exportable(p, rows[last(p)])
  <2>1. PICK A : A = at(p)
    OBVIOUS
  <2>2. A # {} /\ A \in SUBSET (1 .. n) /\ A \in SUBSET Nat
    BY <1>2, <2>1
  <2>3. IsFiniteSet(A)
    BY <1>3, <2>2, FS_Subset
  <2>4. PICK a, b : /\ a = CHOOSE i \in A : \A j \in A : i <= j
                    /\ b = CHOOSE i \in A : \A j \in A : j <= i
    OBVIOUS
  <2>5. a \in A
    <3>1. \E i \in A : \A j \in A : i <= j
      BY <2>2, LeastNumber
    <3> QED
      BY <2>4, <3>1
  <2>6. b \in A
    <3>1. PICK f : f = [i \in A |-> i]
      OBVIOUS
    <3>2. \A i \in A : f[i] \in Nat
      BY <2>2, <3>1
    <3>3. \E i \in A : \A j \in A : f[j] <= f[i]
      BY <2>2, <2>3, <3>2, LastOf
    <3>4. \E i \in A : \A j \in A : j <= i
      BY <3>1, <3>3
    <3> QED
      BY <2>4, <3>4
  <2>7. a = first(p) /\ b = last(p)
    BY <2>1, <2>4
  <2>8. \A i \in A : Exportable(p, rows[i])
    BY <1>2, <2>1
  <2> QED
    BY <2>5, <2>6, <2>7, <2>8
<1>6. next = [p \in DOMAIN products \cup named |->
                IF p \notin named THEN products[p] ELSE Overwritten(found(p), rows[last(p)])]
  BY Zenon DEF importProducts, Overwritten, Fresh
<1> HIDE DEF first, last, found
<1>7. \A p \in DOMAIN products : Sound(p, products[p])
  BY DEF ProductsSound
<1>8. ASSUME NEW p \in DOMAIN products \cup named
      PROVE  Sound(p, next[p]) /\ (p \in DOMAIN products => next[p].price = products[p].price)
  <2>1. CASE p \notin named
    BY <1>6, <1>7, <2>1
  <2>2. CASE p \in named
    <3>1. PICK q, c, fresh : q = found(p) /\ c = rows[last(p)] /\ fresh = rows[first(p)]
      OBVIOUS
    <3>2. Exportable(p, c) /\ Exportable(p, fresh)
      BY <1>5, <2>2, <3>1
    <3>3. next[p] = Overwritten(q, c)
      BY <1>6, <2>2, <3>1
    <3>4. Sound(p, q) /\ (p \in DOMAIN products => q = products[p])
      <4>1. CASE p \in DOMAIN products
        BY <1>7, <3>1, <4>1 DEF found
      <4>2. CASE p \notin DOMAIN products
        <5>1. q = Fresh(fresh)
          BY <3>1, <4>2 DEF found
        <5> QED
          BY <3>2, <4>2, <5>1, SoundFresh
      <4> QED
        BY <4>1, <4>2
    <3>5. Sound(p, Overwritten(q, c)) /\ Overwritten(q, c).price = q.price
      BY <3>2, <3>4, SoundOverwritten
    <3> QED
      BY <3>3, <3>4, <3>5
  <2> QED
    BY <2>1, <2>2
<1>9. DOMAIN next = DOMAIN products \cup named /\ next = [p \in DOMAIN next |-> next[p]]
  BY <1>6
<1>10. /\ IsFiniteSet(DOMAIN products \cup named)
       /\ DOMAIN products \cup named \subseteq Names
  BY <1>4, FS_Union DEF ProductsSound
<1> HIDE DEF next
<1>11. Imported(next)
  BY <1>8, <1>9, <1>10 DEF Imported
<1> QED
  BY <1>1, <1>11 DEF next

LEMMA ImportStep ==
  ASSUME NightInv, NEW file \in Uploads, Import(file)
  PROVE  NightInv'
<1>1. ProductsSound(products) /\ RowsTyped /\ CountsTyped /\ DrawerIs
  BY DEF NightInv
<1>2. Imported(products')
  BY <1>1, ImportIs DEF Import
<1>3. ProductsSound(products)'
  BY <1>2 DEF ProductsSound, Imported
<1>4. (RowsTyped /\ CountsTyped /\ DrawerIs)'
  BY <1>1 DEF RowsTyped, CountsTyped, DrawerIs, Import
<1> QED
  BY <1>3, <1>4 DEF NightInv

\* With no order there is no money.
LEMMA NoRows ==
  ASSUME NEW m
  PROVE  PaidIn(<<>>, m) = 0 /\ GivenBack(<<>>, <<>>, m) = 0
<1>1. PICK os, rs : os = <<>> /\ rs = <<>>
  OBVIOUS
<1>2. PICK a, b :
           a = [n \in DOMAIN os |-> IF os[n].method = m /\ os[n].status \in Settled
                                      THEN os[n].total ELSE 0]
        /\ b = [r \in DOMAIN rs |-> IF os[rs[r].order].method = m THEN rs[r].amount ELSE 0]
  OBVIOUS
<1>3. DOMAIN a = {} /\ DOMAIN b = {}
  BY <1>1, <1>2
<1>4. SumFunction(a) = 0 /\ SumFunction(b) = 0
  BY <1>3, SumNothing DEF SumFunction
<1>5. PaidIn(os, m) = 0 /\ GivenBack(os, rs, m) = 0
  BY <1>2, <1>4, Zenon DEF PaidIn, GivenBack
<1> QED
  BY <1>1, <1>5

LEMMA LastRoundStep ==
  ASSUME NightInv, LastRound
  PROVE  NightInv'
<1>1. ProductsSound(products) /\ RowsTyped /\ CountsTyped /\ DrawerIs
  BY DEF NightInv
<1>2. RowsTyped'
  <2>1. quotes' \in Seq(QuoteRows)
    BY <1>1 DEF RowsTyped, LastRound
  <2>2. orders' = <<>> /\ refunds' = <<>>
    BY DEF LastRound
  <2> QED
    BY <2>1, <2>2, EmptySeq DEF RowsTyped
<1>3. DrawerIs'
  <2>1. orders' = <<>> /\ refunds' = <<>> /\ drawer' = [m \in Methods |-> 0]
    BY DEF LastRound
  <2>2. \A m \in Methods : PaidIn(<<>>, m) - GivenBack(<<>>, <<>>, m) = 0
    BY NoRows
  <2> QED
    BY <2>1, <2>2 DEF DrawerIs
<1>4. (ProductsSound(products) /\ CountsTyped)'
  BY <1>1 DEF ProductsSound, CountsTyped, LastRound
<1> QED
  BY <1>2, <1>3, <1>4 DEF NightInv

LEMMA NightStep ==
  ASSUME NightInv, [Next]_vars
  PROVE  NightInv'
<1>1. CASE \E who \in DOMAIN People, basket \in Baskets : Quote(who, basket)
  BY <1>1, QuoteStep
<1>2. CASE \E q \in DOMAIN quotes : QuoteExpires(q)
  BY <1>2, QuoteExpiresStep
<1>3. CASE \E q \in DOMAIN quotes, m \in Methods, extra \in Extra : PlaceOrder(q, m, extra)
  BY <1>3, PlaceOrderStep
<1>4. CASE \E n \in DOMAIN orders : Pay(n)
  BY <1>4, PayStep
<1>5. CASE \E n \in DOMAIN orders : OrderExpires(n)
  BY <1>5, OrderExpiresStep
<1>6. CASE \E n \in DOMAIN orders : HandOver(n)
  BY <1>6, HandOverStep
<1>7. CASE \E n \in DOMAIN orders : Refund(n, 10, FALSE) \/ Refund(n, orders[n].total, TRUE)
  <2>1. PICK n \in DOMAIN orders : Refund(n, 10, FALSE) \/ Refund(n, orders[n].total, TRUE)
    BY <1>7
  <2>2. orders[n] \in OrderRows
    BY IndexSet DEF NightInv, RowsTyped
  <2>3. 10 \in Int /\ orders[n].total \in Int /\ TRUE \in BOOLEAN /\ FALSE \in BOOLEAN
    BY <2>2 DEF OrderRows
  <2> QED
    BY <2>1, <2>3, RefundStep
<1>8. CASE Tick
  BY <1>8, TickStep
<1>9. CASE \E file \in Uploads : Import(file)
  BY <1>9, ImportStep
<1>10. CASE LastRound
  BY <1>10, LastRoundStep
<1>11. CASE \E p \in DOMAIN products : Archive(p)
  BY <1>11, ArchiveStep
<1>12. CASE \E p \in DOMAIN products : Pin(p, products[p].max)
  BY <1>12, PinStep
<1>13. CASE \E p \in DOMAIN products, range \in Ranges : updateProduct(p, range)
  BY <1>13, UpdateStep
<1>14. CASE UNCHANGED vars
  BY <1>14 DEF vars, NightInv, ProductsSound, RowsTyped, CountsTyped, DrawerIs
<1> QED
  BY <1>1, <1>2, <1>3, <1>4, <1>5, <1>6, <1>7, <1>8, <1>9, <1>10, <1>11, <1>12, <1>13, <1>14,
     Zenon
  DEF Next

\* Whatever is bought, given back, ticked, pinned, archived, edited or imported
\* from whatever file: every product has columns that can be exported, with its
\* base inside its range (its price may be outside), every bill is the sum of
\* its lines, every refund is of an order that is there, and the money in the
\* drawer is what the orders paid less what the refunds gave back.
THEOREM NightInvariant ==
  Spec => []NightInv
<1>1. Init => NightInv
  BY NightInit
<1>2. NightInv /\ [Next]_vars => NightInv'
  BY NightStep
<1> QED
  BY <1>1, <1>2, PTL DEF Spec

\* A catalogue that reads back as what is on sale.
ReadsBack(catalogue) ==
  LET read == parseProductsCsv(exportProducts(catalogue))
      rows == {read.products[i] : i \in DOMAIN read.products}
  IN  /\ read.errors = {}
      /\ {r.name : r \in rows} = {p \in DOMAIN catalogue : ~catalogue[p].archived}
      /\ \A r \in rows : \A f \in DOMAIN r \ {"name"} : r[f] = catalogue[r.name][f]

LEMMA SoundReadsBack ==
  ASSUME NEW catalogue, ProductsSound(catalogue)
  PROVE  ReadsBack(catalogue)
<1>1. PICK rows : rows = LET read == parseProductsCsv(exportProducts(catalogue))
                         IN  {read.products[i] : i \in DOMAIN read.products}
  OBVIOUS
<1>2. PICK onSale : onSale = {p \in DOMAIN catalogue : ~catalogue[p].archived}
  OBVIOUS
<1>3. /\ IsFiniteSet(DOMAIN catalogue)
      /\ \A p \in DOMAIN catalogue : Exportable(p, catalogue[p])
  BY DEF ProductsSound, Sound
<1>4. /\ parseProductsCsv(exportProducts(catalogue)).errors = {}
      /\ rows = {ColumnsOf(p, catalogue[p]) : p \in onSale}
  BY <1>1, <1>2, <1>3, RoundTrip
<1>5. \A p \in onSale : ColumnsOf(p, catalogue[p]).name = p
  BY DEF ColumnsOf
<1>6. {r.name : r \in rows} = onSale
  <2>1. ASSUME NEW p \in onSale
        PROVE  p \in {r.name : r \in rows}
    BY <1>4, <1>5
  <2>2. ASSUME NEW r \in rows
        PROVE  r.name \in onSale
    BY <1>4, <1>5
  <2> QED
    BY <2>1, <2>2
<1>7. ASSUME NEW r \in rows, NEW f \in DOMAIN r \ {"name"}
      PROVE  r[f] = catalogue[r.name][f]
  <2>1. PICK p \in onSale : r = ColumnsOf(p, catalogue[p])
    BY <1>4
  <2>2. PICK q \in ProductStates(Text) : q = catalogue[p]
    BY <1>2 DEF ProductsSound, Sound
  <2>3. r = ColumnsOf(p, q) /\ r.name = p
    BY <1>5, <2>1, <2>2
  <2>4. f \in {"group", "alcoholic", "base", "min", "max", "stockInitial", "order"}
    BY <2>3 DEF ColumnsOf
  <2>5. r[f] = q[f]
    BY <2>3, <2>4 DEF ColumnsOf
  <2> QED
    BY <2>2, <2>3, <2>5
<1> QED
  BY <1>1, <1>2, <1>4, <1>6, <1>7 DEF ReadsBack

\* What is exported reads back, without an error, as the same catalogue,
\* whatever has been done to it.
THEOREM CatalogueComesBackAlways ==
  Spec => []CatalogueComesBack
<1>1. NightInv => CatalogueComesBack
  <2>1. ProductsSound(products) => ReadsBack(products)
    BY SoundReadsBack
  <2> QED
    BY <2>1, Zenon DEF NightInv, CatalogueComesBack, ReadsBack, OnSale
<1> QED
  BY <1>1, NightInvariant, PTL

-----------------------------------------------------------------------------
(* What a product costs.  Only a tick changes a price.                     *)

LEMMA PriceStays ==
  ASSUME NightInv, [Next]_vars, ~Tick, NEW p \in DOMAIN products
  PROVE  p \in DOMAIN products' /\ products'[p].price = products[p].price
<1>1. ProductsSound(products)
  BY DEF NightInv
<1>2. products[p] \in ProductStates(Text)
  BY <1>1 DEF ProductsSound, Sound
<1> DEFINE Kept(next) == p \in DOMAIN next /\ next[p].price = products[p].price
<1>3. Kept(products)
  OBVIOUS
<1>4. \A items, sign : Kept(Move(items, sign))
  BY <1>2 DEF Move, ProductStates
<1>5. \A file \in Uploads : Kept(importProducts(file.products))
  <2> TAKE file \in Uploads
  <2>1. PICK next : next = importProducts(file.products)
    OBVIOUS
  <2>2. Imported(next)
    BY <1>1, <2>1, ImportIs
  <2>3. Kept(next)
    BY <2>2 DEF Imported
  <2> QED
    BY <2>1, <2>3
<1> HIDE DEF Kept
<1> SUFFICES Kept(products')
  BY DEF Kept
<1>6. CASE \/ \E who \in DOMAIN People, basket \in Baskets : Quote(who, basket)
           \/ \E q \in DOMAIN quotes : QuoteExpires(q)
           \/ \E n \in DOMAIN orders : OrderExpires(n)
  BY <1>4, <1>6, Zenon DEF Quote, QuoteExpires, OrderExpires
<1>7. CASE \E n \in DOMAIN orders : Refund(n, 10, FALSE) \/ Refund(n, orders[n].total, TRUE)
  <2>1. ASSUME NEW n, NEW amount, NEW restock, Refund(n, amount, restock)
        PROVE  products' = Move(orders[n].items, 1) \/ products' = products
    BY <2>1 DEF Refund
  <2> QED
    BY <1>3, <1>4, <1>7, <2>1, Zenon
<1>8. CASE \/ \E q \in DOMAIN quotes, m \in Methods, extra \in Extra : PlaceOrder(q, m, extra)
           \/ \E n \in DOMAIN orders : Pay(n) \/ HandOver(n)
           \/ LastRound \/ UNCHANGED vars
  <2>1. products' = products
    BY <1>8 DEF PlaceOrder, Pay, HandOver, LastRound, vars
  <2> QED
    BY <1>3, <2>1
<1>9. CASE \E o \in DOMAIN products : Archive(o)
  <2>1. PICK o : products' = [products EXCEPT ![o].archived = TRUE]
    BY <1>9 DEF Archive
  <2> QED
    BY <1>2, <2>1 DEF Kept, ProductStates
<1>10. CASE \E o \in DOMAIN products : Pin(o, products[o].max)
  <2>1. PICK o, price, until :
          products' = [products EXCEPT ![o].pin = price, ![o].until = until]
    BY <1>10 DEF Pin
  <2> QED
    BY <1>2, <2>1 DEF Kept, ProductStates
<1>11. CASE \E o \in DOMAIN products, range \in Ranges : updateProduct(o, range)
  <2>1. PICK o, range : updateProduct(o, range)
    BY <1>11
  <2>2. PICK base, min, max : base = range.base /\ min = range.min /\ max = range.max
    OBVIOUS
  <2>3. products' = [products EXCEPT ![o].base = base, ![o].min = min, ![o].max = max]
    BY <2>1, <2>2, Zenon DEF updateProduct
  <2> QED
    BY <1>2, <2>3 DEF Kept, ProductStates
<1>12. CASE \E file \in Uploads : Import(file)
  BY <1>5, <1>12, Zenon DEF Import
<1> QED
  BY <1>6, <1>7, <1>8, <1>9, <1>10, <1>11, <1>12, Zenon DEF Next

\* A sound product is valid exactly when its price is in its range.
LEMMA ValidProduct ==
  ASSUME NEW p, NEW q, Sound(p, q)
  PROVE  validProduct(q) <=> q.min <= q.price /\ q.price <= q.max
<1>1. q \in ProductStates(Text) /\ q.min <= q.base /\ q.base <= q.max
  BY Zenon DEF Sound, Exportable
<1> QED
  BY <1>1 DEF ProductStates, validProduct

-----------------------------------------------------------------------------
(* A tick of the market.                                                   *)

LEMMA OnlyTick ==
  ASSUME [Next]_vars, tick' # tick
  PROVE  Tick
<1>1. ASSUME NEW p, NEW range, updateProduct(p, range) PROVE tick' = tick
  BY <1>1, Zenon DEF updateProduct
<1>2. ASSUME NEW p, Archive(p) \/ Pin(p, products[p].max) PROVE tick' = tick
  BY <1>2, Zenon DEF Archive, Pin
<1>3. ASSUME NEW n, Pay(n) \/ OrderExpires(n) \/ HandOver(n) PROVE tick' = tick
  BY <1>3, Zenon DEF Pay, OrderExpires, HandOver
<1>4. ASSUME NEW n, NEW amount, NEW restock, Refund(n, amount, restock) PROVE tick' = tick
  BY <1>4, Zenon DEF Refund
<1>5. ASSUME NEW q, NEW m, NEW extra, QuoteExpires(q) \/ PlaceOrder(q, m, extra)
      PROVE  tick' = tick
  BY <1>5, Zenon DEF QuoteExpires, PlaceOrder
<1>6. ASSUME NEW who, NEW basket, Quote(who, basket) PROVE tick' = tick
  BY <1>6, Zenon DEF Quote
<1>7. ASSUME NEW file, Import(file) PROVE tick' = tick
  BY <1>7, Zenon DEF Import
<1>8. LastRound \/ UNCHANGED vars => tick' = tick
  BY Zenon DEF LastRound, vars
<1> QED
  BY <1>1, <1>2, <1>3, <1>4, <1>5, <1>6, <1>7, <1>8, Zenon DEF Next

\* What the properties ask of p, which was q and is r, when the engine ran
\* on the products on sale.
PinnedWell(q, r) ==
  LET at == clip(r.pin, r.min, r.max)  off == abs(r.price - at)  step == Params.roundingCents
  IN  \/ 2 * off <= step
      \/ off < step /\ (2 * (at - r.min) < step \/ 2 * (r.max - at) < step)

LEMMA PinnedWellIs ==
  ASSUME NEW q \in ProductStates(Text), InRange(q), NEW r, Ticked(Text, q, r, Params),
         r.pin = q.pin,
         r.price = roundIntoRange(PinAt(q) * Fine, q.min, q.max, Params.roundingCents)
  PROVE  PinnedWell(q, r)
<1>1. PICK pin \in Nat, min \in Nat \ {0}, max \in Nat \ {0} :
           pin = q.pin /\ min = q.min /\ max = q.max
  BY DEF ProductStates
<1>2. PICK step \in Nat \ {0} : step = Params.roundingCents
  BY ParamsAssumption, ParamsAre
<1>3. PICK at \in min .. max : at = clip(pin, min, max) /\ min <= max
  <2>1. min <= max
    <3>1. PICK base \in Nat : base = q.base
      BY DEF ProductStates
    <3> QED
      BY <1>1, <3>1 DEF InRange
  <2>2. clip(pin, min, max) = IF pin < min THEN min ELSE IF pin > max THEN max ELSE pin
    BY <2>1, ClipIs
  <2> QED
    BY <2>1, <2>2
<1>4. r.min = min /\ r.max = max /\ r.pin = pin
  <2>1. PICK a, b, d, e : a = r.price /\ b = r.raw /\ d = r.demand /\ e = r.pin
    OBVIOUS
  <2>2. r = [q EXCEPT !.price = a, !.raw = b, !.demand = d, !.pin = e]
    BY <2>1, Zenon DEF Ticked
  <2> QED
    BY <1>1, <2>2 DEF ProductStates
<1>5. PICK v \in Int : v = at * Fine
  BY DEF Fine
<1>6. r.price = roundIntoRange(v, min, max, step)
  BY <1>1, <1>2, <1>3, <1>5 DEF PinAt
<1>7. LET off == abs(roundIntoRange(v, min, max, step) - at)
      IN  \/ 2 * off <= step
          \/ off < step /\ (2 * (at - min) < step \/ 2 * (max - at) < step)
  BY <1>3, <1>5, RoundIntoRangeIs
<1> QED
  BY <1>2, <1>3, <1>4, <1>6, <1>7 DEF PinnedWell

\* No step but an edit of its own range makes a product one that runTick throws
\* on, and a tick that runs moves the prices as the engine's limits say: no
\* price on sale leaves its range, what is sold out or archived stays, a pin is
\* kept, the unrounded price of the others moves by at most maxStepPct, and
\* away from its base in no group the panel warns about.
THEOREM PricesMoveInStepAlways ==
  Spec => PricesMoveInStep
<1>0. ASSUME NightInv, [Next]_vars
      PROVE  StaysReadable
  <2> SUFFICES ASSUME NEW p \in DOMAIN products, validProduct(products[p]),
                      rangeOf(products'[p]) = rangeOf(products[p])
               PROVE  validProduct(products'[p])
    BY DEF StaysReadable
  <2>1. ProductsSound(products) /\ ProductsSound(products')
    BY <1>0, NightStep DEF NightInv, ProductsSound
  <2>2. Sound(p, products[p])
    BY <2>1 DEF ProductsSound
  <2>3. CASE Tick
    <3>1. PICK onSale : onSale = [o \in OnSale |-> products[o]]
      OBVIOUS
    <3>2. Moved(products, products', onSale, tick + 1)
      BY <1>0, <2>3, <3>1, TickMoved
    <3>3. CASE p \notin OnSale
      BY <3>1, <3>2, <3>3 DEF Moved
    <3>4. CASE p \in OnSale
      <4>1. PICK r : r = products'[p]
        OBVIOUS
      <4>2. ProductTicked(Text, p, onSale, r, tick + 1, Params)
        BY <3>1, <3>2, <3>4, <4>1 DEF Moved
      <4>3. Ticked(Text, onSale[p], r, Params)
        BY <4>2, Zenon DEF ProductTicked
      <4>4. r.min <= r.price /\ r.price <= r.max
        BY <4>3, Zenon DEF Ticked, InRange
      <4>5. Sound(p, r)
        BY <3>1, <3>4, <2>2, <4>3, SoundTick
      <4> QED
        BY <4>1, <4>4, <4>5, ValidProduct
    <3> QED
      BY <3>3, <3>4
  <2>4. CASE ~Tick
    <3>1. p \in DOMAIN products' /\ products'[p].price = products[p].price
      BY <1>0, <2>4, PriceStays
    <3>2. Sound(p, products'[p])
      BY <2>1, <3>1 DEF ProductsSound
    <3>3. products'[p].min = products[p].min /\ products'[p].max = products[p].max
      BY DEF rangeOf
    <3>4. products[p].min <= products[p].price /\ products[p].price <= products[p].max
      BY <2>2, ValidProduct
    <3> QED
      BY <3>1, <3>2, <3>3, <3>4, ValidProduct
  <2> QED
    BY <2>3, <2>4
<1>1. ASSUME NightInv, [Next]_vars, tick' # tick
      PROVE  TickMoves
  <2>1. Tick
    BY <1>1, OnlyTick
  <2>2. ProductsSound(products) /\ CountsTyped /\ DOMAIN products \subseteq Names
    BY <1>1 DEF NightInv, ProductsSound
  <2>3. \A p \in OnSale : InRange(products[p])
    BY <1>1, <2>1, TickMoved
  <2>4. PICK onSale : onSale = [o \in OnSale |-> products[o]]
    BY Zenon
  <2>5. Moved(products, products', onSale, tick + 1)
    BY <1>1, <2>1, <2>4, TickMoved
  <2>6. validParams(Params)
    BY ParamsAssumption, ParamsAre
  <2>7. ASSUME NEW p \in DOMAIN products
        PROVE  /\ sold[p] >= 0
               /\ ~products[p].archived => /\ products'[p].min <= products'[p].price
                                           /\ products'[p].price <= products'[p].max
               /\ Frozen(p) => products'[p] = products[p]
               /\ ~Frozen(p) /\ Pinned(p) => PinKept(p)
               /\ ~Frozen(p) /\ ~Pinned(p) => StepCapped(p)
    <3>1. PICK q \in ProductStates(Text) : q = products[p]
      BY <2>2 DEF ProductsSound, Sound
    <3>2. PICK r : r = products'[p]
      OBVIOUS
    <3>3. sold[p] >= 0
      BY <2>2 DEF CountsTyped
    <3>4. CASE q.archived
      <4>1. p \notin DOMAIN onSale
        BY <2>4, <3>1, <3>4 DEF OnSale
      <4>2. r = q
        BY <2>5, <3>1, <3>2, <4>1 DEF Moved
      <4> QED
        BY <3>1, <3>2, <3>3, <3>4, <4>2, Zenon DEF Frozen
    <3>5. CASE ~q.archived
      <4>1. p \in DOMAIN onSale /\ onSale[p] = q
        BY <2>4, <3>1, <3>5 DEF OnSale
      <4>2. ProductTicked(Text, p, onSale, r, tick + 1, Params)
        BY <2>5, <3>2, <4>1 DEF Moved
      <4>3. Ticked(Text, q, r, Params)
        BY <4>1, <4>2, Zenon DEF ProductTicked
      <4>4. r.min <= r.price /\ r.price <= r.max
        BY <4>3, Zenon DEF Ticked, InRange
      <4>5. InRange(q)
        BY <2>3, <2>4, <3>1, <4>1
      <4>6. CASE q.stock = 0
        <5>1. r = q
          BY <4>1, <4>2, <4>6, Zenon DEF ProductTicked
        <5> QED
          BY <3>1, <3>2, <3>3, <4>4, <4>6, <5>1, Zenon DEF Frozen
      <4>7. CASE q.stock # 0 /\ overrideAppliesAt(q, tick + 1)
        <5>1. r.pin = q.pin
              /\ r.price = roundIntoRange(PinAt(q) * Fine, q.min, q.max, Params.roundingCents)
          BY <4>1, <4>2, <4>7, Zenon DEF ProductTicked
        <5>3. PinnedWell(q, r)
          BY <3>1, <4>3, <4>5, <5>1, PinnedWellIs
        <5>4. PinKept(p)
          BY <3>2, <5>3, Zenon DEF PinKept, PinnedWell
        <5> QED
          BY <3>1, <3>2, <3>3, <4>4, <3>5, <4>7, <5>4, Zenon DEF Frozen, Pinned
      <4>8. CASE q.stock # 0 /\ ~overrideAppliesAt(q, tick + 1)
        <5>1. /\ abs(r.raw - previousRawPrice(q)) <= times(previousRawPrice(q), Params.maxStepPct)
              /\ q.group \in engineWarnings(onSale, Params) =>
                   abs(r.raw - q.base * 10) <= Max({(q.max * 10) \div 1000 + 1,
                                                    abs(previousRawPrice(q) - q.base * 10)})
          <6>1. onSale[p].stock # 0 /\ ~overrideAppliesAt(onSale[p], tick + 1)
            BY <4>1, <4>8, Zenon
          <6>2. /\ abs(r.raw - previousRawPrice(onSale[p]))
                     <= times(previousRawPrice(onSale[p]), Params.maxStepPct)
                /\ onSale[p].group \in engineWarnings(onSale, Params) =>
                     abs(r.raw - onSale[p].base * 10)
                       <= Max({(onSale[p].max * 10) \div 1000 + 1,
                               abs(previousRawPrice(onSale[p]) - onSale[p].base * 10)})
            BY <4>2, <6>1 DEF ProductTicked
          <6> QED
            BY <4>1, <6>2, Zenon
        <5>2. StepCapped(p)
          BY <2>4, <3>1, <3>2, <5>1, Zenon DEF StepCapped, Fine, One
        <5> QED
          BY <3>1, <3>2, <3>3, <4>4, <3>5, <4>8, <5>2, Zenon DEF Frozen, Pinned
      <4> QED
        BY <4>6, <4>7, <4>8
    <3> QED
      BY <3>4, <3>5
  <2> QED
    BY <2>6, <2>7, Zenon DEF TickMoves
<1> QED
  BY <1>0, <1>1, NightInvariant, PTL DEF Spec, PricesMoveInStep

-----------------------------------------------------------------------------
(* The books.  What the dashboard counts, in the orders that stand.        *)

Standing(os) == Numbers(os, Taken)
Revenue(os) == SumFunction([n \in Standing(os) |-> Total(os[n].items)])
Takings(os, m) == SumFunction([n \in {n \in Standing(os) : os[n].method = m} |-> os[n].total])
UnitsIn(items) == SumFunction([i \in DOMAIN items |-> items[i].qty])
Units(os) == SumFunction([n \in Standing(os) |-> UnitsIn(os[n].items)])
UnitsSold(os, p) == SumFunction([n \in Standing(os) |-> Qty(os[n].items, p)])

MetricsOf(m, os, catalogue, methods) ==
  /\ m.revenueCents = Revenue(os) /\ m.unitsSold = Units(os)
  /\ m.takings = [meth \in methods |-> Takings(os, meth)]
  /\ m.products = [p \in {p \in DOMAIN catalogue : ~catalogue[p].archived} |-> UnitsSold(os, p)]

LEMMA MetricsAre ==
  ASSUME NEW os, NEW catalogue, NEW methods
  PROVE  MetricsOf(metrics(os, catalogue, methods), os, catalogue, methods)
<1>1. metrics(os, catalogue, methods).revenueCents = Revenue(os)
  BY DEF metrics, Revenue, Standing, Total, Sold, LinesOf
<1>2. metrics(os, catalogue, methods).unitsSold = Units(os)
  BY DEF metrics, Units, Standing, UnitsIn, Sold, LinesOf
<1>3. metrics(os, catalogue, methods).takings = [meth \in methods |-> Takings(os, meth)]
  BY DEF metrics, Takings, Standing
<1>4. metrics(os, catalogue, methods).products
        = [p \in {p \in DOMAIN catalogue : ~catalogue[p].archived} |-> UnitsSold(os, p)]
  BY DEF metrics, UnitsSold, Standing, Qty, Sold, LinesOf
<1> QED
  BY <1>1, <1>2, <1>3, <1>4, Zenon DEF MetricsOf

\* The rows of R, which h makes of S, carry in g what S carries in f.
Renamed(h, f, S, g, R) ==
  /\ IsFiniteSet(S) /\ R = {h[x] : x \in S}
  /\ \A x, y \in S : h[x] = h[y] => x = y
  /\ \A x \in S : f[x] \in Int /\ g[h[x]] = f[x]

LEMMA SumRenamed ==
  ASSUME NEW h, NEW f, NEW S, NEW g, NEW R, Renamed(h, f, S, g, R)
  PROVE  SumFunctionOnSet(g, R) = SumFunctionOnSet(f, S) /\ IsFiniteSet(R)
<1>1. /\ IsFiniteSet(S) /\ R = {h[x] : x \in S}
      /\ \A x, y \in S : h[x] = h[y] => x = y
      /\ \A x \in S : f[x] \in Int /\ g[h[x]] = f[x]
  BY Zenon DEF Renamed
<1> QED
  BY <1>1, SumImage

\* The rows of the till report and of the refunds, and their sums.
TillRow(o, n) ==
  [order |-> n, method |-> o.method, status |-> o.status, total |-> o.total,
   received |-> o.received,
   change |-> IF o.received = 0 THEN 0 ELSE changeForCash(o.total, o.received)]

Took(os, m, statuses) ==
  SumFunction([r \in {r \in till(os) : r.method = m /\ r.status \in statuses} |-> r.total])
Due(os, m, statuses) ==
  SumFunction([n \in {n \in DOMAIN os : os[n].status \in statuses /\ os[n].method = m} |->
                 os[n].total])

LEMMA TillSum ==
  ASSUME NEW os \in Seq(OrderRows), NEW statuses \in SUBSET Settled, NEW m
  PROVE  Took(os, m, statuses) = Due(os, m, statuses)
<1>1. PICK T : T = {n \in DOMAIN os : os[n].status \in statuses /\ os[n].method = m}
  OBVIOUS
<1>2. PICK rows : rows = {r \in till(os) : r.method = m /\ r.status \in statuses}
  OBVIOUS
<1>3. IsFiniteSet(DOMAIN os) /\ \A n \in DOMAIN os : os[n] \in OrderRows
  BY IndexSet
<1>4. IsFiniteSet(T)
  BY <1>3, <1>1, FS_Subset
<1>5. PICK h : h = [n \in T |-> TillRow(os[n], n)]
  OBVIOUS
<1>6. PICK f : f = [n \in T |-> os[n].total]
  OBVIOUS
<1>7. PICK g : g = [r \in rows |-> r.total]
  OBVIOUS
<1>8. \A n \in T : /\ h[n].order = n /\ h[n].total = os[n].total /\ h[n].method = os[n].method
                   /\ h[n].status = os[n].status
  BY <1>5 DEF TillRow
<1>9. \A x, y \in T : h[x] = h[y] => x = y
  BY <1>8
<1>10. rows = {h[n] : n \in T}
  <2>1. till(os) = {TillRow(os[n], n) : n \in Numbers(os, Settled)}
    BY Zenon DEF till, TillRow
  <2>2. ASSUME NEW r \in rows
        PROVE  r \in {h[n] : n \in T}
    <3>1. PICK n \in DOMAIN os : os[n].status \in Settled /\ r = TillRow(os[n], n)
      BY <1>2, <2>1 DEF Numbers
    <3>2. r.method = os[n].method /\ r.status = os[n].status
      BY <3>1 DEF TillRow
    <3>3. n \in T /\ r = h[n]
      BY <1>5, <1>1, <1>2, <3>1, <3>2
    <3> QED
      BY <3>3
  <2>3. ASSUME NEW n \in T
        PROVE  h[n] \in rows
    <3>1. n \in Numbers(os, Settled) /\ h[n] = TillRow(os[n], n)
      BY <1>5, <1>1 DEF Numbers
    <3>2. h[n] \in till(os)
      BY <2>1, <3>1
    <3> QED
      BY <1>8, <1>1, <1>2, <3>2
  <2> QED
    BY <2>2, <2>3
<1>11. \A n \in T : f[n] \in Int /\ g[h[n]] = f[n]
  <2>1. \A n \in T : os[n].total \in Int /\ f[n] = os[n].total
    BY <1>3, <1>6, <1>1 DEF OrderRows
  <2>2. \A n \in T : h[n] \in rows
    BY <1>10
  <2>3. \A n \in T : g[h[n]] = os[n].total
    BY <1>7, <1>8, <2>2
  <2> QED
    BY <2>1, <2>3
<1>12. SumFunctionOnSet(g, rows) = SumFunctionOnSet(f, T)
  <2>1. Renamed(h, f, T, g, rows)
    BY <1>4, <1>9, <1>10, <1>11, Zenon DEF Renamed
  <2> QED
    BY <2>1, SumRenamed
<1>13. Took(os, m, statuses) = SumFunction(g) /\ Due(os, m, statuses) = SumFunction(f)
  BY <1>6, <1>7, <1>1, <1>2, Zenon DEF Took, Due
<1>14. SumFunction(g) = SumFunctionOnSet(g, rows) /\ SumFunction(f) = SumFunctionOnSet(f, T)
  BY <1>6, <1>7 DEF SumFunction
<1> QED
  BY <1>12, <1>13, <1>14

\* What the till took, refunded orders included, is what was paid in.
LEMMA PaidOver ==
  ASSUME NEW os \in Seq(OrderRows), NEW m
  PROVE  PaidIn(os, m) = Due(os, m, Settled)
<1>1. PICK T : T = {n \in DOMAIN os : os[n].status \in Settled /\ os[n].method = m}
  OBVIOUS
<1>2. PICK D : D = DOMAIN os
  OBVIOUS
<1>3. PICK f : f = [n \in T |-> os[n].total]
  OBVIOUS
<1>4. PICK g : g = [n \in DOMAIN os |-> PaidBy(os[n], m)]
  OBVIOUS
<1>5. IsFiniteSet(D) /\ T \subseteq D /\ \A n \in DOMAIN os : os[n] \in OrderRows
  BY <1>2, <1>1, IndexSet
<1>6. \A n \in T : f[n] \in Int /\ g[n] = f[n]
  BY <1>2, <1>3, <1>4, <1>5, <1>1 DEF PaidBy, OrderRows
<1>7. \A n \in D \ T : g[n] = 0
  BY <1>2, <1>4, <1>1 DEF PaidBy
<1>8. SumFunctionOnSet(g, D) = SumFunctionOnSet(f, T)
  <2>1. Supports(f, T, g, D)
    BY <1>5, <1>6, <1>7 DEF Supports
  <2> QED
    BY <2>1, SumSupported
<1>9. Due(os, m, Settled) = SumFunction(f)
  BY <1>3, <1>1, Zenon DEF Due
<1>10. SumFunction(f) = SumFunctionOnSet(f, T)
  BY <1>3 DEF SumFunction
<1> QED
  BY <1>2, <1>4, <1>8, <1>9, <1>10, PaidInIs

RefundRow(os, x, r) ==
  [refund |-> r, order |-> x.order, amount |-> x.amount, total |-> os[x.order].total]

LEMMA RefundSum ==
  ASSUME NEW os, NEW rs \in Seq(RefundRows), NEW m,
         NEW rows, rows = {r \in refundRows(os, rs) : os[r.order].method = m}
  PROVE  SumFunction([r \in rows |-> r.amount]) = GivenBack(os, rs, m)
<1>1. PICK D : D = DOMAIN rs
  OBVIOUS
<1>2. PICK T : T \subseteq D /\ T = {r \in D : os[rs[r].order].method = m}
  OBVIOUS
<1>3. IsFiniteSet(D) /\ IsFiniteSet(T) /\ \A r \in D : rs[r] \in RefundRows
  BY <1>1, <1>2, IndexSet, FS_Subset
<1>4. PICK h : h = [r \in T |-> RefundRow(os, rs[r], r)]
  OBVIOUS
<1>5. PICK f : f = [r \in T |-> rs[r].amount]
  OBVIOUS
<1>6. PICK g : g = [r \in rows |-> r.amount]
  OBVIOUS
<1>7. PICK b : b = [r \in DOMAIN rs |-> BackOf(os, rs[r], m)]
  OBVIOUS
<1>8. \A r \in T : /\ h[r].refund = r /\ h[r].order = rs[r].order /\ h[r].amount = rs[r].amount
  BY <1>4 DEF RefundRow
<1>9. \A x, y \in T : h[x] = h[y] => x = y
  BY <1>8
<1>10. rows = {h[r] : r \in T}
  <2>1. refundRows(os, rs) = {RefundRow(os, rs[r], r) : r \in D}
    BY <1>1, Zenon DEF refundRows, RefundRow
  <2>2. ASSUME NEW x \in rows
        PROVE  x \in {h[r] : r \in T}
    <3>1. PICK r \in D : x = RefundRow(os, rs[r], r)
      BY <2>1
    <3>2. x.order = rs[r].order
      BY <3>1 DEF RefundRow
    <3>3. r \in T /\ x = h[r]
      BY <1>2, <1>4, <3>1, <3>2
    <3> QED
      BY <3>3
  <2>3. ASSUME NEW r \in T
        PROVE  h[r] \in rows
    <3>1. h[r] \in refundRows(os, rs)
      BY <1>2, <1>4, <2>1
    <3> QED
      BY <1>2, <1>8, <3>1
  <2> QED
    BY <2>2, <2>3
<1>11. \A r \in T : f[r] \in Int /\ g[h[r]] = f[r]
  <2>1. \A r \in T : rs[r].amount \in Int /\ f[r] = rs[r].amount /\ h[r] \in rows
    BY <1>2, <1>3, <1>5, <1>10 DEF RefundRows
  <2> QED
    BY <1>6, <1>8, <2>1
<1>12. SumFunctionOnSet(g, rows) = SumFunctionOnSet(f, T)
  <2>1. Renamed(h, f, T, g, rows)
    BY <1>3, <1>9, <1>10, <1>11, Zenon DEF Renamed
  <2> QED
    BY <2>1, SumRenamed
<1>13. \A r \in T : b[r] = f[r]
  BY <1>1, <1>2, <1>5, <1>7 DEF BackOf
<1>14. \A r \in D \ T : b[r] = 0
  BY <1>1, <1>2, <1>7 DEF BackOf
<1>15. SumFunctionOnSet(b, D) = SumFunctionOnSet(f, T)
  <2>1. Supports(f, T, b, D)
    BY <1>2, <1>3, <1>11, <1>13, <1>14 DEF Supports
  <2> QED
    BY <2>1, SumSupported
<1>16. SumFunction(g) = SumFunctionOnSet(g, rows)
  BY <1>6 DEF SumFunction
<1> QED
  BY <1>1, <1>6, <1>7, <1>12, <1>15, <1>16, GivenBackIs

\* The lines of the sales report that stand.
SaleRow(o, n, i) ==
  [order |-> n, line |-> i, status |-> o.status, who |-> o.who, method |-> o.method,
   product |-> o.items[i].product, qty |-> o.items[i].qty, paid |-> o.items[i].paid,
   base |-> o.items[i].base, total |-> lineTotal(o.items[i])]

LineRows(os) == {s \in sales(os) : s.status \in Taken}
RowsOfOrder(os, n) == {SaleRow(os[n], n, i) : i \in DOMAIN os[n].items}

LEMMA LineRowsAre ==
  ASSUME NEW os \in Seq(OrderRows)
  PROVE  /\ IsFiniteSet(LineRows(os)) /\ IsFiniteSet(Standing(os))
         /\ \A n \in Standing(os) : os[n].items \in Seq(Item)
         /\ \A s \in LineRows(os) : s.order \in Standing(os)
         /\ \A n \in Standing(os) : {s \in LineRows(os) : s.order = n} = RowsOfOrder(os, n)
<1>1. IsFiniteSet(DOMAIN os) /\ \A n \in DOMAIN os : os[n] \in OrderRows
  BY IndexSet
<1>2. Standing(os) \subseteq DOMAIN os /\ IsFiniteSet(Standing(os))
      /\ \A n \in DOMAIN os : n \in Standing(os) <=> os[n].status \in Taken
  <2>1. Standing(os) \subseteq DOMAIN os
        /\ \A n \in DOMAIN os : n \in Standing(os) <=> os[n].status \in Taken
    BY DEF Standing, Numbers
  <2> QED
    BY <1>1, <2>1, FS_Subset
<1>3. \A n \in DOMAIN os : os[n].items \in Seq(Item)
  BY <1>1 DEF OrderRows
<1>4. sales(os) = UNION {RowsOfOrder(os, n) : n \in DOMAIN os}
  BY Zenon DEF sales, RowsOfOrder, SaleRow, LinesOf
<1>5. ASSUME NEW n \in DOMAIN os, NEW s \in RowsOfOrder(os, n)
      PROVE  s.order = n /\ s.status = os[n].status
  BY <1>5 DEF RowsOfOrder, SaleRow
<1>6. IsFiniteSet(sales(os))
  <2>1. ASSUME NEW n \in DOMAIN os
        PROVE  IsFiniteSet(RowsOfOrder(os, n))
    <3>1. PICK items \in Seq(Item) : items = os[n].items
      BY <1>3
    <3>2. PICK D : D = DOMAIN items /\ IsFiniteSet(D)
      BY IndexSet
    <3>3. PICK row : row = [i \in D |-> SaleRow(os[n], n, i)]
      OBVIOUS
    <3>4. IsFiniteSet({row[i] : i \in D})
      BY <3>2, FiniteImage
    <3>5. {row[i] : i \in D} = RowsOfOrder(os, n)
      BY <3>1, <3>2, <3>3 DEF RowsOfOrder
    <3> QED
      BY <3>4, <3>5
  <2>2. IsFiniteSet({RowsOfOrder(os, n) : n \in DOMAIN os})
    <3>1. PICK row : row = [n \in DOMAIN os |-> RowsOfOrder(os, n)]
      OBVIOUS
    <3>2. IsFiniteSet({row[n] : n \in DOMAIN os})
      BY <1>1, FiniteImage
    <3>3. {row[n] : n \in DOMAIN os} = {RowsOfOrder(os, n) : n \in DOMAIN os}
      BY <3>1
    <3> QED
      BY <3>2, <3>3
  <2>3. \A x \in {RowsOfOrder(os, n) : n \in DOMAIN os} : IsFiniteSet(x)
    BY <2>1
  <2> QED
    BY <1>4, <2>2, <2>3, FS_UNION
<1>7. IsFiniteSet(LineRows(os))
  <2>1. LineRows(os) \subseteq sales(os)
    BY DEF LineRows
  <2> QED
    BY <1>6, <2>1, FS_Subset
<1>8. ASSUME NEW s \in LineRows(os)
      PROVE  s.order \in Standing(os) /\ s \in RowsOfOrder(os, s.order)
  <2>1. s.status \in Taken /\ s \in sales(os)
    BY DEF LineRows
  <2>2. PICK n \in DOMAIN os : s \in RowsOfOrder(os, n)
    BY <1>4, <2>1
  <2> QED
    BY <1>2, <1>5, <2>1, <2>2
<1>9. ASSUME NEW n \in Standing(os)
      PROVE  {s \in LineRows(os) : s.order = n} = RowsOfOrder(os, n)
  <2>1. ASSUME NEW s \in RowsOfOrder(os, n)
        PROVE  s \in LineRows(os) /\ s.order = n
    <3>1. s \in sales(os)
      BY <1>2, <1>4, <2>1
    <3>2. s.order = n /\ s.status = os[n].status /\ os[n].status \in Taken
      BY <1>2, <1>5, <2>1
    <3> QED
      BY <3>1, <3>2 DEF LineRows
  <2>2. ASSUME NEW s \in LineRows(os), s.order = n
        PROVE  s \in RowsOfOrder(os, n)
    BY <1>8, <2>2
  <2> QED
    BY <2>1, <2>2
<1> QED
  BY <1>2, <1>3, <1>7, <1>8, <1>9

\* Summed order by order, f on the lines is part on the orders.
LineParts(os, f, part) ==
  \A n \in Standing(os) :
    part[n] = SumFunctionOnSet([i \in DOMAIN os[n].items |-> f[SaleRow(os[n], n, i)]],
                               DOMAIN os[n].items)

LEMMA LinesSum ==
  ASSUME NEW os \in Seq(OrderRows), NEW f, \A s \in LineRows(os) : f[s] \in Int,
         NEW part, LineParts(os, f, part)
  PROVE  SumFunctionOnSet(part, Standing(os)) = SumFunctionOnSet(f, LineRows(os))
<1>1. PICK S : S = LineRows(os)
  OBVIOUS
<1>2. PICK K : K = Standing(os)
  OBVIOUS
<1>3. PICK h : h = [s \in S |-> s.order]
  OBVIOUS
<1>4. /\ IsFiniteSet(S) /\ IsFiniteSet(K)
      /\ \A n \in K : os[n].items \in Seq(Item)
      /\ \A s \in S : s.order \in K
      /\ \A n \in K : {s \in S : s.order = n} = RowsOfOrder(os, n)
  BY <1>1, <1>2, LineRowsAre
<1>5. \A s \in S : h[s] \in K /\ f[s] \in Int
  BY <1>1, <1>3, <1>4
<1>6. ASSUME NEW n \in K
      PROVE  part[n] = SumFunctionOnSet(f, {s \in S : h[s] = n})
  <2>1. PICK items \in Seq(Item) : items = os[n].items
    BY <1>4
  <2>2. PICK D : D = DOMAIN items /\ IsFiniteSet(D)
    BY IndexSet
  <2>3. PICK row : row = [i \in D |-> SaleRow(os[n], n, i)]
    OBVIOUS
  <2>4. PICK v : v = [i \in D |-> f[SaleRow(os[n], n, i)]]
    OBVIOUS
  <2>5. PICK R : R = {s \in S : h[s] = n}
    OBVIOUS
  <2>6. R = {row[i] : i \in D}
    <3>1. R = {s \in S : s.order = n}
      BY <1>3, <2>5
    <3>2. R = RowsOfOrder(os, n)
      BY <1>4, <3>1
    <3>3. R = {SaleRow(os[n], n, i) : i \in D}
      BY <2>1, <2>2, <3>2 DEF RowsOfOrder
    <3> QED
      BY <2>3, <3>3
  <2>7. \A i, j \in D : row[i] = row[j] => i = j
    <3>1. \A i \in D : row[i].line = i
      BY <2>3 DEF SaleRow
    <3> QED
      BY <3>1
  <2>8. \A i \in D : v[i] \in Int /\ f[row[i]] = v[i]
    <3>1. \A i \in D : f[row[i]] = v[i] /\ row[i] \in R
      BY <2>3, <2>4, <2>6
    <3>2. R \subseteq S
      BY <2>5
    <3> QED
      BY <1>5, <3>1, <3>2
  <2>9. SumFunctionOnSet(f, R) = SumFunctionOnSet(v, D)
    <3>1. Renamed(row, v, D, f, R)
      BY <2>2, <2>6, <2>7, <2>8, Zenon DEF Renamed
    <3> QED
      BY <3>1, SumRenamed
  <2>10. part[n] = SumFunctionOnSet(v, D)
    BY <1>2, <2>1, <2>2, <2>4 DEF LineParts
  <2> QED
    BY <2>5, <2>9, <2>10
<1>7. SumFunctionOnSet(part, K) = SumFunctionOnSet(f, S)
  <2>1. Classed(h, K, f, S, part)
    BY <1>4, <1>5, <1>6, Zenon DEF Classed
  <2> QED
    BY <2>1, SumClasses
<1> QED
  BY <1>1, <1>2, <1>7

\* The takings by method are the revenue: a bill is the sum of its lines.
LEMMA TakingsAre ==
  ASSUME NEW os \in Seq(OrderRows)
  PROVE  /\ SumFunction([m \in Methods |-> Takings(os, m)]) = Revenue(os)
         /\ \A m \in Methods : Took(os, m, Taken) = Takings(os, m)
<1>1. PICK S : S = Standing(os)
  OBVIOUS
<1>2. PICK f : f = [n \in S |-> os[n].total]
  OBVIOUS
<1>3. PICK h : h = [n \in S |-> os[n].method]
  OBVIOUS
<1>4. PICK part : part = [m \in Methods |-> Takings(os, m)]
  OBVIOUS
<1>5. IsFiniteSet(S) /\ S \subseteq DOMAIN os /\ \A n \in DOMAIN os : os[n] \in OrderRows
  BY <1>1, IndexSet, LineRowsAre DEF Standing, Numbers
<1>6. \A n \in S : h[n] \in Methods /\ f[n] \in Int
  BY <1>2, <1>3, <1>5 DEF OrderRows
<1>7. ASSUME NEW m \in Methods
      PROVE  part[m] = SumFunctionOnSet(f, {n \in S : h[n] = m})
  <2>1. PICK T : T = {n \in S : os[n].method = m}
    OBVIOUS
  <2>2. T = {n \in S : h[n] = m} /\ IsFiniteSet(T)
    <3>1. T = {n \in S : h[n] = m} /\ T \subseteq S
      BY <1>3, <2>1
    <3> QED
      BY <1>5, <3>1, FS_Subset
  <2>3. PICK g : g = [n \in T |-> os[n].total]
    OBVIOUS
  <2>4. \A n \in T : g[n] = f[n]
    BY <1>2, <2>1, <2>3
  <2>5. SumFunctionOnSet(g, T) = SumFunctionOnSet(f, T)
    BY <2>2, <2>4, SumSame
  <2>6. Takings(os, m) = SumFunction(g)
    BY <1>1, <2>1, <2>3, Zenon DEF Takings
  <2>7. SumFunction(g) = SumFunctionOnSet(g, T)
    BY <2>3 DEF SumFunction
  <2> QED
    BY <1>4, <2>2, <2>5, <2>6, <2>7
<1>8. IsFiniteSet(Methods)
  BY BoundsAssumption
<1>9. SumFunctionOnSet(part, Methods) = SumFunctionOnSet(f, S)
  <2>1. Classed(h, Methods, f, S, part)
    BY <1>5, <1>6, <1>7, <1>8, Zenon DEF Classed
  <2> QED
    BY <2>1, SumClasses
<1>10. SumFunction(part) = SumFunctionOnSet(part, Methods)
  BY <1>4 DEF SumFunction
<1>11. Revenue(os) = SumFunctionOnSet(f, S)
  <2>1. \A n \in S : os[n].total = Total(os[n].items)
    BY <1>5 DEF OrderRows
  <2>2. f = [n \in S |-> Total(os[n].items)]
    BY <1>2, <2>1
  <2>3. Revenue(os) = SumFunction(f)
    BY <1>1, <2>2, Zenon DEF Revenue
  <2> QED
    BY <1>2, <2>3 DEF SumFunction
<1>12. ASSUME NEW m \in Methods
       PROVE  Took(os, m, Taken) = Takings(os, m)
  <2>1. Taken \in SUBSET Settled
    BY DEF Taken, Settled
  <2>2. Took(os, m, Taken) = Due(os, m, Taken)
    BY <2>1, TillSum
  <2>3. {n \in Standing(os) : os[n].method = m}
          = {n \in DOMAIN os : os[n].status \in Taken /\ os[n].method = m}
    BY DEF Standing, Numbers
  <2> QED
    BY <2>2, <2>3, Zenon DEF Takings, Due
<1> QED
  BY <1>4, <1>9, <1>10, <1>11, <1>12

LEMMA RevenueIs ==
  ASSUME NEW os \in Seq(OrderRows)
  PROVE  Revenue(os) = SumFunction([s \in LineRows(os) |-> s.total])
<1>1. PICK f : f = [s \in LineRows(os) |-> s.total]
  OBVIOUS
<1>2. PICK part : part = [n \in Standing(os) |-> Total(os[n].items)]
  OBVIOUS
<1>3. /\ \A n \in Standing(os) : os[n].items \in Seq(Item)
      /\ \A s \in LineRows(os) : s.order \in Standing(os)
      /\ \A n \in Standing(os) : {s \in LineRows(os) : s.order = n} = RowsOfOrder(os, n)
  BY LineRowsAre
<1>4. ASSUME NEW n \in Standing(os), NEW i \in DOMAIN os[n].items
      PROVE  /\ SaleRow(os[n], n, i) \in LineRows(os)
             /\ f[SaleRow(os[n], n, i)] = lineTotal(os[n].items[i])
             /\ lineTotal(os[n].items[i]) \in Int
  <2>1. SaleRow(os[n], n, i) \in RowsOfOrder(os, n)
    BY DEF RowsOfOrder
  <2>2. SaleRow(os[n], n, i) \in LineRows(os)
    BY <1>3, <2>1
  <2>3. PICK items \in Seq(Item) : items = os[n].items
    BY <1>3
  <2>4. \A j \in DOMAIN items : lineTotal(items[j]) \in Nat
    BY TotalType
  <2>5. SaleRow(os[n], n, i).total = lineTotal(os[n].items[i])
    BY DEF SaleRow
  <2> QED
    BY <1>1, <2>2, <2>3, <2>4, <2>5
<1>5. ASSUME NEW s \in LineRows(os)
      PROVE  f[s] \in Int
  <2>1. s \in RowsOfOrder(os, s.order) /\ s.order \in Standing(os)
    BY <1>3
  <2>2. PICK n \in Standing(os) : s \in RowsOfOrder(os, n)
    BY <2>1
  <2>3. PICK i \in DOMAIN os[n].items : s = SaleRow(os[n], n, i)
    BY <2>2 DEF RowsOfOrder
  <2> QED
    BY <1>4, <2>3
<1>6. LineParts(os, f, part)
  <2>1. ASSUME NEW n \in Standing(os)
        PROVE  part[n] = SumFunctionOnSet([i \in DOMAIN os[n].items |-> f[SaleRow(os[n], n, i)]],
                                          DOMAIN os[n].items)
    <3>1. PICK v : v = [i \in DOMAIN os[n].items |-> lineTotal(os[n].items[i])]
      OBVIOUS
    <3>2. v = [i \in DOMAIN os[n].items |-> f[SaleRow(os[n], n, i)]]
      BY <1>4, <3>1
    <3>3. part[n] = SumFunction(v)
      BY <1>2, <3>1 DEF Total
    <3>4. SumFunction(v) = SumFunctionOnSet(v, DOMAIN os[n].items)
      BY <3>1 DEF SumFunction
    <3> QED
      BY <3>2, <3>3, <3>4
  <2> QED
    BY <2>1, Zenon DEF LineParts
<1>7. SumFunctionOnSet(part, Standing(os)) = SumFunctionOnSet(f, LineRows(os))
  BY <1>5, <1>6, LinesSum
<1>8. SumFunction(f) = SumFunctionOnSet(f, LineRows(os))
  BY <1>1 DEF SumFunction
<1>9. Revenue(os) = SumFunctionOnSet(part, Standing(os))
  BY <1>2 DEF Revenue, SumFunction
<1> QED
  BY <1>1, <1>7, <1>8, <1>9

\* A line of the report carries the units of the bill's line.
LEMMA LineUnits ==
  ASSUME NEW os \in Seq(OrderRows)
  PROVE  /\ \A n \in Standing(os) : \A i \in DOMAIN os[n].items :
              /\ SaleRow(os[n], n, i) \in LineRows(os)
              /\ SaleRow(os[n], n, i).qty = os[n].items[i].qty
              /\ SaleRow(os[n], n, i).product = os[n].items[i].product
         /\ \A s \in LineRows(os) : s.qty \in Nat
<1>1. /\ \A n \in Standing(os) : os[n].items \in Seq(Item)
      /\ \A s \in LineRows(os) : s.order \in Standing(os)
      /\ \A n \in Standing(os) : {s \in LineRows(os) : s.order = n} = RowsOfOrder(os, n)
  BY LineRowsAre
<1>2. ASSUME NEW n \in Standing(os), NEW i \in DOMAIN os[n].items
      PROVE  /\ SaleRow(os[n], n, i) \in LineRows(os)
             /\ SaleRow(os[n], n, i).qty = os[n].items[i].qty
             /\ SaleRow(os[n], n, i).product = os[n].items[i].product
             /\ os[n].items[i].qty \in Nat
  <2>1. SaleRow(os[n], n, i) \in RowsOfOrder(os, n)
    BY DEF RowsOfOrder
  <2>2. SaleRow(os[n], n, i) \in LineRows(os)
    BY <1>1, <2>1
  <2>3. PICK items \in Seq(Item) : items = os[n].items
    BY <1>1
  <2>4. \A j \in DOMAIN items : items[j].qty \in Nat
    BY TotalType
  <2>5. SaleRow(os[n], n, i).qty = os[n].items[i].qty
        /\ SaleRow(os[n], n, i).product = os[n].items[i].product
    BY DEF SaleRow
  <2> QED
    BY <2>2, <2>3, <2>4, <2>5
<1>3. ASSUME NEW s \in LineRows(os)
      PROVE  s.qty \in Nat
  <2>1. s \in RowsOfOrder(os, s.order) /\ s.order \in Standing(os)
    BY <1>1
  <2>2. PICK n \in Standing(os) : s \in RowsOfOrder(os, n)
    BY <2>1
  <2>3. PICK i \in DOMAIN os[n].items : s = SaleRow(os[n], n, i)
    BY <2>2 DEF RowsOfOrder
  <2> QED
    BY <1>2, <2>3
<1> QED
  BY <1>2, <1>3

LEMMA UnitsIs ==
  ASSUME NEW os \in Seq(OrderRows)
  PROVE  Units(os) = SumFunction([s \in LineRows(os) |-> s.qty])
<1>1. PICK f : f = [s \in LineRows(os) |-> s.qty]
  OBVIOUS
<1>2. PICK part : part = [n \in Standing(os) |-> UnitsIn(os[n].items)]
  OBVIOUS
<1>3. \A s \in LineRows(os) : f[s] \in Int
  BY <1>1, LineUnits
<1>4. ASSUME NEW n \in Standing(os)
      PROVE  part[n] = SumFunctionOnSet([i \in DOMAIN os[n].items |-> f[SaleRow(os[n], n, i)]],
                                        DOMAIN os[n].items)
  <2>1. PICK v : v = [i \in DOMAIN os[n].items |-> os[n].items[i].qty]
    OBVIOUS
  <2>2. \A i \in DOMAIN os[n].items : f[SaleRow(os[n], n, i)] = os[n].items[i].qty
    BY <1>1, LineUnits
  <2>3. v = [i \in DOMAIN os[n].items |-> f[SaleRow(os[n], n, i)]]
    BY <2>1, <2>2
  <2>4. part[n] = SumFunction(v)
    BY <1>2, <2>1 DEF UnitsIn
  <2>5. SumFunction(v) = SumFunctionOnSet(v, DOMAIN os[n].items)
    BY <2>1 DEF SumFunction
  <2> QED
    BY <2>3, <2>4, <2>5
<1>5. LineParts(os, f, part)
  BY <1>4, Zenon DEF LineParts
<1>6. SumFunctionOnSet(part, Standing(os)) = SumFunctionOnSet(f, LineRows(os))
  BY <1>3, <1>5, LinesSum
<1>7. SumFunction(f) = SumFunctionOnSet(f, LineRows(os))
  BY <1>1 DEF SumFunction
<1>8. Units(os) = SumFunctionOnSet(part, Standing(os))
  BY <1>2 DEF Units, SumFunction
<1> QED
  BY <1>1, <1>6, <1>7, <1>8

LEMMA UnitsSoldIs ==
  ASSUME NEW os \in Seq(OrderRows), NEW p
  PROVE  UnitsSold(os, p) = SumFunction([s \in {s \in LineRows(os) : s.product = p} |-> s.qty])
<1>1. PICK f : f = [s \in LineRows(os) |-> IF s.product = p THEN s.qty ELSE 0]
  OBVIOUS
<1>2. PICK part : part = [n \in Standing(os) |-> Qty(os[n].items, p)]
  OBVIOUS
<1>3. PICK S : S = LineRows(os)
  OBVIOUS
<1>4. PICK T : T = {s \in S : s.product = p}
  OBVIOUS
<1>5. PICK g : g = [s \in T |-> s.qty]
  OBVIOUS
<1>6. \A s \in S : s.qty \in Nat
  BY <1>3, LineUnits
<1>7. \A s \in LineRows(os) : f[s] \in Int
  BY <1>1, <1>3, <1>6
<1>8. ASSUME NEW n \in Standing(os)
      PROVE  part[n] = SumFunctionOnSet([i \in DOMAIN os[n].items |-> f[SaleRow(os[n], n, i)]],
                                        DOMAIN os[n].items)
  <2>1. PICK v : v = [i \in DOMAIN os[n].items |-> IF os[n].items[i].product = p
                                                     THEN os[n].items[i].qty ELSE 0]
    OBVIOUS
  <2>2. \A i \in DOMAIN os[n].items :
          f[SaleRow(os[n], n, i)]
            = IF os[n].items[i].product = p THEN os[n].items[i].qty ELSE 0
    BY <1>1, LineUnits
  <2>3. v = [i \in DOMAIN os[n].items |-> f[SaleRow(os[n], n, i)]]
    BY <2>1, <2>2
  <2>4. part[n] = SumFunction(v)
    BY <1>2, <2>1 DEF Qty
  <2>5. SumFunction(v) = SumFunctionOnSet(v, DOMAIN os[n].items)
    BY <2>1 DEF SumFunction
  <2> QED
    BY <2>3, <2>4, <2>5
<1>9. LineParts(os, f, part)
  BY <1>8, Zenon DEF LineParts
<1>10. SumFunctionOnSet(part, Standing(os)) = SumFunctionOnSet(f, S)
  BY <1>3, <1>7, <1>9, LinesSum
<1>11. SumFunctionOnSet(f, S) = SumFunctionOnSet(g, T)
  <2>1. IsFiniteSet(S) /\ T \subseteq S
    BY <1>3, <1>4, LineRowsAre
  <2>2. \A s \in T : g[s] \in Int /\ f[s] = g[s]
    BY <1>1, <1>3, <1>4, <1>5, <1>6
  <2>3. \A s \in S \ T : f[s] = 0
    BY <1>1, <1>3, <1>4
  <2>4. Supports(g, T, f, S)
    BY <2>1, <2>2, <2>3 DEF Supports
  <2> QED
    BY <2>4, SumSupported
<1>12. SumFunction(g) = SumFunctionOnSet(g, T)
  BY <1>5 DEF SumFunction
<1>13. UnitsSold(os, p) = SumFunctionOnSet(part, Standing(os))
  BY <1>2 DEF UnitsSold, SumFunction
<1> QED
  BY <1>3, <1>4, <1>5, <1>10, <1>11, <1>12, <1>13

\* The dashboard, the sales report and the till report tell one story, and
\* the drawer holds the money it tells of.
THEOREM BooksAgreeAlways ==
  Spec => []BooksAgree
<1>1. ASSUME NightInv
      PROVE  BooksAgree
  <2>1. orders \in Seq(OrderRows) /\ refunds \in Seq(RefundRows) /\ DrawerIs
    BY <1>1 DEF NightInv, RowsTyped
  <2>2. PICK m : m = metrics(orders, products, Methods)
    OBVIOUS
  <2>3. /\ m.revenueCents = Revenue(orders) /\ m.unitsSold = Units(orders)
        /\ m.takings = [meth \in Methods |-> Takings(orders, meth)]
        /\ m.products = [p \in {p \in DOMAIN products : ~products[p].archived} |->
                           UnitsSold(orders, p)]
    <3>1. MetricsOf(m, orders, products, Methods)
      BY <2>2, MetricsAre
    <3> QED
      BY <3>1, Zenon DEF MetricsOf
  <2>4. ASSUME NEW meth \in Methods
        PROVE  /\ Took(orders, meth, Settled)
                    - SumFunction([r \in {r \in refundRows(orders, refunds) :
                                            orders[r.order].method = meth} |-> r.amount])
                    = drawer[meth]
               /\ Took(orders, meth, Taken) = m.takings[meth]
    <3>1. Took(orders, meth, Settled) = PaidIn(orders, meth)
      <4>1. Settled \in SUBSET Settled
        OBVIOUS
      <4>2. Took(orders, meth, Settled) = Due(orders, meth, Settled)
        BY <2>1, <4>1, TillSum
      <4>3. PaidIn(orders, meth) = Due(orders, meth, Settled)
        BY <2>1, PaidOver
      <4> QED
        BY <4>2, <4>3
    <3>2. SumFunction([r \in {r \in refundRows(orders, refunds) :
                                orders[r.order].method = meth} |-> r.amount])
            = GivenBack(orders, refunds, meth)
      <4>1. PICK rows : rows = {r \in refundRows(orders, refunds) :
                                  orders[r.order].method = meth}
        OBVIOUS
      <4>2. SumFunction([r \in rows |-> r.amount]) = GivenBack(orders, refunds, meth)
        BY <2>1, <4>1, RefundSum
      <4> QED
        BY <4>1, <4>2
    <3>3. drawer[meth] = PaidIn(orders, meth) - GivenBack(orders, refunds, meth)
      BY <2>1 DEF DrawerIs
    <3>4. Took(orders, meth, Taken) = Takings(orders, meth)
      BY <2>1, TakingsAre
    <3> QED
      BY <2>3, <3>1, <3>2, <3>3, <3>4
  <2>5. SumFunction(m.takings) = m.revenueCents
    <3>1. SumFunction([meth \in Methods |-> Takings(orders, meth)]) = Revenue(orders)
      BY <2>1, TakingsAre
    <3> QED
      BY <2>3, <3>1, Zenon
  <2>6. m.revenueCents = SumFunction([s \in LineRows(orders) |-> s.total])
    BY <2>1, <2>3, RevenueIs
  <2>7. m.unitsSold = SumFunction([s \in LineRows(orders) |-> s.qty])
    BY <2>1, <2>3, UnitsIs
  <2>8. ASSUME NEW p \in OnSale
        PROVE  m.products[p] = SumFunction([s \in {s \in LineRows(orders) : s.product = p} |->
                                              s.qty])
    <3>1. m.products[p] = UnitsSold(orders, p)
      BY <2>3 DEF OnSale
    <3>2. UnitsSold(orders, p)
            = SumFunction([s \in {s \in LineRows(orders) : s.product = p} |-> s.qty])
      BY <2>1, UnitsSoldIs
    <3> QED
      BY <3>1, <3>2
  <2> QED
    BY <2>2, <2>4, <2>5, <2>6, <2>7, <2>8, Zenon DEF BooksAgree, Took, LineRows
<1> QED
  BY <1>1, NightInvariant, PTL

-----------------------------------------------------------------------------
(* The ranking.  The units of a longer list of orders begin with those of   *)
(* a shorter one, and a score reads only the first of them.                *)

\* A sequence is what it has before n and what it has from n on.
SplitAt(s, n, T, first, last) ==
  /\ first \in Seq(T) /\ last \in Seq(T) /\ s = first \o last
  /\ DOMAIN first = 1 .. n - 1 /\ Len(first) = n - 1
  /\ \A k \in 1 .. n - 1 : first[k] = s[k]

LEMMA SeqSplit ==
  ASSUME NEW T, NEW s \in Seq(T), NEW n \in DOMAIN s
  PROVE  SplitAt(s, n, T, SubSeq(s, 1, n - 1), SubSeq(s, n, Len(s)))
<1>1. PICK len \in Nat : len = Len(s) /\ DOMAIN s = 1 .. len /\ \A k \in 1 .. len : s[k] \in T
  BY IndexSet
<1>2. n \in 1 .. len /\ n \in Int /\ len \in Int /\ n - 1 \in Int /\ 1 \in Int
  BY <1>1
<1>3. (\A i \in 1 .. n - 1 : s[i] \in T) /\ \A i \in n .. len : s[i] \in T
  BY <1>1, <1>2
<1>4. PICK first : first = SubSeq(s, 1, n - 1)
  OBVIOUS
<1>5. PICK last : last = SubSeq(s, n, len)
  OBVIOUS
<1>6. /\ first \in Seq(T) /\ Len(first) = n - 1
      /\ \A i \in 1 .. n - 1 : first[i] = s[i]
  <2>1. /\ first \in Seq(T)
        /\ Len(first) = IF 1 <= n - 1 THEN (n - 1) - 1 + 1 ELSE 0
        /\ \A i \in 1 .. (n - 1) - 1 + 1 : first[i] = s[1 + i - 1]
    BY <1>2, <1>3, <1>4, SubSeqProperties
  <2> QED
    BY <1>2, <2>1
<1>7. /\ last \in Seq(T) /\ Len(last) = len - n + 1
      /\ \A i \in 1 .. len - n + 1 : last[i] = s[n + i - 1]
  <2>1. /\ last \in Seq(T)
        /\ Len(last) = IF n <= len THEN len - n + 1 ELSE 0
        /\ \A i \in 1 .. len - n + 1 : last[i] = s[n + i - 1]
    BY <1>2, <1>3, <1>5, SubSeqProperties
  <2> QED
    BY <1>2, <2>1
<1>8. PICK joined : joined = first \o last
  OBVIOUS
<1>9. /\ joined \in Seq(T) /\ Len(joined) = len
      /\ \A i \in 1 .. len : joined[i] = IF i <= n - 1 THEN first[i] ELSE last[i - (n - 1)]
  <2>1. /\ joined \in Seq(T) /\ Len(joined) = Len(first) + Len(last)
        /\ \A i \in 1 .. Len(first) + Len(last) :
             joined[i] = IF i <= Len(first) THEN first[i] ELSE last[i - Len(first)]
    BY <1>6, <1>7, <1>8, ConcatProperties
  <2>2. Len(first) + Len(last) = len
    BY <1>2, <1>6, <1>7
  <2> QED
    BY <1>6, <2>1, <2>2
<1>10. \A i \in 1 .. len : joined[i] = s[i]
  <2> TAKE i \in 1 .. len
  <2>1. CASE i <= n - 1
    <3>1. i \in 1 .. n - 1
      BY <1>2, <2>1
    <3>2. first[i] = s[i]
      BY <1>6, <3>1
    <3> QED
      BY <1>9, <2>1, <3>2
  <2>2. CASE ~(i <= n - 1)
    <3>1. i - (n - 1) \in 1 .. len - n + 1 /\ n + (i - (n - 1)) - 1 = i
      BY <1>2, <2>2
    <3>2. last[i - (n - 1)] = s[n + (i - (n - 1)) - 1]
      BY <1>7, <3>1
    <3> QED
      BY <1>9, <2>2, <3>1, <3>2
  <2> QED
    BY <2>1, <2>2
<1>11. s = joined
  BY <1>1, <1>9, <1>10, SeqEqual
<1>12. DOMAIN first = 1 .. n - 1
  BY <1>6, LenProperties
<1>13. SplitAt(s, n, T, first, last)
  BY <1>6, <1>7, <1>8, <1>11, <1>12, Zenon DEF SplitAt
<1> QED
  BY <1>1, <1>4, <1>5, <1>13

LEMMA OneMore ==
  ASSUME NEW T, NEW v \in Seq(T), NEW u \in Seq(T), NEW x \in T
  PROVE  (v \o u) \o <<x>> = v \o (u \o <<x>>) /\ u \o <<x>> \in Seq(T)
<1>1. PICK one : one = <<x>>
  OBVIOUS
<1>2. one \in Seq(T)
  BY <1>1
<1>3. (v \o u) \o one = v \o (u \o one)
  BY <1>2, ConcatAssociative
<1>4. u \o one \in Seq(T)
  BY <1>2, ConcatProperties
<1> QED
  BY <1>1, <1>3, <1>4

LEMMA FlattenStarts ==
  ASSUME NEW S, NEW v \in Seq(Seq(S)), NEW w \in Seq(Seq(S))
  PROVE  \E rest \in Seq(S) : FlattenSeq(v \o w) = FlattenSeq(v) \o rest
<1>1. PICK T : T = Seq(S)
  OBVIOUS
<1> DEFINE F == {u \in Seq(T) : \E rest \in T : FlattenSeq(v \o u) = FlattenSeq(v) \o rest}
<1>2. FlattenSeq(v) \in T
  BY <1>1, FlattenType
<1>3. <<>> \in F
  <2>1. v \o <<>> = v /\ FlattenSeq(v) \o <<>> = FlattenSeq(v) /\ <<>> \in T /\ <<>> \in Seq(T)
    BY <1>1, <1>2
  <2> QED
    BY <2>1
<1>4. ASSUME NEW u \in F, NEW x \in T
      PROVE  u \o <<x>> \in F
  <2>1. PICK rest \in T : FlattenSeq(v \o u) = FlattenSeq(v) \o rest
    OBVIOUS
  <2>2. u \in Seq(T) /\ v \in Seq(T)
    BY <1>1
  <2>3. PICK vu \in Seq(T) : vu = v \o u
    BY <2>2, ConcatProperties
  <2>4. v \o (u \o <<x>>) = vu \o <<x>> /\ u \o <<x>> \in Seq(T)
    <3>1. (v \o u) \o <<x>> = v \o (u \o <<x>>) /\ u \o <<x>> \in Seq(T)
      BY <2>2, OneMore
    <3> QED
      BY <2>3, <3>1
  <2>5. FlattenSeq(vu \o <<x>>) = FlattenSeq(vu) \o x
    BY <1>1, FlattenAppend
  <2>6. (FlattenSeq(v) \o rest) \o x = FlattenSeq(v) \o (rest \o x) /\ rest \o x \in T
    BY <1>1, <1>2
  <2> QED
    BY <2>1, <2>3, <2>4, <2>5, <2>6
<1>5. F \in SUBSET Seq(T)
  OBVIOUS
<1>6. Seq(T) = F
  <2> HIDE DEF F
  <2> QED
    BY <1>3, <1>4, <1>5, SeqInduction
<1> QED
  BY <1>1, <1>6

Unit == [paid : Nat, base : Nat \ {0}]
UnitLists(os, who) ==
  [n \in DOMAIN os |-> IF os[n].who = who /\ os[n].status \in Counted
                         THEN expandUnits(os[n].items) ELSE <<>>]

LEMMA ExpandType ==
  ASSUME NEW items \in Seq(Item)
  PROVE  expandUnits(items) \in Seq(Unit)
<1>1. PICK T : T = Seq(Unit)
  OBVIOUS
<1>2. Len(items) \in Nat /\ DOMAIN items = 1 .. Len(items)
      /\ \A i \in DOMAIN items : items[i] \in Item
  BY IndexSet
<1>3. PICK lists : lists = [i \in DOMAIN items |->
                              [n \in 1 .. items[i].qty |->
                                 [paid |-> items[i].paid, base |-> items[i].base]]]
  OBVIOUS
<1>4. ASSUME NEW i \in DOMAIN items
      PROVE  lists[i] \in T
  <2>1. PICK q \in Nat, a \in Nat, b \in Nat \ {0} :
          q = items[i].qty /\ a = items[i].paid /\ b = items[i].base
    BY <1>2 DEF Item
  <2>2. PICK u \in Unit : u = [paid |-> a, base |-> b]
    BY DEF Unit
  <2>3. lists[i] = [n \in 1 .. q |-> u]
    BY <1>3, <2>1, <2>2
  <2>4. [n \in 1 .. q |-> u] \in Seq(Unit)
    OBVIOUS
  <2> QED
    BY <1>1, <2>3, <2>4
<1>5. lists \in Seq(T)
  <2>1. lists = [i \in 1 .. Len(items) |-> lists[i]]
    BY <1>2, <1>3
  <2> QED
    BY <1>2, <1>4, <2>1
<1>6. FlattenSeq(lists) \in Seq(Unit)
  BY <1>1, <1>5, FlattenType
<1> QED
  BY <1>3, <1>6, Zenon DEF expandUnits

LEMMA UnitListsType ==
  ASSUME NEW os \in Seq(OrderRows), NEW who
  PROVE  /\ UnitLists(os, who) \in Seq(Seq(Unit)) /\ Len(UnitLists(os, who)) = Len(os)
         /\ DOMAIN UnitLists(os, who) = DOMAIN os
         /\ UnitsOf(os, who) = FlattenSeq(UnitLists(os, who))
<1>1. Len(os) \in Nat /\ DOMAIN os = 1 .. Len(os) /\ \A n \in DOMAIN os : os[n] \in OrderRows
  BY IndexSet
<1>2. PICK T : T = Seq(Unit) /\ <<>> \in T
  BY EmptySeq
<1>3. PICK lists : lists = UnitLists(os, who)
  OBVIOUS
<1>4. ASSUME NEW n \in DOMAIN os
      PROVE  lists[n] \in T
  <2>1. PICK items \in Seq(Item) : items = os[n].items
    BY <1>1 DEF OrderRows
  <2>2. expandUnits(items) \in T
    BY <1>2, ExpandType
  <2> QED
    BY <1>2, <1>3, <2>1, <2>2 DEF UnitLists
<1>5. lists = [n \in 1 .. Len(os) |-> lists[n]]
  BY <1>1, <1>3 DEF UnitLists
<1>6. lists \in Seq(T) /\ Len(lists) = Len(os) /\ DOMAIN lists = DOMAIN os
  BY <1>1, <1>4, <1>5
<1>7. UnitsOf(os, who) = FlattenSeq(lists)
  BY <1>3, Zenon DEF UnitsOf, UnitLists
<1> QED
  BY <1>2, <1>3, <1>6, <1>7

\* What was counted before order n is where the units begin.
LEMMA UnitsStart ==
  ASSUME NEW os \in Seq(OrderRows), NEW n \in DOMAIN os, NEW who
  PROVE  /\ SubSeq(os, 1, n - 1) \in Seq(OrderRows)
         /\ UnitsOf(SubSeq(os, 1, n - 1), who) \in Seq(Unit)
         /\ \E rest \in Seq(Unit) :
              UnitsOf(os, who) = UnitsOf(SubSeq(os, 1, n - 1), who) \o rest
<1>1. PICK T, len : T = Seq(Unit) /\ len = Len(os)
  OBVIOUS
<1>2. PICK early : early = SubSeq(os, 1, n - 1)
  OBVIOUS
<1>3. /\ early \in Seq(OrderRows) /\ DOMAIN early = 1 .. n - 1
      /\ \A k \in 1 .. n - 1 : early[k] = os[k]
  <2>1. SplitAt(os, n, OrderRows, early, SubSeq(os, n, Len(os)))
    BY <1>2, SeqSplit
  <2> QED
    BY <2>1, Zenon DEF SplitAt
<1>4. PICK all \in Seq(T) : /\ all = UnitLists(os, who) /\ DOMAIN all = DOMAIN os
                            /\ UnitsOf(os, who) = FlattenSeq(all)
  BY <1>1, UnitListsType
<1>5. PICK first \in Seq(T) : /\ first = UnitLists(early, who) /\ DOMAIN first = DOMAIN early
                              /\ UnitsOf(early, who) = FlattenSeq(first)
  BY <1>1, <1>3, UnitListsType
<1>6. PICK start, last : /\ start = SubSeq(all, 1, n - 1)
                         /\ last = SubSeq(all, n, Len(all))
  OBVIOUS
<1>7. SplitAt(all, n, T, start, last)
  BY <1>4, <1>6, SeqSplit
<1>8. /\ start \in Seq(T) /\ last \in Seq(T) /\ all = start \o last
      /\ DOMAIN start = 1 .. n - 1 /\ Len(start) = n - 1
      /\ \A k \in 1 .. n - 1 : start[k] = all[k]
  BY <1>7, Zenon DEF SplitAt
<1>9. first = start
  <2>1. \A k \in 1 .. n - 1 : k \in DOMAIN os
    <3>1. n \in 1 .. Len(os) /\ Len(os) \in Nat /\ DOMAIN os = 1 .. Len(os)
      BY IndexSet
    <3> QED
      BY <3>1
  <2>2. \A k \in 1 .. n - 1 : first[k] = start[k]
    BY <1>3, <1>4, <1>5, <1>8, <2>1 DEF UnitLists
  <2>3. DOMAIN first = 1 .. n - 1
    BY <1>3, <1>5
  <2>4. Len(first) = Len(start) /\ Len(first) \in Nat
    <3>1. Len(first) \in Nat /\ DOMAIN first = 1 .. Len(first)
      BY LenProperties
    <3>2. Len(start) \in Nat /\ DOMAIN start = 1 .. Len(start)
      BY <1>8, LenProperties
    <3> QED
      BY <1>8, <2>3, <3>1, <3>2
  <2>5. \A k \in 1 .. Len(first) : first[k] = start[k]
    BY <1>8, <2>2, <2>4
  <2> QED
    BY <1>8, <2>4, <2>5, SeqEqual
<1>10. PICK rest \in T : FlattenSeq(first \o last) = FlattenSeq(first) \o rest
  BY <1>1, <1>8, FlattenStarts
<1>11. FlattenSeq(first) \in Seq(Unit)
  BY <1>1, FlattenType
<1> QED
  BY <1>1, <1>2, <1>3, <1>4, <1>5, <1>8, <1>9, <1>10, <1>11

\* A ranking is a function of the scores.
ViewOf(score, people, me) ==
  LET ranked == rankEntries({[who |-> w, points |-> score[w].points, team |-> people[w].team] :
                             w \in {v \in DOMAIN people : people[v].optIn /\ score[v].ranked}})
      mine == {e \in ranked : e.who = me}
  IN  [entries |-> {e \in ranked :
                     Cardinality({f \in ranked : before(people, f, e)}) < TopSize},
       me |-> [points |-> score[me].points, optedIn |-> people[me].optIn,
               position |-> IF mine = {} THEN 0 ELSE (CHOOSE e \in mine : TRUE).position],
       teams |-> rankTeams(ranked)]

Scores(os, people) == [w \in DOMAIN people |-> scoreParticipant(UnitsOf(os, w))]

LEMMA ViewReads ==
  ASSUME NEW os, NEW people, NEW me
  PROVE  view(os, people, me) = ViewOf(Scores(os, people), people, me)
BY Zenon DEF view, ViewOf, Scores

\* Two lists of units with MaxScored in common at their beginning score alike.
LEMMA SameScore ==
  ASSUME NEW start \in Seq(Unit), Len(start) >= MaxScored,
         NEW a \in Seq(Unit), NEW b \in Seq(Unit)
  PROVE  scoreParticipant(start \o a) = scoreParticipant(start \o b)
<1>1. PICK x, y : x = start \o a /\ y = start \o b
  OBVIOUS
<1>2. PICK n \in Nat : n = MaxScored
  BY ScoredAssumption
<1>3. PICK l \in Nat : l = Len(start) /\ n <= l
  BY <1>2, LenProperties
<1>4. /\ Len(x) \in Nat /\ Len(y) \in Nat /\ n <= Len(x) /\ n <= Len(y)
      /\ \A i \in 1 .. n : x[i] = y[i]
  <2>1. Len(a) \in Nat /\ Len(b) \in Nat
    BY LenProperties
  <2>2. /\ Len(x) = l + Len(a)
        /\ \A i \in 1 .. l + Len(a) : x[i] = IF i <= l THEN start[i] ELSE a[i - l]
    BY <1>1, <1>3, ConcatProperties
  <2>3. /\ Len(y) = l + Len(b)
        /\ \A i \in 1 .. l + Len(b) : y[i] = IF i <= l THEN start[i] ELSE b[i - l]
    BY <1>1, <1>3, ConcatProperties
  <2>4. \A i \in 1 .. n : i <= l /\ i \in 1 .. l + Len(a) /\ i \in 1 .. l + Len(b)
    BY <1>3, <2>1
  <2>5. \A i \in 1 .. n : x[i] = start[i] /\ y[i] = start[i]
    BY <2>2, <2>3, <2>4
  <2> QED
    BY <1>3, <2>1, <2>2, <2>3, <2>5
<1>5. Min({n, Len(x)}) = n /\ Min({n, Len(y)}) = n
  <2>1. PICK c \in Nat, d \in Nat : c = Len(x) /\ d = Len(y) /\ n <= c /\ n <= d
    BY <1>4
  <2>2. Min({n, c}) = (IF n <= c THEN n ELSE c) /\ Min({n, d}) = (IF n <= d THEN n ELSE d)
    BY MinOfTwo
  <2> QED
    BY <2>1, <2>2
<1>6. [i \in 1 .. n |-> unitSaving(x[i])] = [i \in 1 .. n |-> unitSaving(y[i])]
  BY <1>4
<1>7. scoreParticipant(x) = scoreParticipant(y)
  BY <1>2, <1>5, <1>6, Zenon DEF scoreParticipant
<1> QED
  BY <1>1, <1>7

\* Only the status of order n changes: the units of the others are the same,
\* and those of its buyer begin alike.
LEMMA ChangedUnits ==
  ASSUME NEW os \in Seq(OrderRows), NEW n \in DOMAIN os, NEW to, NEW next,
         Changed(os, n, to, next), NEW who
  PROVE  /\ os[n].who # who => UnitsOf(next, who) = UnitsOf(os, who)
         /\ UnitsOf(SubSeq(next, 1, n - 1), who) = UnitsOf(SubSeq(os, 1, n - 1), who)
<1>1. /\ next \in Seq(OrderRows) /\ DOMAIN next = DOMAIN os
      /\ \A i \in DOMAIN os \ {n} : next[i] = os[i]
      /\ next[n].who = os[n].who
  BY DEF Changed
<1>2. ASSUME os[n].who # who
      PROVE  UnitsOf(next, who) = UnitsOf(os, who)
  <2>1. \A i \in DOMAIN os :
          (IF next[i].who = who /\ next[i].status \in Counted THEN expandUnits(next[i].items)
           ELSE <<>>)
          = (IF os[i].who = who /\ os[i].status \in Counted THEN expandUnits(os[i].items)
             ELSE <<>>)
    BY <1>1, <1>2
  <2>2. UnitLists(next, who) = UnitLists(os, who)
    BY <1>1, <2>1 DEF UnitLists
  <2>3. UnitsOf(next, who) = FlattenSeq(UnitLists(next, who))
        /\ UnitsOf(os, who) = FlattenSeq(UnitLists(os, who))
    BY <1>1, UnitListsType
  <2> QED
    BY <2>2, <2>3
<1>3. SubSeq(next, 1, n - 1) = SubSeq(os, 1, n - 1)
  <2>1. PICK a, b : a = SubSeq(next, 1, n - 1) /\ b = SubSeq(os, 1, n - 1)
    OBVIOUS
  <2>2. SplitAt(os, n, OrderRows, b, SubSeq(os, n, Len(os)))
    BY <2>1, SeqSplit
  <2>3. SplitAt(next, n, OrderRows, a, SubSeq(next, n, Len(next)))
    BY <1>1, <2>1, SeqSplit
  <2>4. /\ a \in Seq(OrderRows) /\ Len(a) = n - 1 /\ \A k \in 1 .. n - 1 : a[k] = next[k]
        /\ b \in Seq(OrderRows) /\ Len(b) = n - 1 /\ \A k \in 1 .. n - 1 : b[k] = os[k]
    BY <2>2, <2>3, Zenon DEF SplitAt
  <2>5. \A k \in 1 .. n - 1 : k \in DOMAIN os \ {n}
    <3>1. n \in 1 .. Len(os) /\ Len(os) \in Nat /\ DOMAIN os = 1 .. Len(os)
      BY IndexSet
    <3> QED
      BY <3>1
  <2>6. \A k \in 1 .. Len(a) : a[k] = b[k]
    BY <1>1, <2>4, <2>5
  <2>7. a = b
    BY <2>4, <2>6, SeqEqual
  <2> QED
    BY <2>1, <2>7
<1> QED
  BY <1>2, <1>3

\* The one kind of step that changes an order while the bar is open.
LEMMA OrderMoves ==
  ASSUME NightInv, [Next]_vars, ~quiet', NEW n \in DOMAIN orders, orders'[n] # orders[n]
  PROVE  \E to \in Statuses : orders' = [orders EXCEPT ![n].status = to]
<1>1. orders \in Seq(OrderRows)
  BY DEF NightInv, RowsTyped
<1>2. {"PAID", "EXPIRED", "REDEEMED", "REFUNDED"} \subseteq Statuses
  BY DEF Statuses, Settled, Counted
<1>3. ASSUME NEW k \in DOMAIN orders, NEW to \in Statuses, orders' = [orders EXCEPT ![k].status = to]
      PROVE  k = n
  BY <1>1, <1>3, IndexSet
<1>4. orders' # orders
  OBVIOUS
<1>5. CASE \E k \in DOMAIN orders : Pay(k) \/ OrderExpires(k) \/ HandOver(k)
  <2>1. PICK k \in DOMAIN orders, to \in Statuses : orders' = [orders EXCEPT ![k].status = to]
    BY <1>2, <1>5 DEF Pay, OrderExpires, HandOver, SetStatus
  <2> QED
    BY <1>3, <2>1
<1>6. CASE \E q \in DOMAIN quotes, m \in Methods, extra \in Extra : PlaceOrder(q, m, extra)
  <2>1. PICK o : orders' = Append(orders, o)
    BY <1>6 DEF PlaceOrder
  <2>2. n \in 1 .. Len(orders) /\ Len(orders) \in Nat
    BY <1>1, IndexSet
  <2>3. Append(orders, o)[n] = orders[n]
    BY <1>1, <2>2
  <2> QED
    BY <2>1, <2>3
<1>7. CASE \E k \in DOMAIN orders : Refund(k, 10, FALSE) \/ Refund(k, orders[k].total, TRUE)
  <2>1. PICK k \in DOMAIN orders : Refund(k, 10, FALSE) \/ Refund(k, orders[k].total, TRUE)
    BY <1>7
  <2>2. orders' = [orders EXCEPT ![k].status = "REFUNDED"]
    BY <2>1 DEF Refund, SetStatus
  <2> QED
    BY <1>2, <1>3, <2>2
<1>8. CASE \/ \E who \in DOMAIN People, basket \in Baskets : Quote(who, basket)
           \/ \E q \in DOMAIN quotes : QuoteExpires(q)
           \/ Tick \/ LastRound \/ UNCHANGED vars \/ \E file \in Uploads : Import(file)
           \/ \E p \in DOMAIN products :
                \/ Archive(p) \/ Pin(p, products[p].max)
                \/ \E range \in Ranges : updateProduct(p, range)
  <2>1. orders' = orders \/ quiet'
    BY <1>8 DEF Quote, QuoteExpires, Tick, Import, LastRound, vars, Archive, Pin, updateProduct
  <2> QED
    BY <1>4, <2>1
<1> QED
  BY <1>5, <1>6, <1>7, <1>8, Zenon DEF Next

\* Once a buyer's first MaxScored units are settled in older orders, nothing
\* that becomes of order n moves the ranking anybody sees.
THEOREM ScoreSettlesAlways ==
  Spec => ScoreSettles
<1>1. ASSUME NightInv, [Next]_vars, NEW n \in DOMAIN orders, ~quiet', orders'[n] # orders[n],
             Len(UnitsOf(SubSeq(orders, 1, n - 1), orders[n].who)) >= MaxScored
      PROVE  \A me \in DOMAIN People : view(orders', People, me) = view(orders, People, me)
  <2>1. orders \in Seq(OrderRows)
    BY <1>1 DEF NightInv, RowsTyped
  <2>2. PICK to \in Statuses : orders' = [orders EXCEPT ![n].status = to]
    BY <1>1, OrderMoves
  <2>3. PICK next : next = orders'
    OBVIOUS
  <2>4. Changed(orders, n, to, next)
    BY <2>1, <2>2, <2>3, SetIs DEF Set
  <2>5. next \in Seq(OrderRows) /\ n \in DOMAIN next
    BY <2>4 DEF Changed
  <2>6. ASSUME NEW w \in DOMAIN People
        PROVE  scoreParticipant(UnitsOf(next, w)) = scoreParticipant(UnitsOf(orders, w))
    <3>1. CASE orders[n].who # w
      <4>1. UnitsOf(next, w) = UnitsOf(orders, w)
        BY <2>1, <2>4, <3>1, ChangedUnits
      <4> QED
        BY <4>1
    <3>2. CASE orders[n].who = w
      <4>1. PICK start : start = UnitsOf(SubSeq(orders, 1, n - 1), w)
        OBVIOUS
      <4>2. start = UnitsOf(SubSeq(next, 1, n - 1), w)
        BY <2>1, <2>4, <4>1, ChangedUnits
      <4>3. start \in Seq(Unit) /\ \E a \in Seq(Unit) : UnitsOf(orders, w) = start \o a
        BY <2>1, <4>1, UnitsStart
      <4>4. \E b \in Seq(Unit) : UnitsOf(next, w) = start \o b
        BY <2>5, <4>2, UnitsStart
      <4>5. PICK a \in Seq(Unit) : UnitsOf(orders, w) = start \o a
        BY <4>3
      <4>6. PICK b \in Seq(Unit) : UnitsOf(next, w) = start \o b
        BY <4>4
      <4>7. Len(start) >= MaxScored
        BY <1>1, <3>2, <4>1
      <4>8. scoreParticipant(start \o a) = scoreParticipant(start \o b)
        BY <4>3, <4>7, SameScore
      <4> QED
        BY <4>5, <4>6, <4>8
    <3> QED
      BY <3>1, <3>2
  <2>7. Scores(next, People) = Scores(orders, People)
    BY <2>6 DEF Scores
  <2>8. \A me : view(next, People, me) = ViewOf(Scores(next, People), People, me)
    BY ViewReads
  <2>9. \A me : view(orders, People, me) = ViewOf(Scores(orders, People), People, me)
    BY ViewReads
  <2> QED
    BY <2>3, <2>7, <2>8, <2>9
<1>2. NightInv /\ [Next]_vars
        => \A n \in DOMAIN orders :
             /\ ~quiet' /\ orders'[n] # orders[n]
             /\ Len(UnitsOf(SubSeq(orders, 1, n - 1), orders[n].who)) >= MaxScored
             => \A me \in DOMAIN People : view(orders', People, me) = view(orders, People, me)
  BY <1>1
<1> QED
  BY <1>2, NightInvariant, PTL DEF Spec, ScoreSettles

=============================================================================
