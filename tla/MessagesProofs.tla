--------------------------- MODULE MessagesProofs ---------------------------
(***************************************************************************)
(* Theorems about Messages, for digests of any length and messages of any  *)
(* size.  What a loop over a sequence computes is a recursive function of  *)
(* it, and facts about the loop go by induction over the sequence: a set   *)
(* of sequences that has <<>> and goes on by one element has them all.     *)
(***************************************************************************)
EXTENDS Messages, SequenceTheorems, FiniteSetTheorems, WellFoundedInduction,
        NaturalsInduction, TLAPS

(******************************* Induction *******************************)

\* The least of a set of numbers.
LEMMA LeastIsThere ==
  ASSUME NEW S, S \subseteq Nat, S # {}
  PROVE  \E x \in S : \A y \in S : x <= y
<1>1. \E x \in S : \A y \in S : ~(<<y, x>> \in OpToRel(<, Nat))
  BY NatLessThanWellFounded, WFMin, Zenon
<1>2. PICK x \in S : \A y \in S : ~(<<y, x>> \in OpToRel(<, Nat))
  BY <1>1
<1>3. \A y \in S : ~(y < x)
  BY <1>2 DEF OpToRel
<1> QED
  BY <1>3

\* A set that has 0, and every number up to n whose predecessor it has.
LEMMA UpTo ==
  ASSUME NEW n \in Nat, NEW P, 0 \in P, \A i \in 1..n : i - 1 \in P => i \in P
  PROVE  \A i \in 0..n : i \in P
<1> DEFINE bad == {i \in 0..n : i \notin P}
<1> SUFFICES ASSUME bad # {}
             PROVE  FALSE
  OBVIOUS
<1>1. bad \subseteq Nat
  OBVIOUS
<1>2. PICK x \in bad : \A y \in bad : x <= y
  <2> HIDE DEF bad
  <2> QED
    BY <1>1, LeastIsThere
<1>3. x \in 1..n /\ x - 1 \in 0..n /\ x - 1 < x
  OBVIOUS
<1>4. x - 1 \in P
  BY <1>2, <1>3
<1> QED
  BY <1>3, <1>4

\* A set of sequences that has <<>> and goes on by one element.
LEMMA ByElements ==
  ASSUME NEW E, NEW P, <<>> \in P,
         \A s \in Seq(E) : \A x \in E : s \in P => Append(s, x) \in P
  PROVE  \A s \in Seq(E) : s \in P
<1> SUFFICES ASSUME NEW s \in Seq(E)
             PROVE  s \in P
  OBVIOUS
<1> DEFINE n == Len(s)
           Q == {i \in 0..n : SubSeq(s, 1, i) \in P}
<1>1. n \in Nat
  OBVIOUS
<1>2. 0 \in Q
  <2>1. SubSeq(s, 1, 0) = <<>>
    BY SubSeqEmpty
  <2>2. SubSeq(s, 1, 0) \in P
    BY <2>1, Zenon
  <2> QED
    BY <1>1, <2>2
<1>3. ASSUME NEW i \in 1..n, i - 1 \in Q
      PROVE  i \in Q
  <2>1. SubSeq(s, 1, i - 1) \in Seq(E) /\ s[i] \in E
    BY <1>1
  <2>2. SubSeq(s, 1, i) = Append(SubSeq(s, 1, i - 1), s[i])
    BY <1>1
  <2>3. SubSeq(s, 1, i - 1) \in P
    BY <1>3
  <2>4. SubSeq(s, 1, i) \in P
    BY <2>1, <2>2, <2>3
  <2> QED
    BY <1>1, <2>4
<1> HIDE DEF Q
<1>4. \A i \in 0..n : i \in Q
  BY <1>1, <1>2, <1>3, UpTo
<1>5. SubSeq(s, 1, n) \in P
  BY <1>1, <1>4 DEF Q
<1> QED
  BY <1>5, SubSeqFull

(********************************* Loops *********************************)

\* A loop over the elements of a sequence of E, from a state of S: what each element
\* does, and the state after each of them.
Steps(E, S) == [E -> [S -> S]]

IsLoop(f, s, S, base, step) ==
  /\ f \in [0..Len(s) -> S] /\ f[0] = base
  /\ \A i \in 1..Len(s) : f[i] = step[s[i]][f[i - 1]]

\* A loop goes on by one element.
LEMMA LoopGoesOn ==
  ASSUME NEW E, NEW S, NEW base, NEW step \in Steps(E, S), NEW s \in Seq(E), NEW x \in E,
         NEW f, IsLoop(f, s, S, base, step)
  PROVE  \E g : IsLoop(g, Append(s, x), S, base, step)
<1> DEFINE n == Len(s)
           g == [i \in 0..(n + 1) |-> IF i = n + 1 THEN step[x][f[n]] ELSE f[i]]
           t == Append(s, x)
<1>1. n \in Nat /\ t \in Seq(E) /\ Len(t) = n + 1 /\ t[n + 1] = x
      /\ \A i \in 1..n : t[i] = s[i]
  OBVIOUS
<1>2. f \in [0..n -> S] /\ f[0] = base /\ \A i \in 1..n : f[i] = step[s[i]][f[i - 1]]
  BY DEF IsLoop
<1>3. step[x][f[n]] \in S
  BY <1>1, <1>2 DEF Steps
<1>4. g \in [0..(n + 1) -> S] /\ g[0] = base
  BY <1>1, <1>2, <1>3
<1>5. \A i \in 1..(n + 1) : g[i] = step[t[i]][g[i - 1]]
  BY <1>1, <1>2
<1> HIDE DEF g, t
<1>6. IsLoop(g, t, S, base, step)
  BY <1>1, <1>4, <1>5 DEF IsLoop
<1> QED
  BY <1>6 DEF t

\* A loop has a state after each element.
LEMMA LoopsEnd ==
  \A E, S : \A base \in S : \A step \in Steps(E, S) : \A s \in Seq(E) :
    \E f : IsLoop(f, s, S, base, step)
<1> SUFFICES ASSUME NEW E, NEW S, NEW base \in S, NEW step \in Steps(E, S)
             PROVE  \A s \in Seq(E) : \E f : IsLoop(f, s, S, base, step)
  OBVIOUS
<1> DEFINE Good(s) == \E f : IsLoop(f, s, S, base, step)
           P == {s \in Seq(E) : Good(s)}
<1>1. <<>> \in P
  <2> DEFINE g == [i \in 0..0 |-> base]
  <2>1. g \in [0..Len(<<>>) -> S] /\ g[0] = base
        /\ \A i \in 1..Len(<<>>) : g[i] = step[<<>>[i]][g[i - 1]]
    OBVIOUS
  <2> HIDE DEF g
  <2>2. IsLoop(g, <<>>, S, base, step)
    BY <2>1 DEF IsLoop
  <2>3. Good(<<>>)
    BY <2>2
  <2> HIDE DEF Good
  <2> QED
    BY <2>3, EmptySeq
<1>2. ASSUME NEW s \in Seq(E), NEW x \in E, s \in P
      PROVE  Append(s, x) \in P
  <2>1. PICK f : IsLoop(f, s, S, base, step)
    BY <1>2
  <2>2. Good(Append(s, x))
    BY <2>1, LoopGoesOn, Zenon
  <2> HIDE DEF Good
  <2> QED
    BY <2>2
<1> HIDE DEF P
<1>3. \A s \in Seq(E) : s \in P
  BY <1>1, <1>2, ByElements
<1> QED
  BY <1>3 DEF P

\* Two loops over the same elements are in the same state, and one more element does
\* what it does to that state.
LEMMA LoopsAgree ==
  ASSUME NEW E, NEW S, NEW base, NEW step, NEW s \in Seq(E), NEW x \in E,
         NEW f, NEW g, IsLoop(f, s, S, base, step), IsLoop(g, Append(s, x), S, base, step)
  PROVE  g[Len(s) + 1] = step[x][f[Len(s)]]
<1> DEFINE n == Len(s)
           t == Append(s, x)
           P == {i \in 0..n : g[i] = f[i]}
<1>1. n \in Nat /\ t \in Seq(E) /\ Len(t) = n + 1 /\ t[n + 1] = x
      /\ \A i \in 1..n : t[i] = s[i]
  OBVIOUS
<1>2. f[0] = base /\ \A i \in 1..n : f[i] = step[s[i]][f[i - 1]]
  BY DEF IsLoop
<1>3. g[0] = base /\ \A i \in 1..(n + 1) : g[i] = step[t[i]][g[i - 1]]
  BY <1>1 DEF IsLoop
<1>4. 0 \in P
  BY <1>1, <1>2, <1>3
<1>5. ASSUME NEW i \in 1..n, i - 1 \in P
      PROVE  i \in P
  BY <1>1, <1>2, <1>3, <1>5
<1> HIDE DEF P, t
<1>6. \A i \in 0..n : i \in P
  BY <1>1, <1>4, <1>5, UpTo
<1>7. g[n] = f[n]
  BY <1>1, <1>6 DEF P
<1> QED
  BY <1>1, <1>3, <1>7

(******************************* Flattening ******************************)

Join(S) == [x \in Seq(S) |-> [r \in Seq(S) |-> r \o x]]

LEMMA FlatIsALoop ==
  ASSUME NEW S, NEW seqs \in Seq(Seq(S))
  PROVE  \E f : /\ IsLoop(f, seqs, Seq(S), <<>>, Join(S))
                /\ FlattenSeq(seqs) = f[Len(seqs)]
<1> DEFINE n == Len(seqs)
           G(g) == [i \in 1..n |-> IF i = 1 THEN seqs[i] ELSE g[i - 1] \o seqs[i]]
           g == CHOOSE h : h = G(h)
<1>1. n \in Nat /\ (n = 0 => seqs = <<>>) /\ \A i \in 1..n : seqs[i] \in Seq(S)
  OBVIOUS
<1>2. Join(S) \in Steps(Seq(S), Seq(S)) /\ <<>> \in Seq(S)
  BY EmptySeq DEF Join, Steps
<1>3. PICK f : IsLoop(f, seqs, Seq(S), <<>>, Join(S))
  <2> HIDE DEF G, g
  <2> QED
    BY <1>2, LoopsEnd, Zenon
<1>4. f \in [0..n -> Seq(S)] /\ f[0] = <<>>
      /\ \A i \in 1..n : f[i] = Join(S)[seqs[i]][f[i - 1]]
  BY <1>3 DEF IsLoop
<1>5. ASSUME NEW i \in 1..n
      PROVE  f[i] = f[i - 1] \o seqs[i]
  <2>1. n \in Nat /\ i - 1 \in 0..n
    OBVIOUS
  <2> HIDE DEF n, g
  <2>2. f[i - 1] \in Seq(S)
    BY <1>4, <2>1
  <2>3. f[i] = Join(S)[seqs[i]][f[i - 1]]
    BY <1>4
  <2> QED
    BY <1>1, <2>2, <2>3 DEF Join
<1>6. ASSUME NEW i \in 1..n
      PROVE  f[i] = IF i = 1 THEN seqs[i] ELSE f[i - 1] \o seqs[i]
  <2>1. seqs[i] \in Seq(S)
    BY <1>1
  <2>2. <<>> \o seqs[i] = seqs[i]
    BY <2>1, ConcatEmptySeq
  <2>3. i = 1 => f[i - 1] = <<>>
    BY <1>4
  <2> HIDE DEF n, g
  <2> QED
    BY <1>5, <2>2, <2>3
<1> DEFINE e == [i \in 1..n |-> f[i]]
<1>7. e = G(e)
  BY <1>1, <1>6
<1>8. g = G(g)
  <2> HIDE DEF G, e
  <2> QED
    BY <1>7, Zenon
<1>9. n # 0 => FlattenSeq(seqs) = g[n]
  BY DEF FlattenSeq
<1>10. n = 0 => FlattenSeq(seqs) = <<>>
  BY <1>1 DEF FlattenSeq
<1> DEFINE P == {i \in 0..n : i # 0 => g[i] = f[i]}
<1>11. \A i \in 1..n : g[i] = IF i = 1 THEN seqs[i] ELSE g[i - 1] \o seqs[i]
  <2> HIDE DEF g
  <2> QED
    BY <1>1, <1>8
<1> HIDE DEF g, G, e
<1>12. 0 \in P
  BY <1>1
<1>13. ASSUME NEW i \in 1..n, i - 1 \in P
       PROVE  i \in P
  BY <1>1, <1>6, <1>11, <1>13
<1> HIDE DEF P
<1>14. \A i \in 0..n : i \in P
  BY <1>1, <1>12, <1>13, UpTo
<1>15. n # 0 => g[n] = f[n]
  BY <1>1, <1>14 DEF P
<1>16. FlattenSeq(seqs) = f[n]
  BY <1>4, <1>9, <1>10, <1>15
<1> QED
  BY <1>3, <1>16

LEMMA FlatAppend ==
  ASSUME NEW S, NEW seqs \in Seq(Seq(S)), NEW x \in Seq(S)
  PROVE  /\ FlattenSeq(seqs) \in Seq(S)
         /\ FlattenSeq(Append(seqs, x)) = FlattenSeq(seqs) \o x
<1> DEFINE n == Len(seqs)
           t == Append(seqs, x)
<1>1. t \in Seq(Seq(S)) /\ Len(t) = n + 1 /\ n \in Nat
  OBVIOUS
<1>2. PICK f : IsLoop(f, seqs, Seq(S), <<>>, Join(S)) /\ FlattenSeq(seqs) = f[n]
  BY FlatIsALoop
<1>3. PICK g : IsLoop(g, t, Seq(S), <<>>, Join(S)) /\ FlattenSeq(t) = g[Len(t)]
  <2> HIDE DEF t
  <2> QED
    BY <1>1, FlatIsALoop
<1>4. f[n] \in Seq(S)
  BY <1>1, <1>2 DEF IsLoop
<1>5. g[n + 1] = Join(S)[x][f[n]]
  <2>1. IsLoop(g, Append(seqs, x), Seq(S), <<>>, Join(S))
    BY <1>3
  <2> QED
    BY <1>2, <2>1, LoopsAgree
<1>6. Join(S)[x][f[n]] = f[n] \o x
  BY <1>4 DEF Join
<1> QED
  BY <1>1, <1>2, <1>3, <1>4, <1>5, <1>6

LEMMA FlatOfNone == FlattenSeq(<<>>) = <<>>
BY DEF FlattenSeq

LEMMA FlatConcat ==
  ASSUME NEW S, NEW a \in Seq(Seq(S)), NEW b \in Seq(Seq(S))
  PROVE  FlattenSeq(a \o b) = FlattenSeq(a) \o FlattenSeq(b)
<1> DEFINE P == {s \in Seq(Seq(S)) : FlattenSeq(a \o s) = FlattenSeq(a) \o FlattenSeq(s)}
<1>1. <<>> \in P
  <2>1. a \o <<>> = a /\ FlattenSeq(a) \in Seq(S)
    BY ConcatEmptySeq, FlatAppend, EmptySeq
  <2>2. FlattenSeq(a) \o <<>> = FlattenSeq(a)
    BY <2>1, ConcatEmptySeq
  <2>3. <<>> \in Seq(Seq(S))
    BY EmptySeq
  <2> QED
    BY <2>1, <2>2, <2>3, FlatOfNone
<1>2. ASSUME NEW s \in Seq(Seq(S)), NEW x \in Seq(S), s \in P
      PROVE  Append(s, x) \in P
  <2>1. a \o Append(s, x) = Append(a \o s, x) /\ a \o s \in Seq(Seq(S))
        /\ Append(s, x) \in Seq(Seq(S))
    OBVIOUS
  <2>2. FlattenSeq(Append(a \o s, x)) = FlattenSeq(a \o s) \o x
    BY <2>1, FlatAppend
  <2>3. FlattenSeq(Append(s, x)) = FlattenSeq(s) \o x
    BY FlatAppend
  <2>4. FlattenSeq(a) \in Seq(S) /\ FlattenSeq(s) \in Seq(S)
    BY FlatAppend
  <2>5. (FlattenSeq(a) \o FlattenSeq(s)) \o x = FlattenSeq(a) \o (FlattenSeq(s) \o x)
    BY <2>4, ConcatAssociative
  <2>6. FlattenSeq(a \o s) = FlattenSeq(a) \o FlattenSeq(s)
    BY <1>2
  <2> QED
    BY <2>1, <2>2, <2>3, <2>5, <2>6
<1> HIDE DEF P
<1>3. \A s \in Seq(Seq(S)) : s \in P
  BY <1>1, <1>2, ByElements
<1> QED
  BY <1>3 DEF P

LEMMA FlatOfOne ==
  ASSUME NEW S, NEW x \in Seq(S)
  PROVE  FlattenSeq(<<x>>) = x
<1>1. <<>> \in Seq(Seq(S)) /\ <<x>> = Append(<<>>, x)
  BY EmptySeq
<1>2. FlattenSeq(<<x>>) = <<>> \o x
  BY <1>1, FlatAppend, FlatOfNone
<1> QED
  BY <1>2, ConcatEmptySeq

(******************************** Sizes **********************************)

LEMMA PieceType ==
  ASSUME NEW p \in Pieces
  PROVE  /\ Size(p) \in Nat \ {0} /\ p.from \in Nat /\ p.to \in Nat /\ p.of \in Paragraphs
         /\ p.from <= p.to
BY DEF Pieces, Size

Pad == [p \in Pieces |-> [size \in Nat |-> size + Size(p) + Gap]]

LEMMA PaddedIsALoop ==
  ASSUME NEW text \in Seq(Pieces)
  PROVE  \E f : IsLoop(f, text, Nat, 0, Pad) /\ Padded(text) = f[Len(text)]
<1> DEFINE n == Len(text)
           G(g) == [i \in 0..n |-> IF i = 0 THEN 0 ELSE g[i - 1] + Size(text[i]) + Gap]
           g == CHOOSE h : h = G(h)
<1>1. n \in Nat /\ \A i \in 1..n : text[i] \in Pieces /\ Size(text[i]) \in Nat
  BY PieceType
<1>2. Pad \in Steps(Pieces, Nat)
  BY PieceType, MessagesAssumption DEF Pad, Steps
<1>3. PICK f : IsLoop(f, text, Nat, 0, Pad)
  <2>1. 0 \in Nat
    OBVIOUS
  <2> HIDE DEF G, g
  <2> QED
    BY <1>2, <2>1, LoopsEnd, Zenon
<1>4. f \in [0..n -> Nat] /\ f[0] = 0 /\ \A i \in 1..n : f[i] = Pad[text[i]][f[i - 1]]
  BY <1>3 DEF IsLoop
<1>5. ASSUME NEW i \in 1..n
      PROVE  f[i] = f[i - 1] + Size(text[i]) + Gap
  <2>1. f[i - 1] \in Nat
    BY <1>1, <1>4
  <2> QED
    BY <1>1, <1>4, <2>1 DEF Pad
<1>6. f = G(f)
  BY <1>1, <1>4, <1>5
<1>7. g = G(g)
  <2> HIDE DEF G
  <2> QED
    BY <1>6, Zenon
<1>8. Padded(text) = g[n]
  BY DEF Padded
<1>9. g[0] = 0 /\ \A i \in 1..n : g[i] = g[i - 1] + Size(text[i]) + Gap
  <2> HIDE DEF g
  <2> QED
    BY <1>1, <1>7
<1> DEFINE P == {i \in 0..n : g[i] = f[i]}
<1> HIDE DEF g, G
<1>10. 0 \in P
  BY <1>1, <1>4, <1>9
<1>11. ASSUME NEW i \in 1..n, i - 1 \in P
       PROVE  i \in P
  BY <1>1, <1>5, <1>9, <1>11
<1> HIDE DEF P
<1>12. \A i \in 0..n : i \in P
  BY <1>1, <1>10, <1>11, UpTo
<1>13. g[n] = f[n]
  BY <1>1, <1>12 DEF P
<1> QED
  BY <1>3, <1>8, <1>13

LEMMA PaddedAppend ==
  ASSUME NEW text \in Seq(Pieces), NEW p \in Pieces
  PROVE  /\ Padded(text) \in Nat
         /\ Padded(Append(text, p)) = Padded(text) + Size(p) + Gap
<1> DEFINE n == Len(text)
           t == Append(text, p)
<1>1. t \in Seq(Pieces) /\ Len(t) = n + 1 /\ n \in Nat
  OBVIOUS
<1>2. PICK f : IsLoop(f, text, Nat, 0, Pad) /\ Padded(text) = f[n]
  BY PaddedIsALoop
<1>3. PICK g : IsLoop(g, t, Nat, 0, Pad) /\ Padded(t) = g[Len(t)]
  <2> HIDE DEF t
  <2> QED
    BY <1>1, PaddedIsALoop
<1>4. f[n] \in Nat
  BY <1>1, <1>2 DEF IsLoop
<1>5. g[n + 1] = Pad[p][f[n]]
  <2>1. IsLoop(g, Append(text, p), Nat, 0, Pad)
    BY <1>3
  <2> QED
    BY <1>2, <2>1, LoopsAgree
<1>6. Pad[p][f[n]] = f[n] + Size(p) + Gap
  BY <1>4 DEF Pad
<1> QED
  BY <1>1, <1>2, <1>3, <1>4, <1>5, <1>6

LEMMA PaddedNone == Padded(<<>>) = 0
<1>1. <<>> \in Seq(Pieces) /\ Len(<<>>) = 0
  BY EmptySeq
<1>2. PICK f : IsLoop(f, <<>>, Nat, 0, Pad) /\ Padded(<<>>) = f[Len(<<>>)]
  BY <1>1, PaddedIsALoop
<1>3. f[0] = 0
  BY <1>2 DEF IsLoop
<1> QED
  BY <1>1, <1>2, <1>3

LEMMA PaddedConcat ==
  ASSUME NEW a \in Seq(Pieces), NEW b \in Seq(Pieces)
  PROVE  /\ Padded(a) \in Nat /\ Padded(b) \in Nat
         /\ Padded(a \o b) = Padded(a) + Padded(b)
<1> DEFINE P == {s \in Seq(Pieces) : /\ Padded(s) \in Nat
                                     /\ Padded(a) \in Nat => 
                                          Padded(a \o s) = Padded(a) + Padded(s)}
<1>1. <<>> \in P
  BY PaddedNone, ConcatEmptySeq, EmptySeq
<1>2. ASSUME NEW s \in Seq(Pieces), NEW p \in Pieces, s \in P
      PROVE  Append(s, p) \in P
  <2>1. a \o Append(s, p) = Append(a \o s, p) /\ a \o s \in Seq(Pieces)
        /\ Append(s, p) \in Seq(Pieces)
    OBVIOUS
  <2>2. Padded(Append(a \o s, p)) = Padded(a \o s) + Size(p) + Gap
    BY <2>1, PaddedAppend
  <2>3. Padded(Append(s, p)) = Padded(s) + Size(p) + Gap
    BY PaddedAppend
  <2>4. Size(p) \in Nat /\ Gap \in Nat
    BY PieceType, MessagesAssumption
  <2>5. Padded(s) \in Nat /\ (Padded(a) \in Nat => Padded(a \o s) = Padded(a) + Padded(s))
    BY <1>2
  <2>6. Padded(a \o Append(s, p)) = Padded(a \o s) + Size(p) + Gap
    BY <2>1, <2>2
  <2>7. /\ Padded(Append(s, p)) \in Nat
        /\ Padded(a) \in Nat =>
             Padded(a \o Append(s, p)) = Padded(a) + Padded(Append(s, p))
    BY <2>3, <2>4, <2>5, <2>6
  <2> QED
    BY <2>1, <2>7
<1> HIDE DEF P
<1>3. \A s \in Seq(Pieces) : s \in P
  BY <1>1, <1>2, ByElements
<1>4. a \in P /\ b \in P
  BY <1>3
<1> QED
  BY <1>4 DEF P

LEMMA PaddedOne ==
  ASSUME NEW p \in Pieces
  PROVE  Padded(<<p>>) = Size(p) + Gap
<1>1. <<>> \in Seq(Pieces) /\ <<p>> = Append(<<>>, p)
  BY EmptySeq
<1>2. Padded(<<p>>) = Padded(<<>>) + Size(p) + Gap
  BY <1>1, PaddedAppend
<1> QED
  BY <1>2, PaddedNone, PieceType, MessagesAssumption

LEMMA SizeOfBlock ==
  ASSUME NEW text \in Blocks
  PROVE  SizeOf(text) \in Nat \ {0} /\ SizeOf(text) = Padded(text) - Gap
<1>1. text \in Seq(Pieces) /\ text # <<>>
  BY DEF Blocks
<1>2. PICK s \in Seq(Pieces), p \in Pieces : text = Append(s, p)
  BY <1>1, SequenceEmptyOrAppend
<1>3. Padded(text) = Padded(s) + Size(p) + Gap /\ Padded(s) \in Nat
  BY <1>2, PaddedAppend
<1>4. Size(p) \in Nat \ {0} /\ Gap \in Nat
  BY PieceType, MessagesAssumption
<1> QED
  BY <1>1, <1>3, <1>4 DEF SizeOf

LEMMA SizeOfOne ==
  ASSUME NEW p \in Pieces
  PROVE  <<p>> \in Blocks /\ SizeOf(<<p>>) = Size(p)
<1>1. <<p>> \in Blocks
  BY DEF Blocks
<1>2. Size(p) \in Nat /\ Gap \in Nat
  BY PieceType, MessagesAssumption
<1> QED
  BY <1>1, <1>2, PaddedOne, SizeOfBlock

LEMMA SizeOfJoined ==
  ASSUME NEW a \in Seq(Pieces), NEW b \in Blocks
  PROVE  /\ a \o b \in Blocks
         /\ a = <<>> => SizeOf(a \o b) = SizeOf(b)
         /\ a # <<>> => SizeOf(a \o b) = SizeOf(a) + Gap + SizeOf(b)
<1>1. b \in Seq(Pieces) /\ b # <<>>
  BY DEF Blocks
<1>2. a \o b \in Seq(Pieces) /\ a \o b # <<>>
  BY <1>1
<1>3. a \o b \in Blocks
  BY <1>2 DEF Blocks
<1>4. a = <<>> => SizeOf(a \o b) = SizeOf(b)
  BY <1>1, ConcatEmptySeq
<1>5. ASSUME a # <<>>
      PROVE  SizeOf(a \o b) = SizeOf(a) + Gap + SizeOf(b)
  <2>1. a \in Blocks
    BY <1>5 DEF Blocks
  <2>2. /\ SizeOf(a) = Padded(a) - Gap /\ SizeOf(b) = Padded(b) - Gap
        /\ SizeOf(a \o b) = Padded(a \o b) - Gap
    BY <1>3, <2>1, SizeOfBlock
  <2>3. Padded(a) \in Nat /\ Padded(b) \in Nat /\ Padded(a \o b) = Padded(a) + Padded(b)
    BY <1>1, PaddedConcat
  <2> QED
    BY <2>2, <2>3, MessagesAssumption
<1> QED
  BY <1>3, <1>4, <1>5

LEMMA SizeOfText ==
  ASSUME NEW a \in Seq(Pieces)
  PROVE  SizeOf(a) \in Nat /\ (a = <<>> => SizeOf(a) = 0)
<1>1. CASE a = <<>>
  BY <1>1 DEF SizeOf
<1>2. CASE a # <<>>
  <2>1. a \in Blocks
    BY <1>2 DEF Blocks
  <2> QED
    BY <1>2, <2>1, SizeOfBlock
<1> QED
  BY <1>1, <1>2

(******************************** Bytes **********************************)

Letters == Paragraphs \X Nat

Line(p) == [k \in 1..Size(p) |-> <<p.of, p.from + k - 1>>]

LEMMA LineType ==
  ASSUME NEW p \in Pieces
  PROVE  Line(p) \in Seq(Letters) /\ Len(Line(p)) = Size(p)
<1>1. Size(p) \in Nat /\ p.from \in Nat /\ p.of \in Paragraphs
  BY PieceType
<1>2. \A k \in 1..Size(p) : <<p.of, p.from + k - 1>> \in Letters
  BY <1>1 DEF Letters
<1> QED
  BY <1>1, <1>2 DEF Line

LEMMA BytesAppend ==
  ASSUME NEW text \in Seq(Pieces), NEW p \in Pieces
  PROVE  /\ Bytes(text) \in Seq(Letters)
         /\ Bytes(Append(text, p)) = Bytes(text) \o Line(p)
<1> DEFINE n == Len(text)
           t == Append(text, p)
           lines == [i \in DOMAIN text |-> Line(text[i])]
           linesOfT == [i \in DOMAIN t |-> Line(t[i])]
<1>1. n \in Nat /\ DOMAIN text = 1..n /\ DOMAIN t = 1..(n + 1) /\ t[n + 1] = p
      /\ \A i \in 1..n : text[i] \in Pieces /\ t[i] = text[i]
  OBVIOUS
<1>2. Bytes(text) = FlattenSeq(lines) /\ Bytes(t) = FlattenSeq(linesOfT)
  BY DEF Bytes, Line
<1>3. lines \in Seq(Seq(Letters)) /\ Len(lines) = n
  BY <1>1, LineType
<1>4. Line(p) \in Seq(Letters)
  BY LineType
<1>5. linesOfT = Append(lines, Line(p))
  <2>1. linesOfT \in Seq(Seq(Letters)) /\ Len(linesOfT) = n + 1
    <3>1. \A i \in 1..(n + 1) : Line(t[i]) \in Seq(Letters)
      BY <1>1, LineType
    <3> QED
      BY <1>1, <3>1
  <2>2. Append(lines, Line(p)) \in Seq(Seq(Letters)) /\ Len(Append(lines, Line(p))) = n + 1
    BY <1>3, <1>4
  <2>3. \A i \in 1..(n + 1) : linesOfT[i] = Append(lines, Line(p))[i]
    BY <1>1, <1>3, <1>4
  <2> HIDE DEF linesOfT, lines
  <2> QED
    BY <1>1, <2>1, <2>2, <2>3, SeqEqual
<1> HIDE DEF lines, linesOfT, t
<1>6. FlattenSeq(lines) \in Seq(Letters)
      /\ FlattenSeq(Append(lines, Line(p))) = FlattenSeq(lines) \o Line(p)
  BY <1>3, <1>4, FlatAppend
<1> QED
  BY <1>2, <1>5, <1>6 DEF t

LEMMA BytesNone == Bytes(<<>>) = <<>>
BY FlatOfNone DEF Bytes

LEMMA BytesConcat ==
  ASSUME NEW a \in Seq(Pieces), NEW b \in Seq(Pieces)
  PROVE  /\ Bytes(a) \in Seq(Letters) /\ Bytes(b) \in Seq(Letters)
         /\ Bytes(a \o b) = Bytes(a) \o Bytes(b)
<1> DEFINE P == {s \in Seq(Pieces) : /\ Bytes(s) \in Seq(Letters)
                                     /\ Bytes(a) \in Seq(Letters) =>
                                          Bytes(a \o s) = Bytes(a) \o Bytes(s)}
<1>1. <<>> \in P
  BY BytesNone, ConcatEmptySeq, EmptySeq
<1>2. ASSUME NEW s \in Seq(Pieces), NEW p \in Pieces, s \in P
      PROVE  Append(s, p) \in P
  <2>1. a \o Append(s, p) = Append(a \o s, p) /\ a \o s \in Seq(Pieces)
        /\ Append(s, p) \in Seq(Pieces)
    OBVIOUS
  <2>2. Bytes(Append(a \o s, p)) = Bytes(a \o s) \o Line(p)
    BY <2>1, BytesAppend
  <2>3. Bytes(Append(s, p)) = Bytes(s) \o Line(p)
    BY BytesAppend
  <2>4. Line(p) \in Seq(Letters)
    BY LineType
  <2>5. /\ Bytes(s) \in Seq(Letters)
        /\ Bytes(a) \in Seq(Letters) => Bytes(a \o s) = Bytes(a) \o Bytes(s)
    BY <1>2
  <2>6. Bytes(a) \in Seq(Letters) =>
          (Bytes(a) \o Bytes(s)) \o Line(p) = Bytes(a) \o (Bytes(s) \o Line(p))
    BY <2>4, <2>5, ConcatAssociative
  <2>7. Bytes(s) \o Line(p) \in Seq(Letters)
    BY <2>4, <2>5
  <2> QED
    BY <2>1, <2>2, <2>3, <2>5, <2>6, <2>7
<1> HIDE DEF P
<1>3. \A s \in Seq(Pieces) : s \in P
  BY <1>1, <1>2, ByElements
<1>4. a \in P /\ b \in P
  BY <1>3
<1> QED
  BY <1>4 DEF P

LEMMA BytesOne ==
  ASSUME NEW p \in Pieces
  PROVE  Bytes(<<p>>) = Line(p)
<1>1. <<>> \in Seq(Pieces) /\ <<p>> = Append(<<>>, p) /\ Line(p) \in Seq(Letters)
  BY EmptySeq, LineType
<1>2. Bytes(<<p>>) = <<>> \o Line(p)
  BY <1>1, BytesAppend, BytesNone
<1> QED
  BY <1>1, <1>2, ConcatEmptySeq

(************************* A paragraph is cut ****************************)

LEMMA Division ==
  ASSUME NEW a \in Nat, NEW m \in Nat \ {0}
  PROVE  /\ a \div m \in Nat /\ (a \div m) * m <= a /\ a < (a \div m) * m + m
         /\ a < m => a \div m = 0
OBVIOUS

\* The first m bytes of a piece, or of one that begins like it.
FirstBytes(p, m) == [k \in 1..m |-> <<p.of, p.from + k - 1>>]

LEMMA FirstBytesType ==
  ASSUME NEW p \in Pieces, NEW m \in Nat
  PROVE  /\ FirstBytes(p, m) \in Seq(Letters) /\ Len(FirstBytes(p, m)) = m
         /\ \A k \in 1..m : FirstBytes(p, m)[k] = <<p.of, p.from + k - 1>>
<1>1. p.of \in Paragraphs /\ p.from \in Nat
  BY PieceType
<1>2. \A k \in 1..m : <<p.of, p.from + k - 1>> \in Letters
  BY <1>1 DEF Letters
<1> QED
  BY <1>2 DEF FirstBytes

LEMMA FirstBytesGoOn ==
  ASSUME NEW p \in Pieces, NEW m \in Nat, NEW q \in Pieces, q.of = p.of, q.from = p.from + m
  PROVE  FirstBytes(p, m) \o Line(q) = FirstBytes(p, m + Size(q))
<1> DEFINE s == Size(q)
           a == FirstBytes(p, m)
           b == FirstBytes(p, m + s)
           l == Line(q)
<1>1. p.from \in Nat /\ s \in Nat /\ m + s \in Nat
  BY PieceType
<1>2. a \in Seq(Letters) /\ Len(a) = m /\ \A k \in 1..m : a[k] = <<p.of, p.from + k - 1>>
  BY FirstBytesType
<1>3. b \in Seq(Letters) /\ Len(b) = m + s
      /\ \A k \in 1..(m + s) : b[k] = <<p.of, p.from + k - 1>>
  BY <1>1, FirstBytesType
<1>4. l \in Seq(Letters) /\ Len(l) = s
      /\ \A k \in 1..s : l[k] = <<p.of, (p.from + m) + k - 1>>
  BY LineType DEF Line
<1> HIDE DEF a, b, l, s
<1>5. a \o l \in Seq(Letters) /\ Len(a \o l) = m + s
      /\ \A k \in 1..(m + s) : (a \o l)[k] = IF k <= m THEN a[k] ELSE l[k - m]
  <2>1. a \in Seq(Letters) /\ l \in Seq(Letters) /\ Len(a) = m /\ Len(l) = s
    BY <1>2, <1>4
  <2>2. /\ a \o l \in Seq(Letters) /\ Len(a \o l) = Len(a) + Len(l)
        /\ \A k \in 1..(Len(a) + Len(l)) :
             (a \o l)[k] = IF k <= Len(a) THEN a[k] ELSE l[k - Len(a)]
    <3>1. a \o l \in Seq(Letters) /\ Len(a \o l) = Len(a) + Len(l)
      BY <2>1
    <3>2. ASSUME NEW k \in 1..(Len(a) + Len(l))
          PROVE  (a \o l)[k] = IF k <= Len(a) THEN a[k] ELSE l[k - Len(a)]
      BY <2>1
    <3> QED
      BY <3>1, <3>2
  <2> DEFINE c == a \o l
  <2>3. /\ c \in Seq(Letters) /\ Len(c) = Len(a) + Len(l)
        /\ \A k \in 1..(Len(a) + Len(l)) : c[k] = IF k <= Len(a) THEN a[k] ELSE l[k - Len(a)]
    BY <2>2
  <2> HIDE DEF c
  <2>4. /\ c \in Seq(Letters) /\ Len(c) = m + s
        /\ \A k \in 1..(m + s) : c[k] = IF k <= m THEN a[k] ELSE l[k - m]
    BY <2>1, <2>3
  <2> QED
    BY <2>4 DEF c
<1>6. ASSUME NEW k \in 1..(m + s)
      PROVE  (a \o l)[k] = b[k]
  <2>1. CASE k <= m
    <3>1. k \in 1..m
      BY <1>1, <2>1
    <3> QED
      BY <1>2, <1>3, <1>5, <2>1, <3>1
  <2>2. CASE ~(k <= m)
    <3>1. k - m \in 1..s
      BY <1>1, <2>2
    <3>2. l[k - m] = <<p.of, (p.from + m) + (k - m) - 1>>
      BY <1>4, <3>1
    <3>3. (p.from + m) + (k - m) - 1 = p.from + k - 1
      BY <1>1
    <3> QED
      BY <1>3, <1>5, <2>2, <3>2, <3>3
  <2> QED
    BY <2>1, <2>2
<1>7. a \o l = b
  BY <1>3, <1>5, <1>6, SeqEqual
<1> QED
  BY <1>7 DEF a, b, l, s

Cut(p, i) == [p EXCEPT !.from = @ + (i - 1) * MaxBytes, !.to = p.from + i * MaxBytes - 1]
LastOf(p) == [p EXCEPT !.from = @ + Len(Cuts(p)) * MaxBytes]

LEMMA CutType ==
  ASSUME NEW p \in Pieces, NEW i \in Nat \ {0}
  PROVE  /\ Cut(p, i) \in Pieces /\ Size(Cut(p, i)) = MaxBytes
         /\ Cut(p, i).of = p.of /\ Cut(p, i).from = p.from + (i - 1) * MaxBytes
<1>1. p.of \in Paragraphs /\ p.from \in Nat /\ p.to \in Nat
      /\ p \in [of: Paragraphs, from: Nat, to: Nat]
  BY DEF Pieces
<1>2. MaxBytes \in Nat /\ MaxBytes > 0
  BY MessagesAssumption
<1> DEFINE before == (i - 1) * MaxBytes
           upTo == i * MaxBytes
<1>3. before \in Nat /\ upTo = before + MaxBytes /\ upTo \in Nat
  BY <1>2
<1>4. Cut(p, i) = [p EXCEPT !.from = p.from + before, !.to = p.from + upTo - 1]
  BY <1>1 DEF Cut
<1> HIDE DEF before, upTo
<1>5. p.from + before \in Nat /\ p.from + upTo - 1 \in Nat
      /\ p.from + before <= p.from + upTo - 1
  BY <1>1, <1>2, <1>3
<1>6. Cut(p, i) \in [of: Paragraphs, from: Nat, to: Nat] /\ Cut(p, i).of = p.of
      /\ Cut(p, i).from = p.from + before /\ Cut(p, i).to = p.from + upTo - 1
  BY <1>1, <1>4, <1>5
<1>7. Cut(p, i) \in Pieces
  BY <1>5, <1>6 DEF Pieces
<1>8. Size(Cut(p, i)) = MaxBytes
  BY <1>1, <1>2, <1>3, <1>6 DEF Size
<1> QED
  BY <1>6, <1>7, <1>8 DEF before

LEMMA CutsType ==
  ASSUME NEW p \in Pieces
  PROVE  /\ Cuts(p) \in Seq(Blocks)
         /\ \A i \in 1..Len(Cuts(p)) : /\ Cuts(p)[i] = <<Cut(p, i)>>
                                       /\ SizeOf(Cuts(p)[i]) = MaxBytes
         /\ LastOf(p) \in Pieces /\ LastOf(p).of = p.of
         /\ LastOf(p).from = p.from + Len(Cuts(p)) * MaxBytes
         /\ Len(Cuts(p)) * MaxBytes + Size(LastOf(p)) = Size(p)
         /\ Size(LastOf(p)) <= MaxBytes
         /\ Size(p) <= MaxBytes => Cuts(p) = <<>>
<1> DEFINE n == (Size(p) - 1) \div MaxBytes
<1>1. p.from \in Nat /\ p.to \in Nat /\ Size(p) \in Nat \ {0} /\ Size(p) - 1 \in Nat
      /\ p \in [of: Paragraphs, from: Nat, to: Nat]
  BY PieceType DEF Pieces
<1>2. MaxBytes \in Nat \ {0}
  BY MessagesAssumption
<1>3. n \in Nat /\ n * MaxBytes <= Size(p) - 1 /\ Size(p) - 1 < n * MaxBytes + MaxBytes
      /\ (Size(p) - 1 < MaxBytes => n = 0)
  BY <1>1, <1>2, Division
<1>4. Cuts(p) = [i \in 1..n |-> <<Cut(p, i)>>]
  BY DEF Cuts, Cut
<1> HIDE DEF n
<1>5. \A i \in 1..n : <<Cut(p, i)>> \in Blocks /\ SizeOf(<<Cut(p, i)>>) = MaxBytes
  BY <1>3, CutType, SizeOfOne
<1>6. Cuts(p) \in Seq(Blocks) /\ Len(Cuts(p)) = n
      /\ \A i \in 1..n : Cuts(p)[i] = <<Cut(p, i)>>
  BY <1>3, <1>4, <1>5
<1> DEFINE skipped == n * MaxBytes
<1>7. skipped \in Nat /\ skipped <= Size(p) - 1 /\ Size(p) - 1 < skipped + MaxBytes
  BY <1>2, <1>3
<1>8. LastOf(p) = [p EXCEPT !.from = p.from + skipped]
  BY <1>1, <1>6 DEF LastOf
<1> HIDE DEF skipped
<1>9. LastOf(p) \in [of: Paragraphs, from: Nat, to: Nat] /\ LastOf(p).of = p.of
      /\ LastOf(p).from = p.from + skipped /\ LastOf(p).to = p.to
  BY <1>1, <1>7, <1>8
<1>10. Size(p) = (p.to - p.from) + 1 /\ Size(LastOf(p)) = (p.to - (p.from + skipped)) + 1
  BY <1>9 DEF Size
<1>11. LastOf(p) \in Pieces /\ skipped + Size(LastOf(p)) = Size(p) /\ Size(LastOf(p)) <= MaxBytes
  BY <1>1, <1>2, <1>7, <1>9, <1>10 DEF Pieces
<1>12. Size(p) <= MaxBytes => Cuts(p) = <<>>
  BY <1>1, <1>2, <1>3, <1>6
<1> QED
  BY <1>5, <1>6, <1>9, <1>11, <1>12 DEF skipped

LEMMA CutsKeepTheBytes ==
  ASSUME NEW p \in Pieces
  PROVE  Bytes(FlattenSeq(Cuts(p)) \o <<LastOf(p)>>) = Line(p)
<1> DEFINE cuts == Cuts(p)
           n == Len(cuts)
           Cutting(i) == FlattenSeq(SubSeq(cuts, 1, i))
           P == {i \in 0..n : /\ Cutting(i) \in Seq(Pieces)
                              /\ Bytes(Cutting(i)) = FirstBytes(p, i * MaxBytes)}
<1>1. cuts \in Seq(Blocks) /\ cuts \in Seq(Seq(Pieces)) /\ n \in Nat /\ MaxBytes \in Nat
  <2>1. Blocks \subseteq Seq(Pieces)
    BY DEF Blocks
  <2> QED
    BY <2>1, CutsType, SeqMonotonic, MessagesAssumption
<1>2. \A i \in 1..n : cuts[i] = <<Cut(p, i)>>
  BY CutsType
<1> HIDE DEF cuts, n
<1>3. 0 \in P
  <2>1. SubSeq(cuts, 1, 0) = <<>>
    BY SubSeqEmpty
  <2>2. FirstBytes(p, 0 * MaxBytes) = <<>>
    <3>1. 0 * MaxBytes = 0
      BY <1>1
    <3> QED
      BY <3>1 DEF FirstBytes
  <2>3. Cutting(0) = <<>>
    BY <2>1, FlatOfNone
  <2> HIDE DEF Cutting
  <2>4. Cutting(0) \in Seq(Pieces)
    BY <2>3, EmptySeq
  <2>5. Bytes(Cutting(0)) = FirstBytes(p, 0 * MaxBytes)
    BY <2>2, <2>3, BytesNone, Zenon
  <2> QED
    BY <1>1, <2>4, <2>5
<1>4. ASSUME NEW i \in 1..n, i - 1 \in P
      PROVE  i \in P
  <2>1. SubSeq(cuts, 1, i) = Append(SubSeq(cuts, 1, i - 1), cuts[i])
        /\ SubSeq(cuts, 1, i - 1) \in Seq(Seq(Pieces)) /\ cuts[i] \in Seq(Pieces)
    BY <1>1 DEF n
  <2>2. Cut(p, i) \in Pieces /\ Size(Cut(p, i)) = MaxBytes /\ Cut(p, i).of = p.of
        /\ Cut(p, i).from = p.from + (i - 1) * MaxBytes
    BY <1>1, CutType
  <2>3. Cutting(i) = Cutting(i - 1) \o <<Cut(p, i)>>
    BY <1>2, <2>1, FlatAppend
  <2>4. Cutting(i - 1) \in Seq(Pieces) /\ <<Cut(p, i)>> \in Seq(Pieces)
        /\ Bytes(Cutting(i - 1)) = FirstBytes(p, (i - 1) * MaxBytes)
    BY <1>4, <2>2
  <2> HIDE DEF Cutting
  <2>5. Cutting(i) \in Seq(Pieces)
    BY <2>3, <2>4
  <2>6. Bytes(Cutting(i)) = Bytes(Cutting(i - 1)) \o Line(Cut(p, i))
    BY <2>2, <2>3, <2>4, BytesConcat, BytesOne
  <2>7. (i - 1) * MaxBytes \in Nat /\ (i - 1) * MaxBytes + MaxBytes = i * MaxBytes
    BY <1>1
  <2>8. FirstBytes(p, (i - 1) * MaxBytes) \o Line(Cut(p, i)) = FirstBytes(p, i * MaxBytes)
    <3> DEFINE m == (i - 1) * MaxBytes
    <3>1. m \in Nat /\ m + MaxBytes = i * MaxBytes /\ Cut(p, i).from = p.from + m
      BY <2>2, <2>7
    <3> HIDE DEF m
    <3>2. FirstBytes(p, m) \o Line(Cut(p, i)) = FirstBytes(p, m + MaxBytes)
      BY <2>2, <3>1, FirstBytesGoOn
    <3> QED
      BY <3>1, <3>2 DEF m
  <2>9. Bytes(Cutting(i)) = FirstBytes(p, i * MaxBytes)
    BY <2>4, <2>6, <2>8
  <2> QED
    BY <2>5, <2>9
<1> HIDE DEF P
<1>5. \A i \in 0..n : i \in P
  BY <1>1, <1>3, <1>4, UpTo
<1>6. Cutting(n) \in Seq(Pieces) /\ Bytes(Cutting(n)) = FirstBytes(p, n * MaxBytes)
  BY <1>1, <1>5 DEF P
<1>7. Cutting(n) = FlattenSeq(cuts)
  BY <1>1, SubSeqFull DEF n
<1>8. LastOf(p) \in Pieces /\ <<LastOf(p)>> \in Seq(Pieces) /\ LastOf(p).of = p.of
      /\ LastOf(p).from = p.from + n * MaxBytes /\ n * MaxBytes + Size(LastOf(p)) = Size(p)
  BY CutsType DEF n, cuts
<1>9. Bytes(FlattenSeq(cuts) \o <<LastOf(p)>>) = FirstBytes(p, n * MaxBytes) \o Line(LastOf(p))
  BY <1>6, <1>7, <1>8, BytesConcat, BytesOne
<1>10. FirstBytes(p, n * MaxBytes) \o Line(LastOf(p)) = FirstBytes(p, Size(p))
  <2> DEFINE m == n * MaxBytes
  <2>1. m \in Nat
    BY <1>1
  <2> HIDE DEF m
  <2>2. FirstBytes(p, m) \o Line(LastOf(p)) = FirstBytes(p, m + Size(LastOf(p)))
    BY <1>8, <2>1, FirstBytesGoOn DEF m
  <2> QED
    BY <1>8, <2>2 DEF m
<1> QED
  BY <1>9, <1>10 DEF FirstBytes, Line, cuts

(***************************** The builder *******************************)

Builders == [parts: Seq(Blocks), open: Seq(Pieces)]

\* All that was added, in order.
Whole(b) == FlattenSeq(b.parts) \o b.open

\* Parts that Telegram takes, the open one included.
Fitting(b) ==
  /\ b \in Builders
  /\ \A i \in DOMAIN b.parts : SizeOf(b.parts[i]) <= MaxBytes
  /\ SizeOf(b.open) <= MaxBytes

LEMMA BlocksAreTexts == Seq(Blocks) \subseteq Seq(Seq(Pieces))
<1>1. Blocks \subseteq Seq(Pieces)
  BY DEF Blocks
<1> QED
  BY <1>1, SeqMonotonic

LEMMA TextsAssociate ==
  ASSUME NEW r \in Seq(Pieces), NEW s \in Seq(Pieces), NEW t \in Seq(Pieces)
  PROVE  (r \o s) \o t = r \o (s \o t)
BY ConcatAssociative

LEMMA WholeType ==
  ASSUME NEW b \in Builders
  PROVE  /\ Whole(b) \in Seq(Pieces) /\ FlattenSeq(b.parts) \in Seq(Pieces)
         /\ b.parts \in Seq(Blocks) /\ b.parts \in Seq(Seq(Pieces)) /\ b.open \in Seq(Pieces)
<1>1. b.parts \in Seq(Blocks) /\ b.open \in Seq(Pieces)
  BY DEF Builders
<1>2. b.parts \in Seq(Seq(Pieces))
  BY <1>1, BlocksAreTexts
<1>3. FlattenSeq(b.parts) \in Seq(Pieces)
  BY <1>2, EmptySeq, FlatAppend
<1> QED
  BY <1>1, <1>2, <1>3 DEF Whole

LEMMA NothingFits == Fitting(Nothing) /\ Whole(Nothing) = <<>>
<1>1. Nothing \in Builders /\ Nothing.parts = <<>> /\ Nothing.open = <<>>
  BY EmptySeq DEF Nothing, Builders
<1>2. <<>> \o <<>> = <<>>
  BY ConcatEmptySeq, EmptySeq
<1>3. SizeOf(<<>>) = 0 /\ MaxBytes \in Nat
  BY MessagesAssumption DEF SizeOf
<1> QED
  BY <1>1, <1>2, <1>3, FlatOfNone DEF Fitting, Whole

LEMMA FlushFits ==
  ASSUME NEW b, Fitting(b)
  PROVE  /\ Fitting(Flush(b)) /\ Flush(b).open = <<>>
         /\ Whole(Flush(b)) = Whole(b) /\ FlattenSeq(Flush(b).parts) = Whole(b)
         /\ b.open = <<>> => Flush(b) = b
         /\ b.open # <<>> => Flush(b).parts = Append(b.parts, b.open)
<1>1. b \in Builders /\ b.parts \in Seq(Blocks) /\ b.open \in Seq(Pieces)
      /\ b.parts \in Seq(Seq(Pieces)) /\ FlattenSeq(b.parts) \in Seq(Pieces)
      /\ Whole(b) \in Seq(Pieces)
  BY WholeType DEF Fitting
<1>2. SizeOf(<<>>) = 0 /\ MaxBytes \in Nat
  BY MessagesAssumption DEF SizeOf
<1>3. CASE b.open = <<>>
  <2>1. Flush(b) = b /\ Whole(b) = FlattenSeq(b.parts)
    BY <1>1, <1>3, ConcatEmptySeq DEF Flush, Whole
  <2> QED
    BY <1>3, <2>1
<1>4. CASE b.open # <<>>
  <2> DEFINE parts == Append(b.parts, b.open)
  <2>1. Flush(b).parts = parts /\ Flush(b).open = <<>>
        /\ Flush(b) = [parts |-> parts, open |-> <<>>]
    BY <1>4 DEF Flush
  <2>2. b.open \in Blocks
    BY <1>1, <1>4 DEF Blocks
  <2>3. parts \in Seq(Blocks) /\ Len(parts) = Len(b.parts) + 1 /\ parts[Len(b.parts) + 1] = b.open
        /\ \A i \in 1..Len(b.parts) : parts[i] = b.parts[i]
    BY <1>1, <2>2
  <2>4. FlattenSeq(parts) = Whole(b)
    BY <1>1, FlatAppend DEF Whole
  <2> HIDE DEF parts
  <2>5. Flush(b) \in Builders
    BY <2>1, <2>3, EmptySeq DEF Builders
  <2>6. \A i \in DOMAIN parts : SizeOf(parts[i]) <= MaxBytes
    BY <1>1, <2>3 DEF Fitting
  <2>7. Whole(Flush(b)) = Whole(b)
    BY <1>1, <2>1, <2>4, ConcatEmptySeq DEF Whole
  <2> QED
    BY <1>2, <1>4, <2>1, <2>4, <2>5, <2>6, <2>7 DEF Fitting, parts
<1> QED
  BY <1>3, <1>4

LEMMA MakeRoomFits ==
  ASSUME NEW b, Fitting(b), NEW size \in Nat
  PROVE  /\ Fitting(MakeRoom(b, size)) /\ Whole(MakeRoom(b, size)) = Whole(b)
         /\ MakeRoom(b, size).open = <<>>
            \/ SizeOf(MakeRoom(b, size).open) + Gap + size <= MaxBytes
         /\ MakeRoom(b, size) \in {b, Flush(b)}
BY FlushFits DEF MakeRoom, HasRoom

\* A text that fits goes on from where room was made.
LEMMA AppendFits ==
  ASSUME NEW b, Fitting(b), NEW text \in Blocks, SizeOf(text) <= MaxBytes,
         b.open = <<>> \/ SizeOf(b.open) + Gap + SizeOf(text) <= MaxBytes
  PROVE  /\ Fitting([b EXCEPT !.open = b.open \o text])
         /\ Whole([b EXCEPT !.open = b.open \o text]) = Whole(b) \o text
<1>1. b \in Builders /\ b.parts \in Seq(Blocks) /\ b.open \in Seq(Pieces)
      /\ FlattenSeq(b.parts) \in Seq(Pieces)
  BY WholeType DEF Fitting
<1>2. text \in Seq(Pieces) /\ SizeOf(text) \in Nat /\ Gap \in Nat /\ MaxBytes \in Nat
  BY SizeOfBlock, MessagesAssumption DEF Blocks
<1> DEFINE open == b.open \o text
           c == [b EXCEPT !.open = open]
<1>3. open \in Seq(Pieces) /\ SizeOf(open) <= MaxBytes
  BY <1>1, <1>2, SizeOfJoined
<1>4. Whole(b) \o text = FlattenSeq(b.parts) \o open
  <2>1. (FlattenSeq(b.parts) \o b.open) \o text = FlattenSeq(b.parts) \o (b.open \o text)
    BY <1>1, <1>2, TextsAssociate
  <2> QED
    BY <2>1 DEF Whole
<1> HIDE DEF open
<1>5. c \in Builders /\ c.parts = b.parts /\ c.open = open
  BY <1>1, <1>3 DEF Builders
<1> HIDE DEF c
<1>6. Fitting(c) /\ Whole(c) = Whole(b) \o text
  BY <1>3, <1>4, <1>5 DEF Fitting, Whole
<1> QED
  BY <1>6 DEF c, open

\* Parts that fit are appended to a builder that has none open.
LEMMA PartsFit ==
  ASSUME NEW b, Fitting(b), b.open = <<>>, NEW more \in Seq(Blocks), NEW open \in Seq(Pieces),
         \A i \in DOMAIN more : SizeOf(more[i]) <= MaxBytes, SizeOf(open) <= MaxBytes
  PROVE  /\ Fitting([parts |-> b.parts \o more, open |-> open])
         /\ Whole([parts |-> b.parts \o more, open |-> open]) =
              Whole(b) \o (FlattenSeq(more) \o open)
<1>1. b \in Builders /\ b.parts \in Seq(Blocks) /\ b.parts \in Seq(Seq(Pieces))
      /\ FlattenSeq(b.parts) \in Seq(Pieces)
  BY WholeType DEF Fitting
<1>2. more \in Seq(Seq(Pieces)) /\ FlattenSeq(more) \in Seq(Pieces)
  BY BlocksAreTexts, FlatAppend, EmptySeq
<1> DEFINE parts == b.parts \o more
           c == [parts |-> parts, open |-> open]
<1>3. parts \in Seq(Blocks)
  BY <1>1
<1>4. \A i \in DOMAIN parts : SizeOf(parts[i]) <= MaxBytes
  <2>1. DOMAIN parts = 1..(Len(b.parts) + Len(more))
    BY <1>1
  <2>2. ASSUME NEW i \in 1..(Len(b.parts) + Len(more))
        PROVE  parts[i] \in {b.parts[j] : j \in 1..Len(b.parts)} \cup
                            {more[j] : j \in 1..Len(more)}
    BY <1>1
  <2>3. \A j \in 1..Len(b.parts) : SizeOf(b.parts[j]) <= MaxBytes
    BY <1>1 DEF Fitting
  <2>4. \A j \in 1..Len(more) : SizeOf(more[j]) <= MaxBytes
    OBVIOUS
  <2> HIDE DEF parts
  <2> QED
    BY <2>1, <2>2, <2>3, <2>4
<1>5. FlattenSeq(parts) = FlattenSeq(b.parts) \o FlattenSeq(more)
  BY <1>1, <1>2, FlatConcat
<1>6. FlattenSeq(parts) \o open = FlattenSeq(b.parts) \o (FlattenSeq(more) \o open)
  BY <1>1, <1>2, <1>5, ConcatAssociative
<1>7. Whole(b) = FlattenSeq(b.parts)
  BY <1>1, ConcatEmptySeq DEF Whole
<1> HIDE DEF parts
<1>8. Fitting(c)
  BY <1>3, <1>4 DEF Fitting, Builders
<1>9. Whole(c) = Whole(b) \o (FlattenSeq(more) \o open)
  BY <1>6, <1>7 DEF Whole
<1> QED
  BY <1>8, <1>9 DEF parts

LEMMA AddParagraphFits ==
  ASSUME NEW b, Fitting(b), NEW p \in Pieces
  PROVE  /\ Fitting(AddParagraph(b, p))
         /\ Bytes(Whole(AddParagraph(b, p))) = Bytes(Whole(b)) \o Line(p)
<1> DEFINE m == MakeRoom(b, Size(p))
           f == Flush(m)
<1>1. Size(p) \in Nat /\ <<p>> \in Blocks /\ <<p>> \in Seq(Pieces) /\ SizeOf(<<p>>) = Size(p)
  BY PieceType, SizeOfOne
<1>2. /\ Fitting(m) /\ Whole(m) = Whole(b)
      /\ m.open = <<>> \/ SizeOf(m.open) + Gap + Size(p) <= MaxBytes
  BY <1>1, MakeRoomFits
<1>3. Whole(b) \in Seq(Pieces) /\ m.open \in Seq(Pieces)
  BY <1>2, WholeType DEF Fitting
<1>4. /\ Cuts(p) \in Seq(Blocks) /\ \A i \in 1..Len(Cuts(p)) : SizeOf(Cuts(p)[i]) = MaxBytes
      /\ LastOf(p) \in Pieces /\ Len(Cuts(p)) * MaxBytes + Size(LastOf(p)) = Size(p)
      /\ Size(LastOf(p)) <= MaxBytes /\ MaxBytes \in Nat
  <2>1. /\ Cuts(p) \in Seq(Blocks) /\ \A i \in 1..Len(Cuts(p)) : SizeOf(Cuts(p)[i]) = MaxBytes
        /\ LastOf(p) \in Pieces /\ Len(Cuts(p)) * MaxBytes + Size(LastOf(p)) = Size(p)
        /\ Size(LastOf(p)) <= MaxBytes
    BY CutsType, Zenon
  <2> QED
    BY <2>1, MessagesAssumption
<1> HIDE DEF m
<1>5. CASE Cuts(p) = <<>>
  <2>1. AddParagraph(b, p) = [m EXCEPT !.open = m.open \o <<p>>]
    <3>1. m.open \o <<p>> = Append(m.open, p)
      BY <1>3
    <3> QED
      BY <1>5, <3>1 DEF AddParagraph, m
  <2>2. SizeOf(<<p>>) <= MaxBytes
    <3>1. Len(Cuts(p)) = 0
      BY <1>5
    <3>2. Len(Cuts(p)) * MaxBytes = 0
      BY <1>4, <3>1
    <3>3. Size(LastOf(p)) \in Nat
      BY <1>4, PieceType
    <3> QED
      BY <1>1, <1>4, <3>2, <3>3
  <2>3. /\ Fitting([m EXCEPT !.open = m.open \o <<p>>])
        /\ Whole([m EXCEPT !.open = m.open \o <<p>>]) = Whole(m) \o <<p>>
    BY <1>1, <1>2, <2>2, AppendFits
  <2>4. Bytes(Whole(b) \o <<p>>) = Bytes(Whole(b)) \o Line(p)
    BY <1>1, <1>3, BytesConcat, BytesOne
  <2> QED
    BY <1>2, <2>1, <2>3, <2>4
<1>6. CASE Cuts(p) # <<>>
  <2> DEFINE open == <<LastOf(p)>>
             c == [parts |-> f.parts \o Cuts(p), open |-> open]
  <2>1. AddParagraph(b, p) = c
    BY <1>6 DEF AddParagraph, m, LastOf
  <2>2. Fitting(f) /\ f.open = <<>> /\ Whole(f) = Whole(b)
    BY <1>2, FlushFits
  <2>3. open \in Seq(Pieces) /\ SizeOf(open) <= MaxBytes
    BY <1>4, SizeOfOne
  <2>4. \A i \in DOMAIN Cuts(p) : SizeOf(Cuts(p)[i]) <= MaxBytes
    BY <1>4
  <2> HIDE DEF f, open
  <2>5. /\ Fitting(c)
        /\ Whole(c) = Whole(f) \o (FlattenSeq(Cuts(p)) \o open)
    BY <1>4, <2>2, <2>3, <2>4, PartsFit
  <2>6. FlattenSeq(Cuts(p)) \o open \in Seq(Pieces)
    <3>1. FlattenSeq(Cuts(p)) \in Seq(Pieces)
      BY <1>4, BlocksAreTexts, FlatAppend, EmptySeq
    <3> QED
      BY <2>3, <3>1
  <2>7. Bytes(Whole(c)) = Bytes(Whole(b)) \o Line(p)
    BY <1>3, <2>2, <2>5, <2>6, BytesConcat, CutsKeepTheBytes DEF open
  <2> HIDE DEF c
  <2> QED
    BY <2>1, <2>5, <2>7
<1> QED
  BY <1>5, <1>6

(*************************** A text is split *****************************)

FittingBuilders == {b \in Builders : Fitting(b)}

ParagraphStep == [p \in Pieces |-> [b \in FittingBuilders |-> AddParagraph(b, p)]]

LEMMA SplitIsALoop ==
  ASSUME NEW text \in Seq(Pieces), ~(SizeOf(text) <= MaxBytes)
  PROVE  \E f : /\ IsLoop(f, text, FittingBuilders, Nothing, ParagraphStep)
                /\ SplitMessage(text) = Flush(f[Len(text)]).parts
<1> DEFINE n == Len(text)
           G(g) == [i \in 0..n |-> IF i = 0 THEN Nothing ELSE AddParagraph(g[i - 1], text[i])]
           g == CHOOSE h : h = G(h)
<1>1. n \in Nat /\ \A i \in 1..n : text[i] \in Pieces
  OBVIOUS
<1>2. ParagraphStep \in Steps(Pieces, FittingBuilders)
  <2>1. \A p \in Pieces : \A b \in FittingBuilders : AddParagraph(b, p) \in FittingBuilders
    BY AddParagraphFits DEF FittingBuilders, Fitting
  <2> QED
    BY <2>1 DEF ParagraphStep, Steps
<1>3. Nothing \in FittingBuilders
  BY NothingFits DEF FittingBuilders, Fitting
<1>4. PICK f : IsLoop(f, text, FittingBuilders, Nothing, ParagraphStep)
  <2> HIDE DEF G, g
  <2> QED
    BY <1>2, <1>3, LoopsEnd, Zenon
<1>5. f \in [0..n -> FittingBuilders] /\ f[0] = Nothing
      /\ \A i \in 1..n : f[i] = ParagraphStep[text[i]][f[i - 1]]
  BY <1>4 DEF IsLoop
<1>6. ASSUME NEW i \in 1..n
      PROVE  f[i] = AddParagraph(f[i - 1], text[i])
  <2>1. f[i - 1] \in FittingBuilders
    BY <1>1, <1>5
  <2> QED
    BY <1>1, <1>5, <2>1 DEF ParagraphStep
<1>7. f = G(f)
  BY <1>1, <1>5, <1>6
<1>8. g = G(g)
  <2> HIDE DEF G
  <2> QED
    BY <1>7, Zenon
<1>9. SplitMessage(text) = Flush(g[n]).parts
  BY DEF SplitMessage
<1>10. g[0] = Nothing /\ \A i \in 1..n : g[i] = AddParagraph(g[i - 1], text[i])
  <2> HIDE DEF g
  <2> QED
    BY <1>1, <1>8
<1> DEFINE P == {i \in 0..n : g[i] = f[i]}
<1> HIDE DEF g, G
<1>11. 0 \in P
  BY <1>1, <1>5, <1>10
<1>12. ASSUME NEW i \in 1..n, i - 1 \in P
       PROVE  i \in P
  BY <1>1, <1>6, <1>10, <1>12
<1> HIDE DEF P
<1>13. \A i \in 0..n : i \in P
  BY <1>1, <1>11, <1>12, UpTo
<1>14. g[n] = f[n]
  BY <1>1, <1>13 DEF P
<1>15. SplitMessage(text) = Flush(f[n]).parts
  BY <1>9, <1>14
<1> QED
  BY <1>4, <1>15

\* A prefix of a sequence goes on by one element.
LEMMA PrefixGoesOn ==
  ASSUME NEW E, NEW s \in Seq(E), NEW i \in 1..Len(s)
  PROVE  /\ SubSeq(s, 1, i) = Append(SubSeq(s, 1, i - 1), s[i])
         /\ SubSeq(s, 1, i - 1) \in Seq(E) /\ SubSeq(s, 1, i) \in Seq(E) /\ s[i] \in E
OBVIOUS

LEMMA SplitFits ==
  ASSUME NEW text \in Blocks
  PROVE  /\ SplitMessage(text) \in Seq(Blocks)
         /\ \A i \in DOMAIN SplitMessage(text) : SizeOf(SplitMessage(text)[i]) <= MaxBytes
         /\ Bytes(FlattenSeq(SplitMessage(text))) = Bytes(text)
<1>1. text \in Seq(Pieces)
  BY DEF Blocks
<1>2. CASE SizeOf(text) <= MaxBytes
  <2>1. SplitMessage(text) = <<text>>
    BY <1>2 DEF SplitMessage
  <2>2. FlattenSeq(<<text>>) = text
    BY <1>1, FlatOfOne
  <2>3. <<text>> \in Seq(Blocks) /\ \A i \in DOMAIN <<text>> : SizeOf(<<text>>[i]) <= MaxBytes
    BY <1>2
  <2> QED
    BY <2>1, <2>2, <2>3
<1>3. CASE ~(SizeOf(text) <= MaxBytes)
  <2> DEFINE n == Len(text)
  <2>1. PICK f : /\ IsLoop(f, text, FittingBuilders, Nothing, ParagraphStep)
                 /\ SplitMessage(text) = Flush(f[n]).parts
    BY <1>1, <1>3, SplitIsALoop
  <2>2. f \in [0..n -> FittingBuilders] /\ f[0] = Nothing
        /\ \A i \in 1..n : f[i] = ParagraphStep[text[i]][f[i - 1]]
    BY <2>1 DEF IsLoop
  <2>3. n \in Nat
    BY <1>1
  <2> DEFINE P == {i \in 0..n : Bytes(Whole(f[i])) = Bytes(SubSeq(text, 1, i))}
  <2>4. 0 \in P
    <3>1. SubSeq(text, 1, 0) = <<>>
      BY SubSeqEmpty
    <3>2. Whole(f[0]) = <<>>
      BY <2>2, NothingFits
    <3>3. Bytes(Whole(f[0])) = Bytes(SubSeq(text, 1, 0))
      BY <3>1, <3>2, Zenon
    <3> QED
      BY <2>3, <3>3
  <2>5. ASSUME NEW i \in 1..n, i - 1 \in P
        PROVE  i \in P
    <3>1. /\ SubSeq(text, 1, i) = Append(SubSeq(text, 1, i - 1), text[i])
          /\ SubSeq(text, 1, i - 1) \in Seq(Pieces) /\ text[i] \in Pieces
      BY <1>1, PrefixGoesOn
    <3>2. f[i - 1] \in FittingBuilders /\ Fitting(f[i - 1])
      BY <2>2, <2>3 DEF FittingBuilders
    <3>3. f[i] = AddParagraph(f[i - 1], text[i])
      BY <2>2, <3>1, <3>2 DEF ParagraphStep
    <3>4. Bytes(Whole(f[i])) = Bytes(Whole(f[i - 1])) \o Line(text[i])
      BY <3>1, <3>2, <3>3, AddParagraphFits
    <3>5. Bytes(SubSeq(text, 1, i)) = Bytes(SubSeq(text, 1, i - 1)) \o Line(text[i])
      BY <3>1, BytesAppend
    <3>6. Bytes(Whole(f[i - 1])) = Bytes(SubSeq(text, 1, i - 1))
      BY <2>5
    <3>7. Bytes(Whole(f[i])) = Bytes(SubSeq(text, 1, i))
      BY <3>4, <3>5, <3>6
    <3> QED
      BY <2>3, <3>7
  <2> HIDE DEF P
  <2>6. \A i \in 0..n : i \in P
    BY <2>3, <2>4, <2>5, UpTo
  <2>7. Bytes(Whole(f[n])) = Bytes(SubSeq(text, 1, n))
    BY <2>3, <2>6 DEF P
  <2>8. SubSeq(text, 1, n) = text
    BY <1>1, SubSeqFull
  <2>9. Fitting(f[n])
    BY <2>2, <2>3 DEF FittingBuilders
  <2>10. Fitting(Flush(f[n])) /\ FlattenSeq(Flush(f[n]).parts) = Whole(f[n])
    BY <2>9, FlushFits
  <2> QED
    BY <2>1, <2>7, <2>8, <2>10 DEF Fitting, Builders
<1> QED
  BY <1>2, <1>3

LEMMA AddBlockFits ==
  ASSUME NEW b, Fitting(b), NEW block \in Blocks
  PROVE  /\ Fitting(AddBlock(b, block))
         /\ Bytes(Whole(AddBlock(b, block))) = Bytes(Whole(b)) \o Bytes(block)
<1> DEFINE m == MakeRoom(b, SizeOf(block))
           f == Flush(m)
           split == SplitMessage(block)
<1>1. SizeOf(block) \in Nat /\ block \in Seq(Pieces) /\ MaxBytes \in Nat
  BY SizeOfBlock, MessagesAssumption DEF Blocks
<1>2. /\ Fitting(m) /\ Whole(m) = Whole(b)
      /\ m.open = <<>> \/ SizeOf(m.open) + Gap + SizeOf(block) <= MaxBytes
  BY <1>1, MakeRoomFits
<1>3. Whole(b) \in Seq(Pieces) /\ m \in Builders
  BY <1>2, WholeType DEF Fitting
<1>4. CASE SizeOf(block) > MaxBytes
  <2>1. Fitting(f) /\ f.open = <<>> /\ Whole(f) = Whole(b) /\ f \in Builders
    BY <1>2, FlushFits DEF Fitting
  <2>2. split \in Seq(Blocks) /\ \A i \in DOMAIN split : SizeOf(split[i]) <= MaxBytes
    BY SplitFits
  <2>3. Bytes(FlattenSeq(split)) = Bytes(block)
    BY SplitFits
  <2> DEFINE c == [parts |-> f.parts \o split, open |-> <<>>]
  <2>4. AddBlock(b, block) = [f EXCEPT !.parts = f.parts \o split]
    BY <1>4 DEF AddBlock
  <2> HIDE DEF m, f, split
  <2>5. AddBlock(b, block) = c
    <3>1. f = [parts |-> f.parts, open |-> f.open] /\ f.open = <<>>
      BY <2>1 DEF Builders
    <3> HIDE DEF c
    <3>2. [f EXCEPT !.parts = f.parts \o split] =
            [[parts |-> f.parts, open |-> <<>>] EXCEPT !.parts = f.parts \o split]
      BY <3>1
    <3> QED
      BY <2>4, <3>2 DEF c
  <2>6. SizeOf(<<>>) <= MaxBytes /\ <<>> \in Seq(Pieces)
    BY <1>1, EmptySeq DEF SizeOf
  <2>7. Fitting(c) /\ Whole(c) = Whole(f) \o (FlattenSeq(split) \o <<>>)
    BY <2>1, <2>2, <2>6, PartsFit
  <2>8. FlattenSeq(split) \in Seq(Pieces)
    BY <2>2, BlocksAreTexts, FlatAppend, EmptySeq
  <2>9. FlattenSeq(split) \o <<>> = FlattenSeq(split)
    BY <2>8, ConcatEmptySeq
  <2>10. Bytes(Whole(c)) = Bytes(Whole(b)) \o Bytes(block)
    BY <1>3, <2>1, <2>3, <2>7, <2>8, <2>9, BytesConcat
  <2> HIDE DEF c
  <2> QED
    BY <2>5, <2>7, <2>10
<1>5. CASE ~(SizeOf(block) > MaxBytes)
  <2>1. AddBlock(b, block) = [m EXCEPT !.open = m.open \o block]
    BY <1>5 DEF AddBlock
  <2>2. SizeOf(block) <= MaxBytes
    BY <1>1, <1>5
  <2> HIDE DEF m
  <2>3. /\ Fitting([m EXCEPT !.open = m.open \o block])
        /\ Whole([m EXCEPT !.open = m.open \o block]) = Whole(m) \o block
    BY <1>2, <2>2, AppendFits
  <2>4. Bytes(Whole(b) \o block) = Bytes(Whole(b)) \o Bytes(block)
    BY <1>1, <1>3, BytesConcat
  <2> QED
    BY <1>2, <2>1, <2>3, <2>4
<1> QED
  BY <1>4, <1>5

(*************************** A digest is cut *****************************)

BlockStep == [block \in Blocks |-> [b \in FittingBuilders |-> AddBlock(b, block)]]

LEMMA DigestIsALoop ==
  ASSUME NEW blocks \in Seq(Blocks)
  PROVE  \E f : /\ IsLoop(f, blocks, FittingBuilders, Nothing, BlockStep)
                /\ DigestParts(blocks) = Flush(f[Len(blocks)]).parts
<1> DEFINE n == Len(blocks)
           G(g) == [i \in 0..n |-> IF i = 0 THEN Nothing ELSE AddBlock(g[i - 1], blocks[i])]
           g == CHOOSE h : h = G(h)
<1>1. n \in Nat /\ \A i \in 1..n : blocks[i] \in Blocks
  OBVIOUS
<1>2. BlockStep \in Steps(Blocks, FittingBuilders)
  <2>1. \A x \in Blocks : \A b \in FittingBuilders : AddBlock(b, x) \in FittingBuilders
    BY AddBlockFits DEF FittingBuilders, Fitting
  <2> QED
    BY <2>1 DEF BlockStep, Steps
<1>3. Nothing \in FittingBuilders
  BY NothingFits DEF FittingBuilders, Fitting
<1>4. PICK f : IsLoop(f, blocks, FittingBuilders, Nothing, BlockStep)
  <2> HIDE DEF G, g
  <2> QED
    BY <1>2, <1>3, LoopsEnd, Zenon
<1>5. f \in [0..n -> FittingBuilders] /\ f[0] = Nothing
      /\ \A i \in 1..n : f[i] = BlockStep[blocks[i]][f[i - 1]]
  BY <1>4 DEF IsLoop
<1>6. ASSUME NEW i \in 1..n
      PROVE  f[i] = AddBlock(f[i - 1], blocks[i])
  <2>1. f[i - 1] \in FittingBuilders
    BY <1>1, <1>5
  <2> QED
    BY <1>1, <1>5, <2>1 DEF BlockStep
<1>7. f = G(f)
  BY <1>1, <1>5, <1>6
<1>8. g = G(g)
  <2> HIDE DEF G
  <2> QED
    BY <1>7, Zenon
<1>9. DigestParts(blocks) = Flush(g[n]).parts
  BY DEF DigestParts
<1>10. g[0] = Nothing /\ \A i \in 1..n : g[i] = AddBlock(g[i - 1], blocks[i])
  <2> HIDE DEF g
  <2> QED
    BY <1>1, <1>8
<1> DEFINE P == {i \in 0..n : g[i] = f[i]}
<1> HIDE DEF g, G
<1>11. 0 \in P
  BY <1>1, <1>5, <1>10
<1>12. ASSUME NEW i \in 1..n, i - 1 \in P
       PROVE  i \in P
  BY <1>1, <1>6, <1>10, <1>12
<1> HIDE DEF P
<1>13. \A i \in 0..n : i \in P
  BY <1>1, <1>11, <1>12, UpTo
<1>14. g[n] = f[n]
  BY <1>1, <1>13 DEF P
<1>15. DigestParts(blocks) = Flush(f[n]).parts
  BY <1>9, <1>14
<1> QED
  BY <1>4, <1>15

\* What the builder is after each block of a digest.
Reads(f, blocks) ==
  /\ f[0] = Nothing /\ \A i \in 0..Len(blocks) : Fitting(f[i])
  /\ \A i \in 1..Len(blocks) : f[i] = AddBlock(f[i - 1], blocks[i])
  /\ DigestParts(blocks) = Flush(f[Len(blocks)]).parts

LEMMA DigestsAreRead ==
  ASSUME NEW blocks \in Seq(Blocks)
  PROVE  \E f : Reads(f, blocks)
<1> DEFINE n == Len(blocks)
<1>1. PICK f : /\ IsLoop(f, blocks, FittingBuilders, Nothing, BlockStep)
               /\ DigestParts(blocks) = Flush(f[n]).parts
  BY DigestIsALoop
<1>2. f \in [0..n -> FittingBuilders] /\ f[0] = Nothing
      /\ \A i \in 1..n : f[i] = BlockStep[blocks[i]][f[i - 1]]
  BY <1>1 DEF IsLoop
<1>3. \A i \in 0..n : Fitting(f[i]) /\ f[i] \in FittingBuilders
  BY <1>2 DEF FittingBuilders
<1>4. ASSUME NEW i \in 1..n
      PROVE  f[i] = AddBlock(f[i - 1], blocks[i])
  <2>1. i - 1 \in 0..n /\ blocks[i] \in Blocks
    OBVIOUS
  <2> QED
    BY <1>2, <1>3, <2>1 DEF BlockStep
<1>5. Reads(f, blocks)
  BY <1>1, <1>2, <1>3, <1>4 DEF Reads
<1> QED
  BY <1>5

\* The parts of a digest are messages that Telegram takes.
LEMMA PartsAreTaken ==
  ASSUME NEW blocks \in Seq(Blocks)
  PROVE  /\ DigestParts(blocks) \in Seq(Blocks)
         /\ \A i \in DOMAIN DigestParts(blocks) :
              /\ DigestParts(blocks)[i] # <<>>
              /\ SizeOf(DigestParts(blocks)[i]) <= MaxBytes
<1> DEFINE n == Len(blocks)
<1>1. PICK f : Reads(f, blocks)
  BY DigestsAreRead
<1>2. n \in 0..n
  OBVIOUS
<1>3. Fitting(Flush(f[n])) /\ DigestParts(blocks) = Flush(f[n]).parts
  BY <1>1, <1>2, FlushFits DEF Reads
<1> DEFINE parts == DigestParts(blocks)
<1>4. parts \in Seq(Blocks) /\ \A i \in DOMAIN parts : SizeOf(parts[i]) <= MaxBytes
  BY <1>3 DEF Fitting, Builders
<1> HIDE DEF parts
<1>5. \A i \in DOMAIN parts : parts[i] # <<>>
  BY <1>4 DEF Blocks
<1> QED
  BY <1>4, <1>5 DEF parts

\* No byte of a digest is lost, doubled or moved.
LEMMA BytesAreKept ==
  ASSUME NEW blocks \in Seq(Blocks)
  PROVE  Bytes(FlattenSeq(DigestParts(blocks))) = Bytes(FlattenSeq(blocks))
<1> DEFINE n == Len(blocks)
           Read(i) == FlattenSeq(SubSeq(blocks, 1, i))
<1>1. PICK f : Reads(f, blocks)
  BY DigestsAreRead
<1>2. n \in Nat /\ blocks \in Seq(Seq(Pieces)) /\ \A i \in 1..n : blocks[i] \in Blocks
  BY BlocksAreTexts
<1> DEFINE P == {i \in 0..n : Bytes(Whole(f[i])) = Bytes(Read(i))}
<1>3. 0 \in P
  <2>1. Read(0) = <<>>
    <3>1. SubSeq(blocks, 1, 0) = <<>>
      BY SubSeqEmpty
    <3> QED
      BY <3>1, FlatOfNone
  <2>2. Whole(f[0]) = <<>>
    BY <1>1, NothingFits DEF Reads
  <2> HIDE DEF Read
  <2>3. Bytes(Whole(f[0])) = Bytes(Read(0))
    BY <2>1, <2>2, Zenon
  <2> QED
    BY <1>2, <2>3
<1>4. ASSUME NEW i \in 1..n, i - 1 \in P
      PROVE  i \in P
  <2>1. /\ SubSeq(blocks, 1, i) = Append(SubSeq(blocks, 1, i - 1), blocks[i])
        /\ SubSeq(blocks, 1, i - 1) \in Seq(Seq(Pieces)) /\ blocks[i] \in Seq(Pieces)
    BY <1>2, PrefixGoesOn
  <2>2. Read(i) = Read(i - 1) \o blocks[i] /\ Read(i - 1) \in Seq(Pieces)
    BY <2>1, FlatAppend
  <2> HIDE DEF Read
  <2>3. f[i] = AddBlock(f[i - 1], blocks[i]) /\ Fitting(f[i - 1])
    BY <1>1 DEF Reads
  <2>4. Bytes(Whole(f[i])) = Bytes(Whole(f[i - 1])) \o Bytes(blocks[i])
    BY <1>2, <2>3, AddBlockFits
  <2>5. Bytes(Read(i)) = Bytes(Read(i - 1)) \o Bytes(blocks[i])
    BY <2>1, <2>2, BytesConcat
  <2>6. Bytes(Whole(f[i - 1])) = Bytes(Read(i - 1))
    BY <1>4
  <2>7. Bytes(Whole(f[i])) = Bytes(Read(i))
    BY <2>4, <2>5, <2>6
  <2> QED
    BY <1>2, <2>7
<1> HIDE DEF P
<1>5. \A i \in 0..n : i \in P
  BY <1>2, <1>3, <1>4, UpTo
<1>6. Bytes(Whole(f[n])) = Bytes(Read(n))
  BY <1>2, <1>5 DEF P
<1>7. Read(n) = FlattenSeq(blocks)
  BY SubSeqFull
<1>8. FlattenSeq(DigestParts(blocks)) = Whole(f[n])
  <2>1. Fitting(f[n]) /\ DigestParts(blocks) = Flush(f[n]).parts
    BY <1>1, <1>2 DEF Reads
  <2> QED
    BY <2>1, FlushFits
<1> QED
  BY <1>6, <1>7, <1>8

(************************ A block is in one part *************************)

Holds(b, x) ==
  \/ \E k \in DOMAIN b.parts : ToSet(x) \subseteq ToSet(b.parts[k])
  \/ ToSet(x) \subseteq ToSet(b.open)

LEMMA ToSetOfJoined ==
  ASSUME NEW S, NEW a \in Seq(S), NEW c \in Seq(S)
  PROVE  ToSet(a) \subseteq ToSet(a \o c) /\ ToSet(c) \subseteq ToSet(a \o c)
<1>1. DOMAIN a = 1..Len(a) /\ DOMAIN c = 1..Len(c) /\ DOMAIN (a \o c) = 1..(Len(a) + Len(c))
      /\ Len(a) \in Nat /\ Len(c) \in Nat
  OBVIOUS
<1>2. \A i \in 1..Len(a) : (a \o c)[i] = a[i] /\ i \in 1..(Len(a) + Len(c))
  OBVIOUS
<1>3. \A i \in 1..Len(c) : (a \o c)[Len(a) + i] = c[i] /\ Len(a) + i \in 1..(Len(a) + Len(c))
  OBVIOUS
<1> QED
  BY <1>1, <1>2, <1>3 DEF ToSet

LEMMA HoldsOn ==
  ASSUME NEW b \in Builders, NEW c, NEW more \in Seq(Blocks), c.parts = b.parts \o more,
         ToSet(b.open) \subseteq ToSet(c.open), NEW x, Holds(b, x)
  PROVE  Holds(c, x)
<1>1. b.parts \in Seq(Blocks)
  BY WholeType
<1>2. CASE \E k \in DOMAIN b.parts : ToSet(x) \subseteq ToSet(b.parts[k])
  <2>1. PICK k \in DOMAIN b.parts : ToSet(x) \subseteq ToSet(b.parts[k])
    BY <1>2
  <2>2. k \in DOMAIN (b.parts \o more) /\ (b.parts \o more)[k] = b.parts[k]
    BY <1>1
  <2> QED
    BY <2>1, <2>2 DEF Holds
<1>3. CASE ToSet(x) \subseteq ToSet(b.open)
  BY <1>3 DEF Holds
<1> QED
  BY <1>2, <1>3 DEF Holds

LEMMA FlushHolds ==
  ASSUME NEW b, Fitting(b), NEW x \in Blocks, Holds(b, x)
  PROVE  /\ \E k \in DOMAIN Flush(b).parts : ToSet(x) \subseteq ToSet(Flush(b).parts[k])
         /\ Holds(Flush(b), x)
<1>1. b.parts \in Seq(Blocks) /\ b.open \in Seq(Pieces)
  BY WholeType DEF Fitting
<1>2. ~(ToSet(x) \subseteq ToSet(<<>>))
  <2>1. x \in Seq(Pieces) /\ x # <<>>
    BY DEF Blocks
  <2>2. 1 \in DOMAIN x
    BY <2>1
  <2>3. x[1] \in ToSet(x)
    BY <2>2 DEF ToSet
  <2>4. ToSet(<<>>) = {}
    BY DEF ToSet
  <2> QED
    BY <2>3, <2>4
<1>3. CASE b.open = <<>>
  BY <1>2, <1>3, FlushFits DEF Holds
<1>4. CASE b.open # <<>>
  <2> DEFINE parts == Append(b.parts, b.open)
  <2>1. Flush(b).parts = parts
    BY <1>4, FlushFits
  <2>2. b.open \in Blocks
    BY <1>1, <1>4 DEF Blocks
  <2>3. /\ DOMAIN parts = 1..(Len(b.parts) + 1) /\ parts[Len(b.parts) + 1] = b.open
        /\ \A k \in DOMAIN b.parts : parts[k] = b.parts[k] /\ k \in 1..(Len(b.parts) + 1)
        /\ Len(b.parts) + 1 \in 1..(Len(b.parts) + 1)
    BY <1>1, <2>2
  <2> HIDE DEF parts
  <2>4. \E k \in DOMAIN parts : ToSet(x) \subseteq ToSet(parts[k])
    BY <2>3 DEF Holds
  <2> QED
    BY <2>1, <2>4 DEF Holds
<1> QED
  BY <1>3, <1>4

LEMMA AddBlockHolds ==
  ASSUME NEW b, Fitting(b), NEW y \in Blocks
  PROVE  /\ \A x \in Blocks : Holds(b, x) => Holds(AddBlock(b, y), x)
         /\ SizeOf(y) <= MaxBytes => Holds(AddBlock(b, y), y)
<1> DEFINE m == MakeRoom(b, SizeOf(y))
           f == Flush(m)
           c == AddBlock(b, y)
<1>1. SizeOf(y) \in Nat /\ y \in Seq(Pieces) /\ MaxBytes \in Nat
  BY SizeOfBlock, MessagesAssumption DEF Blocks
<1>2. Fitting(m) /\ m \in {b, Flush(b)}
  BY <1>1, MakeRoomFits
<1>3. \A x \in Blocks : Holds(b, x) => Holds(m, x)
  BY <1>2, FlushHolds
<1> HIDE DEF m
<1>4. CASE SizeOf(y) > MaxBytes
  <2>1. \A x \in Blocks : Holds(m, x) => Holds(f, x)
    BY <1>2, FlushHolds
  <2>2. Fitting(f) /\ f.open = <<>> /\ f \in Builders
    BY <1>2, FlushFits DEF Fitting
  <2> HIDE DEF f
  <2>3. c = [f EXCEPT !.parts = f.parts \o SplitMessage(y)]
    BY <1>4 DEF AddBlock, f, m
  <2>4. c.parts = f.parts \o SplitMessage(y) /\ c.open = f.open
    BY <2>2, <2>3 DEF Builders
  <2>5. SplitMessage(y) \in Seq(Blocks)
    BY SplitFits
  <2> HIDE DEF c
  <2>6. \A x \in Blocks : Holds(f, x) => Holds(c, x)
    BY <2>2, <2>4, <2>5, HoldsOn
  <2> QED
    BY <1>1, <1>3, <1>4, <2>1, <2>6 DEF c
<1>5. CASE ~(SizeOf(y) > MaxBytes)
  <2>1. m \in Builders /\ m.open \in Seq(Pieces) /\ m.parts \in Seq(Blocks)
    BY <1>2, WholeType DEF Fitting
  <2>2. c = [m EXCEPT !.open = m.open \o y]
    BY <1>5 DEF AddBlock, m
  <2>3. c.parts = m.parts /\ c.open = m.open \o y
    BY <2>1, <2>2 DEF Builders
  <2> HIDE DEF c
  <2>4. ToSet(m.open) \subseteq ToSet(c.open) /\ ToSet(y) \subseteq ToSet(c.open)
    BY <1>1, <2>1, <2>3, ToSetOfJoined
  <2>5. \A x \in Blocks : Holds(m, x) => Holds(c, x)
    BY <2>3, <2>4 DEF Holds
  <2>6. Holds(c, y)
    BY <2>4 DEF Holds
  <2> QED
    BY <1>3, <2>5, <2>6 DEF c
<1> QED
  BY <1>4, <1>5

\* A block that fits a message is in one.
LEMMA BlocksAreWhole ==
  ASSUME NEW blocks \in Seq(Blocks), NEW j \in DOMAIN blocks, SizeOf(blocks[j]) <= MaxBytes
  PROVE  \E i \in DOMAIN DigestParts(blocks) :
           ToSet(blocks[j]) \subseteq ToSet(DigestParts(blocks)[i])
<1> DEFINE n == Len(blocks)
<1>1. PICK f : Reads(f, blocks)
  BY DigestsAreRead
<1>2. n \in Nat /\ j \in 1..n /\ \A i \in 1..n : blocks[i] \in Blocks
  OBVIOUS
<1> DEFINE P == {i \in 0..n : j <= i => Holds(f[i], blocks[j])}
<1>3. 0 \in P
  BY <1>2
<1>4. ASSUME NEW i \in 1..n, i - 1 \in P
      PROVE  i \in P
  <2>1. f[i] = AddBlock(f[i - 1], blocks[i]) /\ Fitting(f[i - 1])
    BY <1>1 DEF Reads
  <2>2. j <= i - 1 => Holds(f[i - 1], blocks[j])
    BY <1>4
  <2>3. j <= i - 1 => Holds(f[i], blocks[j])
    BY <1>2, <2>1, <2>2, AddBlockHolds
  <2>4. j = i => Holds(f[i], blocks[j])
    BY <1>2, <2>1, AddBlockHolds
  <2> QED
    BY <1>2, <2>3, <2>4
<1> HIDE DEF P
<1>5. \A i \in 0..n : i \in P
  BY <1>2, <1>3, <1>4, UpTo
<1>6. Holds(f[n], blocks[j])
  BY <1>2, <1>5 DEF P
<1>7. Fitting(f[n]) /\ DigestParts(blocks) = Flush(f[n]).parts
  BY <1>1, <1>2 DEF Reads
<1> QED
  BY <1>2, <1>6, <1>7, FlushHolds

(*************************** As few as can be ****************************)

Flat(blocks, i, j) == FlattenSeq(SubSeq(blocks, i, j))

LEMMA FlatRange ==
  ASSUME NEW blocks \in Seq(Blocks), NEW i \in 1..Len(blocks), NEW j \in i..Len(blocks)
  PROVE  /\ Flat(blocks, i, j) \in Blocks
         /\ i < j => Flat(blocks, i, j) = Flat(blocks, i, j - 1) \o blocks[j]
         /\ i = j => Flat(blocks, i, j) = blocks[j]
<1>1. blocks \in Seq(Seq(Pieces)) /\ blocks[j] \in Blocks /\ blocks[j] \in Seq(Pieces)
  BY BlocksAreTexts
<1> DEFINE before == SubSeq(blocks, i, j - 1)
<1>2. SubSeq(blocks, i, j) = Append(before, blocks[j]) /\ before \in Seq(Seq(Pieces))
  BY <1>1
<1>3. Flat(blocks, i, j) = FlattenSeq(before) \o blocks[j] /\ FlattenSeq(before) \in Seq(Pieces)
  BY <1>1, <1>2, FlatAppend DEF Flat
<1>4. Flat(blocks, i, j) \in Blocks
  BY <1>1, <1>3, SizeOfJoined
<1>5. i = j => before = <<>>
  BY SubSeqEmpty
<1>6. i = j => Flat(blocks, i, j) = blocks[j]
  <2>1. <<>> \o blocks[j] = blocks[j]
    BY <1>1, ConcatEmptySeq
  <2> HIDE DEF before
  <2> QED
    BY <1>3, <1>5, <2>1, FlatOfNone
<1> QED
  BY <1>3, <1>4, <1>6 DEF Flat

\* More blocks are not smaller.
LEMMA RangesGrow ==
  ASSUME NEW blocks \in Seq(Blocks), NEW i \in 1..Len(blocks), NEW j \in i..Len(blocks),
         NEW a \in 1..i, NEW z \in j..Len(blocks)
  PROVE  SizeOf(Flat(blocks, i, j)) <= SizeOf(Flat(blocks, a, z))
<1> DEFINE n == Len(blocks)
           first == SubSeq(blocks, a, i - 1)
           middle == SubSeq(blocks, i, j)
           last == SubSeq(blocks, j + 1, z)
<1>1. blocks \in Seq(Seq(Pieces)) /\ n \in Nat
  BY BlocksAreTexts
<1>2. first \in Seq(Seq(Pieces)) /\ middle \in Seq(Seq(Pieces)) /\ last \in Seq(Seq(Pieces))
  BY <1>1
<1>3. SubSeq(blocks, a, z) = first \o SubSeq(blocks, i, z)
  BY <1>1, ConcatAdjacentSubSeq
<1>4. SubSeq(blocks, i, z) = middle \o last
  BY <1>1, ConcatAdjacentSubSeq
<1>5. Flat(blocks, i, j) \in Blocks /\ Flat(blocks, a, z) \in Blocks
  <2>1. a \in 1..n /\ z \in a..n
    BY <1>1
  <2> HIDE DEF first, middle, last
  <2> QED
    BY <2>1, FlatRange
<1> DEFINE x == FlattenSeq(first)
           y == FlattenSeq(middle)
           w == FlattenSeq(last)
<1>6. Flat(blocks, a, z) = x \o (y \o w) /\ x \in Seq(Pieces) /\ y \in Seq(Pieces)
      /\ w \in Seq(Pieces) /\ Flat(blocks, i, j) = y
  <2> HIDE DEF first, middle, last
  <2>1. middle \o last \in Seq(Seq(Pieces))
    BY <1>2
  <2>2. x \in Seq(Pieces) /\ y \in Seq(Pieces) /\ w \in Seq(Pieces)
    BY <1>2, EmptySeq, FlatAppend
  <2>3. FlattenSeq(middle \o last) = y \o w
    BY <1>2, FlatConcat
  <2>4. FlattenSeq(first \o (middle \o last)) = x \o FlattenSeq(middle \o last)
    BY <1>2, <2>1, FlatConcat
  <2>5. Flat(blocks, a, z) = FlattenSeq(first \o (middle \o last))
    BY <1>3, <1>4 DEF Flat
  <2>6. Flat(blocks, i, j) = y
    BY DEF Flat, middle
  <2> QED
    BY <2>2, <2>3, <2>4, <2>5, <2>6
<1> HIDE DEF x, y, w
<1>7. y \o w \in Seq(Pieces)
  BY <1>6
<1>8. /\ Padded(x \o (y \o w)) = Padded(x) + Padded(y \o w)
      /\ Padded(y \o w) = Padded(y) + Padded(w)
      /\ Padded(x) \in Nat /\ Padded(y) \in Nat /\ Padded(w) \in Nat
  BY <1>6, <1>7, PaddedConcat
<1>9. /\ SizeOf(Flat(blocks, i, j)) = Padded(y) - Gap
      /\ SizeOf(Flat(blocks, a, z)) = Padded(x \o (y \o w)) - Gap
  BY <1>5, <1>6, SizeOfBlock
<1> QED
  BY <1>8, <1>9, MessagesAssumption

\* Where a cutting does not cut between two blocks, one run has both.
LEMMA RunHasBoth ==
  ASSUME NEW n \in Nat, NEW ends \in Cuttings(n), NEW s \in 1..n, NEW j \in s..n,
         \A e \in ends : e < s \/ j <= e
  PROVE  \E r \in RunsOf(ends) : r[1] \in 1..s /\ r[2] \in j..n
<1>1. n \in ends /\ \A e \in ends : e \in Nat /\ 1 <= e /\ e <= n
  BY DEF Cuttings
<1> DEFINE starts == {a \in 1..s : \A e \in ends : e < a \/ s <= e}
           stops == {e \in ends : j <= e}
<1>2. PICK a \in starts : \A b \in starts : a <= b
  <2>1. s \in starts
    BY <1>1
  <2>2. starts \subseteq Nat
    OBVIOUS
  <2> HIDE DEF starts
  <2> QED
    BY <2>1, <2>2, LeastIsThere
<1>3. PICK z \in stops : \A b \in stops : z <= b
  <2>1. n \in stops
    BY <1>1
  <2>2. stops \subseteq Nat
    BY <1>1
  <2> HIDE DEF stops
  <2> QED
    BY <2>1, <2>2, LeastIsThere
<1>4. a \in 1..s /\ \A e \in ends : e < a \/ s <= e
  OBVIOUS
<1>5. z \in ends /\ z \in j..n /\ \A e \in ends : j <= e => z <= e
  BY <1>1, <1>3
<1>6. a \in {1} \cup {e + 1 : e \in ends}
  <2>1. CASE a = 1
    BY <2>1
  <2>2. CASE a # 1
    <3>1. a - 1 \in 1..s /\ a - 1 \notin starts
      BY <1>2, <1>4, <2>2
    <3>2. PICK e \in ends : ~(e < a - 1) /\ ~(s <= e)
      BY <3>1
    <3>3. e \in 1..n /\ e < a
      BY <1>1, <1>4, <3>2
    <3>4. a = e + 1
      BY <1>4, <3>2, <3>3
    <3> QED
      BY <3>4
  <2> QED
    BY <2>1, <2>2
<1>7. a <= z /\ \A e \in ends : e < a \/ z <= e
  BY <1>1, <1>4, <1>5
<1> HIDE DEF starts, stops
<1>8. <<a, z>> \in RunsOf(ends)
  BY <1>5, <1>6, <1>7 DEF RunsOf
<1> QED
  BY <1>4, <1>5, <1>8

\* The parts of another cutting up to a block.
Others(ends, i) == Cardinality({e \in ends : e < i}) + 1

LEMMA OthersGoOn ==
  ASSUME NEW n \in Nat, NEW ends \in Cuttings(n), NEW i \in 1..n
  PROVE  /\ Others(ends, 1) = 1 /\ Others(ends, n) = Cardinality(ends)
         /\ Others(ends, i) \in Nat
         /\ i \in ends => Others(ends, i + 1) = Others(ends, i) + 1
         /\ i \notin ends => Others(ends, i + 1) = Others(ends, i)
<1> DEFINE below(k) == {e \in ends : e < k}
<1>1. n \in ends /\ \A e \in ends : e \in Nat /\ 1 <= e /\ e <= n
  BY DEF Cuttings
<1>2. \A k, e : e \in below(k) <=> e \in ends /\ e < k
  OBVIOUS
<1>3. \A k \in 1..(n + 1) : IsFiniteSet(below(k)) /\ Cardinality(below(k)) \in Nat
  <2>1. IsFiniteSet(1..n)
    BY FS_Interval
  <2> HIDE DEF below
  <2>2. \A k \in 1..(n + 1) : below(k) \subseteq 1..n
    <3>1. \A e \in ends : e \in 1..n
      BY <1>1
    <3> QED
      BY <1>2, <3>1, Zenon
  <2> QED
    BY <2>1, <2>2, FS_Subset, FS_CardinalityType
<1> HIDE DEF below
<1>4. below(1) = {}
  <2>1. \A e \in ends : ~(e < 1)
    BY <1>1
  <2> QED
    BY <1>2, <2>1
<1>5. ends = below(n) \cup {n} /\ n \notin below(n)
  <2>1. \A e \in ends : e < n \/ e = n
    BY <1>1
  <2>2. ~(n < n)
    OBVIOUS
  <2>3. n \notin below(n)
    BY <1>2, <2>2, Zenon
  <2>4. \A e : e \in ends <=> e \in below(n) \/ e = n
    BY <1>1, <1>2, <2>1, Zenon
  <2> QED
    BY <2>3, <2>4
<1>6. \A e \in ends : e < i + 1 <=> e < i \/ e = i
  BY <1>1
<1>7. i \in ends => below(i + 1) = below(i) \cup {i} /\ i \notin below(i)
  <2>1. ~(i < i)
    OBVIOUS
  <2>2. i \notin below(i)
    BY <1>2, <2>1, Zenon
  <2>3. i \in ends => \A e : e \in below(i + 1) <=> e \in below(i) \/ e = i
    BY <1>2, <1>6, Zenon
  <2> QED
    BY <2>2, <2>3
<1>8. i \notin ends => below(i + 1) = below(i)
  BY <1>2, <1>6
<1>9. n \in 1..(n + 1) /\ i \in 1..(n + 1)
  OBVIOUS
<1>10. Others(ends, 1) = Cardinality(below(1)) + 1 /\ Others(ends, n) = Cardinality(below(n)) + 1
       /\ Others(ends, i) = Cardinality(below(i)) + 1
       /\ Others(ends, i + 1) = Cardinality(below(i + 1)) + 1
  BY DEF Others, below
<1>11. Others(ends, 1) = 1
  BY <1>4, <1>10, FS_EmptySet
<1>12. Others(ends, n) = Cardinality(ends)
  BY <1>3, <1>5, <1>9, <1>10, FS_AddElement
<1>13. i \in ends => Others(ends, i + 1) = Others(ends, i) + 1
  BY <1>3, <1>7, <1>9, <1>10, FS_AddElement
<1> QED
  BY <1>3, <1>8, <1>9, <1>10, <1>11, <1>12, <1>13

\* A block that fits goes on with the open part, or the open part has no room for it.
LEMMA AddFittingBlock ==
  ASSUME NEW b, Fitting(b), NEW y \in Blocks, SizeOf(y) <= MaxBytes
  PROVE  \/ AddBlock(b, y).parts = b.parts /\ AddBlock(b, y).open = b.open \o y
         \/ /\ b.open # <<>> /\ SizeOf(b.open \o y) > MaxBytes
            /\ AddBlock(b, y).parts = Append(b.parts, b.open) /\ AddBlock(b, y).open = y
<1> DEFINE m == MakeRoom(b, SizeOf(y))
           c == AddBlock(b, y)
<1>1. SizeOf(y) \in Nat /\ y \in Seq(Pieces) /\ MaxBytes \in Nat /\ Gap \in Nat
  BY SizeOfBlock, MessagesAssumption DEF Blocks
<1>2. Fitting(m) /\ m \in Builders /\ b \in Builders /\ b.open \in Seq(Pieces)
  BY <1>1, MakeRoomFits, WholeType DEF Fitting
<1>3. c = [m EXCEPT !.open = m.open \o y]
  BY <1>1 DEF AddBlock
<1>4. CASE HasRoom(b, SizeOf(y))
  <2>1. m = b
    BY <1>4 DEF MakeRoom
  <2> HIDE DEF m
  <2> QED
    BY <1>2, <1>3, <2>1 DEF Builders
<1>5. CASE ~HasRoom(b, SizeOf(y))
  <2>1. m = Flush(b)
    BY <1>5 DEF MakeRoom
  <2>2. b.open # <<>> /\ ~(SizeOf(b.open) + Gap + SizeOf(y) <= MaxBytes)
    BY <1>5 DEF HasRoom
  <2>3. m.open = <<>> /\ m.parts = Append(b.parts, b.open)
    BY <2>1, <2>2, FlushFits
  <2> HIDE DEF m
  <2>4. c.parts = m.parts /\ c.open = m.open \o y
    BY <1>2, <1>3 DEF Builders
  <2>5. c.open = y
    BY <1>1, <2>3, <2>4, ConcatEmptySeq
  <2>6. SizeOf(b.open \o y) = SizeOf(b.open) + Gap + SizeOf(y) /\ SizeOf(b.open) \in Nat
    BY <1>2, <2>2, SizeOfJoined, SizeOfText
  <2>7. SizeOf(b.open \o y) > MaxBytes
    BY <1>1, <2>2, <2>6
  <2> HIDE DEF c
  <2> QED
    BY <2>2, <2>3, <2>4, <2>5, <2>7 DEF c
<1> QED
  BY <1>4, <1>5

\* The open part has the blocks from the s-th on; another cutting has come to as many
\* parts at least, and if to as many, the part it is in began no later.
Ahead(b, blocks, ends, i, s) ==
  /\ b.open = Flat(blocks, s, i)
  /\ Len(b.parts) + 1 <= Others(ends, i)
  /\ Len(b.parts) + 1 = Others(ends, i) => \A e \in ends : e < i => e < s

LEMMA AheadGoesOn ==
  ASSUME NEW blocks \in Seq(Blocks), \A j \in DOMAIN blocks : SizeOf(blocks[j]) <= MaxBytes,
         NEW ends \in Cuttings(Len(blocks)),
         \A r \in RunsOf(ends) : Fits(blocks, r[1], r[2]),
         NEW i \in 1..Len(blocks), i + 1 \in 1..Len(blocks), NEW s \in 1..i,
         NEW b, Fitting(b), Ahead(b, blocks, ends, i, s)
  PROVE  \E t \in 1..(i + 1) : Ahead(AddBlock(b, blocks[i + 1]), blocks, ends, i + 1, t)
<1> DEFINE n == Len(blocks)
           c == AddBlock(b, blocks[i + 1])
<1>1. n \in Nat /\ i + 1 \in 1..n /\ s \in 1..n /\ i \in 1..n /\ blocks[i + 1] \in Blocks
      /\ SizeOf(blocks[i + 1]) <= MaxBytes /\ MaxBytes \in Nat
  BY MessagesAssumption
<1>2. ends \subseteq 1..n
  BY DEF Cuttings
<1>3. b.open = Flat(blocks, s, i) /\ Len(b.parts) + 1 <= Others(ends, i)
      /\ (Len(b.parts) + 1 = Others(ends, i) => \A e \in ends : e < i => e < s)
  BY DEF Ahead
<1>4. Len(b.parts) \in Nat /\ b.parts \in Seq(Blocks)
  BY WholeType DEF Fitting
<1>5. /\ Others(ends, i) \in Nat
      /\ i \in ends => Others(ends, i + 1) = Others(ends, i) + 1
      /\ i \notin ends => Others(ends, i + 1) = Others(ends, i)
  BY <1>1, OthersGoOn
<1>6. Flat(blocks, s, i + 1) = Flat(blocks, s, i) \o blocks[i + 1]
      /\ Flat(blocks, i + 1, i + 1) = blocks[i + 1] /\ Flat(blocks, s, i + 1) \in Blocks
  <2>1. i + 1 \in s..n /\ s < i + 1 /\ (i + 1) - 1 = i
    BY <1>1
  <2>2. Flat(blocks, s, i + 1) = Flat(blocks, s, (i + 1) - 1) \o blocks[i + 1]
        /\ Flat(blocks, s, i + 1) \in Blocks
    BY <1>1, <2>1, FlatRange
  <2>3. Flat(blocks, i + 1, i + 1) = blocks[i + 1]
    <3>1. i + 1 \in 1..n /\ i + 1 \in (i + 1)..n
      BY <1>1
    <3> QED
      BY <3>1, FlatRange
  <2> QED
    BY <2>1, <2>2, <2>3
<1>7. CASE c.parts = b.parts /\ c.open = b.open \o blocks[i + 1]
  <2> HIDE DEF c
  <2>1. c.open = Flat(blocks, s, i + 1)
    BY <1>3, <1>6, <1>7
  <2>2. Len(c.parts) + 1 <= Others(ends, i + 1)
    BY <1>3, <1>4, <1>5, <1>7
  <2>3. ASSUME Len(c.parts) + 1 = Others(ends, i + 1), NEW e \in ends, e < i + 1
        PROVE  e < s
    <3>1. i \notin ends /\ Len(b.parts) + 1 = Others(ends, i)
      BY <1>3, <1>4, <1>5, <1>7, <2>3
    <3>2. e \in 1..n /\ e # i
      BY <1>2, <3>1
    <3> QED
      BY <1>1, <1>3, <2>3, <3>1, <3>2
  <2>4. Ahead(c, blocks, ends, i + 1, s)
    BY <2>1, <2>2, <2>3 DEF Ahead
  <2> QED
    BY <1>1, <2>4 DEF c
<1>8. CASE /\ SizeOf(b.open \o blocks[i + 1]) > MaxBytes
           /\ c.parts = Append(b.parts, b.open) /\ c.open = blocks[i + 1]
  <2> HIDE DEF c
  <2>1. Len(c.parts) = Len(b.parts) + 1
    BY <1>4, <1>8
  <2>2. ASSUME i \notin ends
        PROVE  Len(b.parts) + 1 # Others(ends, i)
    <3> SUFFICES ASSUME Len(b.parts) + 1 = Others(ends, i)
                 PROVE  FALSE
      OBVIOUS
    <3>1. \A e \in ends : e < s \/ i + 1 <= e
      <4> SUFFICES ASSUME NEW e \in ends
                   PROVE  e < s \/ i + 1 <= e
        OBVIOUS
      <4>1. e \in 1..n /\ e # i /\ (e < i => e < s)
        BY <1>2, <1>3, <2>2
      <4> QED
        BY <1>1, <4>1
    <3>2. i + 1 \in s..n
      BY <1>1
    <3>3. PICK r \in RunsOf(ends) : r[1] \in 1..s /\ r[2] \in (i + 1)..n
      BY <1>1, <3>1, <3>2, RunHasBoth
    <3>4. SizeOf(Flat(blocks, r[1], r[2])) <= MaxBytes
      BY DEF Fits, Flat
    <3>5. SizeOf(Flat(blocks, s, i + 1)) <= SizeOf(Flat(blocks, r[1], r[2]))
      BY <1>1, <3>2, <3>3, RangesGrow
    <3>6. Flat(blocks, r[1], r[2]) \in Blocks
      <4>1. r[1] \in 1..n /\ r[2] \in r[1]..n
        BY <1>1, <3>3
      <4> QED
        BY <4>1, FlatRange
    <3>7. SizeOf(Flat(blocks, r[1], r[2])) \in Nat /\ SizeOf(Flat(blocks, s, i + 1)) \in Nat
      BY <1>6, <3>6, SizeOfBlock
    <3>8. SizeOf(Flat(blocks, s, i + 1)) > MaxBytes
      BY <1>3, <1>6, <1>8
    <3> QED
      BY <1>1, <3>4, <3>5, <3>7, <3>8
  <2>3. Len(c.parts) + 1 <= Others(ends, i + 1)
    BY <1>3, <1>4, <1>5, <2>1, <2>2
  <2>4. \A e \in ends : e < i + 1 => e < i + 1
    OBVIOUS
  <2>5. Ahead(c, blocks, ends, i + 1, i + 1)
    BY <1>6, <1>8, <2>3, <2>4 DEF Ahead
  <2> QED
    BY <1>1, <2>5 DEF c
<1> QED
  BY <1>1, <1>7, <1>8, AddFittingBlock

LEMMA AheadStarts ==
  ASSUME NEW blocks \in Seq(Blocks), \A j \in DOMAIN blocks : SizeOf(blocks[j]) <= MaxBytes,
         NEW ends \in Cuttings(Len(blocks)), 1 \in 1..Len(blocks)
  PROVE  Ahead(AddBlock(Nothing, blocks[1]), blocks, ends, 1, 1)
<1> DEFINE c == AddBlock(Nothing, blocks[1])
           n == Len(blocks)
<1>1. blocks[1] \in Blocks /\ SizeOf(blocks[1]) <= MaxBytes /\ blocks[1] \in Seq(Pieces)
      /\ n \in Nat
  BY DEF Blocks
<1>2. Nothing.parts = <<>> /\ Nothing.open = <<>> /\ Fitting(Nothing)
  BY NothingFits DEF Nothing
<1>3. c.parts = <<>> /\ c.open = <<>> \o blocks[1]
  BY <1>1, <1>2, AddFittingBlock
<1>4. <<>> \o blocks[1] = blocks[1]
  BY <1>1, ConcatEmptySeq
<1>5. Flat(blocks, 1, 1) = blocks[1]
  <2>1. 1 \in 1..n /\ 1 \in 1..Len(blocks)
    OBVIOUS
  <2> QED
    BY <2>1, FlatRange
<1>6. Others(ends, 1) = 1
  BY <1>1, OthersGoOn
<1>7. Len(<<>>) = 0
  OBVIOUS
<1> HIDE DEF c
<1>8. Ahead(c, blocks, ends, 1, 1)
  BY <1>3, <1>4, <1>5, <1>6, <1>7 DEF Ahead
<1> QED
  BY <1>8 DEF c

\* When all blocks fit, no other way to cut between them makes fewer messages.
LEMMA PartsAreFew ==
  ASSUME NEW blocks \in Seq(Blocks), \A j \in DOMAIN blocks : SizeOf(blocks[j]) <= MaxBytes,
         NEW ends \in Cuttings(Len(blocks)),
         \A r \in RunsOf(ends) : Fits(blocks, r[1], r[2])
  PROVE  Len(DigestParts(blocks)) <= Cardinality(ends)
<1> DEFINE n == Len(blocks)
<1>1. PICK f : Reads(f, blocks)
  BY DigestsAreRead
<1>2. n \in Nat /\ n \in 1..n /\ 1 \in 1..n
  <2>1. n \in Nat /\ n \in 1..n
    BY DEF Cuttings
  <2> QED
    BY <2>1
<1> DEFINE Kept(i) == \E s \in 1..i : Ahead(f[i], blocks, ends, i, s)
           P == {i \in 0..n : i = 0 \/ Kept(i)}
<1>3. 0 \in P
  BY <1>2
<1>4. ASSUME NEW i \in 1..n, i - 1 \in P
      PROVE  i \in P
  <2>1. f[i] = AddBlock(f[i - 1], blocks[i]) /\ Fitting(f[i - 1])
    BY <1>1 DEF Reads
  <2>2. CASE i = 1
    <3>1. f[1] = AddBlock(Nothing, blocks[1])
      BY <1>1, <2>1, <2>2 DEF Reads
    <3>2. Ahead(f[1], blocks, ends, 1, 1)
      BY <1>2, <3>1, AheadStarts
    <3>3. Kept(1)
      BY <3>2
    <3> HIDE DEF Kept
    <3> QED
      BY <1>2, <2>2, <3>3
  <2>3. CASE i # 1
    <3> DEFINE k == i - 1
    <3>1. k \in 1..n /\ k + 1 \in 1..n /\ k + 1 = i
      BY <1>2, <2>3
    <3>2. Kept(k)
      BY <1>4, <3>1
    <3> HIDE DEF k, P
    <3>3. PICK s \in 1..k : Ahead(f[k], blocks, ends, k, s)
      BY <3>2
    <3>4. Fitting(f[k]) /\ f[k + 1] = AddBlock(f[k], blocks[k + 1])
      BY <2>1, <3>1 DEF k
    <3>5. Kept(k + 1)
      BY <3>1, <3>3, <3>4, AheadGoesOn
    <3> HIDE DEF Kept
    <3> QED
      BY <3>1, <3>5 DEF P
  <2> QED
    BY <2>2, <2>3
<1> HIDE DEF P
<1>5. \A i \in 0..n : i \in P
  BY <1>2, <1>3, <1>4, UpTo
<1>6. Kept(n)
  BY <1>2, <1>5 DEF P
<1>7. PICK s \in 1..n : Ahead(f[n], blocks, ends, n, s)
  BY <1>6
<1>8. f[n].open # <<>>
  <2>1. Flat(blocks, s, n) \in Blocks
    <3>1. s \in 1..n /\ n \in s..n
      BY <1>2
    <3> QED
      BY <3>1, FlatRange
  <2> QED
    BY <1>7, <2>1 DEF Ahead, Blocks
<1>9. Fitting(f[n]) /\ DigestParts(blocks) = Flush(f[n]).parts
  BY <1>1, <1>2 DEF Reads
<1>10. f[n].parts \in Seq(Blocks) /\ f[n].open \in Seq(Pieces)
  BY <1>9, WholeType DEF Fitting
<1>11. Len(DigestParts(blocks)) = Len(f[n].parts) + 1
  <2>1. DigestParts(blocks) = Append(f[n].parts, f[n].open)
    BY <1>8, <1>9, FlushFits
  <2> QED
    BY <1>10, <2>1
<1>12. Others(ends, n) = Cardinality(ends)
  BY <1>2, OthersGoOn
<1> QED
  BY <1>7, <1>11, <1>12 DEF Ahead

\* Any digest is cut into messages that Telegram takes, without a byte lost, doubled or
\* moved: a block that fits a message is in one, and when all do, no other way to cut
\* between blocks makes fewer messages (DigestParts and splitMessage).
THEOREM AnyDigestIsCutWell ==
  ASSUME NEW blocks \in Seq(Blocks)
  PROVE  CutAsItShouldBe(blocks)
<1> DEFINE parts == DigestParts(blocks)
<1>1. \A i \in DOMAIN parts : parts[i] # <<>> /\ SizeOf(parts[i]) <= MaxBytes
  BY PartsAreTaken
<1>2. Bytes(FlattenSeq(parts)) = Bytes(FlattenSeq(blocks))
  BY BytesAreKept
<1>3. \A j \in DOMAIN blocks : SizeOf(blocks[j]) <= MaxBytes =>
        \E i \in DOMAIN parts : ToSet(blocks[j]) \subseteq ToSet(parts[i])
  BY BlocksAreWhole
<1>4. (\A j \in DOMAIN blocks : SizeOf(blocks[j]) <= MaxBytes) =>
        \A ends \in Cuttings(Len(blocks)) :
          (\A r \in RunsOf(ends) : Fits(blocks, r[1], r[2])) => Len(parts) <= Cardinality(ends)
  BY PartsAreFew
<1> QED
  BY <1>1, <1>2, <1>3, <1>4 DEF CutAsItShouldBe
=============================================================================
