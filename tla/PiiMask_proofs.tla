---------------------------- MODULE PiiMask_proofs ----------------------------
(***************************************************************************)
(* mask_messages for any detectors, any priority among them, any texts and *)
(* any number of messages.                                                 *)
(*                                                                         *)
(* The invariant follows the loops.  Numbering: the tables number the      *)
(* values of a type from 1, each once.  Choosing: what has been accepted   *)
(* lies apart, and what was skipped was skipped for cause.  Masking: the   *)
(* text replaced so far can be read as the text, and left of the spans     *)
(* replaced it still is the text, symbol for symbol.                       *)
(***************************************************************************)
EXTENDS PiiMask, TLAPS

Symbols == {<<"text", a>> : a \in Letters} \union (Types \X Nat)
Spans == [from : Nat, to : Nat, type : Types]
Message ==
    [text : Seq(Symbols), found : SUBSET Spans, accepted : SUBSET Spans, masked : Seq(Symbols)]

Numbering ==
    /\ counts \in [Types -> Nat]
    /\ nextIndexes \in [Types -> Nat]
    /\ \A q \in placeholders : q.type \in Types /\ q.index \in 1..nextIndexes[q.type]
    /\ \A t \in Types : \A i \in 1..nextIndexes[t] :
          \E q \in placeholders : q.type = t /\ q.index = i
    /\ \A q, r \in placeholders :
          q.type = r.type => (q.raw = r.raw <=> q.index = r.index)

Apart(A) == \A c, d \in A : c # d => ~Meet(c, d)

\* c is accepted, or another of a detector before c's is, where they meet.
Settled(c, A) == c \in A \/ \E d \in A : Meet(c, d) /\ Rank(d.type) < Rank(c.type)

Choosing ==
    /\ rank \in 1..Len(Priority) + 1
    /\ text \in Seq(Symbols)
    /\ found \subseteq Candidates(Len(text))
    /\ Disjoint(found)
    /\ accepted \subseteq found
    /\ Apart(accepted)
    /\ \A c \in accepted : \E i \in 1..rank - 1 : c.type = Priority[i] /\ c.type \in Enabled
    /\ \A c \in found : \A i \in 1..rank - 1 :
          c.type = Priority[i] /\ c.type \in Enabled => Settled(c, accepted)

\* The value of a span is in a table P of placeholders.
HasKey(s, c, P) == \E q \in P : q.type = c.type /\ q.raw = Raw(s, c)

\* x is the placeholder of c's value, in the table P.
Names(x, s, c, P) ==
    \E q \in P : q.type = c.type /\ q.raw = Raw(s, c) /\ x = <<c.type, q.index>>

\* Symbol p of w, which ends at ends[p] in s, is a symbol of s outside D, or
\* the placeholder of a span of D.
Own(s, D, w, ends, p) ==
    /\ ends[p] = Start(ends, p) + 1
    /\ \A c \in D : ends[p] \notin c.from + 1..c.to
    /\ w[p] = s[ends[p]]
Holds(s, D, w, ends, p, P) ==
    \E c \in D : StandsFor(ends, p, c) /\ Names(w[p], s, c, P)

Tiled(s, D, w, ends, P) ==
    /\ Start(ends, Len(w) + 1) = Len(s)
    /\ \A p, q \in 1..Len(w) : p < q => ends[p] < ends[q]
    /\ \A p \in 1..Len(w) : Own(s, D, w, ends, p) \/ Holds(s, D, w, ends, p, P)

\* Up to k nothing has been replaced.
Untouched(D, w, ends, k) ==
    (\A d \in D : k <= d.from) => k <= Len(w) /\ \A p \in 1..k : ends[p] = p

\* The spans of A are replaced in w except those of T, which are to the left.
Replacing(s, A, T, w, P) ==
    /\ \A c \in A : HasKey(s, c, P)
    /\ \A c \in T, d \in A \ T : c.to <= d.from
    /\ \E ends \in [1..Len(w) -> 1..Len(s)] :
          /\ Tiled(s, A \ T, w, ends, P)
          /\ \A k \in 0..Len(s) : Untouched(A \ T, w, ends, k)

Masking ==
    /\ phase \in {"next", "collect", "number", "replace"}
    /\ masked \in Seq(Symbols)
    /\ todo \subseteq accepted
    /\ phase \in {"next", "collect"} => todo = {}
    /\ phase \in {"number", "replace"} => rank = Len(Priority) + 1
    /\ phase = "number" => \A c \in accepted \ todo : HasKey(text, c, placeholders)
    /\ phase = "replace" => Replacing(text, accepted, todo, masked, placeholders)

\* What the enabled detectors found in a message.
Detected(m) == {c \in m.found : c.type \in Enabled}

\* What is proved of a message that was masked.
Sound(m, P) ==
    /\ m.accepted \subseteq Candidates(Len(m.text))
    /\ Apart(m.accepted)
    /\ m.accepted \subseteq Detected(m)
    /\ \A c \in m.found : c.type \in Enabled => Settled(c, m.accepted)
    /\ \E ends \in [1..Len(m.masked) -> 1..Len(m.text)] :
          Tiled(m.text, m.accepted, m.masked, ends, P)

Sent ==
    /\ messages \in Seq(Message)
    /\ \A i \in 1..Len(messages) : Sound(messages[i], placeholders)

\* The inductive invariant.
MaskInv == Numbering /\ Choosing /\ Masking /\ Sent

-----------------------------------------------------------------------------
(***************************************************************************)
(* Operators                                                               *)
(***************************************************************************)
LEMMA Joined ==
    ASSUME NEW S, NEW a \in Seq(S), NEW b \in Seq(S)
    PROVE  /\ a \o b \in Seq(S)
           /\ Len(a \o b) = Len(a) + Len(b)
           /\ \A p \in 1..Len(a) : (a \o b)[p] = a[p]
           /\ \A p \in Len(a) + 1..Len(a) + Len(b) : (a \o b)[p] = b[p - Len(a)]
  OBVIOUS

\* t is s with x for the symbols after f up to g.
IsSpliced(t, s, x, f, g, S) ==
    LET w == g - f - 1 IN
    /\ t \in Seq(S)
    /\ Len(t) = Len(s) - w
    /\ \A p \in 1..f : t[p] = s[p]
    /\ t[f + 1] = x
    /\ \A p \in f + 2..Len(t) : t[p] = s[p + w]

\* masked[:start] + placeholder + masked[end:]
LEMMA Spliced ==
    ASSUME NEW S, NEW s \in Seq(S), NEW x \in S, NEW f \in Nat, NEW g \in Nat,
           f < g, g <= Len(s)
    PROVE  IsSpliced((SubSeq(s, 1, f) \o <<x>>) \o SubSeq(s, g + 1, Len(s)), s, x, f, g, S)
<1> DEFINE a == SubSeq(s, 1, f)
           b == SubSeq(s, g + 1, Len(s))
           t == (a \o <<x>>) \o b
<1>1. /\ a \in Seq(S) /\ Len(a) = f
      /\ \A p \in 1..f : a[p] = s[p]
  OBVIOUS
<1>2. /\ b \in Seq(S) /\ Len(b) = Len(s) - g
      /\ \A p \in 1..Len(s) - g : b[p] = s[p + g]
  OBVIOUS
<1>3. /\ a \o <<x>> \in Seq(S) /\ Len(a \o <<x>>) = f + 1
      /\ (\A p \in 1..f : (a \o <<x>>)[p] = a[p])
      /\ (a \o <<x>>)[f + 1] = x
  <2> HIDE DEF a
  <2> QED  BY <1>1
<1> DEFINE h == a \o <<x>>
<1>4. t = h \o b
  OBVIOUS
<1>5. /\ t \in Seq(S) /\ Len(t) = Len(h) + Len(b)
      /\ \A p \in 1..Len(h) : t[p] = h[p]
      /\ \A p \in Len(h) + 1..Len(h) + Len(b) : t[p] = b[p - Len(h)]
  <2>1. h \in Seq(S) /\ b \in Seq(S)
    BY <1>2, <1>3
  <2> HIDE DEF h, b, t
  <2> QED  BY <2>1, <1>4, Joined
<1> HIDE DEF h, b, t, a
<1>6. Len(h) = f + 1 /\ Len(s) \in Nat
  BY <1>3 DEF h
<1>7. Len(t) = Len(s) - (g - f - 1)
  BY <1>2, <1>5, <1>6
<1>8. \A p \in 1..f : t[p] = s[p]
  BY <1>1, <1>3, <1>5, <1>6 DEF h
<1>9. t[f + 1] = x
  BY <1>3, <1>5, <1>6 DEF h
<1>10. ASSUME NEW p \in f + 2..Len(t)
       PROVE  t[p] = s[p + (g - f - 1)]
  <2>0. p \in Len(h) + 1..Len(h) + Len(b) /\ p - (f + 1) \in 1..Len(s) - g
    BY <1>2, <1>5, <1>6
  <2>1. t[p] = b[p - (f + 1)] /\ p - (f + 1) \in 1..Len(s) - g
    BY <2>0, <1>5, <1>6
  <2>2. b[p - (f + 1)] = s[p - (f + 1) + g]
    BY <2>1, <1>2
  <2> QED
    BY <2>1, <2>2
<1> QED
  BY <1>5, <1>7, <1>8, <1>9, <1>10 DEF IsSpliced, t, a, b

\* A type's place in DETECTOR_PRIORITY.
LEMMA RankIs ==
    ASSUME NEW i \in 1..Len(Priority)
    PROVE  Rank(Priority[i]) = i
  BY PriorityAssumption DEF Rank

\* Where the symbols end once those after f up to g have become one.
Shifted(ends, f, g, n) == [p \in 1..n |-> IF p <= f THEN p ELSE ends[p + (g - f - 1)]]

IsShifted(e, ends, f, g, n, m) ==
    LET w == g - f - 1 IN
    /\ e \in [1..n - w -> 1..m]
    /\ Start(e, n - w + 1) = m
    /\ \A p, q \in 1..n - w : p < q => e[p] < e[q]
    /\ \A p \in 1..f : e[p] = p /\ ends[p] = p /\ Start(e, p) = Start(ends, p)
    /\ Start(e, f + 1) = f /\ e[f + 1] = g
    /\ \A p \in f + 2..n - w :
          e[p] = ends[p + w] /\ e[p] > g /\ Start(e, p) = Start(ends, p + w)

LEMMA ShiftedIs ==
    ASSUME NEW n \in Nat, NEW m \in Nat, NEW f \in Nat, NEW g \in Nat, f < g, g <= n,
           NEW ends \in [1..n -> 1..m],
           Start(ends, n + 1) = m,
           \A p, q \in 1..n : p < q => ends[p] < ends[q],
           \A p \in 1..g : ends[p] = p
    PROVE  IsShifted(Shifted(ends, f, g, n - (g - f - 1)), ends, f, g, n, m)
<1> DEFINE w == g - f - 1
           e == Shifted(ends, f, g, n - w)
<1>1. w \in Nat /\ n - w \in Nat /\ f + 1 <= n - w
  OBVIOUS
<1>2. DOMAIN e = 1..n - w
  BY DEF Shifted
<1>3. \A p \in 1..n - w : e[p] = IF p <= f THEN p ELSE ends[p + w]
  BY DEF Shifted
<1>4. /\ \A p \in 1..n : ends[p] \in 1..m
      /\ \A p \in g..n : ends[p] >= g
  OBVIOUS
<1>5. ends[n] = m
  BY DEF Start
<1> HIDE DEF w
<1>6. ASSUME NEW p \in 1..n - w  PROVE e[p] \in 1..m
  <2>1. p <= f => p \in 1..n /\ ends[p] = p
    BY <1>1
  <2>2. p > f => p + w \in 1..n
    BY <1>1 DEF w
  <2> QED
    BY <1>3, <1>4, <2>1, <2>2
<1>7. e \in [1..n - w -> 1..m]
  BY <1>6 DEF Shifted
<1> HIDE DEF e
<1>8. Start(e, n - w + 1) = m
  BY <1>1, <1>3, <1>5 DEF Start
<1>9. ASSUME NEW p \in 1..n - w, NEW q \in 1..n - w, p < q
      PROVE  e[p] < e[q]
  <2>1. CASE q <= f
    BY <2>1, <1>9, <1>3
  <2>2. CASE p <= f /\ q > f
    <3>1. e[p] = p /\ e[q] = ends[q + w]
      BY <2>2, <1>3
    <3>2. q + w \in g..n
      BY <2>2, <1>1 DEF w
    <3>3. ends[q + w] >= g /\ ends[q + w] \in 1..m
      BY <3>2, <1>4
    <3> QED
      BY <3>1, <3>3, <2>2
  <2>3. CASE p > f
    <3>1. e[p] = ends[p + w] /\ e[q] = ends[q + w]
      BY <2>3, <1>9, <1>3
    <3>2. p + w \in 1..n /\ q + w \in 1..n /\ p + w < q + w
      BY <2>3, <1>9, <1>1
    <3> QED
      BY <3>1, <3>2
  <2> QED
    BY <2>1, <2>2, <2>3
<1>10. ASSUME NEW p \in 1..f
       PROVE  e[p] = p /\ ends[p] = p /\ Start(e, p) = Start(ends, p)
  <2>1. p \in 1..n - w /\ e[p] = p /\ ends[p] = p
    BY <1>1, <1>3
  <2>2. p # 1 => p - 1 \in 1..n - w /\ e[p - 1] = p - 1 /\ ends[p - 1] = p - 1
    BY <1>1, <1>3
  <2> QED
    BY <2>1, <2>2 DEF Start
<1>11. Start(e, f + 1) = f
  <2>1. f # 0 => f \in 1..n - w /\ e[f] = f
    BY <1>1, <1>3
  <2> QED
    BY <2>1 DEF Start
<1>12. e[f + 1] = g
  <2>1. e[f + 1] = ends[(f + 1) + w] /\ (f + 1) + w = g
    BY <1>1, <1>3 DEF w
  <2> QED
    BY <2>1
<1>13. ASSUME NEW p \in f + 2..n - w
       PROVE  e[p] = ends[p + w] /\ e[p] > g /\ Start(e, p) = Start(ends, p + w)
  <2>1. p \in 1..n - w /\ p - 1 \in 1..n - w /\ ~(p <= f) /\ ~(p - 1 <= f) /\ p # 1
    BY <1>1
  <2>2. e[p] = ends[p + w] /\ e[p - 1] = ends[(p - 1) + w]
    BY <2>1, <1>3
  <2>3. p + w \in 1..n /\ g < p + w /\ g \in 1..n /\ p + w # 1 /\ (p - 1) + w = (p + w) - 1
    BY <2>1, <1>1 DEF w
  <2>4. ends[g] < ends[p + w] /\ ends[g] = g
    BY <2>3
  <2>5. Start(e, p) = Start(ends, p + w)
    BY <2>1, <2>2, <2>3 DEF Start
  <2>6. ends[p + w] \in 1..m
    BY <2>3
  <2> QED
    BY <2>2, <2>4, <2>5, <2>6
<1> QED
  BY <1>7, <1>8, <1>9, <1>10, <1>11, <1>12, <1>13 DEF IsShifted, e, w

\* What a symbol stood for, it still stands for where it is now.
LEMMA StillReads ==
    ASSUME NEW s, NEW D, NEW w, NEW ends, NEW r, NEW c, NEW t, NEW e, NEW p, NEW P,
           Own(s, D, w, ends, r) \/ Holds(s, D, w, ends, r, P),
           e[p] = ends[r], Start(e, p) = Start(ends, r), t[p] = w[r],
           e[p] \notin c.from + 1..c.to
    PROVE  Own(s, D \union {c}, t, e, p) \/ Holds(s, D \union {c}, t, e, p, P)
<1>1. CASE Own(s, D, w, ends, r)
  BY <1>1 DEF Own
<1>2. CASE Holds(s, D, w, ends, r, P)
  BY <1>2 DEF Holds, StandsFor
<1> QED
  BY <1>1, <1>2

\* One turn of the second loop, right of which all spans are replaced.
LEMMA ReplaceTiled ==
    ASSUME NEW s \in Seq(Symbols), NEW w \in Seq(Symbols),
           NEW ends \in [1..Len(w) -> 1..Len(s)],
           NEW D \in SUBSET Candidates(Len(s)), NEW c \in Candidates(Len(s)),
           NEW P, NEW q \in P,
           q.type = c.type, q.raw = Raw(s, c), q.index \in Nat,
           Tiled(s, D, w, ends, P),
           \A k \in 0..Len(s) : Untouched(D, w, ends, k),
           \A d \in D : c.to <= d.from
    PROVE  LET t == Splice(w, c, <<c.type, q.index>>) IN
           /\ t \in Seq(Symbols)
           /\ \E e \in [1..Len(t) -> 1..Len(s)] :
                 /\ Tiled(s, D \union {c}, t, e, P)
                 /\ \A k \in 0..Len(s) : Untouched(D \union {c}, t, e, k)
<1> DEFINE x == <<c.type, q.index>>
           t == Splice(w, c, x)
<1>1. PICK f \in 0..Len(s), g \in 0..Len(s) : f = c.from /\ g = c.to /\ f < g
  BY DEF Candidates
<1>2. x \in Symbols
  BY DEF Candidates, Symbols
<1>3. Untouched(D, w, ends, g) /\ \A d \in D : g <= d.from
  BY <1>1
<1>4. g <= Len(w) /\ \A p \in 1..g : ends[p] = p
  BY <1>3 DEF Untouched
<1>5. t = (SubSeq(w, 1, f) \o <<x>>) \o SubSeq(w, g + 1, Len(w))
  BY <1>1 DEF Splice
<1> DEFINE m == Len(s)
           n == Len(w)
           v == g - f - 1
           e == Shifted(ends, f, g, n - v)
<1>6. m \in Nat /\ n \in Nat /\ f \in Nat /\ g \in Nat /\ f < g /\ g <= n /\ g <= m
  BY <1>1, <1>4
<1>7. /\ t \in Seq(Symbols) /\ Len(t) = n - v
      /\ \A p \in 1..f : t[p] = w[p]
      /\ t[f + 1] = x
      /\ \A p \in f + 2..n - v : t[p] = w[p + v]
  <2> HIDE DEF x, t
  <2>1. IsSpliced(t, w, x, f, g, Symbols)
    BY <1>2, <1>5, <1>6, Spliced
  <2> QED
    BY <2>1 DEF IsSpliced
<1>8. /\ Start(ends, n + 1) = m
      /\ \A i, j \in 1..n : i < j => ends[i] < ends[j]
      /\ \A p \in 1..n : Own(s, D, w, ends, p) \/ Holds(s, D, w, ends, p, P)
  BY DEF Tiled
<1>9. /\ e \in [1..n - v -> 1..m]
      /\ Start(e, n - v + 1) = m
      /\ \A i, j \in 1..n - v : i < j => e[i] < e[j]
      /\ \A p \in 1..f : e[p] = p /\ ends[p] = p /\ Start(e, p) = Start(ends, p)
      /\ Start(e, f + 1) = f /\ e[f + 1] = g
      /\ \A p \in f + 2..n - v :
            e[p] = ends[p + v] /\ e[p] > g /\ Start(e, p) = Start(ends, p + v)
  <2> HIDE DEF m, n
  <2>1. ends \in [1..n -> 1..m]
    BY DEF m, n
  <2>2. IsShifted(e, ends, f, g, n, m)
    BY <2>1, <1>4, <1>6, <1>8, ShiftedIs
  <2> QED
    BY <2>2 DEF IsShifted
<1> HIDE DEF e, t, x, m, n
<1>10. ASSUME NEW p \in 1..n - v
       PROVE  Own(s, D \union {c}, t, e, p) \/ Holds(s, D \union {c}, t, e, p, P)
  <2>1. CASE p <= f
    <3>1. p \in 1..f /\ p \in 1..n
      BY <2>1, <1>6
    <3>2. e[p] = ends[p] /\ Start(e, p) = Start(ends, p) /\ t[p] = w[p] /\ e[p] = p
      BY <3>1, <1>7, <1>9
    <3>3. e[p] \notin c.from + 1..c.to
      BY <3>2, <2>1, <1>1
    <3>4. Own(s, D, w, ends, p) \/ Holds(s, D, w, ends, p, P)
      BY <3>1, <1>8
    <3> QED
      BY <3>2, <3>3, <3>4, StillReads
  <2>2. CASE p = f + 1
    <3>1. StandsFor(e, p, c) /\ t[p] = x
      BY <2>2, <1>1, <1>7, <1>9 DEF StandsFor
    <3> QED
      BY <3>1 DEF Holds, Names, x
  <2>3. CASE p > f + 1
    <3>1. p \in f + 2..n - v /\ p + v \in 1..n
      BY <2>3, <1>6
    <3>2. e[p] = ends[p + v] /\ Start(e, p) = Start(ends, p + v) /\ t[p] = w[p + v] /\ e[p] > g
      BY <3>1, <1>7, <1>9
    <3>3. e[p] \notin c.from + 1..c.to
      <4>1. e[p] \in Int
        BY <1>9
      <4> QED  BY <4>1, <3>2, <1>1, <1>6
    <3>4. Own(s, D, w, ends, p + v) \/ Holds(s, D, w, ends, p + v, P)
      BY <3>1, <1>8
    <3> QED
      BY <3>2, <3>3, <3>4, StillReads
  <2> QED
    BY <2>1, <2>2, <2>3, <1>6
<1>11. Tiled(s, D \union {c}, t, e, P)
  BY <1>7, <1>9, <1>10 DEF Tiled, m
<1>12. ASSUME NEW k \in 0..Len(s)
       PROVE  Untouched(D \union {c}, t, e, k)
  <2> SUFFICES ASSUME \A d \in D \union {c} : k <= d.from
               PROVE  k <= Len(t) /\ \A p \in 1..k : e[p] = p
    BY DEF Untouched
  <2>1. k <= f
    BY <1>1
  <2>2. k <= Len(t)
    BY <2>1, <1>6, <1>7
  <2>3. \A p \in 1..k : p \in 1..f
    BY <2>1, <1>6
  <2> QED
    BY <2>2, <2>3, <1>9
<1>13. e \in [1..Len(t) -> 1..Len(s)]
  BY <1>7, <1>9 DEF m
<1> QED
  BY <1>7, <1>11, <1>12, <1>13 DEF t, x

\* No placeholder is taken out of the tables, and what stands for a value
\* goes on standing for it.
LEMMA TiledKept ==
    ASSUME NEW s, NEW D, NEW w, NEW ends, NEW P, NEW Q, P \subseteq Q,
           Tiled(s, D, w, ends, P)
    PROVE  Tiled(s, D, w, ends, Q)
<1>1. \A p : Holds(s, D, w, ends, p, P) => Holds(s, D, w, ends, p, Q)
  BY DEF Holds, Names
<1> QED
  BY <1>1 DEF Tiled

LEMMA SoundKept ==
    ASSUME NEW m, NEW P, NEW Q, P \subseteq Q, Sound(m, P)
    PROVE  Sound(m, Q)
<1>1. PICK ends \in [1..Len(m.masked) -> 1..Len(m.text)] :
         Tiled(m.text, m.accepted, m.masked, ends, P)
  BY DEF Sound
<1>2. Tiled(m.text, m.accepted, m.masked, ends, Q)
  BY <1>1, TiledKept
<1> QED
  BY <1>2 DEF Sound

\* masked = text
LEMMA NothingReplaced ==
    ASSUME NEW s \in Seq(Symbols), NEW A, NEW P, \A c \in A : HasKey(s, c, P)
    PROVE  Replacing(s, A, A, s, P)
<1> DEFINE ends == [p \in 1..Len(s) |-> p]
<1>1. ends \in [1..Len(s) -> 1..Len(s)] /\ Len(s) \in Nat
  OBVIOUS
<1>2. \A p \in 1..Len(s) : ends[p] = p
  OBVIOUS
<1> HIDE DEF ends
<1>3. \A p \in 1..Len(s) : Start(ends, p) = p - 1
  BY <1>1, <1>2 DEF Start
<1>4. Start(ends, Len(s) + 1) = Len(s)
  BY <1>1, <1>2 DEF Start
<1>5. A \ A = {}
  OBVIOUS
<1>6. \A p \in 1..Len(s) : Own(s, {}, s, ends, p)
  BY <1>2, <1>3 DEF Own
<1>7. Tiled(s, A \ A, s, ends, P)
  BY <1>2, <1>4, <1>5, <1>6 DEF Tiled
<1>8. \A k \in 0..Len(s) : Untouched(A \ A, s, ends, k)
  BY <1>1, <1>2 DEF Untouched
<1> QED
  BY <1>1, <1>7, <1>8 DEF Replacing

\* What does not meet c and begins no later ends where c begins.
LEMMA LeftOf ==
    ASSUME NEW n, NEW c \in Candidates(n), NEW d \in Candidates(n),
           n \in Nat, ~Meet(d, c), d.from <= c.from
    PROVE  d.to <= c.from
<1>1. c.from \in 0..n /\ c.to \in 0..n /\ d.from \in 0..n /\ d.to \in 0..n /\ c.from < c.to
  BY DEF Candidates
<1> QED
  BY <1>1 DEF Meet

LEMMA OneReplaced ==
    ASSUME NEW s \in Seq(Symbols), NEW w \in Seq(Symbols), NEW P,
           NEW A \in SUBSET Candidates(Len(s)), NEW T \in SUBSET A, Apart(A),
           Replacing(s, A, T, w, P),
           NEW c \in T, \A d \in T : d.from <= c.from,
           NEW q \in P, q.type = c.type, q.raw = Raw(s, c), q.index \in Nat
    PROVE  LET t == Splice(w, c, <<c.type, q.index>>) IN
           t \in Seq(Symbols) /\ Replacing(s, A, T \ {c}, t, P)
<1> DEFINE t == Splice(w, c, <<c.type, q.index>>)
<1>1. PICK ends \in [1..Len(w) -> 1..Len(s)] :
         /\ Tiled(s, A \ T, w, ends, P)
         /\ \A k \in 0..Len(s) : Untouched(A \ T, w, ends, k)
  BY DEF Replacing
<1>2. \A d \in A \ T : c.to <= d.from
  BY DEF Replacing
<1>3. (A \ T) \union {c} = A \ (T \ {c})
  OBVIOUS
<1>4. A \ T \in SUBSET Candidates(Len(s)) /\ c \in Candidates(Len(s))
  OBVIOUS
<1>5. /\ t \in Seq(Symbols)
      /\ \E e \in [1..Len(t) -> 1..Len(s)] :
            /\ Tiled(s, (A \ T) \union {c}, t, e, P)
            /\ \A k \in 0..Len(s) : Untouched((A \ T) \union {c}, t, e, k)
  BY <1>1, <1>2, <1>4, ReplaceTiled
<1>6. ASSUME NEW d \in T \ {c}, NEW b \in A \ (T \ {c})
      PROVE  d.to <= b.from
  <2>1. CASE b = c
    <3>1. ~Meet(d, c) /\ d \in Candidates(Len(s)) /\ Len(s) \in Nat
      BY DEF Apart
    <3> QED
      BY <2>1, <3>1, <1>4, LeftOf
  <2>2. CASE b # c
    BY <2>2, <1>6 DEF Replacing
  <2> QED
    BY <2>1, <2>2
<1>7. \A d \in A : HasKey(s, d, P)
  BY DEF Replacing
<1> HIDE DEF t
<1>8. Replacing(s, A, T \ {c}, t, P)
  BY <1>3, <1>5, <1>6, <1>7 DEF Replacing
<1> QED
  BY <1>5, <1>8 DEF t

LEMMA TextsAreSequences ==
    ASSUME NEW n \in Nat, NEW s \in Texts(n)
    PROVE  s \in Seq(Symbols)
<1> DEFINE L == {<<"text", a>> : a \in Letters}
<1>1. PICK m \in 0..n : s \in [1..m -> L]
  BY DEF Texts
<1>2. s \in Seq(L)
  BY <1>1
<1>3. L \subseteq Symbols
  BY DEF Symbols
<1> HIDE DEF L
<1> QED
  BY <1>2, <1>3

LEMMA CandidatesAreSpans ==
    ASSUME NEW n \in Nat
    PROVE  Candidates(n) \subseteq Spans
  BY DEF Candidates, Spans

-----------------------------------------------------------------------------
(***************************************************************************)
(* The steps                                                               *)
(***************************************************************************)
LEMMA InitInv == Init => MaskInv
<1> SUFFICES ASSUME Init PROVE MaskInv
  OBVIOUS
<1>1. Numbering
  BY DEF Init, Numbering
<1>2. Choosing
  BY PriorityAssumption DEF Init, Choosing, Disjoint, Apart
<1>3. Masking
  BY DEF Init, Masking
<1>4. Sent
  BY DEF Init, Sent
<1> QED
  BY <1>1, <1>2, <1>3, <1>4 DEF MaskInv

\* A new value gets an index that no other of its type has.
LEMMA NumberNumbers ==
    ASSUME NEW c \in todo, MaskInv, Number(c)
    PROVE  /\ Numbering'
           /\ placeholders \subseteq placeholders'
           /\ HasKey(text, c, placeholders')
<1>1. c.type \in Types
  BY DEF MaskInv, Choosing, Masking, Candidates
<1>2. /\ counts \in [Types -> Nat] /\ nextIndexes \in [Types -> Nat]
      /\ counts' = [counts EXCEPT ![c.type] = @ + 1]
  BY DEF MaskInv, Numbering, Number
<1>3. counts' \in [Types -> Nat]
  BY <1>1, <1>2
<1>4. CASE \E q \in placeholders : IsKeyOf(q, c)
  <2>1. placeholders' = placeholders /\ nextIndexes' = nextIndexes
    BY <1>4 DEF Number
  <2>2. Numbering'
    BY <2>1, <1>3 DEF MaskInv, Numbering
  <2>3. HasKey(text, c, placeholders)
    BY <1>4 DEF IsKeyOf, HasKey
  <2> QED
    BY <2>1, <2>2, <2>3
<1>5. CASE ~ \E q \in placeholders : IsKeyOf(q, c)
  <2> DEFINE index == nextIndexes[c.type] + 1
             r == [type |-> c.type, raw |-> Raw(text, c), index |-> index]
  <2>1. /\ nextIndexes' = [nextIndexes EXCEPT ![c.type] = index]
        /\ placeholders' = placeholders \union {r}
    BY <1>5 DEF Number
  <2>2. nextIndexes[c.type] \in Nat /\ index \in Nat
    BY <1>1, <1>2
  <2>3. r.type = c.type /\ r.raw = Raw(text, c) /\ r.index = index
    OBVIOUS
  <2>4. nextIndexes' \in [Types -> Nat]
    BY <1>2, <2>1, <2>2
  <2>5. /\ nextIndexes'[c.type] = nextIndexes[c.type] + 1
        /\ \A t \in Types \ {c.type} : nextIndexes'[t] = nextIndexes[t]
    BY <1>1, <1>2, <2>1
  <2>6. \A q \in placeholders : q.type = c.type => q.raw # Raw(text, c)
    BY <1>5 DEF IsKeyOf
  <2> HIDE DEF r
  <2>7. \A q \in placeholders : q.type \in Types /\ q.index \in 1..nextIndexes[q.type]
    BY DEF MaskInv, Numbering
  <2>8. ASSUME NEW q \in placeholders'
        PROVE  q.type \in Types /\ q.index \in 1..nextIndexes'[q.type]
    <3>1. CASE q = r
      BY <3>1, <1>1, <2>2, <2>3, <2>5
    <3>2. CASE q \in placeholders
      <4>1. nextIndexes[q.type] \in Nat /\ nextIndexes'[q.type] \in Nat
        BY <3>2, <2>7, <2>4, <1>2
      <4>2. nextIndexes[q.type] <= nextIndexes'[q.type]
        BY <3>2, <2>2, <2>5, <2>7, <4>1
      <4> QED
        BY <3>2, <2>7, <4>1, <4>2
    <3> QED
      BY <3>1, <3>2, <2>1
  <2>9. ASSUME NEW t \in Types, NEW i \in 1..nextIndexes'[t]
        PROVE  \E q \in placeholders' : q.type = t /\ q.index = i
    <3>1. CASE i \in 1..nextIndexes[t]
      <4>1. \E q \in placeholders : q.type = t /\ q.index = i
        BY <3>1 DEF MaskInv, Numbering
      <4> QED
        BY <4>1, <2>1
    <3>2. CASE i \notin 1..nextIndexes[t]
      <4>1. t = c.type
        BY <3>2, <2>5
      <4>2. i = index
        BY <4>1, <3>2, <2>2, <2>5
      <4> QED
        BY <4>1, <4>2, <2>1, <2>3
    <3> QED
      BY <3>1, <3>2
  <2>10. ASSUME NEW q \in placeholders', NEW p \in placeholders', q.type = p.type
         PROVE  q.raw = p.raw <=> q.index = p.index
    <3>1. ASSUME NEW b \in placeholders, b.type = c.type
          PROVE  b.raw # r.raw /\ b.index # r.index
      <4>1. b.index \in 1..nextIndexes[c.type]
        BY <3>1, <2>7
      <4>2. b.index # index
        BY <4>1, <2>2
      <4> QED
        BY <4>2, <3>1, <2>3, <2>6
    <3>2. CASE q \in placeholders /\ p \in placeholders
      BY <3>2, <2>10 DEF MaskInv, Numbering
    <3>3. CASE q = r /\ p \in placeholders
      BY <3>1, <3>3, <2>3, <2>10
    <3>4. CASE q \in placeholders /\ p = r
      BY <3>1, <3>4, <2>3, <2>10
    <3>5. CASE q = r /\ p = r
      BY <3>5
    <3> QED
      BY <3>2, <3>3, <3>4, <3>5, <2>1
  <2>11. Numbering'
    BY <1>3, <2>4, <2>8, <2>9, <2>10 DEF Numbering
  <2>12. HasKey(text, c, placeholders')
    BY <2>1, <2>3 DEF HasKey
  <2> QED
    BY <2>1, <2>11, <2>12
<1> QED
  BY <1>4, <1>5

\* One type's spans against those of the types before it.
LEMMA CollectChooses ==
    ASSUME Choosing, Collect
    PROVE  Choosing'
<1>1. /\ rank \in 1..Len(Priority) /\ rank' = rank + 1 /\ Len(Priority) \in Nat
      /\ text' = text /\ found' = found
  BY PriorityAssumption DEF Choosing, Collect
<1> DEFINE new == {c \in found : c.type = Priority[rank] /\ ~Overlaps(c, accepted)}
<1>2. \/ Priority[rank] \notin Enabled /\ accepted' = accepted
      \/ Priority[rank] \in Enabled /\ accepted' = accepted \union new
  BY DEF Collect
<1>3. /\ rank' \in 1..Len(Priority) + 1
      /\ 1..rank' - 1 = (1..rank - 1) \union {rank}
  BY <1>1
<1>4. accepted \subseteq accepted' /\ accepted' \subseteq found
  BY <1>2 DEF Choosing
<1>5. \A c \in accepted' :
         c \in accepted \/ (c \in found /\ c.type = Priority[rank] /\ c.type \in Enabled)
  BY <1>2
<1>6. \A c \in accepted' : \E i \in 1..rank' - 1 : c.type = Priority[i] /\ c.type \in Enabled
  BY <1>3, <1>5 DEF Choosing
<1>7. \A c, d : Meet(c, d) => Meet(d, c)
  BY DEF Meet
<1>8. ASSUME NEW c \in accepted', NEW d \in accepted', c # d
      PROVE  ~Meet(c, d)
  <2>1. CASE c \in accepted /\ d \in accepted
    BY <2>1, <1>8 DEF Choosing, Apart
  <2>2. CASE c \notin accepted /\ d \in accepted
    BY <2>2, <1>2 DEF Overlaps, Meet
  <2>3. CASE c \in accepted /\ d \notin accepted
    <3>1. ~Meet(d, c)
      BY <2>3, <1>2 DEF Overlaps, Meet
    <3> QED
      BY <3>1, <1>7
  <2>4. CASE c \notin accepted /\ d \notin accepted
    BY <2>4, <1>5, <1>8 DEF Choosing, Disjoint
  <2> QED
    BY <2>1, <2>2, <2>3, <2>4
<1>9. ASSUME NEW c \in found, NEW i \in 1..rank' - 1, c.type = Priority[i], c.type \in Enabled
      PROVE  Settled(c, accepted')
  <2>1. CASE i \in 1..rank - 1
    <3>1. Settled(c, accepted)
      BY <2>1, <1>9 DEF Choosing
    <3> QED
      BY <3>1, <1>4 DEF Settled
  <2>2. CASE i = rank /\ ~Overlaps(c, accepted)
    BY <2>2, <1>2, <1>9 DEF Settled
  <2>3. CASE i = rank /\ Overlaps(c, accepted)
    <3>1. PICK d \in accepted : Meet(c, d)
      BY <2>3 DEF Overlaps, Meet
    <3>2. PICK j \in 1..rank - 1 : d.type = Priority[j]
      BY DEF Choosing
    <3>3. j \in 1..Len(Priority) /\ j < rank
      BY <1>1
    <3>4. Rank(d.type) = j /\ Rank(c.type) = rank
      BY <3>2, <3>3, <2>3, <1>1, <1>9, RankIs
    <3>5. Rank(d.type) < Rank(c.type)
      BY <3>3, <3>4
    <3> QED
      BY <3>1, <3>5, <1>4 DEF Settled
  <2> QED
    BY <2>1, <2>2, <2>3, <1>3
<1>10. Apart(accepted')
  BY <1>8 DEF Apart
<1> QED
  BY <1>1, <1>3, <1>4, <1>6, <1>9, <1>10 DEF Choosing

LEMMA TakeNextIs ==
    ASSUME Sent, TakeNext
    PROVE  /\ phase = "next" /\ phase' = "collect"
           /\ text' \in Seq(Symbols)
           /\ found' \subseteq Candidates(Len(text')) /\ Disjoint(found')
           /\ rank' = 1 /\ accepted' = {}
           /\ UNCHANGED <<messages, tables, todo, masked>>
<1>1. PICK s \in Texts(Lengths[Len(messages) + 1]) : \E D \in Detections(Len(s)) : Take(s, D)
  BY DEF TakeNext
<1>2. PICK D \in Detections(Len(s)) : Take(s, D)
  BY <1>1
<1>3. Len(messages) + 1 \in 1..Len(Lengths)
  BY LengthsAssumption DEF Sent, TakeNext
<1>4. s \in Seq(Symbols)
  BY <1>3, LengthsAssumption, TextsAreSequences
<1>5. D \subseteq Candidates(Len(s)) /\ Disjoint(D)
  BY DEF Detections
<1> QED
  BY <1>2, <1>4, <1>5 DEF Take

LEMMA StepNumbering ==
    ASSUME MaskInv, [Next]_vars
    PROVE  Numbering' /\ placeholders \subseteq placeholders'
<1> USE DEF MaskInv
<1>1. CASE UNCHANGED tables
  BY <1>1 DEF Numbering, tables
<1>2. CASE TakeNext
  BY <1>1, <1>2, TakeNextIs DEF tables
<1>3. CASE Collect \/ ApplyMask \/ Numbered \/ Masked \/ UNCHANGED vars
  BY <1>1, <1>3 DEF Collect, ApplyMask, Numbered, Masked, vars
<1>4. ASSUME NEW c \in todo, Replace(c)
      PROVE  UNCHANGED tables
  BY <1>4 DEF Replace
<1>5. ASSUME NEW c \in todo, Number(c)
      PROVE  Numbering' /\ placeholders \subseteq placeholders'
  BY <1>5, NumberNumbers
<1> QED
  BY <1>1, <1>2, <1>3, <1>4, <1>5 DEF Next

LEMMA StepChoosing ==
    ASSUME MaskInv, [Next]_vars
    PROVE  Choosing'
<1> USE DEF MaskInv
<1>1. CASE UNCHANGED <<rank, text, found, accepted>>
  BY <1>1 DEF Choosing
<1>2. CASE TakeNext
  BY <1>2, TakeNextIs, PriorityAssumption DEF Choosing, Apart
<1>3. CASE Collect
  BY <1>3, CollectChooses
<1>4. CASE ApplyMask \/ Numbered \/ Masked \/ UNCHANGED vars
  BY <1>1, <1>4 DEF ApplyMask, Numbered, Masked, vars
<1>5. ASSUME NEW c \in todo, Number(c) \/ Replace(c)
      PROVE  UNCHANGED <<rank, text, found, accepted>>
  BY <1>5 DEF Number, Replace
<1> QED
  BY <1>1, <1>2, <1>3, <1>4, <1>5 DEF Next

LEMMA StepMasking ==
    ASSUME MaskInv, [Next]_vars
    PROVE  Masking'
<1> USE DEF MaskInv
<1>1. CASE TakeNext
  BY <1>1, TakeNextIs DEF Masking
<1>2. CASE Collect
  <2>1. todo = {} /\ todo' = {} /\ phase' = "collect" /\ masked' = masked
    BY <1>2 DEF Collect, Masking
  <2> QED
    BY <2>1 DEF Masking
<1>3. CASE ApplyMask
  <2>1. rank = Len(Priority) + 1
    BY <1>3, PriorityAssumption DEF ApplyMask, Choosing
  <2> QED
    BY <2>1, <1>3 DEF ApplyMask, Masking
<1>4. ASSUME NEW c \in todo, Number(c)
      PROVE  Masking'
  <2>1. placeholders \subseteq placeholders' /\ HasKey(text, c, placeholders')
    BY <1>4, NumberNumbers
  <2>2. /\ phase = "number" /\ todo' = todo \ {c}
        /\ UNCHANGED <<phase, text, rank, accepted, masked>>
    BY <1>4 DEF Number
  <2>3. \A d \in accepted : HasKey(text, d, placeholders) => HasKey(text, d, placeholders')
    BY <2>1 DEF HasKey
  <2>4. \A d \in accepted' \ todo' : HasKey(text', d, placeholders')
    BY <2>1, <2>2, <2>3 DEF Masking
  <2> QED
    BY <2>2, <2>4 DEF Masking
<1>5. CASE Numbered
  <2>1. \A c \in accepted : HasKey(text, c, placeholders)
    BY <1>5 DEF Numbered, Masking
  <2>2. Replacing(text, accepted, accepted, text, placeholders)
    BY <2>1, NothingReplaced DEF Choosing
  <2>3. /\ phase = "number" /\ phase' = "replace" /\ todo' = accepted /\ masked' = text
        /\ UNCHANGED <<placeholders, text, rank, accepted>>
    BY <1>5 DEF Numbered, tables
  <2> QED
    BY <2>2, <2>3 DEF Masking, Choosing
<1>6. ASSUME NEW c \in todo, Replace(c)
      PROVE  Masking'
  <2>1. /\ phase = "replace" /\ todo' = todo \ {c} /\ \A d \in todo : d.from <= c.from
        /\ UNCHANGED <<placeholders, phase, text, rank, accepted>>
    BY <1>6 DEF Replace, InTurn, Rightmost, tables
  <2>2. PICK q \in placeholders :
           IsKeyOf(q, c) /\ masked' = Splice(masked, c, <<c.type, q.index>>)
    BY <1>6 DEF Replace
  <2>3. q.index \in Nat /\ q.type = c.type /\ q.raw = Raw(text, c)
    BY <2>2 DEF Numbering, IsKeyOf
  <2>4. /\ accepted \in SUBSET Candidates(Len(text)) /\ todo \in SUBSET accepted
        /\ Apart(accepted) /\ text \in Seq(Symbols) /\ masked \in Seq(Symbols)
        /\ Replacing(text, accepted, todo, masked, placeholders)
    BY <2>1 DEF Choosing, Masking
  <2>5. masked' \in Seq(Symbols) /\ Replacing(text, accepted, todo \ {c}, masked', placeholders)
    BY <2>1, <2>2, <2>3, <2>4, OneReplaced
  <2> QED
    BY <2>1, <2>5 DEF Masking
<1>7. CASE Masked
  BY <1>7 DEF Masked, Masking
<1>8. CASE UNCHANGED vars
  BY <1>8 DEF vars, tables, Masking
<1> QED
  BY <1>1, <1>2, <1>3, <1>4, <1>5, <1>6, <1>7, <1>8 DEF Next

\* The message that is done joins the others.
LEMMA MaskedSound ==
    ASSUME MaskInv, Masked
    PROVE  LET m == [text |-> text, found |-> found, accepted |-> accepted, masked |-> masked] IN
           m \in Message /\ Sound(m, placeholders)
<1> USE DEF MaskInv
<1> DEFINE m == [text |-> text, found |-> found, accepted |-> accepted, masked |-> masked]
<1>1. m.text = text /\ m.found = found /\ m.accepted = accepted /\ m.masked = masked
  OBVIOUS
<1>2. Replacing(text, accepted, {}, masked, placeholders) /\ rank = Len(Priority) + 1
  BY DEF Masked, Masking
<1>3. \E ends \in [1..Len(masked) -> 1..Len(text)] :
         Tiled(text, accepted, masked, ends, placeholders)
  <2>1. accepted \ {} = accepted
    OBVIOUS
  <2> QED
    BY <1>2, <2>1 DEF Replacing
<1>4. ASSUME NEW c \in found, c.type \in Enabled
      PROVE  Settled(c, accepted)
  <2>1. c.type \in Types
    BY DEF Choosing, Candidates
  <2>2. PICK i \in 1..Len(Priority) : c.type = Priority[i]
    BY <2>1 DEF Types
  <2>3. i \in 1..rank - 1
    BY <1>2, PriorityAssumption
  <2> QED
    BY <2>2, <2>3, <1>4 DEF Choosing
<1>5. Len(text) \in Nat /\ found \subseteq Spans /\ accepted \subseteq Spans
  BY CandidatesAreSpans DEF Choosing
<1>6. m \in Message
  BY <1>5 DEF Message, Choosing, Masking
<1>7. m.accepted \subseteq Detected(m)
  BY DEF Choosing, Detected
<1> HIDE DEF m
<1>8. Sound(m, placeholders)
  BY <1>1, <1>3, <1>4, <1>7 DEF Sound, Choosing
<1> QED
  BY <1>6, <1>8 DEF m

LEMMA StepSent ==
    ASSUME MaskInv, [Next]_vars
    PROVE  Sent'
<1>1. placeholders \subseteq placeholders'
  BY StepNumbering
<1>2. \A i \in 1..Len(messages) : Sound(messages[i], placeholders')
  BY <1>1, SoundKept DEF MaskInv, Sent
<1>3. CASE messages' = messages
  BY <1>2, <1>3 DEF MaskInv, Sent
<1>4. CASE Masked
  <2> DEFINE m == [text |-> text, found |-> found, accepted |-> accepted, masked |-> masked]
  <2>1. m \in Message /\ Sound(m, placeholders) /\ messages \in Seq(Message)
    BY <1>4, MaskedSound DEF MaskInv, Sent
  <2>2. messages' = Append(messages, m) /\ placeholders' = placeholders
    BY <1>4 DEF Masked, tables
  <2> HIDE DEF m
  <2>3. /\ messages' \in Seq(Message) /\ Len(messages') = Len(messages) + 1
        /\ \A i \in 1..Len(messages) : messages'[i] = messages[i]
        /\ messages'[Len(messages) + 1] = m
    BY <2>1, <2>2
  <2>4. ASSUME NEW i \in 1..Len(messages')
        PROVE  Sound(messages'[i], placeholders')
    <3>1. CASE i \in 1..Len(messages)
      BY <3>1, <2>3, <1>2
    <3>2. CASE i = Len(messages) + 1
      BY <3>2, <2>1, <2>2, <2>3
    <3> QED
      BY <3>1, <3>2, <2>1, <2>3
  <2> QED
    BY <2>3, <2>4 DEF Sent
<1>5. CASE TakeNext
  BY <1>3, <1>5, TakeNextIs DEF MaskInv
<1>6. CASE Collect \/ ApplyMask \/ Numbered \/ UNCHANGED vars
  BY <1>3, <1>6 DEF Collect, ApplyMask, Numbered, vars
<1>7. ASSUME NEW c \in todo, Number(c) \/ Replace(c)
      PROVE  messages' = messages
  BY <1>7 DEF Number, Replace
<1> QED
  BY <1>3, <1>4, <1>5, <1>6, <1>7 DEF Next

LEMMA MaskInvariant == Spec => []MaskInv
<1>1. Init => MaskInv
  BY InitInv
<1>2. MaskInv /\ [Next]_vars => MaskInv'
  BY StepNumbering, StepChoosing, StepMasking, StepSent DEF MaskInv
<1> QED
  BY <1>1, <1>2, PTL DEF Spec

-----------------------------------------------------------------------------
(***************************************************************************)
(* What follows                                                            *)
(***************************************************************************)
\* A type's indexes in the tables are 1, 2, ... up to next_indexes[type], and
\* the spans at work lie in the text and apart within a detector.
THEOREM TypesAndIndexes == Spec => []TypeOK
<1>1. MaskInv => TypeOK
  <2> SUFFICES ASSUME MaskInv PROVE TypeOK
    OBVIOUS
  <2>1. ASSUME NEW t \in Types
        PROVE  {q.index : q \in {q \in placeholders : q.type = t}} = 1..nextIndexes[t]
    <3>1. \A q \in placeholders : q.type = t => q.index \in 1..nextIndexes[t]
      BY DEF MaskInv, Numbering
    <3>2. \A i \in 1..nextIndexes[t] : \E q \in placeholders : q.type = t /\ q.index = i
      BY DEF MaskInv, Numbering
    <3> QED
      BY <3>1, <3>2
  <2> QED
    BY <2>1 DEF TypeOK, MaskInv, Numbering, Choosing, Masking
<1> QED
  BY <1>1, MaskInvariant, PTL

\* With the tables as they are, the text that tiles a message reads as it.
LEMMA TiledReads ==
    ASSUME Numbering, NEW m, NEW ends \in [1..Len(m.masked) -> 1..Len(m.text)],
           Tiled(m.text, m.accepted, m.masked, ends, placeholders)
    PROVE  ends \in Readings(m)
<1>1. Start(ends, Len(m.masked) + 1) = Len(m.text)
  BY DEF Tiled
<1>2. ASSUME NEW p \in 1..Len(m.masked),
             Holds(m.text, m.accepted, m.masked, ends, p, placeholders)
      PROVE  \E c \in m.accepted :
                /\ StandsFor(ends, p, c)
                /\ \E i \in 1..nextIndexes[c.type] : m.masked[p] = <<c.type, i>>
  <2>1. PICK c \in m.accepted :
           StandsFor(ends, p, c) /\ Names(m.masked[p], m.text, c, placeholders)
    BY <1>2 DEF Holds
  <2>2. PICK q \in placeholders : q.type = c.type /\ m.masked[p] = <<c.type, q.index>>
    BY <2>1 DEF Names
  <2>3. q.index \in 1..nextIndexes[c.type]
    BY <2>2 DEF Numbering
  <2> QED
    BY <2>1, <2>2, <2>3
<1>3. \A p \in 1..Len(m.masked) :
         \/ Own(m.text, m.accepted, m.masked, ends, p)
         \/ Holds(m.text, m.accepted, m.masked, ends, p, placeholders)
  BY DEF Tiled
<1>4. Reads(m, ends)
  BY <1>1, <1>2, <1>3 DEF Reads, Own
<1> QED
  BY <1>4 DEF Readings

\* Every message goes out as it came in, each accepted span one placeholder
\* of its type (_apply_mask replaces from the right).
THEOREM MaskedRight == Spec => []MaskedExactly
<1>1. MaskInv => MaskedExactly
  <2> SUFFICES ASSUME MaskInv, NEW i \in 1..Len(messages)
               PROVE  Readings(messages[i]) # {}
    BY DEF MaskedExactly
  <2>1. PICK ends \in [1..Len(messages[i].masked) -> 1..Len(messages[i].text)] :
           Tiled(messages[i].text, messages[i].accepted, messages[i].masked, ends, placeholders)
    BY DEF MaskInv, Sent, Sound
  <2> QED
    BY <2>1, TiledReads DEF MaskInv
<1> QED
  BY <1>1, MaskInvariant, PTL

\* A symbol that stands for an accepted span carries the index of its value.
LEMMA StandsForItsValue ==
    ASSUME NEW m, NEW P, NEW ends,
           m.text \in Seq(Symbols), m.accepted \subseteq Candidates(Len(m.text)),
           Apart(m.accepted), Tiled(m.text, m.accepted, m.masked, ends, P),
           NEW p \in 1..Len(m.masked), NEW c \in m.accepted, StandsFor(ends, p, c)
    PROVE  Names(m.masked[p], m.text, c, P)
<1>1. c.from \in Nat /\ c.to \in Nat /\ c.from < c.to
  BY DEF Candidates
<1>2. ends[p] = c.to /\ c.to \in c.from + 1..c.to
  BY <1>1 DEF StandsFor
<1>3. Holds(m.text, m.accepted, m.masked, ends, p, P)
  BY <1>2 DEF Tiled, Own
<1>4. PICK d \in m.accepted :
         StandsFor(ends, p, d) /\ Names(m.masked[p], m.text, d, P)
  BY <1>3 DEF Holds
<1>5. d.from = c.from /\ d.to = c.to
  BY <1>4 DEF StandsFor
<1>6. Meet(c, d)
  BY <1>1, <1>5 DEF Meet
<1>7. c = d
  BY <1>6 DEF Apart
<1> QED
  BY <1>4, <1>7

\* Within a request two placeholders are the same exactly when they stand for
\* the same value of the same type, whichever messages they are in.
THEOREM PlaceholdersCorefer == Spec => []Coreference
<1>1. MaskInv => Coreference
  <2> SUFFICES ASSUME MaskInv, NEW i \in 1..Len(messages), NEW j \in 1..Len(messages)
               PROVE  \E endsM \in Readings(messages[i]), endsN \in Readings(messages[j]) :
                         \A p \in 1..Len(messages[i].masked), q \in 1..Len(messages[j].masked) :
                            \A c \in messages[i].accepted, d \in messages[j].accepted :
                               StandsFor(endsM, p, c) /\ StandsFor(endsN, q, d) =>
                                  (messages[i].masked[p] = messages[j].masked[q] <=>
                                      /\ c.type = d.type
                                      /\ Raw(messages[i].text, c) = Raw(messages[j].text, d))
    BY DEF Coreference
  <2> DEFINE m == messages[i]
             n == messages[j]
  <2>1. m \in Message /\ n \in Message /\ Sound(m, placeholders) /\ Sound(n, placeholders)
    BY DEF MaskInv, Sent
  <2> HIDE DEF m, n
  <2>2. PICK endsM \in [1..Len(m.masked) -> 1..Len(m.text)] :
           Tiled(m.text, m.accepted, m.masked, endsM, placeholders)
    BY <2>1 DEF Sound
  <2>3. PICK endsN \in [1..Len(n.masked) -> 1..Len(n.text)] :
           Tiled(n.text, n.accepted, n.masked, endsN, placeholders)
    BY <2>1 DEF Sound
  <2>4. m.text \in Seq(Symbols) /\ n.text \in Seq(Symbols)
    BY <2>1 DEF Message
  <2>5. /\ m.accepted \subseteq Candidates(Len(m.text)) /\ Apart(m.accepted)
        /\ n.accepted \subseteq Candidates(Len(n.text)) /\ Apart(n.accepted)
    BY <2>1 DEF Sound
  <2>6. endsM \in Readings(m) /\ endsN \in Readings(n)
    BY <2>2, <2>3, TiledReads DEF MaskInv
  <2>7. ASSUME NEW p \in 1..Len(m.masked), NEW q \in 1..Len(n.masked),
               NEW c \in m.accepted, NEW d \in n.accepted,
               StandsFor(endsM, p, c), StandsFor(endsN, q, d)
        PROVE  m.masked[p] = n.masked[q] <=> c.type = d.type /\ Raw(m.text, c) = Raw(n.text, d)
    <3>0. Names(m.masked[p], m.text, c, placeholders) /\ Names(n.masked[q], n.text, d, placeholders)
      BY <2>2, <2>3, <2>4, <2>5, <2>7, StandsForItsValue
    <3>1. PICK a \in placeholders :
             a.type = c.type /\ a.raw = Raw(m.text, c) /\ m.masked[p] = <<c.type, a.index>>
      BY <3>0 DEF Names
    <3>2. PICK b \in placeholders :
             b.type = d.type /\ b.raw = Raw(n.text, d) /\ n.masked[q] = <<d.type, b.index>>
      BY <3>0 DEF Names
    <3>3. a.type = b.type => (a.raw = b.raw <=> a.index = b.index)
      BY DEF MaskInv, Numbering
    <3>4. <<c.type, a.index>> = <<d.type, b.index>> <=> c.type = d.type /\ a.index = b.index
      OBVIOUS
    <3> QED
      BY <3>1, <3>2, <3>3, <3>4
  <2> QED
    BY <2>6, <2>7 DEF m, n
<1> QED
  BY <1>1, MaskInvariant, PTL

\* A span an enabled detector found is left unreplaced only where it meets one
\* of a detector before it (_collect_candidates).
THEOREM SkippedForCause == Spec => []EveryCandidateTouched
<1>1. MaskInv => EveryCandidateTouched
  BY DEF MaskInv, Sent, Sound, Settled, EveryCandidateTouched
<1> QED
  BY <1>1, MaskInvariant, PTL

\* Where no two of the enabled detectors' spans overlap, all are replaced:
\* README.md's claim fails, as NothingDetectedLeft shows, only by overlaps.
AllMaskedUnlessOverlap ==
    \A i \in 1..Len(messages) :
       Apart(Detected(messages[i])) => messages[i].accepted = Detected(messages[i])

\* Nothing an enabled detector found is sent in a message whose detections do
\* not overlap each other (_collect_candidates skips only at an overlap).
THEOREM OnlyOverlapsLeak == Spec => []AllMaskedUnlessOverlap
<1>1. ASSUME NEW m, NEW P, Sound(m, P), Apart(Detected(m)), NEW c \in Detected(m)
      PROVE  c \in m.accepted
  <2>1. Settled(c, m.accepted) /\ m.accepted \subseteq Detected(m)
    BY <1>1 DEF Sound, Detected
  <2>2. ASSUME NEW d \in m.accepted, Meet(c, d)
        PROVE  c = d
    BY <1>1, <2>1, <2>2 DEF Apart
  <2> QED
    BY <2>1, <2>2 DEF Settled
<1>2. MaskInv => AllMaskedUnlessOverlap
  BY <1>1 DEF MaskInv, Sent, Sound, AllMaskedUnlessOverlap
<1> QED
  BY <1>2, MaskInvariant, PTL

=============================================================================
