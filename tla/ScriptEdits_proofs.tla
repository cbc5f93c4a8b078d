------------------------ MODULE ScriptEdits_proofs ------------------------
(***************************************************************************)
(* The diff that previews a change of a script is the change, for every    *)
(* source and every list of edits (ScriptEdits).                           *)
(*                                                                         *)
(* A diff is right when its hunks, applied to the lines of the old source, *)
(* give the lines of the new one.  BuildDiff goes from group to group, and *)
(* what it has built is right up to a place in the source that no later    *)
(* edit starts before.  A step takes it to the end of the next group: the  *)
(* lines before the group are carried over, and the group's hunk does the  *)
(* rest.  The lines of the parts are the lines of the whole only when the  *)
(* parts end in newlines, and that is what a group grows for.              *)
(***************************************************************************)
EXTENDS ScriptEdits, FiniteSetTheorems, SequenceTheorems, WellFoundedInduction, TLAPS

-----------------------------------------------------------------------------
(***************************************************************************)
(* Loops.  A loop of the model is a recursive function on 0 .. N.  That it *)
(* is defined is proved once, here; what it computes follows by induction  *)
(* up to N.                                                                *)
(***************************************************************************)
\* Induction up to a bound.
LEMMA Upwards ==
  ASSUME NEW N \in Nat, NEW S, 0 \in S, \A n \in 1 .. N : n - 1 \in S => n \in S
  PROVE  \A n \in 0 .. N : n \in S
  <1> DEFINE T == {n \in 0 .. N : n \notin S}
  <1> SUFFICES ASSUME T # {} PROVE FALSE
    OBVIOUS
  <1>1. T \subseteq Nat
    OBVIOUS
  <1>2. PICK x \in T : \A y \in T : ~(<<y, x>> \in OpToRel(<, Nat))
    BY <1>1, NatLessThanWellFounded, WFMin
  <1>3. \A a, b \in Nat : a < b => <<a, b>> \in OpToRel(<, Nat)
    BY DEF OpToRel
  <1>4. x \in 1 .. N
    OBVIOUS
  <1>5. x - 1 \in 0 .. N /\ x - 1 < x
    BY <1>4
  <1>6. x - 1 \notin T
    BY <1>2, <1>3, <1>5, <1>1
  <1>7. x - 1 \in S
    BY <1>5, <1>6
  <1> QED
    BY <1>4, <1>7

\* A set of numbers up to a bound has a last one.
LEMMA HasLast ==
  ASSUME NEW N \in Nat, NEW S \in SUBSET (0 .. N), S # {}
  PROVE  \E m \in S : \A q \in S : q <= m
  <1> SUFFICES ASSUME ~ \E m \in S : \A q \in S : q <= m PROVE FALSE
    OBVIOUS
  <1> DEFINE V == {n \in 0 .. N : \E q \in S : n =< q}
  <1>1. 0 \in V
    <2>1. PICK q \in S : TRUE
      OBVIOUS
    <2>2. q \in 0 .. N
      OBVIOUS
    <2> QED
      BY <2>2
  <1>2. ASSUME NEW n \in 1 .. N, n - 1 \in V PROVE n \in V
    <2>1. PICK q \in S : n - 1 =< q
      BY <1>2
    <2>2. PICK r \in S : ~(r =< q)
      OBVIOUS
    <2>3. r \in Int /\ q \in Int /\ r > q
      BY <2>2
    <2> QED
      BY <2>1, <2>3
  <1> HIDE DEF V
  <1>3. N \in V
    BY <1>1, <1>2, Upwards
  <1>4. N \in S
    BY <1>3 DEF V
  <1> QED
    BY <1>4

\* What a loop computes that starts with a.
Loop(N, X, a, step) ==
  {f \in [0 .. N -> X] : f[0] = a /\ \A n \in 1 .. N : f[n] = step[<<n, f[n - 1]>>]}

\* A loop has values.
LEMMA Iterates ==
  ASSUME NEW N \in Nat, NEW X, NEW a \in X, NEW step \in [(1 .. N) \X X -> X]
  PROVE  Loop(N, X, a, step) # {}
  <1> DEFINE S == {m \in Nat : m =< N => \E f \in [0 .. m -> X] :
                     /\ f[0] = a
                     /\ \A n \in 1 .. m : f[n] = step[<<n, f[n - 1]>>]}
  <1>1. 0 \in S
    <2> DEFINE f == [i \in 0 .. 0 |-> a]
    <2>1. f \in [0 .. 0 -> X] /\ f[0] = a
      OBVIOUS
    <2>2. \A n \in 1 .. 0 : FALSE
      OBVIOUS
    <2> HIDE DEF f
    <2>3. \E h \in [0 .. 0 -> X] : /\ h[0] = a
                                  /\ \A n \in 1 .. 0 : h[n] = step[<<n, h[n - 1]>>]
      BY <2>1, <2>2
    <2> QED
      BY <2>3
  <1>2. ASSUME NEW m \in 1 .. N, m - 1 \in S PROVE m \in S
    <2>1. PICK f \in [0 .. m - 1 -> X] : /\ f[0] = a
                                         /\ \A n \in 1 .. m - 1 : f[n] = step[<<n, f[n - 1]>>]
      BY <1>2
    <2> DEFINE g == [i \in 0 .. m |-> IF i = m THEN step[<<m, f[m - 1]>>] ELSE f[i]]
    <2>2. f[m - 1] \in X /\ <<m, f[m - 1]>> \in (1 .. N) \X X
      BY <2>1
    <2>3. step[<<m, f[m - 1]>>] \in X
      BY <2>2
    <2>4. \A i \in 0 .. m - 1 : g[i] = f[i] /\ g[i] \in X
      BY <2>1
    <2>5. g[m] = step[<<m, g[m - 1]>>]
      <3>1. g[m] = step[<<m, f[m - 1]>>]
        OBVIOUS
      <3>2. g[m - 1] = f[m - 1]
        BY <2>4
      <3> HIDE DEF g
      <3> QED
        BY <3>1, <3>2
    <2>6. g \in [0 .. m -> X] /\ g[0] = a
      <3>1. \A i \in 0 .. m : (IF i = m THEN step[<<m, f[m - 1]>>] ELSE f[i]) \in X
        BY <2>1, <2>3
      <3>2. g \in [0 .. m -> X]
        BY <3>1
      <3> QED
        BY <3>2, <2>4, <2>1
    <2>7. \A n \in 1 .. m : g[n] = step[<<n, g[n - 1]>>]
      <3> TAKE n \in 1 .. m
      <3>1. CASE n = m
        BY <3>1, <2>5
      <3>2. CASE n # m
        <4>1. n \in 1 .. m - 1 /\ n - 1 \in 0 .. m - 1 /\ n \in 0 .. m - 1
          BY <3>2
        <4> QED
          BY <4>1, <2>1, <2>4
      <3> QED
        BY <3>1, <3>2
    <2> HIDE DEF g
    <2>8. \E h \in [0 .. m -> X] : /\ h[0] = a
                                  /\ \A n \in 1 .. m : h[n] = step[<<n, h[n - 1]>>]
      BY <2>6, <2>7
    <2> QED
      BY <2>8
  <1> HIDE DEF S
  <1>3. N \in S
    BY <1>1, <1>2, Upwards
  <1> QED
    BY <1>3 DEF S, Loop

\* Its values are of a kind that each step keeps.
LEMMA LoopKeeps ==
  ASSUME NEW N \in Nat, NEW X, NEW f, f[0] \in X,
         \A n \in 1 .. N : f[n - 1] \in X => f[n] \in X
  PROVE  \A n \in 0 .. N : f[n] \in X
  <1> DEFINE S == {n \in 0 .. N : f[n] \in X}
  <1>1. 0 \in S
    OBVIOUS
  <1>2. ASSUME NEW n \in 1 .. N, n - 1 \in S PROVE n \in S
    BY <1>2
  <1> HIDE DEF S
  <1>3. \A n \in 0 .. N : n \in S
    BY <1>1, <1>2, Upwards
  <1> QED
    BY <1>3 DEF S

-----------------------------------------------------------------------------
(***************************************************************************)
(* Lines.  They start at the first character and after each newline, the   *)
(* lines of two texts one after the other are those of both when the first *)
(* ends its last line, and halving finds the line of an offset.            *)
(***************************************************************************)
\* The loop of LineStarts.
LEMMA LineStartsLoop ==
  ASSUME NEW source \in Seq(Bytes)
  PROVE  \E found \in [0 .. Len(source) -> Seq(Nat)] :
           /\ found[0] = <<1>>
           /\ \A n \in 1 .. Len(source) :
                found[n] = IF source[n] = LF THEN Append(found[n - 1], n + 1) ELSE found[n - 1]
           /\ LineStarts(source) = found[Len(source)]
  <1> DEFINE Found[read \in 0 .. Len(source)] ==
               IF read = 0 THEN <<1>>
               ELSE LET found == Found[read - 1]
                    IN  IF source[read] = LF THEN Append(found, read + 1) ELSE found
  <1>1. LineStarts(source) = Found[Len(source)]
    BY DEF LineStarts
  <1> DEFINE N == Len(source)
             step == [p \in (1 .. N) \X Seq(Nat) |->
                        IF source[p[1]] = LF THEN Append(p[2], p[1] + 1) ELSE p[2]]
  <1>2. N \in Nat
    OBVIOUS
  <1>3. <<1>> \in Seq(Nat) /\ step \in [(1 .. N) \X Seq(Nat) -> Seq(Nat)]
    OBVIOUS
  <1>4. PICK f \in Loop(N, Seq(Nat), <<1>>, step) : TRUE
    <2> HIDE DEF step, N
    <2> QED
      BY <1>2, <1>3, Iterates
  <1>5. /\ f \in [0 .. N -> Seq(Nat)] /\ f[0] = <<1>>
        /\ \A n \in 1 .. N :
             f[n] = IF source[n] = LF THEN Append(f[n - 1], n + 1) ELSE f[n - 1]
    <2>1. /\ f \in [0 .. N -> Seq(Nat)] /\ f[0] = <<1>>
          /\ \A n \in 1 .. N : f[n] = step[<<n, f[n - 1]>>]
      BY <1>4 DEF Loop
    <2>2. ASSUME NEW n \in 1 .. N PROVE <<n, f[n - 1]>> \in (1 .. N) \X Seq(Nat)
      <3>1. n - 1 \in 0 .. N
        OBVIOUS
      <3> QED
        BY <3>1, <2>1
    <2> QED
      BY <2>1, <2>2
  <1>6. f = [read \in 0 .. Len(source) |-> IF read = 0 THEN <<1>>
               ELSE LET found == f[read - 1]
                    IN  IF source[read] = LF THEN Append(found, read + 1) ELSE found]
    <2>1. \A read \in 0 .. N : f[read] = IF read = 0 THEN <<1>>
               ELSE LET found == f[read - 1]
                    IN  IF source[read] = LF THEN Append(found, read + 1) ELSE found
      <3>1. \A read \in 0 .. N : read = 0 \/ read \in 1 .. N
        OBVIOUS
      <3> HIDE DEF N
      <3> QED
        BY <1>5, <3>1
    <2>2. f = [read \in 0 .. N |-> f[read]]
      BY <1>5
    <2> HIDE DEF N
    <2>3. f = [read \in 0 .. N |-> IF read = 0 THEN <<1>>
               ELSE LET found == f[read - 1]
                    IN  IF source[read] = LF THEN Append(found, read + 1) ELSE found]
      BY <2>1, <2>2
    <2> QED
      BY <2>3 DEF N
  <1>7. Found = [read \in 0 .. Len(source) |-> IF read = 0 THEN <<1>>
               ELSE LET found == Found[read - 1]
                    IN  IF source[read] = LF THEN Append(found, read + 1) ELSE found]
    BY <1>6
  <1> HIDE DEF Found
  <1>8. /\ Found[0] = <<1>> /\ DOMAIN Found = 0 .. N
        /\ \A n \in 1 .. N :
             Found[n] = IF source[n] = LF THEN Append(Found[n - 1], n + 1) ELSE Found[n - 1]
    <2>1. 0 \in 0 .. Len(source) /\ \A n \in 1 .. Len(source) : n \in 0 .. Len(source) /\ n # 0
      OBVIOUS
    <2>2. DOMAIN Found = 0 .. Len(source) /\ Found[0] = <<1>>
      BY <1>7, <2>1
    <2>3. ASSUME NEW n \in 1 .. Len(source)
          PROVE  Found[n] = IF source[n] = LF THEN Append(Found[n - 1], n + 1) ELSE Found[n - 1]
      BY <1>7, <2>1
    <2> QED
      BY <2>2, <2>3
  <1>9. ASSUME NEW n \in 1 .. N, Found[n - 1] \in Seq(Nat) PROVE Found[n] \in Seq(Nat)
    <2>1. n + 1 \in Nat
      OBVIOUS
    <2>2. Append(Found[n - 1], n + 1) \in Seq(Nat)
      BY <2>1, <1>9
    <2> QED
      BY <1>8, <1>9, <2>2
  <1>10. \A n \in 0 .. N : Found[n] \in Seq(Nat)
    <2>1. Found[0] \in Seq(Nat)
      BY <1>3, <1>8
    <2> HIDE DEF N
    <2> QED
      BY <1>2, <1>9, <2>1, LoopKeeps
  <1> QED
    <2>1. Found \in [0 .. Len(source) -> Seq(Nat)]
      <3>1. Found = [n \in 0 .. Len(source) |-> Found[n]]
        BY <1>7
      <3> QED
        BY <3>1, <1>10
    <2> QED
      BY <1>1, <1>8, <2>1

\* The starts of lines among the first n characters and after them, in order.
StartsOf(source, n, starts) ==
  /\ starts \in Seq(Nat) /\ Len(starts) >= 1 /\ starts[1] = 1
  /\ \A l \in 1 .. Len(starts) : 1 =< starts[l] /\ starts[l] =< n + 1
  /\ \A l \in 2 .. Len(starts) : starts[l] >= 2 /\ source[starts[l] - 1] = LF
  /\ \A k, l \in 1 .. Len(starts) : k < l => starts[k] < starts[l]
  /\ \A i \in 1 .. n : source[i] = LF => \E l \in 2 .. Len(starts) : starts[l] = i + 1

\* One character more.
LEMMA StartsGrow ==
  ASSUME NEW source \in Seq(Bytes), NEW n \in 1 .. Len(source), NEW starts,
         StartsOf(source, n - 1, starts)
  PROVE  StartsOf(source, n, IF source[n] = LF THEN Append(starts, n + 1) ELSE starts)
  <1>1. CASE source[n] # LF
    <2>1. \A i \in 1 .. n : source[i] = LF => i \in 1 .. n - 1
      BY <1>1
    <2>2. \A l \in 1 .. Len(starts) : starts[l] =< n + 1
      BY DEF StartsOf
    <2>3. \A i \in 1 .. n : source[i] = LF => \E l \in 2 .. Len(starts) : starts[l] = i + 1
      BY <2>1 DEF StartsOf
    <2> QED
      BY <1>1, <2>2, <2>3 DEF StartsOf
  <1>2. CASE source[n] = LF
    <2> DEFINE m == Len(starts)
               more == Append(starts, n + 1)
    <2>1. starts \in Seq(Nat) /\ m \in Nat /\ m >= 1 /\ n \in Nat
      BY DEF StartsOf
    <2>2. /\ more \in Seq(Nat) /\ Len(more) = m + 1 /\ more[m + 1] = n + 1
          /\ \A l \in 1 .. m : more[l] = starts[l]
      BY <2>1, AppendProperties
    <2> HIDE DEF more, m
    <2>3. \A l \in 1 .. m + 1 : l \in 1 .. m \/ l = m + 1
      BY <2>1
    <2>4. \A l \in 1 .. m : 1 =< starts[l] /\ starts[l] =< n /\ starts[l] \in Nat
      BY <2>1 DEF StartsOf, m
    <2>5. \A l \in 1 .. m + 1 : 1 =< more[l] /\ more[l] =< n + 1
      BY <2>2, <2>3, <2>4, <2>1
    <2>6. \A l \in 2 .. m + 1 : more[l] >= 2 /\ source[more[l] - 1] = LF
      <3>1. \A l \in 2 .. m : l \in 1 .. m /\ starts[l] >= 2 /\ source[starts[l] - 1] = LF
        BY DEF StartsOf, m
      <3>2. n + 1 >= 2 /\ n + 1 - 1 = n
        BY <2>1
      <3>3. \A l \in 2 .. m + 1 : l \in 2 .. m \/ l = m + 1
        BY <2>1
      <3> TAKE l \in 2 .. m + 1
      <3>4. CASE l = m + 1
        BY <3>2, <3>4, <2>2, <1>2
      <3>5. CASE l \in 2 .. m
        <4>1. more[l] = starts[l]
          BY <3>1, <3>5, <2>2
        <4> QED
          BY <3>1, <3>5, <4>1
      <3> QED
        BY <3>3, <3>4, <3>5
    <2>7. \A k, l \in 1 .. m + 1 : k < l => more[k] < more[l]
      <3> TAKE k, l \in 1 .. m + 1
      <3> HAVE k < l
      <3>1. k \in 1 .. m
        BY <2>1
      <3>2. CASE l \in 1 .. m
        BY <3>1, <3>2, <2>2 DEF StartsOf, m
      <3>3. CASE l = m + 1
        BY <3>1, <3>3, <2>2, <2>4, <2>1
      <3> QED
        BY <3>2, <3>3, <2>3
    <2>8. ASSUME NEW i \in 1 .. n, source[i] = LF PROVE \E l \in 2 .. m + 1 : more[l] = i + 1
      <3>1. CASE i = n
        BY <3>1, <2>1, <2>2
      <3>2. CASE i # n
        <4>1. i \in 1 .. n - 1
          BY <3>2
        <4>2. PICK l \in 2 .. m : starts[l] = i + 1
          BY <4>1, <2>8 DEF StartsOf, m
        <4>3. l \in 2 .. m + 1 /\ l \in 1 .. m
          BY <2>1
        <4> QED
          BY <4>2, <4>3, <2>2
      <3> QED
        BY <3>1, <3>2
    <2>9. more[1] = 1 /\ Len(more) >= 1
      <3>1. starts[1] = 1 /\ 1 \in 1 .. m
        BY <2>1 DEF StartsOf
      <3> QED
        BY <3>1, <2>1, <2>2
    <2>10. StartsOf(source, n, more)
      BY <2>2, <2>5, <2>6, <2>7, <2>8, <2>9 DEF StartsOf
    <2> QED
      BY <1>2, <2>10 DEF more
  <1> QED
    BY <1>1, <1>2

\* Lines start at the first character and after each newline.
LEMMA LineStartsAre ==
  ASSUME NEW source \in Seq(Bytes)
  PROVE  StartsOf(source, Len(source), LineStarts(source))
  <1>1. PICK found \in [0 .. Len(source) -> Seq(Nat)] :
           /\ found[0] = <<1>>
           /\ \A n \in 1 .. Len(source) :
                found[n] = IF source[n] = LF THEN Append(found[n - 1], n + 1) ELSE found[n - 1]
           /\ LineStarts(source) = found[Len(source)]
    BY LineStartsLoop
  <1> DEFINE N == Len(source)
             S == {n \in 0 .. N : StartsOf(source, n, found[n])}
  <1>2. 0 \in S
    <2> DEFINE a == <<1>>
    <2>1. a \in Seq(Nat) /\ Len(a) = 1 /\ a[1] = 1
      OBVIOUS
    <2> HIDE DEF a
    <2>2. StartsOf(source, 0, a)
      BY <2>1 DEF StartsOf
    <2>3. 0 \in 0 .. N
      OBVIOUS
    <2> QED
      BY <2>2, <2>3, <1>1 DEF a
  <1>3. ASSUME NEW n \in 1 .. N, n - 1 \in S PROVE n \in S
    <2>1. StartsOf(source, n - 1, found[n - 1])
      BY <1>3
    <2>2. StartsOf(source, n, IF source[n] = LF THEN Append(found[n - 1], n + 1) ELSE found[n - 1])
      BY <2>1, StartsGrow
    <2> QED
      BY <2>2, <1>1
  <1>4. N \in Nat
    OBVIOUS
  <1> HIDE DEF S
  <1>5. N \in S
    <2> HIDE DEF N
    <2> QED
      BY <1>2, <1>3, <1>4, Upwards
  <1> QED
    BY <1>1, <1>5 DEF S

\* The starts c of a text are those of a first part, a, and of the rest of it, b.
Joins(a, b, shift, c) ==
  /\ Len(c) = Len(a) - 1 + Len(b)
  /\ \A l \in 1 .. Len(a) : c[l] = a[l]
  /\ \A l \in 1 .. Len(b) : c[Len(a) - 1 + l] = b[l] + shift

\* One character more of the second text.
LEMMA JoinsGrow ==
  ASSUME NEW a \in Seq(Nat), NEW b \in Seq(Nat), NEW c \in Seq(Nat), NEW shift \in Nat,
         NEW x \in Nat, NEW y \in Nat, y = x + shift, Len(a) >= 1, Len(b) >= 1, Joins(a, b, shift, c)
  PROVE  Joins(a, Append(b, x), shift, Append(c, y))
  <1> DEFINE d == Append(b, x)
             e == Append(c, y)
  <1>1. Len(a) \in Nat /\ Len(b) \in Nat /\ Len(c) = Len(a) - 1 + Len(b)
    BY DEF Joins
  <1>2. /\ Len(d) = Len(b) + 1 /\ d[Len(b) + 1] = x
        /\ \A l \in 1 .. Len(b) : d[l] = b[l]
    BY AppendProperties
  <1>3. /\ Len(e) = Len(c) + 1 /\ e[Len(c) + 1] = y
        /\ \A l \in 1 .. Len(c) : e[l] = c[l]
    BY AppendProperties
  <1> HIDE DEF d, e
  <1>4. Len(e) = Len(a) - 1 + Len(d)
    BY <1>1, <1>2, <1>3
  <1>5. \A l \in 1 .. Len(a) : e[l] = a[l]
    <2>1. \A l \in 1 .. Len(a) : l \in 1 .. Len(c)
      BY <1>1
    <2> QED
      BY <2>1, <1>3 DEF Joins
  <1>6. \A l \in 1 .. Len(d) : e[Len(a) - 1 + l] = d[l] + shift
    <2> TAKE l \in 1 .. Len(d)
    <2>1. CASE l = Len(b) + 1
      <3>1. Len(a) - 1 + l = Len(c) + 1
        BY <2>1, <1>1
      <3> QED
        BY <2>1, <3>1, <1>2, <1>3
    <2>2. CASE l \in 1 .. Len(b)
      <3>1. Len(a) - 1 + l \in 1 .. Len(c)
        BY <2>2, <1>1
      <3>2. e[Len(a) - 1 + l] = c[Len(a) - 1 + l]
        BY <3>1, <1>3
      <3>3. c[Len(a) - 1 + l] = b[l] + shift
        BY <2>2 DEF Joins
      <3> QED
        BY <2>2, <3>2, <3>3, <1>2
    <2>3. l = Len(b) + 1 \/ l \in 1 .. Len(b)
      BY <1>1, <1>2
    <2> QED
      BY <2>1, <2>2, <2>3
  <1>7. Joins(a, d, shift, e)
    BY <1>4, <1>5, <1>6 DEF Joins
  <1> QED
    BY <1>7 DEF d, e

\* After a text that ends its last line, the lines of another begin.
LEMMA StartsJoin ==
  ASSUME NEW s \in Seq(Bytes), NEW t \in Seq(Bytes), EndsLine(s)
  PROVE  /\ LineStarts(s)[Len(LineStarts(s))] = Len(s) + 1
         /\ Joins(LineStarts(s), LineStarts(t), Len(s), LineStarts(s \o t))
  <1> DEFINE u == s \o t
  <1>1. /\ u \in Seq(Bytes) /\ Len(s) \in Nat /\ Len(t) \in Nat /\ Len(u) = Len(s) + Len(t)
        /\ \A i \in 1 .. Len(s) : u[i] = s[i]
        /\ \A i \in 1 .. Len(t) : u[Len(s) + i] = t[i]
    OBVIOUS
  <1>2. PICK a \in [0 .. Len(s) -> Seq(Nat)] :
           /\ a[0] = <<1>>
           /\ \A n \in 1 .. Len(s) :
                a[n] = IF s[n] = LF THEN Append(a[n - 1], n + 1) ELSE a[n - 1]
           /\ LineStarts(s) = a[Len(s)]
    BY LineStartsLoop
  <1>3. PICK b \in [0 .. Len(t) -> Seq(Nat)] :
           /\ b[0] = <<1>>
           /\ \A n \in 1 .. Len(t) :
                b[n] = IF t[n] = LF THEN Append(b[n - 1], n + 1) ELSE b[n - 1]
           /\ LineStarts(t) = b[Len(t)]
    BY LineStartsLoop
  <1> HIDE DEF u
  <1>4. PICK c \in [0 .. Len(u) -> Seq(Nat)] :
           /\ c[0] = <<1>>
           /\ \A n \in 1 .. Len(u) :
                c[n] = IF u[n] = LF THEN Append(c[n - 1], n + 1) ELSE c[n - 1]
           /\ LineStarts(u) = c[Len(u)]
    BY <1>1, LineStartsLoop
  <1>5. c[Len(s)] = a[Len(s)]
    <2> DEFINE S == {n \in 0 .. Len(s) : c[n] = a[n]}
    <2>1. 0 \in S
      <3>1. 0 \in 0 .. Len(s) /\ c[0] = a[0]
        BY <1>1, <1>2, <1>4
      <3> QED
        BY <3>1
    <2>2. ASSUME NEW n \in 1 .. Len(s), n - 1 \in S PROVE n \in S
      <3>1. n \in 1 .. Len(u) /\ n \in 0 .. Len(s) /\ u[n] = s[n]
        BY <1>1
      <3>2. a[n] = IF s[n] = LF THEN Append(a[n - 1], n + 1) ELSE a[n - 1]
        BY <1>2
      <3>3. c[n] = IF u[n] = LF THEN Append(c[n - 1], n + 1) ELSE c[n - 1]
        BY <1>4, <3>1
      <3>4. c[n - 1] = a[n - 1]
        BY <2>2
      <3>5. c[n] = a[n]
        BY <3>1, <3>2, <3>3, <3>4
      <3> QED
        BY <3>1, <3>5
    <2> HIDE DEF S
    <2>3. Len(s) \in 0 .. Len(s)
      BY <1>1
    <2>4. Len(s) \in S
      BY <1>1, <2>1, <2>2, <2>3, Upwards
    <2> QED
      BY <2>4 DEF S
  <1> DEFINE A == LineStarts(s)
  <1>6. A \in Seq(Nat) /\ Len(A) \in Nat /\ Len(A) >= 1
    BY LineStartsAre DEF StartsOf
  <1>7. A[Len(A)] = Len(s) + 1
    <2>1. Len(s) \in 1 .. Len(s) /\ s[Len(s)] = LF
      BY <1>1 DEF EndsLine
    <2>2. A = Append(a[Len(s) - 1], Len(s) + 1)
      BY <1>2, <2>1
    <2>3. a[Len(s) - 1] \in Seq(Nat) /\ Len(s) + 1 \in Nat
      BY <1>2, <2>1
    <2> HIDE DEF A
    <2> QED
      BY <2>2, <2>3
  <1> DEFINE S == {n \in 0 .. Len(t) :
                     Len(b[n]) >= 1 /\ Joins(A, b[n], Len(s), c[Len(s) + n])}
  <1>8. 0 \in S
    <2> DEFINE one == <<1>>
    <2>1. one \in Seq(Nat) /\ Len(one) = 1 /\ one[1] = 1 /\ b[0] = one
      BY <1>3
    <2>2. c[Len(s) + 0] = A
      BY <1>1, <1>2, <1>5
    <2> HIDE DEF one, A
    <2>3. Joins(A, one, Len(s), A)
      <3>1. Len(A) - 1 + 1 = Len(A) /\ 1 + Len(s) = Len(s) + 1
        BY <1>6, <1>1
      <3> QED
        BY <2>1, <3>1, <1>7, <1>6 DEF Joins
    <2>4. 0 \in 0 .. Len(t) /\ Len(one) >= 1
      BY <1>1, <2>1
    <2> QED
      BY <2>1, <2>2, <2>3, <2>4
  <1>9. ASSUME NEW n \in 1 .. Len(t), n - 1 \in S PROVE n \in S
    <2> DEFINE d == b[n - 1]
               e == c[Len(s) + n - 1]
    <2>1. /\ Len(s) + n \in 1 .. Len(u) /\ u[Len(s) + n] = t[n] /\ n \in 0 .. Len(t)
          /\ n - 1 \in 0 .. Len(t) /\ Len(s) + n - 1 \in 0 .. Len(u)
          /\ Len(s) + (n - 1) = Len(s) + n - 1 /\ Len(s) + n + 1 = n + 1 + Len(s)
          /\ n + 1 \in Nat /\ Len(s) + n + 1 \in Nat
      BY <1>1
    <2>2. d \in Seq(Nat) /\ e \in Seq(Nat)
      BY <2>1, <1>3, <1>4
    <2>3. Len(d) >= 1 /\ Joins(A, d, Len(s), e)
      <3> HIDE DEF A
      <3> QED
        BY <1>9, <2>1
    <2>4. b[n] = IF t[n] = LF THEN Append(d, n + 1) ELSE d
      BY <1>3
    <2>5. c[Len(s) + n] = IF t[n] = LF THEN Append(e, Len(s) + n + 1) ELSE e
      BY <1>4, <2>1
    <2> HIDE DEF d, e, A
    <2>6. CASE t[n] = LF
      <3>1. Joins(A, Append(d, n + 1), Len(s), Append(e, Len(s) + n + 1))
        BY <1>1, <1>6, <2>1, <2>2, <2>3, JoinsGrow
      <3>2. Len(Append(d, n + 1)) >= 1
        BY <2>1, <2>2, <2>3
      <3> QED
        BY <2>1, <2>4, <2>5, <2>6, <3>1, <3>2
    <2>7. CASE t[n] # LF
      BY <2>1, <2>3, <2>4, <2>5, <2>7
    <2> QED
      BY <2>6, <2>7
  <1> HIDE DEF S
  <1>10. Len(t) \in S
    <2>1. Len(t) \in 0 .. Len(t)
      BY <1>1
    <2> QED
      BY <1>1, <1>8, <1>9, <2>1, Upwards
  <1>11. Joins(A, b[Len(t)], Len(s), c[Len(s) + Len(t)])
    BY <1>10 DEF S
  <1> QED
    BY <1>1, <1>3, <1>4, <1>7, <1>11 DEF u

\* The characters i .. j - 1.
Cut(s, i, j) == SubSeq(s, i, j - 1)

\* A text that ends its last line, or has none.
Closed(s) == s = <<>> \/ EndsLine(s)

\* What a part within a sequence is.
LEMMA PartIsCut ==
  ASSUME NEW X, NEW s \in Seq(X), NEW i \in 1 .. Len(s) + 1, NEW j \in i .. Len(s) + 1
  PROVE  /\ Part(s, i, j - 1) = Cut(s, i, j)
         /\ Cut(s, i, j) \in Seq(X) /\ Len(Cut(s, i, j)) = j - i
         /\ \A k \in 1 .. j - i : Cut(s, i, j)[k] = s[i + k - 1]
  <1>1. Len(s) \in Nat /\ i \in Nat /\ j \in Nat /\ j - 1 =< Len(s)
    OBVIOUS
  <1>2. (IF j - 1 < Len(s) THEN j - 1 ELSE Len(s)) = j - 1
    BY <1>1
  <1>3. \A k \in i .. j - 1 : s[k] \in X
    BY <1>1
  <1>4. /\ Cut(s, i, j) \in Seq(X)
        /\ Len(Cut(s, i, j)) = IF i <= j - 1 THEN j - 1 - i + 1 ELSE 0
        /\ \A k \in 1 .. j - 1 - i + 1 : Cut(s, i, j)[k] = s[i + k - 1]
    BY <1>1, <1>3, SubSeqProperties DEF Cut
  <1> QED
    BY <1>1, <1>2, <1>4 DEF Part, Cut

\* A cut is the two that it is made of.
LEMMA CutsJoin ==
  ASSUME NEW X, NEW s \in Seq(X), NEW i \in 1 .. Len(s) + 1, NEW j \in i .. Len(s) + 1,
         NEW k \in j .. Len(s) + 1
  PROVE  Cut(s, i, k) = Cut(s, i, j) \o Cut(s, j, k)
  <1>1. /\ i \in 1 .. Len(s) + 1 /\ j - 1 \in i - 1 .. Len(s) /\ k - 1 \in j - 1 .. Len(s)
        /\ j - 1 + 1 = j
    OBVIOUS
  <1> QED
    BY <1>1, ConcatAdjacentSubSeq DEF Cut

\* A cut within one of two sequences that are joined.
LEMMA CutOfBoth ==
  ASSUME NEW X, NEW s \in Seq(X), NEW t \in Seq(X)
  PROVE  /\ \A i \in 1 .. Len(s) + 1 : \A j \in i .. Len(s) + 1 : Cut(s \o t, i, j) = Cut(s, i, j)
         /\ \A i \in 1 .. Len(t) + 1 : \A j \in i .. Len(t) + 1 :
              Cut(s \o t, i + Len(s), j + Len(s)) = Cut(t, i, j)
  <1> DEFINE u == s \o t
  <1>1. u \in Seq(X) /\ Len(s) \in Nat /\ Len(t) \in Nat /\ Len(u) = Len(s) + Len(t)
    OBVIOUS
  <1>4. /\ \A i \in 1 .. Len(s) : u[i] = s[i]
        /\ \A i \in 1 .. Len(t) : u[Len(s) + i] = t[i]
    OBVIOUS
  <1>5. u \in Seq(X)
    BY <1>1
  <1> HIDE DEF u
  <1>2. ASSUME NEW i \in 1 .. Len(s) + 1, NEW j \in i .. Len(s) + 1
        PROVE  Cut(u, i, j) = Cut(s, i, j)
    <2>1. i \in 1 .. Len(u) + 1 /\ j \in i .. Len(u) + 1
      BY <1>1
    <2>2. /\ Cut(u, i, j) \in Seq(X) /\ Len(Cut(u, i, j)) = j - i
          /\ \A k \in 1 .. j - i : Cut(u, i, j)[k] = u[i + k - 1]
      BY <1>5, <2>1, PartIsCut
    <2>3. /\ Cut(s, i, j) \in Seq(X) /\ Len(Cut(s, i, j)) = j - i
          /\ \A k \in 1 .. j - i : Cut(s, i, j)[k] = s[i + k - 1]
      BY PartIsCut
    <2>4. ASSUME NEW k \in 1 .. j - i PROVE Cut(u, i, j)[k] = Cut(s, i, j)[k]
      <3>1. i + k - 1 \in 1 .. Len(s)
        BY <1>1
      <3> QED
        BY <1>4, <2>2, <2>3, <3>1
    <2> QED
      BY <2>2, <2>3, <2>4, SeqEqual
  <1>3. ASSUME NEW i \in 1 .. Len(t) + 1, NEW j \in i .. Len(t) + 1
        PROVE  Cut(u, i + Len(s), j + Len(s)) = Cut(t, i, j)
    <2> DEFINE a == i + Len(s)
               b == j + Len(s)
    <2>1. a \in 1 .. Len(u) + 1 /\ b \in a .. Len(u) + 1 /\ b - a = j - i
      BY <1>1
    <2> HIDE DEF a, b
    <2>2. /\ Cut(u, a, b) \in Seq(X) /\ Len(Cut(u, a, b)) = j - i
          /\ \A k \in 1 .. j - i : Cut(u, a, b)[k] = u[a + k - 1]
      <3>1. /\ Cut(u, a, b) \in Seq(X) /\ Len(Cut(u, a, b)) = b - a
            /\ \A k \in 1 .. b - a : Cut(u, a, b)[k] = u[a + k - 1]
        BY <1>5, <2>1, PartIsCut
      <3> QED
        BY <2>1, <3>1
    <2>3. /\ Cut(t, i, j) \in Seq(X) /\ Len(Cut(t, i, j)) = j - i
          /\ \A k \in 1 .. j - i : Cut(t, i, j)[k] = t[i + k - 1]
      BY PartIsCut
    <2>4. ASSUME NEW k \in 1 .. j - i PROVE Cut(u, a, b)[k] = Cut(t, i, j)[k]
      <3>1. i + k - 1 \in 1 .. Len(t) /\ a + k - 1 = Len(s) + (i + k - 1)
        BY <1>1 DEF a
      <3> QED
        BY <1>4, <2>2, <2>3, <3>1
    <2>5. Cut(u, a, b) = Cut(t, i, j)
      BY <2>2, <2>3, <2>4, SeqEqual
    <2> QED
      BY <2>5 DEF a, b
  <1> QED
    BY <1>2, <1>3 DEF u

\* A line is from its start to the next one, or the end.
LEMMA LineIsCut ==
  ASSUME NEW s \in Seq(Bytes), NEW l \in 1 .. Len(LineStarts(s))
  PROVE  /\ LineStarts(s)[l] \in 1 .. Len(s) + 1
         /\ LineEnd(LineStarts(s), s, l) \in LineStarts(s)[l] .. Len(s) + 1
         /\ LineText(s, l) = Cut(s, LineStarts(s)[l], LineEnd(LineStarts(s), s, l))
         /\ LineText(s, l) \in Seq(Bytes)
  <1> DEFINE st == LineStarts(s)
             i == st[l]
             j == LineEnd(st, s, l)
  <1>1. StartsOf(s, Len(s), st) /\ Len(s) \in Nat
    BY LineStartsAre
  <1> HIDE DEF st
  <1>2. i \in 1 .. Len(s) + 1
    BY <1>1 DEF StartsOf, st
  <1>3. j \in i .. Len(s) + 1
    <2>1. CASE l < Len(st)
      <3>1. l + 1 \in 1 .. Len(st) /\ l \in 1 .. Len(st) /\ l < l + 1
        BY <1>1, <2>1 DEF StartsOf, st
      <3>2. j = st[l + 1]
        BY <2>1 DEF LineEnd
      <3>3. st[l] < st[l + 1] /\ st[l + 1] =< Len(s) + 1 /\ st[l + 1] \in Nat
        BY <1>1, <3>1 DEF StartsOf
      <3>4. j =< Len(s) + 1 /\ i =< j /\ j \in Nat
        BY <3>2, <3>3, <1>2
      <3> QED
        BY <1>1, <1>2, <3>4
    <2>2. CASE ~(l < Len(st))
      BY <1>1, <1>2, <2>2 DEF LineEnd
    <2> QED
      BY <2>1, <2>2
  <1>4. LineText(s, l) = Part(s, i, j - 1)
    BY DEF LineText, st
  <1> HIDE DEF i, j
  <1>5. Part(s, i, j - 1) = Cut(s, i, j) /\ Cut(s, i, j) \in Seq(Bytes)
    BY <1>2, <1>3, PartIsCut
  <1> QED
    BY <1>2, <1>3, <1>4, <1>5 DEF i, j, st

\* How many lines there are: one less than starts when nothing follows the last newline.
LEMMA LinesAre ==
  ASSUME NEW s \in Seq(Bytes)
  PROVE  /\ TextLines(s) \in Seq(Seq(Bytes))
         /\ Len(TextLines(s)) = Len(LineStarts(s)) - (IF Closed(s) THEN 1 ELSE 0)
         /\ Len(LineStarts(s)) \in Nat /\ Len(LineStarts(s)) >= 1
         /\ \A l \in 1 .. Len(TextLines(s)) : TextLines(s)[l] = LineText(s, l)
  <1> DEFINE m == Len(LineStarts(s))
             count == m - (IF s = <<>> \/ EndsLine(s) THEN 1 ELSE 0)
  <1>1. m \in Nat /\ m >= 1
    BY LineStartsAre DEF StartsOf
  <1> HIDE DEF m
  <1>2. count \in Nat /\ \A l \in 1 .. count : l \in 1 .. m
    BY <1>1
  <1>3. \A l \in 1 .. count : LineText(s, l) \in Seq(Bytes)
    BY <1>2, LineIsCut DEF m
  <1>4. TextLines(s) = [l \in 1 .. count |-> LineText(s, l)]
    BY DEF TextLines, m
  <1>5. count = m - (IF Closed(s) THEN 1 ELSE 0)
    BY DEF Closed
  <1> HIDE DEF count
  <1>6. TextLines(s) \in Seq(Seq(Bytes)) /\ Len(TextLines(s)) = count
    <2>1. TextLines(s) \in [1 .. count -> Seq(Bytes)]
      BY <1>3, <1>4
    <2> QED
      BY <2>1, <1>2
  <1> QED
    BY <1>1, <1>4, <1>5, <1>6 DEF m

\* The lines of a text that ends its last line stay when another follows.
LEMMA LinesOfBoth ==
  ASSUME NEW s \in Seq(Bytes), NEW t \in Seq(Bytes), EndsLine(s)
  PROVE  LET m == Len(LineStarts(s)) - 1
         IN  /\ Len(LineStarts(s \o t)) = m + Len(LineStarts(t))
             /\ \A l \in 1 .. m : LineText(s \o t, l) = LineText(s, l)
             /\ \A l \in 1 .. Len(LineStarts(t)) : LineText(s \o t, m + l) = LineText(t, l)
  <1> DEFINE u == s \o t
             a == LineStarts(s)
             b == LineStarts(t)
             c == LineStarts(u)
             m == Len(a) - 1
  <1>1. u \in Seq(Bytes) /\ Len(s) \in Nat /\ Len(t) \in Nat /\ Len(u) = Len(s) + Len(t)
    OBVIOUS
  <1>2. a[Len(a)] = Len(s) + 1 /\ Joins(a, b, Len(s), c)
    BY StartsJoin
  <1>3. /\ \A i \in 1 .. Len(s) + 1 : \A j \in i .. Len(s) + 1 : Cut(u, i, j) = Cut(s, i, j)
        /\ \A i \in 1 .. Len(t) + 1 : \A j \in i .. Len(t) + 1 :
              Cut(u, i + Len(s), j + Len(s)) = Cut(t, i, j)
    BY CutOfBoth
  <1> HIDE DEF u
  <1>4. Len(a) \in Nat /\ Len(b) \in Nat /\ Len(a) >= 1 /\ Len(b) >= 1
    BY LinesAre
  <1>5. /\ \A l \in 1 .. Len(a) : /\ a[l] \in 1 .. Len(s) + 1
                                  /\ LineEnd(a, s, l) \in a[l] .. Len(s) + 1
                                  /\ LineText(s, l) = Cut(s, a[l], LineEnd(a, s, l))
        /\ \A l \in 1 .. Len(b) : /\ b[l] \in 1 .. Len(t) + 1
                                  /\ LineEnd(b, t, l) \in b[l] .. Len(t) + 1
                                  /\ LineText(t, l) = Cut(t, b[l], LineEnd(b, t, l))
        /\ \A l \in 1 .. Len(c) : LineText(u, l) = Cut(u, c[l], LineEnd(c, u, l))
    BY <1>1, LineIsCut
  <1> HIDE DEF a, b, c
  <1>6. /\ Len(c) = m + Len(b)
        /\ \A l \in 1 .. Len(a) : c[l] = a[l]
        /\ \A l \in 1 .. Len(b) : c[m + l] = b[l] + Len(s)
    BY <1>2 DEF Joins
  <1>7. ASSUME NEW l \in 1 .. m PROVE LineText(u, l) = LineText(s, l)
    <2>1. /\ l \in 1 .. Len(a) /\ l + 1 \in 1 .. Len(a) /\ l \in 1 .. Len(c) /\ l < Len(c)
          /\ l < Len(a)
      BY <1>4, <1>6
    <2>2. LineEnd(c, u, l) = LineEnd(a, s, l)
      BY <2>1, <1>6 DEF LineEnd
    <2>3. c[l] = a[l]
      BY <2>1, <1>6
    <2> QED
      BY <2>1, <2>2, <2>3, <1>3, <1>5
  <1>8. ASSUME NEW l \in 1 .. Len(b) PROVE LineText(u, m + l) = LineText(t, l)
    <2>1. m + l \in 1 .. Len(c) /\ c[m + l] = b[l] + Len(s) /\ m \in Nat
      BY <1>4, <1>6
    <2>2. LineEnd(c, u, m + l) = LineEnd(b, t, l) + Len(s)
      <3>1. CASE l < Len(b)
        <4>1. l + 1 \in 1 .. Len(b) /\ m + l < Len(c) /\ m + l + 1 = m + (l + 1)
          BY <1>4, <1>6, <2>1, <3>1
        <4>2. c[m + (l + 1)] = b[l + 1] + Len(s)
          BY <4>1, <1>6
        <4> QED
          BY <4>1, <4>2, <3>1 DEF LineEnd
      <3>2. CASE l = Len(b)
        <4>1. ~(m + l < Len(c)) /\ Len(u) + 1 = Len(t) + 1 + Len(s)
          BY <1>1, <1>4, <1>6, <2>1, <3>2
        <4>2. ~(l < Len(b))
          BY <3>2, <1>4
        <4> QED
          BY <4>1, <4>2 DEF LineEnd
      <3> QED
        BY <3>1, <3>2, <1>4
    <2>3. LineText(u, m + l) = Cut(u, b[l] + Len(s), LineEnd(b, t, l) + Len(s))
      BY <2>1, <2>2, <1>5
    <2> QED
      BY <2>3, <1>3, <1>5
  <1> QED
    BY <1>6, <1>7, <1>8 DEF a, b, c, u

\* Of two texts the first of which ends its last line the lines are those of both.
LEMMA LinesJoin ==
  ASSUME NEW s \in Seq(Bytes), NEW t \in Seq(Bytes), Closed(s)
  PROVE  TextLines(s \o t) = TextLines(s) \o TextLines(t)
  <1>1. CASE s = <<>>
    <2>1. s \o t = t
      BY <1>1
    <2>2. Len(LineStarts(s)) = 1
      <3> DEFINE st == LineStarts(s)
      <3>1. StartsOf(s, 0, st)
        BY <1>1, LineStartsAre
      <3> HIDE DEF st
      <3>2. /\ Len(st) \in Nat /\ Len(st) >= 1
            /\ \A l \in 1 .. Len(st) : st[l] =< 0 + 1
            /\ \A l \in 2 .. Len(st) : st[l] >= 2 /\ st[l] \in Nat
        BY <3>1 DEF StartsOf
      <3>3. ~(Len(st) >= 2)
        <4> SUFFICES ASSUME Len(st) >= 2 PROVE FALSE
          OBVIOUS
        <4>1. 2 \in 2 .. Len(st) /\ 2 \in 1 .. Len(st)
          BY <3>2
        <4>2. st[2] >= 2 /\ st[2] =< 0 + 1 /\ st[2] \in Nat
          BY <3>2, <4>1
        <4> QED
          BY <4>2
      <3>4. Len(st) = 1
        <4> DEFINE n == Len(st)
        <4>1. n \in Nat /\ n >= 1 /\ ~(n >= 2)
          BY <3>2, <3>3
        <4> HIDE DEF n
        <4>2. n = 1
          BY <4>1
        <4> QED
          BY <4>2 DEF n
      <3> QED
        BY <3>4 DEF st
    <2>3. TextLines(s) \in Seq(Seq(Bytes)) /\ Len(TextLines(s)) = 0
      <3> DEFINE n == Len(TextLines(s))
                 m == Len(LineStarts(s))
      <3>1. TextLines(s) \in Seq(Seq(Bytes)) /\ n = m - (IF Closed(s) THEN 1 ELSE 0)
        BY LinesAre
      <3>2. m = 1
        BY <2>2
      <3> HIDE DEF n, m
      <3>3. n = 0
        BY <3>1, <3>2
      <3> QED
        BY <3>1, <3>3 DEF n
    <2>4. TextLines(s) = <<>>
      BY <2>3
    <2>5. TextLines(t) \in Seq(Seq(Bytes))
      BY LinesAre
    <2> QED
      BY <2>1, <2>4, <2>5
  <1>2. CASE EndsLine(s)
    <2> DEFINE u == s \o t
               m == Len(LineStarts(s)) - 1
    <2>1. u \in Seq(Bytes) /\ Len(s) \in Nat /\ Len(t) \in Nat /\ Len(u) = Len(s) + Len(t)
      OBVIOUS
    <2>2. /\ Len(LineStarts(u)) = m + Len(LineStarts(t))
          /\ \A l \in 1 .. m : LineText(u, l) = LineText(s, l)
          /\ \A l \in 1 .. Len(LineStarts(t)) : LineText(u, m + l) = LineText(t, l)
      BY <1>2, LinesOfBoth
    <2>3. Closed(u) <=> Closed(t)
      <3>1. s # <<>> /\ Len(s) >= 1
        BY <1>2, <2>1, EmptySeq DEF EndsLine
      <3>2. Len(u) >= 1 /\ u # <<>>
        <4>1. Len(u) >= 1
          BY <2>1, <3>1
        <4> HIDE DEF u
        <4> QED
          BY <4>1, <2>1, EmptySeq
      <3>3. CASE t = <<>>
        <4>1. u = s
          BY <3>3
        <4> QED
          BY <1>2, <3>3, <4>1 DEF Closed
      <3>4. CASE t # <<>>
        <4>1. Len(t) >= 1
          BY <2>1, <3>4, EmptySeq
        <4>2. u[Len(s) + Len(t)] = t[Len(t)]
          BY <4>1, <2>1, ConcatProperties
        <4>3. u[Len(u)] = t[Len(t)]
          BY <2>1, <4>2
        <4> HIDE DEF u
        <4> QED
          BY <3>2, <3>4, <4>3 DEF Closed, EndsLine
      <3> QED
        BY <3>3, <3>4
    <2> HIDE DEF u
    <2>4. /\ TextLines(s) \in Seq(Seq(Bytes)) /\ Len(TextLines(s)) = m /\ m \in Nat
          /\ \A l \in 1 .. m : TextLines(s)[l] = LineText(s, l)
      BY <1>2, LinesAre DEF Closed
    <2>5. /\ TextLines(t) \in Seq(Seq(Bytes))
          /\ Len(TextLines(t)) = Len(LineStarts(t)) - (IF Closed(t) THEN 1 ELSE 0)
          /\ Len(LineStarts(t)) \in Nat /\ Len(LineStarts(t)) >= 1
          /\ \A l \in 1 .. Len(TextLines(t)) : TextLines(t)[l] = LineText(t, l)
      BY LinesAre
    <2>6. /\ TextLines(u) \in Seq(Seq(Bytes))
          /\ Len(TextLines(u)) = Len(LineStarts(u)) - (IF Closed(u) THEN 1 ELSE 0)
          /\ \A l \in 1 .. Len(TextLines(u)) : TextLines(u)[l] = LineText(u, l)
      BY <2>1, LinesAre
    <2> DEFINE S == TextLines(s)
               T == TextLines(t)
               U == TextLines(u)
               n == Len(LineStarts(t))
    <2> HIDE DEF S, T, U, m, n
    <2>7. Len(U) = m + Len(T) /\ Len(T) \in Nat /\ Len(T) =< n
      BY <2>2, <2>3, <2>4, <2>5, <2>6 DEF S, T, U, n
    <2>8. ASSUME NEW l \in 1 .. Len(U) PROVE U[l] = (S \o T)[l]
      <3>1. CASE l \in 1 .. m
        <4>1. U[l] = S[l]
          BY <2>2, <2>4, <2>6, <3>1 DEF S, U
        <4>2. (S \o T)[l] = S[l]
          BY <2>4, <2>5, <2>7, <3>1 DEF S, T
        <4> QED
          BY <4>1, <4>2
      <3>2. CASE l \in m + 1 .. m + Len(T)
        <4>1. l - m \in 1 .. Len(T) /\ l - m \in 1 .. n /\ m + (l - m) = l
          BY <2>4, <2>5, <2>7, <3>2 DEF n
        <4>2. U[l] = T[l - m]
          BY <2>2, <2>5, <2>6, <4>1 DEF T, U, n
        <4>3. (S \o T)[l] = T[l - m]
          <5>1. S \in Seq(Seq(Bytes)) /\ T \in Seq(Seq(Bytes)) /\ Len(S) = m /\ m \in Nat
            BY <2>4, <2>5 DEF S, T
          <5> QED
            BY <5>1, <2>7, <3>2, ConcatProperties
        <4> QED
          BY <4>2, <4>3
      <3>3. l \in 1 .. m \/ l \in m + 1 .. m + Len(T)
        BY <2>4, <2>7
      <3> QED
        BY <3>1, <3>2, <3>3
    <2>9. S \o T \in Seq(Seq(Bytes)) /\ Len(S \o T) = Len(U) /\ U \in Seq(Seq(Bytes))
      BY <2>4, <2>5, <2>6, <2>7 DEF S, T, U
    <2>10. U = S \o T
      BY <2>8, <2>9, SeqEqual
    <2> QED
      BY <2>10 DEF S, T, U, u
  <1> QED
    BY <1>1, <1>2 DEF Closed

\* What is cut at a newline, or is empty, ends its last line.
LEMMA CutIsClosed ==
  ASSUME NEW s \in Seq(Bytes), NEW i \in 1 .. Len(s) + 1, NEW j \in i .. Len(s) + 1,
         j = i \/ s[j - 1] = LF
  PROVE  Closed(Cut(s, i, j)) /\ (i < j => EndsLine(Cut(s, i, j)))
  <1> DEFINE c == Cut(s, i, j)
  <1>1. /\ c \in Seq(Bytes) /\ Len(c) = j - i
        /\ \A k \in 1 .. j - i : c[k] = s[i + k - 1]
    BY PartIsCut
  <1> HIDE DEF c
  <1>2. CASE i = j
    <2>1. c = <<>>
      <3>1. Len(c) = 0
        BY <1>1, <1>2
      <3> QED
        BY <1>1, <3>1, EmptySeq
    <2> QED
      BY <1>2, <2>1 DEF Closed, c
  <1>3. CASE i < j
    <2>1. j - i \in 1 .. j - i /\ i + (j - i) - 1 = j - 1
      BY <1>3
    <2>2. c[j - i] = s[j - 1]
      BY <1>1, <2>1
    <2>3. s[j - 1] = LF
      BY <1>3
    <2>4. c # <<>>
      <3>1. Len(c) # 0
        BY <1>1, <1>3
      <3> QED
        BY <3>1, EmptySeq
    <2>5. EndsLine(c)
      BY <1>1, <2>2, <2>3, <2>4 DEF EndsLine
    <2> QED
      BY <2>5 DEF Closed, c
  <1> QED
    BY <1>2, <1>3

\* The text before a line ends its last line, and has the lines before it.
LEMMA LinesBefore ==
  ASSUME NEW s \in Seq(Bytes), NEW l \in 1 .. Len(LineStarts(s))
  PROVE  /\ Closed(Cut(s, 1, LineStarts(s)[l]))
         /\ Len(TextLines(Cut(s, 1, LineStarts(s)[l]))) = l - 1
  <1> DEFINE st == LineStarts(s)
             p == st[l]
             a == Cut(s, 1, p)
             z == Cut(s, p, Len(s) + 1)
             b == LineStarts(a)
  <1>1. StartsOf(s, Len(s), st) /\ Len(s) \in Nat
    BY LineStartsAre
  <1>2. p \in 1 .. Len(s) + 1
    BY LineIsCut
  <1> HIDE DEF st, p
  <1>3. l = 1 => p = 1
    BY <1>1 DEF StartsOf, p
  <1>4. l # 1 => p >= 2 /\ s[p - 1] = LF
    <2>1. l # 1 => l \in 2 .. Len(st)
      BY DEF st
    <2> QED
      BY <1>1, <2>1 DEF StartsOf, p
  <1>5. 1 \in 1 .. Len(s) + 1 /\ p \in 1 .. Len(s) + 1 /\ Len(s) + 1 \in p .. Len(s) + 1
    BY <1>1, <1>2
  <1>6. a \in Seq(Bytes) /\ Len(a) = p - 1 /\ z \in Seq(Bytes)
    BY <1>5, PartIsCut
  <1>7. a \o z = s
    <2>1. a \o z = Cut(s, 1, Len(s) + 1)
      BY <1>5, CutsJoin
    <2>2. Cut(s, 1, Len(s) + 1) = SubSeq(s, 1, Len(s))
      BY <1>1 DEF Cut
    <2> QED
      BY <2>1, <2>2, SubSeqFull
  <1>8. Closed(a) /\ (l # 1 => EndsLine(a))
    <2>1. p = 1 \/ s[p - 1] = LF
      BY <1>3, <1>4
    <2>2. Closed(a) /\ (1 < p => EndsLine(a))
      BY <1>5, <2>1, CutIsClosed
    <2> QED
      BY <1>2, <1>4, <2>2
  <1> HIDE DEF a, z
  <1> DEFINE m == Len(TextLines(a))
             n == Len(b)
  <1>9. m = n - 1 /\ n \in Nat /\ n >= 1
    BY <1>6, <1>8, LinesAre
  <1>10. CASE l = 1
    <2>1. Len(a) = 0
      BY <1>3, <1>6, <1>10
    <2>2. StartsOf(a, 0, b)
      BY <1>6, <2>1, LineStartsAre
    <2> HIDE DEF b
    <2>3. \A k \in 1 .. Len(b) : b[k] =< 0 + 1
      BY <2>2 DEF StartsOf
    <2>4. \A k \in 2 .. Len(b) : b[k] >= 2 /\ b[k] \in Nat
      BY <2>2 DEF StartsOf
    <2>5. n >= 2 => FALSE
      <3> SUFFICES ASSUME n >= 2 PROVE FALSE
        OBVIOUS
      <3>1. n \in 2 .. Len(b) /\ n \in 1 .. Len(b)
        BY <1>9
      <3>2. b[n] =< 1 /\ b[n] >= 2 /\ b[n] \in Nat
        BY <2>3, <2>4, <3>1
      <3> QED
        BY <3>2
    <2> HIDE DEF m, n
    <2>6. m = l - 1
      BY <1>9, <1>10, <2>5
    <2> QED
      BY <1>8, <2>6 DEF m, a, p, st
  <1>11. CASE l # 1
    <2>1. b[n] = Len(a) + 1 /\ Joins(b, LineStarts(z), Len(a), LineStarts(a \o z))
      BY <1>6, <1>8, <1>11, StartsJoin
    <2>2. Joins(b, LineStarts(z), Len(a), st)
      BY <1>7, <2>1 DEF st
    <2>3. Len(LineStarts(z)) \in Nat /\ Len(LineStarts(z)) >= 1
      BY <1>6, LinesAre
    <2>4. /\ Len(st) = n - 1 + Len(LineStarts(z))
          /\ \A k \in 1 .. n : st[k] = b[k]
      BY <2>2 DEF Joins
    <2> HIDE DEF b, m, n
    <2>5. n \in 1 .. n /\ n \in 1 .. Len(st)
      BY <1>9, <2>3, <2>4
    <2>6. st[n] = p
      BY <1>2, <1>6, <2>1, <2>4, <2>5
    <2>7. \A j, k \in 1 .. Len(st) : j < k => st[j] < st[k]
      BY <1>1 DEF StartsOf
    <2>8. l \in 1 .. Len(st) /\ st[l] = p
      BY DEF st, p
    <2>9. ~(n < l) /\ ~(l < n)
      <3>1. p \in Int /\ ~(p < p)
        BY <1>2
      <3> QED
        BY <2>5, <2>6, <2>7, <2>8, <3>1
    <2>10. m = l - 1
      BY <1>9, <2>8, <2>9
    <2> QED
      BY <1>8, <2>10 DEF m, a, p, st
  <1> QED
    BY <1>10, <1>11

\* The line an offset is in is among these.
Within(starts, offset, lines) ==
  /\ lines \in [low : Nat, high : Nat]
  /\ 1 =< lines.low /\ lines.low =< lines.high /\ lines.high =< Len(starts)
  /\ starts[lines.low] =< offset
  /\ lines.high < Len(starts) => offset < starts[lines.high + 1]

\* A halving keeps the line between its bounds, and brings them closer.
LEMMA HalveKeeps ==
  ASSUME NEW starts \in Seq(Nat), NEW offset \in Nat, NEW lines, Within(starts, offset, lines)
  PROVE  /\ Within(starts, offset, Halve(starts, offset, lines))
         /\ lines.low >= lines.high => Halve(starts, offset, lines) = lines
         /\ lines.low < lines.high =>
              Halve(starts, offset, lines).high - Halve(starts, offset, lines).low
                < lines.high - lines.low
  <1> DEFINE a == lines.low
             b == lines.high
             middle == (a + b + 1) \div 2
             h == Halve(starts, offset, lines)
  <1>1. a \in Nat /\ b \in Nat /\ 1 =< a /\ a =< b /\ b =< Len(starts) /\ Len(starts) \in Nat
    BY DEF Within
  <1>2. CASE a >= b
    <2>1. h = lines
      BY <1>2 DEF Halve
    <2> QED
      BY <1>1, <1>2, <2>1
  <1>3. CASE a < b
    <2>1. middle \in Nat /\ a < middle /\ middle =< b
      <3> HIDE DEF a, b
      <3> QED
        BY <1>1, <1>3
    <2>2. ~(lines.low >= lines.high)
      BY <1>1, <1>3
    <2>3. starts[middle] \in Nat
      <3>1. middle \in 1 .. Len(starts)
        BY <1>1, <2>1
      <3> HIDE DEF middle
      <3> QED
        BY <3>1
    <2>4. CASE starts[middle] =< offset
      <3>1. h = [lines EXCEPT !.low = middle]
        BY <2>2, <2>4 DEF Halve
      <3> HIDE DEF middle
      <3>2. h \in [low : Nat, high : Nat] /\ h.low = middle /\ h.high = b
        BY <2>1, <3>1 DEF Within
      <3> HIDE DEF h
      <3>3. Within(starts, offset, h)
        BY <1>1, <2>1, <2>4, <3>2 DEF Within
      <3> HIDE DEF a, b
      <3>4. h.high - h.low < b - a
        BY <1>1, <2>1, <3>2
      <3> QED
        BY <1>1, <1>3, <3>3, <3>4 DEF h, a, b
    <2>5. CASE ~(starts[middle] =< offset)
      <3>1. h = [lines EXCEPT !.high = middle - 1]
        BY <2>2, <2>5 DEF Halve
      <3> HIDE DEF middle
      <3>2. h \in [low : Nat, high : Nat] /\ h.low = a /\ h.high = middle - 1
        BY <1>1, <2>1, <3>1 DEF Within
      <3> HIDE DEF h
      <3>3. Within(starts, offset, h)
        <4>1. offset < starts[middle] /\ middle - 1 + 1 = middle
          BY <2>1, <2>3, <2>5
        <4>2. starts[a] =< offset
          BY DEF Within
        <4> HIDE DEF a, b
        <4> QED
          BY <1>1, <2>1, <3>2, <4>1, <4>2 DEF Within
      <3> HIDE DEF a, b
      <3>4. h.high - h.low < b - a
        BY <1>1, <2>1, <3>2
      <3> QED
        BY <1>1, <1>3, <3>3, <3>4 DEF h, a, b
    <2> QED
      BY <2>4, <2>5
  <1> QED
    BY <1>1, <1>2, <1>3

\* The loop of LineAt.
LEMMA LineAtLoop ==
  ASSUME NEW starts \in Seq(Nat), Len(starts) >= 1, NEW offset \in Nat, starts[1] =< offset
  PROVE  \E between : /\ between[0] = [low |-> 1, high |-> Len(starts)]
                      /\ \A n \in 0 .. Len(starts) : Within(starts, offset, between[n])
                      /\ \A n \in 1 .. Len(starts) :
                           between[n] = Halve(starts, offset, between[n - 1])
                      /\ LineAt(starts, offset) = between[Len(starts)].low
  <1> DEFINE Between[times \in 0 .. Len(starts)] ==
               IF times = 0 THEN [low |-> 1, high |-> Len(starts)]
               ELSE Halve(starts, offset, Between[times - 1])
             N == Len(starts)
             all == [low |-> 1, high |-> N]
             X == {lines \in [low : Nat, high : Nat] : Within(starts, offset, lines)}
             step == [p \in (1 .. N) \X X |-> Halve(starts, offset, p[2])]
  <1>1. LineAt(starts, offset) = Between[N].low
    BY DEF LineAt
  <1>2. N \in Nat /\ N >= 1
    OBVIOUS
  <1>3. \A x \in X : Halve(starts, offset, x) \in X
    BY HalveKeeps DEF Within
  <1>4. all \in X
    <2>1. all \in [low : Nat, high : Nat] /\ all.low = 1 /\ all.high = N
      BY <1>2
    <2> HIDE DEF all
    <2> QED
      BY <1>2, <2>1 DEF Within
  <1> HIDE DEF X
  <1>5. step \in [(1 .. N) \X X -> X]
    BY <1>3
  <1>6. PICK f \in Loop(N, X, all, step) : TRUE
    <2> HIDE DEF step, N, all
    <2> QED
      BY <1>2, <1>4, <1>5, Iterates
  <1>7. /\ f \in [0 .. N -> X] /\ f[0] = all
        /\ \A n \in 1 .. N : f[n] = Halve(starts, offset, f[n - 1])
    <2>1. /\ f \in [0 .. N -> X] /\ f[0] = all
          /\ \A n \in 1 .. N : f[n] = step[<<n, f[n - 1]>>]
      BY <1>6 DEF Loop
    <2>2. ASSUME NEW n \in 1 .. N PROVE <<n, f[n - 1]>> \in (1 .. N) \X X
      <3>1. n - 1 \in 0 .. N
        BY <1>2
      <3> QED
        BY <3>1, <2>1
    <2> QED
      BY <2>1, <2>2
  <1>8. f = [times \in 0 .. Len(starts) |->
               IF times = 0 THEN [low |-> 1, high |-> Len(starts)]
               ELSE Halve(starts, offset, f[times - 1])]
    <2>1. \A times \in 0 .. N : f[times] = IF times = 0 THEN all
                                           ELSE Halve(starts, offset, f[times - 1])
      <3>1. \A times \in 0 .. N : times = 0 \/ times \in 1 .. N
        BY <1>2
      <3> HIDE DEF N, all
      <3> QED
        BY <1>7, <3>1
    <2>2. f = [times \in 0 .. N |-> f[times]]
      BY <1>7
    <2> HIDE DEF N, all
    <2>3. f = [times \in 0 .. N |-> IF times = 0 THEN all
                                    ELSE Halve(starts, offset, f[times - 1])]
      BY <2>1, <2>2
    <2> QED
      BY <2>3 DEF N, all
  <1>9. Between = [times \in 0 .. Len(starts) |->
               IF times = 0 THEN [low |-> 1, high |-> Len(starts)]
               ELSE Halve(starts, offset, Between[times - 1])]
    BY <1>8
  <1> HIDE DEF Between
  <1>10. /\ Between[0] = all
         /\ \A n \in 1 .. N : Between[n] = Halve(starts, offset, Between[n - 1])
    <2>1. 0 \in 0 .. Len(starts) /\ \A n \in 1 .. Len(starts) : n \in 0 .. Len(starts) /\ n # 0
      BY <1>2
    <2>2. Between[0] = all
      BY <1>9, <2>1
    <2>3. ASSUME NEW n \in 1 .. Len(starts)
          PROVE  Between[n] = Halve(starts, offset, Between[n - 1])
      BY <1>9, <2>1
    <2> QED
      BY <2>2, <2>3
  <1>11. \A n \in 0 .. N : Between[n] \in X
    <2> HIDE DEF N, all
    <2> QED
      BY <1>2, <1>3, <1>4, <1>10, LoopKeeps
  <1>12. \A n \in 0 .. N : Within(starts, offset, Between[n])
    BY <1>11 DEF X
  <1> QED
    BY <1>1, <1>10, <1>12

\* It finds the last line that starts no later than the offset.
LEMMA LineAtIs ==
  ASSUME NEW starts \in Seq(Nat), Len(starts) >= 1, NEW offset \in Nat, starts[1] =< offset
  PROVE  /\ LineAt(starts, offset) \in 1 .. Len(starts)
         /\ starts[LineAt(starts, offset)] =< offset
         /\ LineAt(starts, offset) < Len(starts) =>
              offset < starts[LineAt(starts, offset) + 1]
  <1> DEFINE N == Len(starts)
  <1>1. PICK f : /\ f[0] = [low |-> 1, high |-> N]
                 /\ \A n \in 0 .. N : Within(starts, offset, f[n])
                 /\ \A n \in 1 .. N : f[n] = Halve(starts, offset, f[n - 1])
                 /\ LineAt(starts, offset) = f[N].low
    BY LineAtLoop
  <1>2. N \in Nat /\ N >= 1
    OBVIOUS
  <1> HIDE DEF N
  <1>3. \A n \in 0 .. N : /\ f[n].low \in Nat /\ f[n].high \in Nat
                          /\ 1 =< f[n].low /\ f[n].low =< f[n].high /\ f[n].high =< N
    BY <1>1 DEF Within, N
  <1> DEFINE S == {n \in 0 .. N : \/ f[n].low = f[n].high
                                  \/ f[n].high - f[n].low + n =< N - 1}
  <1>4. 0 \in S
    <2>1. f[0].low = 1 /\ f[0].high = N
      BY <1>1
    <2> QED
      BY <1>2, <2>1
  <1>5. ASSUME NEW n \in 1 .. N, n - 1 \in S PROVE n \in S
    <2>1. n \in 0 .. N /\ n - 1 \in 0 .. N
      BY <1>2
    <2>2. f[n] = Halve(starts, offset, f[n - 1]) /\ Within(starts, offset, f[n - 1])
      BY <1>1, <2>1
    <2>3. /\ f[n - 1].low >= f[n - 1].high => f[n] = f[n - 1]
          /\ f[n - 1].low < f[n - 1].high =>
               f[n].high - f[n].low < f[n - 1].high - f[n - 1].low
      BY <2>2, HalveKeeps
    <2> DEFINE a == f[n - 1].low
               b == f[n - 1].high
               c == f[n].low
               d == f[n].high
    <2>4. a \in Nat /\ b \in Nat /\ c \in Nat /\ d \in Nat /\ a =< b
      BY <1>3, <2>1
    <2>5. a >= b => c = a /\ d = b
      BY <2>3
    <2>6. a < b => d - c < b - a
      BY <2>3
    <2>7. a = b \/ b - a + (n - 1) =< N - 1
      BY <1>5
    <2> HIDE DEF a, b, c, d
    <2>8. c = d \/ d - c + n =< N - 1
      BY <2>1, <2>4, <2>5, <2>6, <2>7, <1>2
    <2> QED
      BY <2>1, <2>8 DEF c, d
  <1> HIDE DEF S
  <1>6. N \in S
    <2>1. N \in 0 .. N
      BY <1>2
    <2> QED
      BY <1>2, <1>4, <1>5, <2>1, Upwards
  <1> DEFINE l == f[N].low
  <1>7. f[N].high = l /\ N \in 0 .. N
    <2>1. f[N].low = f[N].high \/ f[N].high - f[N].low + N =< N - 1
      BY <1>6 DEF S
    <2> QED
      BY <1>2, <1>3, <2>1
  <1>8. l \in 1 .. N /\ starts[l] =< offset /\ (l < N => offset < starts[l + 1])
    <2>1. Within(starts, offset, f[N])
      BY <1>1, <1>7
    <2> QED
      BY <1>2, <1>3, <1>7, <2>1 DEF Within, N
  <1> QED
    BY <1>1, <1>8 DEF N

-----------------------------------------------------------------------------
(***************************************************************************)
(* Applying edits.  What edits leave of a text is what they leave of its   *)
(* parts, cut between two edits.                                           *)
(***************************************************************************)
\* Edits of a source, each of which is within it, one after the other.
EditsOf(source) ==
  [index : Nat, start : 1 .. Len(source) + 1, finish : 1 .. Len(source) + 1, new : Seq(Bytes)]

\* Edits that fit are in order and do not overlap.
Fits(source, resolved) ==
  /\ resolved \in Seq(EditsOf(source))
  /\ \A i \in 1 .. Len(resolved) : resolved[i].start =< resolved[i].finish
  /\ \A i, j \in 1 .. Len(resolved) :
       i < j => resolved[i].finish =< resolved[j].start /\ resolved[i].start < resolved[j].start

\* A part of a sequence is one of the same kind.
LEMMA PartType ==
  ASSUME NEW X, NEW s \in Seq(X), NEW a \in Nat, a >= 1, NEW b \in Int
  PROVE  Part(s, a, b) \in Seq(X)
  <1> DEFINE c == IF b < Len(s) THEN b ELSE Len(s)
  <1>1. c \in Int /\ c =< Len(s) /\ Len(s) \in Nat
    OBVIOUS
  <1>2. Part(s, a, b) = SubSeq(s, a, c)
    BY DEF Part
  <1> HIDE DEF c
  <1>3. \A k \in a .. c : s[k] \in X
    <2>1. \A k \in a .. c : k \in 1 .. Len(s)
      BY <1>1
    <2> QED
      BY <2>1
  <1> QED
    BY <1>1, <1>2, <1>3, SubSeqProperties

\* One edit more, after those that are done.
Applies(source, edit, done) ==
  [text |-> done.text \o Part(source, done.cursor, edit.start - 1) \o edit.new,
   cursor |-> edit.finish]

\* The states of the loop of ApplyWithin.
AppliesEach(source, resolved, from, to, first, times, f) ==
  /\ f \in [0 .. times -> [text : Seq(Bytes), cursor : 1 .. Len(source) + 1]]
  /\ f[0] = [text |-> <<>>, cursor |-> first]
  /\ \A n \in 1 .. times : f[n] = Applies(source, resolved[from + n - 1], f[n - 1])
  /\ \A last \in Nat :
       ApplyWithin(source, resolved, from, to, first, last)
         = f[times].text \o Part(source, f[times].cursor, last - 1)

\* The loop of ApplyWithin.
LEMMA ApplyLoop ==
  ASSUME NEW source \in Seq(Bytes), NEW resolved \in Seq(EditsOf(source)),
         NEW from \in 1 .. Len(resolved) + 1, NEW to \in from .. Len(resolved) + 1,
         NEW first \in 1 .. Len(source) + 1, NEW times, times = to - from
  PROVE  \E f : AppliesEach(source, resolved, from, to, first, times, f)
  <1> DEFINE Applied[n \in 0 .. to - from] ==
               IF n = 0 THEN [text |-> <<>>, cursor |-> first]
               ELSE LET done == Applied[n - 1]
                        edit == resolved[from + n - 1]
                    IN  [text   |-> done.text \o Part(source, done.cursor, edit.start - 1) \o edit.new,
                         cursor |-> edit.finish]
             N == to - from
             none == [text |-> <<>>, cursor |-> first]
             X == [text : Seq(Bytes), cursor : 1 .. Len(source) + 1]
             step == [p \in (1 .. N) \X X |-> Applies(source, resolved[from + p[1] - 1], p[2])]
  <1>1. \A last \in Nat : ApplyWithin(source, resolved, from, to, first, last)
           = Applied[N].text \o Part(source, Applied[N].cursor, last - 1)
    BY DEF ApplyWithin
  <1>2. N \in Nat /\ none \in X
    OBVIOUS
  <1>3. ASSUME NEW n \in 1 .. N, NEW x \in X
        PROVE  Applies(source, resolved[from + n - 1], x) \in X
    <2> DEFINE e == resolved[from + n - 1]
    <2>1. from + n - 1 \in 1 .. Len(resolved)
      OBVIOUS
    <2>2. /\ e.start \in 1 .. Len(source) + 1 /\ e.finish \in 1 .. Len(source) + 1
          /\ e.new \in Seq(Bytes)
      <3>1. e \in EditsOf(source)
        BY <2>1
      <3> HIDE DEF e
      <3> QED
        BY <3>1 DEF EditsOf
    <2> HIDE DEF e
    <2>3. x.text \in Seq(Bytes) /\ x.cursor \in Nat /\ x.cursor >= 1 /\ e.start - 1 \in Int
      BY <2>2
    <2>4. Part(source, x.cursor, e.start - 1) \in Seq(Bytes)
      BY <2>3, PartType
    <2>5. x.text \o Part(source, x.cursor, e.start - 1) \o e.new \in Seq(Bytes)
      BY <2>2, <2>3, <2>4
    <2>6. Applies(source, e, x) \in X
      BY <2>2, <2>5 DEF Applies
    <2> QED
      BY <2>6 DEF e
  <1> HIDE DEF X
  <1>5. step \in [(1 .. N) \X X -> X]
    BY <1>3
  <1>6. PICK f \in Loop(N, X, none, step) : TRUE
    <2> HIDE DEF step, N, none
    <2> QED
      BY <1>2, <1>5, Iterates
  <1>7. /\ f \in [0 .. N -> X] /\ f[0] = none
        /\ \A n \in 1 .. N : f[n] = Applies(source, resolved[from + n - 1], f[n - 1])
    <2>1. /\ f \in [0 .. N -> X] /\ f[0] = none
          /\ \A n \in 1 .. N : f[n] = step[<<n, f[n - 1]>>]
      BY <1>6 DEF Loop
    <2>2. ASSUME NEW n \in 1 .. N PROVE <<n, f[n - 1]>> \in (1 .. N) \X X
      <3>1. n - 1 \in 0 .. N
        BY <1>2
      <3> QED
        BY <3>1, <2>1
    <2> HIDE DEF N, none
    <2> QED
      BY <2>1, <2>2
  <1> DEFINE Body(g) == [n \in 0 .. to - from |->
               IF n = 0 THEN [text |-> <<>>, cursor |-> first]
               ELSE LET done == g[n - 1]
                        edit == resolved[from + n - 1]
                    IN  [text   |-> done.text \o Part(source, done.cursor, edit.start - 1) \o edit.new,
                         cursor |-> edit.finish]]
  <1>8. f = Body(f)
    <2>1. \A n \in 0 .. N : f[n] = IF n = 0 THEN none
                                   ELSE Applies(source, resolved[from + n - 1], f[n - 1])
      <3>1. \A n \in 0 .. N : n = 0 \/ n \in 1 .. N
        BY <1>2
      <3> HIDE DEF N, none
      <3> QED
        BY <1>7, <3>1
    <2>2. f = [n \in 0 .. N |-> f[n]]
      BY <1>7
    <2> HIDE DEF N, none
    <2>3. f = [n \in 0 .. N |-> IF n = 0 THEN none
                                ELSE Applies(source, resolved[from + n - 1], f[n - 1])]
      BY <2>1, <2>2
    <2> QED
      BY <2>3, Zenon DEF N, none, Applies
  <1>9. Applied = Body(Applied)
    BY <1>8, Zenon
  <1> HIDE DEF Applied
  <1>10. /\ Applied[0] = none
         /\ \A n \in 1 .. N :
              Applied[n] = Applies(source, resolved[from + n - 1], Applied[n - 1])
    <2>1. 0 \in 0 .. N /\ \A n \in 1 .. N : n \in 0 .. N /\ n # 0
      BY <1>2
    <2>2. \A n \in 0 .. N :
            Applied[n] = IF n = 0 THEN none
                         ELSE Applies(source, resolved[from + n - 1], Applied[n - 1])
      BY <1>9, Zenon DEF Applies
    <2> HIDE DEF N, none
    <2> QED
      BY <2>1, <2>2
  <1>11. \A n \in 0 .. N : Applied[n] \in X
    <2> HIDE DEF N, none
    <2> QED
      BY <1>2, <1>3, <1>10, LoopKeeps
  <1>12. Applied \in [0 .. N -> X]
    <2>1. Applied = [n \in 0 .. N |-> Applied[n]]
      BY <1>9, Zenon
    <2> HIDE DEF N
    <2> QED
      BY <1>11, <2>1
  <1> QED
    BY <1>1, <1>10, <1>12 DEF X, AppliesEach

\* What edits leave is a text.
LEMMA ApplyType ==
  ASSUME NEW source \in Seq(Bytes), NEW resolved \in Seq(EditsOf(source)),
         NEW from \in 1 .. Len(resolved) + 1, NEW to \in from .. Len(resolved) + 1,
         NEW first \in 1 .. Len(source) + 1, NEW last \in Nat
  PROVE  ApplyWithin(source, resolved, from, to, first, last) \in Seq(Bytes)
  <1> DEFINE N == to - from
  <1>0. PICK f : AppliesEach(source, resolved, from, to, first, N, f)
    BY ApplyLoop
  <1>1. /\ f \in [0 .. N -> [text : Seq(Bytes), cursor : 1 .. Len(source) + 1]]
        /\ ApplyWithin(source, resolved, from, to, first, last)
             = f[N].text \o Part(source, f[N].cursor, last - 1)
    BY <1>0 DEF AppliesEach
  <1> DEFINE x == f[N]
  <1>2. x.text \in Seq(Bytes) /\ x.cursor \in Nat /\ x.cursor >= 1 /\ last - 1 \in Int
    <2>1. N \in 0 .. N
      OBVIOUS
    <2>2. x \in [text : Seq(Bytes), cursor : 1 .. Len(source) + 1]
      BY <1>1, <2>1
    <2> HIDE DEF x
    <2> QED
      BY <2>2
  <1> HIDE DEF x
  <1>3. Part(source, x.cursor, last - 1) \in Seq(Bytes)
    BY <1>2, PartType
  <1>4. x.text \o Part(source, x.cursor, last - 1) \in Seq(Bytes)
    BY <1>2, <1>3
  <1> QED
    BY <1>1, <1>4 DEF x

\* Without edits the text stays.
LEMMA ApplyNone ==
  ASSUME NEW source \in Seq(Bytes), NEW resolved \in Seq(EditsOf(source)),
         NEW k \in 1 .. Len(resolved) + 1,
         NEW first \in 1 .. Len(source) + 1, NEW last \in first .. Len(source) + 1
  PROVE  ApplyWithin(source, resolved, k, k, first, last) = Cut(source, first, last)
  <1>1. k \in k .. Len(resolved) + 1 /\ last \in Nat /\ k - k = 0
    OBVIOUS
  <1>6. PICK f : AppliesEach(source, resolved, k, k, first, 0, f)
    BY <1>1, ApplyLoop
  <1>2. /\ f[0] = [text |-> <<>>, cursor |-> first]
        /\ ApplyWithin(source, resolved, k, k, first, last)
             = f[0].text \o Part(source, f[0].cursor, last - 1)
    BY <1>1, <1>6 DEF AppliesEach
  <1>3. f[0].text = <<>> /\ f[0].cursor = first
    BY <1>1, <1>2
  <1>4. Part(source, first, last - 1) = Cut(source, first, last) /\ Cut(source, first, last) \in Seq(Bytes)
    BY PartIsCut
  <1>5. <<>> \o Cut(source, first, last) = Cut(source, first, last)
    BY <1>4, ConcatEmptySeq
  <1> QED
    BY <1>2, <1>3, <1>4, <1>5

\* The last edit is applied after the others.
LEMMA ApplyNext ==
  ASSUME NEW source \in Seq(Bytes), NEW resolved \in Seq(EditsOf(source)),
         NEW from \in 1 .. Len(resolved), NEW to \in from .. Len(resolved),
         NEW first \in 1 .. Len(source) + 1,
         NEW last \in resolved[to].finish .. Len(source) + 1
  PROVE  ApplyWithin(source, resolved, from, to + 1, first, last)
           = ApplyWithin(source, resolved, from, to, first, resolved[to].start)
               \o resolved[to].new \o Cut(source, resolved[to].finish, last)
  <1> DEFINE e == resolved[to]
             N == to - from
  <1>1. /\ from \in 1 .. Len(resolved) + 1 /\ to \in from .. Len(resolved) + 1
        /\ to + 1 \in from .. Len(resolved) + 1 /\ to \in 1 .. Len(resolved)
    OBVIOUS
  <1>15. to + 1 - from = N + 1
    OBVIOUS
  <1>0. /\ N \in Nat /\ to + 1 - from = N + 1 /\ N + 1 \in 1 .. N + 1 /\ N + 1 - 1 = N
        /\ from + (N + 1) - 1 = to
    OBVIOUS
  <1>2. /\ e.start \in 1 .. Len(source) + 1 /\ e.finish \in 1 .. Len(source) + 1
        /\ e.new \in Seq(Bytes)
    <2>1. e \in EditsOf(source)
      BY <1>1
    <2> HIDE DEF e
    <2> QED
      BY <2>1 DEF EditsOf
  <1>3. last \in Nat /\ e.start \in Nat /\ last \in e.finish .. Len(source) + 1
    BY <1>2
  <1> HIDE DEF e
  <1>4. PICK f : AppliesEach(source, resolved, from, to, first, N, f)
    BY <1>1, ApplyLoop
  <1>16. ASSUME NEW next \in from .. Len(resolved) + 1, NEW times, times = next - from
         PROVE  \E g : AppliesEach(source, resolved, from, next, first, times, g)
    BY <1>1, <1>16, ApplyLoop
  <1>5. PICK g : AppliesEach(source, resolved, from, to + 1, first, N + 1, g)
    BY <1>1, <1>15, <1>16
  <1> HIDE DEF N
  <1>13. /\ f[0] = [text |-> <<>>, cursor |-> first]
         /\ \A n \in 1 .. N : f[n] = Applies(source, resolved[from + n - 1], f[n - 1])
         /\ ApplyWithin(source, resolved, from, to, first, e.start)
              = f[N].text \o Part(source, f[N].cursor, e.start - 1)
    BY <1>3, <1>4 DEF AppliesEach
  <1>14. /\ g[0] = [text |-> <<>>, cursor |-> first]
         /\ \A n \in 1 .. N + 1 : g[n] = Applies(source, resolved[from + n - 1], g[n - 1])
         /\ ApplyWithin(source, resolved, from, to + 1, first, last)
              = g[N + 1].text \o Part(source, g[N + 1].cursor, last - 1)
    BY <1>3, <1>5 DEF AppliesEach
  <1> DEFINE S == {n \in 0 .. N : g[n] = f[n]}
  <1>6. 0 \in S
    <2>1. 0 \in 0 .. N /\ g[0] = f[0]
      BY <1>0, <1>13, <1>14
    <2> QED
      BY <2>1
  <1>7. ASSUME NEW n \in 1 .. N, n - 1 \in S PROVE n \in S
    <2>1. n \in 0 .. N /\ n \in 1 .. N + 1 /\ g[n - 1] = f[n - 1]
      BY <1>0, <1>7
    <2>2. g[n] = Applies(source, resolved[from + n - 1], g[n - 1])
      BY <1>14, <2>1
    <2>3. f[n] = Applies(source, resolved[from + n - 1], f[n - 1])
      BY <1>13, <2>1
    <2> QED
      BY <2>1, <2>2, <2>3
  <1> HIDE DEF S
  <1>8. g[N] = f[N]
    <2>1. N \in 0 .. N
      BY <1>0
    <2>2. N \in S
      BY <1>0, <1>6, <1>7, <2>1, Upwards
    <2> QED
      BY <2>2 DEF S
  <1>9. g[N + 1] = Applies(source, e, f[N])
    <2>1. g[N + 1] = Applies(source, resolved[from + (N + 1) - 1], g[N + 1 - 1])
      BY <1>0, <1>14
    <2> QED
      BY <1>0, <1>8, <2>1 DEF e
  <1>10. /\ g[N + 1].text = f[N].text \o Part(source, f[N].cursor, e.start - 1) \o e.new
         /\ g[N + 1].cursor = e.finish
    <2> DEFINE x == f[N].text \o Part(source, f[N].cursor, e.start - 1) \o e.new
    <2>1. g[N + 1] = [text |-> x, cursor |-> e.finish]
      BY <1>9 DEF Applies
    <2> HIDE DEF x
    <2>2. g[N + 1].text = x /\ g[N + 1].cursor = e.finish
      BY <2>1
    <2> QED
      BY <2>2 DEF x
  <1>11. Part(source, e.finish, last - 1) = Cut(source, e.finish, last)
    BY <1>2, <1>3, PartIsCut
  <1>12. ApplyWithin(source, resolved, from, to + 1, first, last)
           = ApplyWithin(source, resolved, from, to, first, e.start)
               \o e.new \o Cut(source, e.finish, last)
    <2>1. ApplyWithin(source, resolved, from, to + 1, first, last)
            = g[N + 1].text \o Part(source, g[N + 1].cursor, last - 1)
      BY <1>14
    <2>2. ApplyWithin(source, resolved, from, to, first, e.start)
            = f[N].text \o Part(source, f[N].cursor, e.start - 1)
      BY <1>13
    <2> QED
      BY <1>10, <1>11, <2>1, <2>2, Zenon
  <1> QED
    BY <1>12 DEF e

\* What an edit is.
LEMMA EditIs ==
  ASSUME NEW source, NEW resolved \in Seq(EditsOf(source)), NEW i \in 1 .. Len(resolved)
  PROVE  /\ resolved[i].start \in 1 .. Len(source) + 1
         /\ resolved[i].finish \in 1 .. Len(source) + 1
         /\ resolved[i].new \in Seq(Bytes)
  <1> DEFINE e == resolved[i]
  <1>1. e \in EditsOf(source)
    OBVIOUS
  <1> HIDE DEF e
  <1>2. /\ e.start \in 1 .. Len(source) + 1 /\ e.finish \in 1 .. Len(source) + 1
        /\ e.new \in Seq(Bytes)
    BY <1>1 DEF EditsOf
  <1> QED
    BY <1>2 DEF e

\* Edits that fit follow each other.
LEMMA InTurn ==
  ASSUME NEW source, NEW resolved, Fits(source, resolved),
         NEW i \in 1 .. Len(resolved), NEW j \in 1 .. Len(resolved), i < j
  PROVE  resolved[i].finish =< resolved[j].start /\ resolved[i].start < resolved[j].start
  BY DEF Fits

\* Texts one after the other, in groups.
Regroups(a, b, c, d) ==
  /\ ((a \o b) \o c) \o d = a \o ((b \o c) \o d)
  /\ (a \o b) \o (c \o d) = ((a \o b) \o c) \o d

\* It does not matter which are joined first.
LEMMA Regroup ==
  ASSUME NEW X, NEW a \in Seq(X), NEW b \in Seq(X), NEW c \in Seq(X), NEW d \in Seq(X)
  PROVE  Regroups(a, b, c, d)
  <1> DEFINE e == b \o c
             f == a \o b
  <1>1. e \in Seq(X) /\ f \in Seq(X)
    BY ConcatProperties
  <1>2. f \o c = a \o e
    BY SMTT(30)
  <1> HIDE DEF e, f
  <1>3. (a \o e) \o d = a \o (e \o d)
    BY <1>1, SMTT(30)
  <1>4. (f \o c) \o d = f \o (c \o d)
    BY <1>1, SMTT(30)
  <1> QED
    BY <1>2, <1>3, <1>4, Zenon DEF e, f, Regroups

\* Beyond the last edit the text stays.
LEMMA ApplyMore ==
  ASSUME NEW source \in Seq(Bytes), NEW resolved, Fits(source, resolved),
         NEW from \in 1 .. Len(resolved) + 1, NEW to \in from .. Len(resolved) + 1,
         NEW first \in 1 .. Len(source) + 1, NEW m \in first .. Len(source) + 1,
         NEW last \in m .. Len(source) + 1,
         \A i \in from .. to - 1 : resolved[i].finish =< m
  PROVE  ApplyWithin(source, resolved, from, to, first, last)
           = ApplyWithin(source, resolved, from, to, first, m) \o Cut(source, m, last)
  <1>1. resolved \in Seq(EditsOf(source)) /\ Len(source) \in Nat /\ Len(resolved) \in Nat
    BY DEF Fits
  <1>2. CASE to = from
    <2>1. last \in first .. Len(source) + 1
      BY <1>1
    <2>2. ApplyWithin(source, resolved, from, from, first, last) = Cut(source, first, last)
      BY <1>1, <2>1, ApplyNone
    <2>3. ApplyWithin(source, resolved, from, from, first, m) = Cut(source, first, m)
      BY <1>1, ApplyNone
    <2>4. Cut(source, first, last) = Cut(source, first, m) \o Cut(source, m, last)
      BY CutsJoin
    <2> QED
      BY <1>2, <2>2, <2>3, <2>4
  <1>3. CASE to # from
    <2> DEFINE k == to - 1
               e == resolved[k]
    <2>1. /\ k \in from .. Len(resolved) /\ k \in 1 .. Len(resolved) /\ k + 1 = to
          /\ from \in 1 .. Len(resolved) /\ k \in from .. to - 1 /\ k \in from .. Len(resolved) + 1
      BY <1>1, <1>3
    <2>2. /\ e.start \in 1 .. Len(source) + 1 /\ e.finish \in 1 .. Len(source) + 1
          /\ e.new \in Seq(Bytes)
      BY <1>1, <2>1, EditIs
    <2>3. e.finish =< m
      BY <2>1
    <2>4. /\ last \in e.finish .. Len(source) + 1 /\ m \in e.finish .. Len(source) + 1
          /\ e.start \in Nat
      BY <1>1, <2>2, <2>3
    <2> HIDE DEF e, k
    <2> DEFINE a == ApplyWithin(source, resolved, from, k, first, e.start)
    <2>5. a \in Seq(Bytes)
      BY <1>1, <2>1, <2>4, ApplyType
    <2>6. ApplyWithin(source, resolved, from, k + 1, first, last)
            = a \o e.new \o Cut(source, e.finish, last)
      BY <1>1, <2>1, <2>4, ApplyNext DEF e
    <2>7. ApplyWithin(source, resolved, from, k + 1, first, m)
            = a \o e.new \o Cut(source, e.finish, m)
      <3>1. m \in resolved[k].finish .. Len(source) + 1
        BY <2>4 DEF e
      <3> QED
        BY <1>1, <2>1, <3>1, ApplyNext DEF e
    <2> HIDE DEF a
    <2>8. Cut(source, e.finish, last) = Cut(source, e.finish, m) \o Cut(source, m, last)
      BY <2>2, <2>4, CutsJoin
    <2> DEFINE c == Cut(source, e.finish, m)
               d == Cut(source, m, last)
    <2>9. c \in Seq(Bytes) /\ d \in Seq(Bytes)
      <3>1. m \in 1 .. Len(source) + 1
        BY <1>1
      <3>2. c \in Seq(Bytes)
        BY <2>2, <2>4, PartIsCut
      <3>3. d \in Seq(Bytes)
        BY <3>1, PartIsCut
      <3> QED
        BY <3>2, <3>3
    <2> HIDE DEF c, d
    <2> DEFINE b == e.new
    <2>14. b \in Seq(Bytes)
      BY <2>2
    <2> HIDE DEF b
    <2>10. (a \o b) \o (c \o d) = ((a \o b) \o c) \o d
      <3>1. Regroups(a, b, c, d)
        BY <2>14, <2>5, <2>9, Regroup
      <3> QED
        BY <3>1 DEF Regroups
    <2>11. ApplyWithin(source, resolved, from, k + 1, first, last) = (a \o b) \o (c \o d)
      BY <2>6, <2>8, Zenon DEF b, c, d
    <2>12. ApplyWithin(source, resolved, from, k + 1, first, m) \o d = ((a \o b) \o c) \o d
      BY <2>7, Zenon DEF b, c
    <2>13. ApplyWithin(source, resolved, from, k + 1, first, last)
             = ApplyWithin(source, resolved, from, k + 1, first, m) \o d
      BY <2>10, <2>11, <2>12, Zenon
    <2> QED
      BY <2>1, <2>13 DEF d
  <1> QED
    BY <1>2, <1>3

\* Edits on the two sides of a place apply apart.
LEMMA ApplySplit ==
  ASSUME NEW source \in Seq(Bytes), NEW resolved, Fits(source, resolved),
         NEW from \in 1 .. Len(resolved) + 1, NEW mid \in from .. Len(resolved) + 1,
         NEW to \in mid .. Len(resolved) + 1,
         NEW first \in 1 .. Len(source) + 1, NEW m \in first .. Len(source) + 1,
         NEW last \in m .. Len(source) + 1,
         \A i \in from .. mid - 1 : resolved[i].finish =< m,
         \A i \in mid .. to - 1 : m =< resolved[i].start /\ resolved[i].finish =< last
  PROVE  ApplyWithin(source, resolved, from, to, first, last)
           = ApplyWithin(source, resolved, from, mid, first, m)
               \o ApplyWithin(source, resolved, mid, to, m, last)
  <1> DEFINE N == to - mid
             Splits(k, z) ==
               ApplyWithin(source, resolved, from, mid + k, first, z)
                 = ApplyWithin(source, resolved, from, mid, first, m)
                     \o ApplyWithin(source, resolved, mid, mid + k, m, z)
             S == {k \in 0 .. N : \A z \in m .. Len(source) + 1 :
                     (\A i \in mid .. mid + k - 1 : resolved[i].finish =< z) => Splits(k, z)}
  <1>1. resolved \in Seq(EditsOf(source)) /\ Len(source) \in Nat /\ Len(resolved) \in Nat
    BY DEF Fits
  <1>2. N \in Nat /\ mid + 0 = mid /\ mid + N = to /\ mid \in Nat /\ m \in Nat
    BY <1>1
  <1>3. 0 \in S
    <2>1. ASSUME NEW z \in m .. Len(source) + 1 PROVE Splits(0, z)
      <3>1. ApplyWithin(source, resolved, from, mid, first, z)
              = ApplyWithin(source, resolved, from, mid, first, m) \o Cut(source, m, z)
        BY ApplyMore
      <3>2. m \in 1 .. Len(source) + 1 /\ mid \in 1 .. Len(resolved) + 1
        BY <1>1
      <3>3. ApplyWithin(source, resolved, mid, mid, m, z) = Cut(source, m, z)
        BY <1>1, <3>2, ApplyNone
      <3> QED
        BY <1>2, <3>1, <3>3
    <2>2. 0 \in 0 .. N
      BY <1>2
    <2> HIDE DEF Splits, N
    <2> QED
      BY <2>1, <2>2
  <1>4. ASSUME NEW k \in 1 .. N, k - 1 \in S PROVE k \in S
    <2> DEFINE j == mid + k - 1
               e == resolved[j]
    <2>1. /\ j \in 1 .. Len(resolved) /\ j \in mid .. Len(resolved) /\ j \in from .. Len(resolved)
          /\ j \in mid .. to - 1 /\ j + 1 = mid + k /\ mid + (k - 1) = j
          /\ from \in 1 .. Len(resolved) /\ mid \in 1 .. Len(resolved)
      BY <1>1
    <2>2. /\ e.start \in 1 .. Len(source) + 1 /\ e.finish \in 1 .. Len(source) + 1
          /\ e.new \in Seq(Bytes)
      BY <1>1, <2>1, EditIs
    <2>3. m =< e.start /\ e.start =< e.finish
      BY <2>1 DEF Fits
    <2>4. \A i \in mid .. j - 1 : resolved[i].finish =< e.start
      <3> TAKE i \in mid .. j - 1
      <3>1. j \in 1 .. Len(resolved) /\ mid \in 1 .. Len(resolved)
        BY <2>1
      <3> HIDE DEF j
      <3>2. i \in 1 .. Len(resolved) /\ j \in 1 .. Len(resolved) /\ i < j
        BY <1>1, <3>1
      <3> QED
        BY <3>2, InTurn
    <2> HIDE DEF e, j
    <2>5. Splits(k - 1, e.start)
      <3>1. e.start \in m .. Len(source) + 1
        BY <1>1, <1>2, <2>2, <2>3
      <3>2. \A i \in mid .. mid + (k - 1) - 1 : resolved[i].finish =< e.start
        BY <2>1, <2>4
      <3> HIDE DEF Splits
      <3> QED
        BY <1>4, <3>1, <3>2
    <2> DEFINE a == ApplyWithin(source, resolved, from, mid, first, m)
               b == ApplyWithin(source, resolved, mid, j, m, e.start)
    <2>6. ApplyWithin(source, resolved, from, j, first, e.start) = a \o b
      BY <2>1, <2>5
    <2>7. m \in 1 .. Len(source) + 1 /\ m \in Nat /\ e.start \in Nat
      BY <1>1, <2>2
    <2>8. a \in Seq(Bytes) /\ b \in Seq(Bytes)
      <3>1. a \in Seq(Bytes)
        BY <1>1, <2>7, ApplyType
      <3>2. mid \in 1 .. Len(resolved) + 1 /\ j \in mid .. Len(resolved) + 1
        BY <1>1, <2>1
      <3>3. b \in Seq(Bytes)
        BY <1>1, <2>7, <3>2, ApplyType
      <3> QED
        BY <3>1, <3>3
    <2>9. ASSUME NEW z \in m .. Len(source) + 1,
                 \A i \in mid .. mid + k - 1 : resolved[i].finish =< z
          PROVE  Splits(k, z)
      <3>1. z \in e.finish .. Len(source) + 1
        <4>1. e.finish =< z
          <5>1. j \in mid .. mid + k - 1
            BY <1>1, <2>1 DEF j
          <5> QED
            BY <2>9, <5>1 DEF e
        <4> QED
          BY <1>1, <2>2, <4>1
      <3> DEFINE c == Cut(source, e.finish, z)
      <3>2. c \in Seq(Bytes)
        BY <2>2, <3>1, PartIsCut
      <3>3. ApplyWithin(source, resolved, from, j + 1, first, z)
              = ApplyWithin(source, resolved, from, j, first, e.start) \o e.new \o c
        BY <1>1, <2>1, <3>1, ApplyNext DEF e
      <3>4. ApplyWithin(source, resolved, mid, j + 1, m, z) = b \o e.new \o c
        BY <1>1, <2>1, <2>7, <3>1, ApplyNext DEF e
      <3> HIDE DEF a, b, c
      <3>7. a \in Seq(Bytes) /\ b \in Seq(Bytes) /\ e.new \in Seq(Bytes)
        BY <2>2, <2>8 DEF a, b
      <3>5. ((a \o b) \o e.new) \o c = a \o ((b \o e.new) \o c)
        <4>1. Regroups(a, b, e.new, c)
          BY <3>2, <3>7, Regroup
        <4> QED
          BY <4>1 DEF Regroups
      <3>6. ApplyWithin(source, resolved, from, j + 1, first, z)
              = a \o ApplyWithin(source, resolved, mid, j + 1, m, z)
        BY <2>6, <3>3, <3>4, <3>5
      <3> QED
        BY <2>1, <3>6 DEF a
    <2> HIDE DEF Splits, N
    <2>10. k \in 0 .. N
      BY <1>2
    <2> QED
      BY <2>9, <2>10
  <1> HIDE DEF S
  <1>5. N \in S
    <2>1. N \in 0 .. N
      BY <1>2
    <2> HIDE DEF N
    <2> QED
      BY <1>2, <1>3, <1>4, <2>1, Upwards
  <1>6. Splits(N, last)
    <2>1. \A i \in mid .. mid + N - 1 : resolved[i].finish =< last
      BY <1>2
    <2> HIDE DEF Splits, N
    <2> QED
      BY <1>5, <2>1 DEF S
  <1> QED
    BY <1>2, <1>6

-----------------------------------------------------------------------------
(***************************************************************************)
(* Groups.  The edits of a group are in its lines, the edits after it are  *)
(* not, and what is before and after it ends in a newline, in the old text *)
(* as in the new.                                                          *)
(***************************************************************************)
\* The starts of lines, and where lines end, are in order.
LEMMA StartsInOrder ==
  ASSUME NEW s \in Seq(Bytes), NEW k \in 1 .. Len(LineStarts(s)), NEW l \in k .. Len(LineStarts(s))
  PROVE  /\ LineStarts(s)[k] =< LineStarts(s)[l]
         /\ k < l => /\ LineStarts(s)[k] < LineStarts(s)[l]
                     /\ LineEnd(LineStarts(s), s, k) =< LineStarts(s)[l]
         /\ LineEnd(LineStarts(s), s, k) =< LineEnd(LineStarts(s), s, l)
  <1> DEFINE st == LineStarts(s)
  <1>1. /\ Len(st) \in Nat /\ \A i, j \in 1 .. Len(st) : i < j => st[i] < st[j]
        /\ \A i \in 1 .. Len(st) : /\ st[i] \in 1 .. Len(s) + 1
                                   /\ LineEnd(st, s, i) \in st[i] .. Len(s) + 1
        /\ Len(s) \in Nat
    <2>1. \A i \in 1 .. Len(st) : /\ st[i] \in 1 .. Len(s) + 1
                                  /\ LineEnd(st, s, i) \in st[i] .. Len(s) + 1
      BY LineIsCut
    <2>2. StartsOf(s, Len(s), st)
      BY LineStartsAre
    <2> HIDE DEF st
    <2>3. Len(st) \in Nat /\ \A i, j \in 1 .. Len(st) : i < j => st[i] < st[j]
      BY <2>2 DEF StartsOf
    <2> QED
      BY <2>1, <2>3
  <1> HIDE DEF st
  <1>2. k \in 1 .. Len(st) /\ l \in 1 .. Len(st) /\ k =< l
    BY <1>1 DEF st
  <1>3. CASE k = l
    <2>1. st[k] \in Int /\ LineEnd(st, s, k) \in Int
      BY <1>1, <1>2
    <2> QED
      BY <1>3, <2>1 DEF st
  <1>4. CASE k < l
    <2>1. st[k] < st[l] /\ st[k] \in Int /\ st[l] \in Int
      BY <1>1, <1>2, <1>4
    <2>2. LineEnd(st, s, k) = st[k + 1] /\ k + 1 \in 1 .. Len(st)
      BY <1>1, <1>2, <1>4 DEF LineEnd
    <2>3. st[k + 1] =< st[l] /\ st[k + 1] \in Int
      <3>1. k + 1 = l \/ k + 1 < l
        BY <1>1, <1>2, <1>4
      <3>2. st[k + 1] \in Int
        BY <1>1, <2>2
      <3>3. CASE k + 1 = l
        BY <2>1, <3>3
      <3>4. CASE k + 1 < l
        BY <1>1, <1>2, <2>1, <2>2, <3>2, <3>4
      <3> QED
        BY <3>1, <3>2, <3>3, <3>4
    <2>4. st[l] =< LineEnd(st, s, l) /\ LineEnd(st, s, l) \in Int
      BY <1>1, <1>2
    <2>5. st[k] =< st[l] /\ LineEnd(st, s, k) =< st[l] /\ LineEnd(st, s, k) =< LineEnd(st, s, l)
      BY <2>1, <2>2, <2>3, <2>4
    <2> QED
      BY <2>1, <2>5 DEF st
  <1> QED
    BY <1>2, <1>1, <1>3, <1>4

\* The lines that an edit is in.
LEMMA EditLines ==
  ASSUME NEW s \in Seq(Bytes), NEW e, e.start \in 1 .. Len(s) + 1, e.finish \in 1 .. Len(s) + 1,
         e.start =< e.finish
  PROVE  LET st == LineStarts(s)
             f == EditFirstLine(st, e)
             l == EditLastLine(st, e)
         IN  /\ f \in 1 .. Len(st) /\ l \in 1 .. Len(st) /\ f =< l
             /\ st[f] =< e.start
             /\ f < Len(st) => e.start < st[f + 1]
             /\ e.finish =< LineEnd(st, s, l)
  <1> DEFINE st == LineStarts(s)
             f == EditFirstLine(st, e)
             l == EditLastLine(st, e)
             at == IF e.finish > e.start THEN e.finish - 1 ELSE e.start
  <1>1. /\ st \in Seq(Nat) /\ Len(st) >= 1 /\ st[1] = 1 /\ Len(st) \in Nat
        /\ Len(s) \in Nat
    BY LineStartsAre DEF StartsOf
  <1>2. \A i \in 1 .. Len(st) : \A j \in i .. Len(st) : st[i] =< st[j]
    BY StartsInOrder
  <1>3. \A i \in 1 .. Len(st) : st[i] \in Nat
    BY <1>1
  <1> HIDE DEF st
  <1>4. at \in Nat /\ e.start =< at /\ 1 =< at /\ e.start \in Nat /\ 1 =< e.start
        /\ at =< Len(s) + 1 /\ e.finish =< at + 1 /\ (e.finish = at + 1 \/ e.finish = at)
    BY <1>1
  <1>5. /\ f \in 1 .. Len(st) /\ st[f] =< e.start
        /\ f < Len(st) => e.start < st[f + 1]
    <2>1. st[1] =< e.start
      BY <1>1, <1>4
    <2> QED
      BY <1>1, <1>4, <2>1, LineAtIs DEF EditFirstLine
  <1>6. /\ l \in 1 .. Len(st) /\ st[l] =< at /\ (l < Len(st) => at < st[l + 1])
    <2>1. st[1] =< at /\ l = LineAt(st, at)
      BY <1>1, <1>4 DEF EditLastLine
    <2> HIDE DEF at, l
    <2> QED
      BY <1>1, <1>4, <2>1, LineAtIs
  <1> HIDE DEF f, l
  <1>7. f =< l
    <2> SUFFICES ASSUME l < f PROVE FALSE
      BY <1>5, <1>6, <1>1
    <2>1. l + 1 \in 1 .. Len(st) /\ f \in l + 1 .. Len(st) /\ l < Len(st)
      BY <1>1, <1>5, <1>6
    <2>2. at < st[l + 1] /\ st[l + 1] =< st[f] /\ st[f] \in Nat /\ st[l + 1] \in Nat
      BY <1>2, <1>3, <1>5, <1>6, <2>1
    <2> HIDE DEF at
    <2> QED
      BY <1>4, <1>5, <2>2
  <1>8. e.finish =< LineEnd(st, s, l)
    <2>1. CASE l < Len(st)
      <3>1. LineEnd(st, s, l) = st[l + 1] /\ at < st[l + 1] /\ l + 1 \in 1 .. Len(st)
        BY <1>1, <1>6, <2>1 DEF LineEnd
      <3>2. st[l + 1] \in Nat
        BY <1>3, <3>1
      <3> HIDE DEF at
      <3> QED
        BY <1>4, <3>1, <3>2
    <2>2. CASE ~(l < Len(st))
      BY <1>1, <2>2 DEF LineEnd
    <2> QED
      BY <2>1, <2>2
  <1> QED
    BY <1>5, <1>6, <1>7, <1>8 DEF f, l, st

\* Edits from one on, and the lines they are in.
Grouped(source, resolved, from, g) ==
  /\ g \in [end : Nat, last : Nat]
  /\ from < g.end /\ g.end =< Len(resolved) + 1
  /\ EditFirstLine(LineStarts(source), resolved[from]) =< g.last
  /\ g.last =< Len(LineStarts(source))
  /\ \A i \in from .. g.end - 1 :
       resolved[i].finish =< LineEnd(LineStarts(source), source, g.last)

\* A group that takes in no more.
Whole(source, resolved, from, g) ==
  Grow(source, LineStarts(source), resolved, from, g) = g

\* A group begins with its first edit.
LEMMA GroupBegins ==
  ASSUME NEW source \in Seq(Bytes), NEW resolved, Fits(source, resolved),
         NEW from \in 1 .. Len(resolved)
  PROVE  Grouped(source, resolved, from,
                 [end |-> from + 1, last |-> EditLastLine(LineStarts(source), resolved[from])])
  <1> DEFINE st == LineStarts(source)
             e == resolved[from]
             f == EditFirstLine(st, e)
             l == EditLastLine(st, e)
             g == [end |-> from + 1, last |-> l]
  <1>1. /\ resolved \in Seq(EditsOf(source)) /\ Len(resolved) \in Nat
        /\ e.start =< e.finish
    BY DEF Fits
  <1>2. e.start \in 1 .. Len(source) + 1 /\ e.finish \in 1 .. Len(source) + 1
    BY <1>1, EditIs
  <1> HIDE DEF e
  <1>3. /\ f \in 1 .. Len(st) /\ l \in 1 .. Len(st) /\ f =< l
        /\ e.finish =< LineEnd(st, source, l)
    BY <1>1, <1>2, EditLines
  <1>4. Len(st) \in Nat
    BY LinesAre
  <1> HIDE DEF st, f, l
  <1>5. g \in [end : Nat, last : Nat] /\ g.end = from + 1 /\ g.last = l
    BY <1>3, <1>4
  <1> HIDE DEF g
  <1>6. \A i \in from .. g.end - 1 : resolved[i].finish =< LineEnd(st, source, g.last)
    <2>1. \A i \in from .. g.end - 1 : i = from
      BY <1>1, <1>5
    <2> QED
      BY <2>1, <1>3, <1>5 DEF e
  <1>7. from < g.end /\ g.end =< Len(resolved) + 1 /\ f =< g.last /\ g.last =< Len(st)
    BY <1>1, <1>3, <1>4, <1>5
  <1>8. Grouped(source, resolved, from, g)
    BY <1>5, <1>6, <1>7 DEF Grouped, st, f, e
  <1> QED
    BY <1>8 DEF g, l, st, e

\* A group that grows is one still, with more edits or lines unless it is as it was.
LEMMA GroupGrows ==
  ASSUME NEW source \in Seq(Bytes), NEW resolved, Fits(source, resolved),
         NEW from \in 1 .. Len(resolved), NEW g, Grouped(source, resolved, from, g)
  PROVE  LET h == Grow(source, LineStarts(source), resolved, from, g)
         IN  /\ Grouped(source, resolved, from, h)
             /\ h = g \/ h.end + h.last >= g.end + g.last + 1
  <1> DEFINE st == LineStarts(source)
             first == EditFirstLine(st, resolved[from])
             joins == g.end =< Len(resolved) /\ EditFirstLine(st, resolved[g.end]) =< g.last
             further == EditLastLine(st, resolved[g.end])
             nextHasText == g.last < Len(st) /\ st[g.last + 1] =< Len(source)
             region == Region(source, st, resolved, from, g.end, first, g.last)
             h == Grow(source, st, resolved, from, g)
             most == IF further > g.last THEN further ELSE g.last
  <1>1. /\ resolved \in Seq(EditsOf(source)) /\ Len(resolved) \in Nat
        /\ \A i \in 1 .. Len(resolved) : resolved[i].start =< resolved[i].finish
    BY DEF Fits
  <1>2. /\ g \in [end : Nat, last : Nat] /\ g.end \in Nat /\ g.last \in Nat
        /\ from < g.end /\ g.end =< Len(resolved) + 1 /\ first =< g.last /\ g.last =< Len(st)
        /\ \A i \in from .. g.end - 1 : resolved[i].finish =< LineEnd(st, source, g.last)
    BY DEF Grouped
  <1>3. Len(st) \in Nat /\ first \in 1 .. Len(st)
    <2>1. Len(st) \in Nat
      BY LinesAre
    <2>2. /\ resolved[from].start \in 1 .. Len(source) + 1
          /\ resolved[from].finish \in 1 .. Len(source) + 1
          /\ resolved[from].start =< resolved[from].finish
      BY <1>1, EditIs
    <2>3. first \in 1 .. Len(st)
      BY <2>2, EditLines
    <2> QED
      BY <2>1, <2>3
  <1>4. \A k \in 1 .. Len(st) : /\ LineEnd(st, source, k) \in Nat
                                /\ \A m \in k .. Len(st) : /\ LineEnd(st, source, m) \in Nat
                                                           /\ LineEnd(st, source, k) =< LineEnd(st, source, m)
    <2>1. \A k \in 1 .. Len(st) : LineEnd(st, source, k) \in Nat
      <3>1. \A k \in 1 .. Len(st) : st[k] \in 1 .. Len(source) + 1
                                      /\ LineEnd(st, source, k) \in st[k] .. Len(source) + 1
        BY LineIsCut
      <3> HIDE DEF st
      <3> QED
        BY <3>1
    <2>2. \A k \in 1 .. Len(st) : \A m \in k .. Len(st) :
            LineEnd(st, source, k) =< LineEnd(st, source, m)
      BY StartsInOrder
    <2> HIDE DEF st
    <2>3. \A k \in 1 .. Len(st) : \A m \in k .. Len(st) : m \in 1 .. Len(st)
      BY <1>3
    <2> QED
      BY <2>1, <2>2, <2>3
  <1>5. h = IF joins THEN [end |-> g.end + 1, last |-> most]
            ELSE IF nextHasText /\ EndsLine(region.old) /\ ~EndsLine(region.new)
            THEN [end |-> g.end, last |-> g.last + 1]
            ELSE g
    BY DEF Grow
  <1> HIDE DEF h, st, first, region
  <1>6. CASE joins
    <2>1. h = [end |-> g.end + 1, last |-> most]
      BY <1>5, <1>6
    <2> DEFINE e == resolved[g.end]
    <2>2. g.end \in 1 .. Len(resolved)
      BY <1>1, <1>2, <1>6
    <2>3. further \in 1 .. Len(st) /\ e.finish =< LineEnd(st, source, further) /\ e.finish \in Nat
      <3>1. /\ e.start \in 1 .. Len(source) + 1 /\ e.finish \in 1 .. Len(source) + 1
            /\ e.start =< e.finish
        BY <1>1, <2>2, EditIs
      <3> HIDE DEF e
      <3>2. /\ EditLastLine(st, e) \in 1 .. Len(st)
            /\ e.finish =< LineEnd(st, source, EditLastLine(st, e))
        BY <3>1, EditLines DEF st
      <3> QED
        BY <3>1, <3>2 DEF e
    <2> HIDE DEF joins, e, further
    <2>4. most \in g.last .. Len(st) /\ most \in further .. Len(st) /\ most \in 1 .. Len(st)
      BY <1>2, <1>3, <2>3
    <2> HIDE DEF most
    <2>5. h \in [end : Nat, last : Nat] /\ h.end = g.end + 1 /\ h.last = most
      BY <1>2, <1>3, <2>1, <2>4
    <2>6. ASSUME NEW i \in from .. h.end - 1
          PROVE  resolved[i].finish =< LineEnd(st, source, h.last)
      <3>1. CASE i = g.end
        <4>1. resolved[i].finish = e.finish
          BY <3>1 DEF e
        <4>2. LineEnd(st, source, further) =< LineEnd(st, source, most)
          BY <1>4, <2>3, <2>4
        <4>3. LineEnd(st, source, further) \in Nat /\ LineEnd(st, source, most) \in Nat
          BY <1>4, <2>3, <2>4
        <4> QED
          BY <2>3, <2>5, <4>1, <4>2, <4>3
      <3>2. CASE i # g.end
        <4>1. i \in from .. g.end - 1 /\ i \in 1 .. Len(resolved)
          BY <1>1, <1>2, <2>5, <3>2
        <4>2. g.last \in 1 .. Len(st)
          BY <1>2, <1>3
        <4>3. LineEnd(st, source, g.last) =< LineEnd(st, source, most)
          BY <1>4, <2>4, <4>2
        <4>4. LineEnd(st, source, g.last) \in Nat /\ LineEnd(st, source, most) \in Nat
          BY <1>4, <2>4, <4>2
        <4>5. resolved[i].finish \in Nat
          <5>1. resolved[i].finish \in 1 .. Len(source) + 1
            BY <1>1, <4>1, EditIs
          <5> QED
            BY <5>1
        <4> QED
          BY <1>2, <2>5, <4>1, <4>3, <4>4, <4>5
      <3> QED
        BY <3>1, <3>2
    <2>7. from < h.end /\ h.end =< Len(resolved) + 1 /\ first =< h.last /\ h.last =< Len(st)
      BY <1>1, <1>2, <1>3, <2>2, <2>4, <2>5
    <2>8. Grouped(source, resolved, from, h)
      BY <2>5, <2>6, <2>7 DEF Grouped, st, first
    <2>9. h.end + h.last >= g.end + g.last + 1
      BY <1>2, <1>3, <2>4, <2>5
    <2> QED
      BY <2>8, <2>9 DEF h, st
  <1>7. CASE ~joins /\ nextHasText /\ EndsLine(region.old) /\ ~EndsLine(region.new)
    <2>1. h = [end |-> g.end, last |-> g.last + 1]
      BY <1>5, <1>7
    <2>2. g.last \in 1 .. Len(st) /\ g.last + 1 \in g.last .. Len(st) /\ g.last + 1 \in 1 .. Len(st)
      BY <1>2, <1>3, <1>7
    <2>3. h \in [end : Nat, last : Nat] /\ h.end = g.end /\ h.last = g.last + 1
      BY <1>2, <2>1
    <2>4. ASSUME NEW i \in from .. h.end - 1
          PROVE  resolved[i].finish =< LineEnd(st, source, h.last)
      <3>1. i \in from .. g.end - 1 /\ i \in 1 .. Len(resolved)
        BY <1>1, <1>2, <2>3
      <3>2. resolved[i].finish \in 1 .. Len(source) + 1
        BY <1>1, <3>1, EditIs
      <3>3. resolved[i].finish =< LineEnd(st, source, g.last)
        BY <1>2, <3>1
      <3>4. /\ LineEnd(st, source, g.last) =< LineEnd(st, source, g.last + 1)
            /\ LineEnd(st, source, g.last) \in Nat /\ LineEnd(st, source, g.last + 1) \in Nat
        BY <1>4, <2>2
      <3>5. resolved[i].finish \in Nat
        BY <3>2
      <3> QED
        BY <2>3, <3>3, <3>4, <3>5
    <2>5. from < h.end /\ h.end =< Len(resolved) + 1 /\ first =< h.last /\ h.last =< Len(st)
      BY <1>1, <1>2, <1>3, <2>2, <2>3
    <2>6. Grouped(source, resolved, from, h)
      BY <2>3, <2>4, <2>5 DEF Grouped, st, first
    <2>7. h.end + h.last >= g.end + g.last + 1
      BY <1>2, <2>3
    <2> QED
      BY <2>6, <2>7 DEF h, st
  <1>8. CASE ~joins /\ ~(nextHasText /\ EndsLine(region.old) /\ ~EndsLine(region.new))
    <2>1. h = g
      BY <1>5, <1>8
    <2> QED
      BY <2>1 DEF h, st
  <1> QED
    BY <1>6, <1>7, <1>8

\* The states of the loop of Group.
Grows(source, resolved, from, f) ==
  /\ f[0] = [end |-> from + 1, last |-> EditLastLine(LineStarts(source), resolved[from])]
  /\ \A n \in 0 .. Len(resolved) + Len(LineStarts(source)) : Grouped(source, resolved, from, f[n])
  /\ \A n \in 1 .. Len(resolved) + Len(LineStarts(source)) :
       f[n] = Grow(source, LineStarts(source), resolved, from, f[n - 1])
  /\ LET group == f[Len(resolved) + Len(LineStarts(source))]
     IN  Group(source, LineStarts(source), resolved, from)
           = Region(source, LineStarts(source), resolved, from, group.end,
                    EditFirstLine(LineStarts(source), resolved[from]), group.last)

\* The loop of Group.
LEMMA GroupLoop ==
  ASSUME NEW source \in Seq(Bytes), NEW resolved, Fits(source, resolved),
         NEW from \in 1 .. Len(resolved)
  PROVE  \E f : Grows(source, resolved, from, f)
  <1> DEFINE starts == LineStarts(source)
             Grown[times \in 0 .. Len(resolved) + Len(starts)] ==
               IF times = 0
               THEN [end |-> from + 1, last |-> EditLastLine(starts, resolved[from])]
               ELSE Grow(source, starts, resolved, from, Grown[times - 1])
             N == Len(resolved) + Len(starts)
             one == [end |-> from + 1, last |-> EditLastLine(starts, resolved[from])]
             X == {g \in [end : Nat, last : Nat] : Grouped(source, resolved, from, g)}
             step == [p \in (1 .. N) \X X |-> Grow(source, starts, resolved, from, p[2])]
  <1>1. Group(source, starts, resolved, from)
          = Region(source, starts, resolved, from, Grown[N].end,
                   EditFirstLine(starts, resolved[from]), Grown[N].last)
    BY DEF Group
  <1>2. N \in Nat
    <2>1. Len(resolved) \in Nat /\ Len(starts) \in Nat
      BY LinesAre DEF Fits
    <2> QED
      BY <2>1
  <1> HIDE DEF starts
  <1>3. one \in X
    BY GroupBegins DEF Grouped, starts
  <1>4. \A x \in X : Grow(source, starts, resolved, from, x) \in X
    <2> TAKE x \in X
    <2>1. Grouped(source, resolved, from, Grow(source, starts, resolved, from, x))
      BY GroupGrows DEF starts
    <2> QED
      BY <2>1 DEF Grouped
  <1> HIDE DEF X
  <1>5. step \in [(1 .. N) \X X -> X]
    BY <1>4
  <1>6. PICK f \in Loop(N, X, one, step) : TRUE
    <2> HIDE DEF step, N, one
    <2> QED
      BY <1>2, <1>3, <1>5, Iterates
  <1>7. /\ f \in [0 .. N -> X] /\ f[0] = one
        /\ \A n \in 1 .. N : f[n] = Grow(source, starts, resolved, from, f[n - 1])
    <2> HIDE DEF N, one
    <2>1. /\ f \in [0 .. N -> X] /\ f[0] = one
          /\ \A n \in 1 .. N : f[n] = step[<<n, f[n - 1]>>]
      BY <1>6 DEF Loop
    <2>2. ASSUME NEW n \in 1 .. N PROVE <<n, f[n - 1]>> \in (1 .. N) \X X
      <3>1. n - 1 \in 0 .. N
        BY <1>2
      <3> QED
        BY <3>1, <2>1
    <2> QED
      BY <2>1, <2>2
  <1> DEFINE Body(g) == [times \in 0 .. Len(resolved) + Len(starts) |->
               IF times = 0
               THEN [end |-> from + 1, last |-> EditLastLine(starts, resolved[from])]
               ELSE Grow(source, starts, resolved, from, g[times - 1])]
  <1>8. f = Body(f)
    <2>1. \A n \in 0 .. N : f[n] = IF n = 0 THEN one
                                   ELSE Grow(source, starts, resolved, from, f[n - 1])
      <3>1. \A n \in 0 .. N : n = 0 \/ n \in 1 .. N
        BY <1>2
      <3> HIDE DEF N, one
      <3> QED
        BY <1>7, <3>1
    <2>2. f = [n \in 0 .. N |-> f[n]]
      BY <1>7
    <2> HIDE DEF N, one
    <2>3. f = [n \in 0 .. N |-> IF n = 0 THEN one
                                ELSE Grow(source, starts, resolved, from, f[n - 1])]
      BY <2>1, <2>2
    <2> QED
      BY <2>3, Zenon DEF N, one
  <1>9. Grown = Body(Grown)
    BY <1>8, Zenon
  <1> HIDE DEF Grown
  <1>10. /\ Grown[0] = one
         /\ \A n \in 1 .. N : Grown[n] = Grow(source, starts, resolved, from, Grown[n - 1])
    <2>1. 0 \in 0 .. N /\ \A n \in 1 .. N : n \in 0 .. N /\ n # 0
      BY <1>2
    <2>2. \A n \in 0 .. N :
            Grown[n] = IF n = 0 THEN one
                       ELSE Grow(source, starts, resolved, from, Grown[n - 1])
      BY <1>9, Zenon
    <2> HIDE DEF N, one
    <2> QED
      BY <2>1, <2>2
  <1>11. \A n \in 0 .. N : Grown[n] \in X
    <2> HIDE DEF N, one
    <2> QED
      BY <1>2, <1>3, <1>4, <1>10, LoopKeeps
  <1>12. \A n \in 0 .. N : Grouped(source, resolved, from, Grown[n])
    BY <1>11 DEF X
  <1> QED
    BY <1>1, <1>10, <1>12, Zenon DEF Grows, starts

\* A group is the lines of edits that share no line with the next, the region of which
\* keeps its final newline or has nothing after it.
LEMMA GroupIs ==
  ASSUME NEW source \in Seq(Bytes), NEW resolved, Fits(source, resolved),
         NEW from \in 1 .. Len(resolved)
  PROVE  \E g : /\ Grouped(source, resolved, from, g)
                /\ Whole(source, resolved, from, g)
                /\ Group(source, LineStarts(source), resolved, from)
                     = Region(source, LineStarts(source), resolved, from, g.end,
                              EditFirstLine(LineStarts(source), resolved[from]), g.last)
  <1> DEFINE starts == LineStarts(source)
             N == Len(resolved) + Len(starts)
  <1>1. PICK f : Grows(source, resolved, from, f)
    BY GroupLoop
  <1>2. Len(resolved) \in Nat /\ Len(starts) \in Nat
    BY LinesAre DEF Fits
  <1> HIDE DEF starts
  <1>3. \A n \in 0 .. N : Grouped(source, resolved, from, f[n])
    BY <1>1, Zenon DEF Grows, starts
  <1>4. \A n \in 1 .. N : f[n] = Grow(source, starts, resolved, from, f[n - 1])
    BY <1>1, Zenon DEF Grows, starts
  <1>5. Group(source, starts, resolved, from)
          = Region(source, starts, resolved, from, f[N].end,
                   EditFirstLine(starts, resolved[from]), f[N].last)
    BY <1>1, Zenon DEF Grows, starts
  <1>6. N \in Nat
    BY <1>2
  <1>7. \A n \in 0 .. N : /\ f[n].end \in Nat /\ f[n].last \in Nat
                          /\ from < f[n].end /\ f[n].end =< Len(resolved) + 1
                          /\ f[n].last =< Len(starts)
    BY <1>3 DEF Grouped, starts
  <1> DEFINE S == {n \in 0 .. N : \/ Whole(source, resolved, from, f[n])
                                  \/ f[n].end + f[n].last >= from + 1 + n}
  <1> HIDE DEF N
  <1>8. 0 \in S
    <2>1. 0 \in 0 .. N
      BY <1>6
    <2>2. f[0].end + f[0].last >= from + 1 + 0
      BY <1>7, <2>1
    <2> QED
      BY <2>1, <2>2
  <1>9. ASSUME NEW n \in 1 .. N, n - 1 \in S PROVE n \in S
    <2> DEFINE g == f[n - 1]
               h == f[n]
    <2>1. n \in 0 .. N /\ n - 1 \in 0 .. N
      BY <1>6
    <2>2. h = Grow(source, starts, resolved, from, g) /\ Grouped(source, resolved, from, g)
      BY <1>3, <1>4, <2>1
    <2>3. h = g \/ h.end + h.last >= g.end + g.last + 1
      <3> HIDE DEF g, h
      <3> QED
        BY <2>2, GroupGrows DEF starts
    <2>4. g.end \in Nat /\ g.last \in Nat /\ h.end \in Nat /\ h.last \in Nat
      BY <1>7, <2>1
    <2>5. CASE h = g
      <3>1. Whole(source, resolved, from, h)
        BY <2>2, <2>5 DEF Whole, starts
      <3> QED
        BY <2>1, <3>1
    <2>6. CASE h # g /\ Whole(source, resolved, from, g)
      BY <2>2, <2>6 DEF Whole, starts
    <2>7. CASE h # g /\ g.end + g.last >= from + 1 + (n - 1)
      <3> HIDE DEF g, h
      <3>1. h.end + h.last >= from + 1 + n
        BY <2>1, <2>3, <2>4, <2>7
      <3> QED
        BY <2>1, <3>1 DEF h
    <2> QED
      BY <1>9, <2>5, <2>6, <2>7
  <1> HIDE DEF S
  <1>10. N \in S /\ N \in 0 .. N
    <2>1. N \in 0 .. N
      BY <1>6
    <2> QED
      BY <1>6, <1>8, <1>9, <2>1, Upwards
  <1>11. Whole(source, resolved, from, f[N])
    <2> SUFFICES ASSUME f[N].end + f[N].last >= from + 1 + N PROVE FALSE
      BY <1>10 DEF S
    <2>1. /\ f[N].end \in Nat /\ f[N].last \in Nat /\ f[N].end =< Len(resolved) + 1
          /\ f[N].last =< Len(starts)
      BY <1>7, <1>10
    <2> QED
      BY <1>2, <2>1 DEF N
  <1>12. Grouped(source, resolved, from, f[N])
    BY <1>3, <1>10
  <1> QED
    BY <1>5, <1>11, <1>12, Zenon DEF starts

\* What the end of two texts is that are joined.
LEMMA ClosedJoins ==
  ASSUME NEW s \in Seq(Bytes), NEW t \in Seq(Bytes), Closed(t)
  PROVE  /\ Closed(s) => Closed(s \o t)
         /\ EndsLine(s) => EndsLine(s \o t)
         /\ t # <<>> => EndsLine(s \o t)
  <1> DEFINE m == Len(s)
             n == Len(t)
             u == s \o t
  <1>1. m \in Nat /\ n \in Nat /\ Len(u) = m + n /\ u \in Seq(Bytes)
    OBVIOUS
  <1>2. t # <<>> => EndsLine(u)
    <2> SUFFICES ASSUME t # <<>> PROVE EndsLine(u)
      OBVIOUS
    <2>1. t[n] = LF /\ n >= 1
      BY DEF Closed, EndsLine
    <2>2. u[m + n] = t[n] /\ u # <<>>
      BY <2>1
    <2> HIDE DEF u, m, n
    <2> QED
      BY <1>1, <2>1, <2>2 DEF EndsLine
  <1>3. t = <<>> => u = s
    OBVIOUS
  <1> HIDE DEF u
  <1>4. Closed(s) => Closed(u)
    BY <1>2, <1>3 DEF Closed
  <1> QED
    BY <1>2, <1>3, <1>4 DEF u

\* When an edit is in the empty line that a final newline leaves, what the edits before it
\* leave ends in a newline.
EndedBefore(source, resolved) ==
  EndsLine(source) /\ Len(resolved) > 1 /\ resolved[Len(resolved)].start = Len(source) + 1
    => Closed(ApplyWithin(source, resolved, 1, Len(resolved), 1, Len(source) + 1))

\* The region of a group of edits: its end in the source, the edits in it and after it, and
\* the newline it ends in unless nothing is after it.
RegionFrom(source, resolved, from, region, q) ==
  LET st == LineStarts(source)
      p == st[region.first]
  IN  /\ region.end \in from + 1 .. Len(resolved) + 1
      /\ region.first = EditFirstLine(st, resolved[from])
      /\ region.first \in 1 .. Len(st)
      /\ q \in p .. Len(source) + 1
      /\ region.old = Cut(source, p, q)
      /\ region.new = ApplyWithin(source, resolved, from, region.end, p, q)
      /\ \A i \in from .. region.end - 1 : p =< resolved[i].start /\ resolved[i].finish =< q
      /\ region.end =< Len(resolved) => q =< st[EditFirstLine(st, resolved[region.end])]
      /\ \/ Closed(region.old) /\ Closed(region.new)
         \/ q = Len(source) + 1 /\ region.end = Len(resolved) + 1

\* The line of an edit starts before it and all the edits after it.
LEMMA EditsInTurn ==
  ASSUME NEW source \in Seq(Bytes), NEW resolved, Fits(source, resolved),
         NEW k \in 1 .. Len(resolved)
  PROVE  LET p == LineStarts(source)[EditFirstLine(LineStarts(source), resolved[k])]
         IN  /\ EditFirstLine(LineStarts(source), resolved[k]) \in 1 .. Len(LineStarts(source))
             /\ p \in 1 .. Len(source) + 1
             /\ \A i \in k .. Len(resolved) : p =< resolved[i].start
  <1> DEFINE st == LineStarts(source)
             e == resolved[k]
             f == EditFirstLine(st, e)
             p == st[f]
  <1>1. resolved \in Seq(EditsOf(source)) /\ Len(resolved) \in Nat /\ e.start =< e.finish
    BY DEF Fits
  <1>2. e.start \in 1 .. Len(source) + 1 /\ e.finish \in 1 .. Len(source) + 1
    BY <1>1, EditIs
  <1> HIDE DEF e
  <1>3. f \in 1 .. Len(st) /\ p =< e.start
    BY <1>1, <1>2, EditLines
  <1>4. p \in 1 .. Len(source) + 1
    BY <1>3, LineIsCut
  <1> HIDE DEF st, f, p
  <1>5. ASSUME NEW i \in k .. Len(resolved) PROVE p =< resolved[i].start
    <2>1. i \in 1 .. Len(resolved)
      BY <1>1
    <2>2. resolved[i].start \in 1 .. Len(source) + 1
      BY <1>1, <2>1, EditIs
    <2>3. i # k => e.start < resolved[i].start
      <3>1. i # k => k < i
        OBVIOUS
      <3> QED
        BY <2>1, <3>1, InTurn DEF e
    <2>4. i = k => e.start = resolved[i].start
      BY DEF e
    <2> QED
      BY <1>2, <1>3, <1>4, <2>2, <2>3, <2>4
  <1> QED
    BY <1>3, <1>4, <1>5 DEF p, f, st, e

\* The last part of a text ends as the text does.
LEMMA ClosedTail ==
  ASSUME NEW s \in Seq(Bytes), NEW t \in Seq(Bytes), Closed(s \o t)
  PROVE  Closed(t)
  <1> DEFINE m == Len(s)
             n == Len(t)
             u == s \o t
  <1> SUFFICES ASSUME t # <<>> PROVE EndsLine(t)
    BY DEF Closed
  <1>1. m \in Nat /\ n \in Nat /\ n >= 1 /\ Len(u) = m + n /\ u # <<>>
    OBVIOUS
  <1>2. u[m + n] = t[n]
    BY <1>1
  <1>3. EndsLine(u)
    BY <1>1 DEF Closed
  <1>4. u[Len(u)] = LF
    BY <1>3 DEF EndsLine
  <1> HIDE DEF u, m
  <1> QED
    BY <1>1, <1>2, <1>4 DEF EndsLine

\* Edits that each end in a newline leave a text that does.
LEMMA EndedEdits ==
  ASSUME NEW source \in Seq(Bytes), NEW resolved, Fits(source, resolved),
         EndsLine(source), Len(resolved) > 1,
         \A i \in 1 .. Len(resolved) - 1 : EndsLine(resolved[i].new)
  PROVE  Closed(ApplyWithin(source, resolved, 1, Len(resolved), 1, Len(source) + 1))
  <1> DEFINE from == 1
             p == 1
             N == Len(resolved)
             n == Len(source)
             e == resolved[N - 1]
             a == ApplyWithin(source, resolved, from, N - 1, p, e.start)
             z == Cut(source, e.finish, n + 1)
  <1>1. resolved \in Seq(EditsOf(source)) /\ N \in Nat /\ n \in Nat
    BY DEF Fits
  <1>2. N - 1 \in 1 .. N /\ N - 1 \in from .. N /\ N - 1 \in from .. N + 1
        /\ from \in 1 .. N /\ N > 1 /\ N - 1 + 1 = N /\ from \in 1 .. N + 1
        /\ p \in 1 .. n + 1
    BY <1>1
  <1> HIDE DEF from, p
  <1>3. /\ e.start \in 1 .. n + 1 /\ e.finish \in 1 .. n + 1 /\ e.new \in Seq(Bytes)
    BY <1>1, <1>2, EditIs
  <1>4. EndsLine(e.new)
    BY <1>1, <1>2
  <1>5. ApplyWithin(source, resolved, from, N, p, n + 1) = a \o e.new \o z
    <2>1. n + 1 \in e.finish .. n + 1 /\ N - 1 \in from .. N
      BY <1>1, <1>2, <1>3
    <2> DEFINE M == N - 1
    <2>2. /\ M \in from .. N /\ from \in 1 .. N /\ p \in 1 .. Len(source) + 1
          /\ n + 1 \in resolved[M].finish .. n + 1
      BY <1>2, <2>1
    <2>5. M + 1 = N
      BY <1>1
    <2> HIDE DEF M
    <2>3. ApplyWithin(source, resolved, from, M + 1, p, n + 1)
            = ApplyWithin(source, resolved, from, M, p, resolved[M].start)
                \o resolved[M].new \o Cut(source, resolved[M].finish, n + 1)
      BY <1>1, <2>2, ApplyNext
    <2> HIDE DEF N
    <2>4. ApplyWithin(source, resolved, from, N, p, n + 1)
            = ApplyWithin(source, resolved, from, M, p, resolved[M].start)
                \o resolved[M].new \o Cut(source, resolved[M].finish, n + 1)
      BY <2>3, <2>5
    <2> QED
      BY <2>4, Zenon DEF M
  <1>6. a \in Seq(Bytes)
    <2>1. e.start \in Nat
      BY <1>3
    <2> QED
      BY <1>1, <1>2, <2>1, ApplyType
  <1>7. z \in Seq(Bytes) /\ Closed(z)
    <2> DEFINE j == n + 1
    <2>1. j \in e.finish .. n + 1 /\ j - 1 = n /\ e.finish \in 1 .. n + 1
      BY <1>1, <1>3
    <2>2. source[n] = LF
      BY DEF EndsLine
    <2>3. source[j - 1] = LF
      BY <2>1, <2>2
    <2> HIDE DEF j, e
    <2>4. Cut(source, e.finish, j) \in Seq(Bytes)
      BY <2>1, PartIsCut
    <2>5. Closed(Cut(source, e.finish, j))
      BY <2>1, <2>3, CutIsClosed
    <2> QED
      BY <2>4, <2>5 DEF j
  <1> HIDE DEF a, z, e
  <1>8. EndsLine(a \o e.new) /\ a \o e.new \in Seq(Bytes)
    <2>1. Closed(e.new) /\ e.new # <<>>
      BY <1>4 DEF Closed, EndsLine
    <2> QED
      BY <1>3, <1>6, <2>1, ClosedJoins
  <1>9. EndsLine(a \o e.new \o z)
    BY <1>7, <1>8, ClosedJoins
  <1> QED
    BY <1>5, <1>9 DEF Closed, from, p

\* The text that a group leaves ends in a newline when only an edit in the empty last line is
\* after it and the edits before that one leave a text that does.
LEMMA BeforeLast ==
  ASSUME NEW source \in Seq(Bytes), NEW resolved, Fits(source, resolved),
         EndedBefore(source, resolved), EndsLine(source),
         NEW from \in 1 .. Len(resolved) - 1, NEW p \in 1 .. Len(source) + 1,
         \A i \in 1 .. from - 1 : resolved[i].finish =< p,
         \A i \in from .. Len(resolved) : p =< resolved[i].start,
         resolved[Len(resolved)].start = Len(source) + 1
  PROVE  Closed(ApplyWithin(source, resolved, from, Len(resolved), p, Len(source) + 1))
  <1> DEFINE N == Len(resolved)
             n == Len(source)
             a == ApplyWithin(source, resolved, 1, from, 1, p)
             b == ApplyWithin(source, resolved, from, N, p, n + 1)
  <1>1. resolved \in Seq(EditsOf(source)) /\ N \in Nat /\ n \in Nat
    BY DEF Fits
  <1>2. /\ 1 \in 1 .. N + 1 /\ from \in 1 .. N + 1 /\ N \in from .. N + 1 /\ N > 1
        /\ 1 \in 1 .. n + 1 /\ n + 1 \in p .. n + 1 /\ p \in Nat /\ n + 1 \in Nat
    BY <1>1
  <1>3. \A i \in from .. N - 1 : p =< resolved[i].start /\ resolved[i].finish =< n + 1
    <2> TAKE i \in from .. N - 1
    <2>1. i \in 1 .. N /\ i \in from .. N
      BY <1>1
    <2>2. resolved[i].finish \in 1 .. n + 1
      BY <1>1, <2>1, EditIs
    <2> QED
      BY <2>1, <2>2
  <1>4. ApplyWithin(source, resolved, 1, N, 1, n + 1) = a \o b
    <2> HIDE DEF N, n
    <2>1. p \in 1 .. n + 1
      BY DEF n
    <2> QED
      BY <1>2, <1>3, <2>1, ApplySplit DEF N, n
  <1>5. a \in Seq(Bytes) /\ b \in Seq(Bytes)
    BY <1>1, <1>2, ApplyType
  <1>6. Closed(a \o b)
    BY <1>2, <1>4 DEF EndedBefore
  <1> HIDE DEF a, b
  <1> QED
    BY <1>5, <1>6, ClosedTail DEF b

\* The end of a line that is not the last is past its newline.
LEMMA LineEnds ==
  ASSUME NEW s \in Seq(Bytes), NEW f \in 1 .. Len(LineStarts(s)), NEW l \in f .. Len(LineStarts(s))
  PROVE  LET st == LineStarts(s)
             q == LineEnd(st, s, l)
         IN  /\ q \in st[f] .. Len(s) + 1 /\ st[f] \in 1 .. Len(s) + 1
             /\ l < Len(st) => q = st[l + 1] /\ s[q - 1] = LF /\ EndsLine(Cut(s, st[f], q))
             /\ l = Len(st) => q = Len(s) + 1
  <1> DEFINE st == LineStarts(s)
             q == LineEnd(st, s, l)
             p == st[f]
  <1>1. /\ Len(st) \in Nat /\ Len(s) \in Nat
        /\ \A k \in 2 .. Len(st) : st[k] >= 2 /\ s[st[k] - 1] = LF
    BY LineStartsAre DEF StartsOf
  <1>2. l \in 1 .. Len(st) /\ f \in 1 .. l
    BY <1>1
  <1>3. p \in 1 .. Len(s) + 1 /\ st[l] \in 1 .. Len(s) + 1 /\ q \in st[l] .. Len(s) + 1
    BY <1>2, LineIsCut
  <1>4. p =< st[l]
    BY StartsInOrder
  <1>5. ASSUME l < Len(st) PROVE p < st[l + 1] /\ l + 1 \in 2 .. Len(st)
    <2>1. l + 1 \in f .. Len(st) /\ f < l + 1 /\ l + 1 \in 2 .. Len(st)
      BY <1>1, <1>2, <1>5
    <2>2. st[f] < st[l + 1]
      BY <2>1, StartsInOrder
    <2> QED
      BY <2>1, <2>2
  <1>6. /\ l < Len(st) => q = st[l + 1]
        /\ l = Len(st) => q = Len(s) + 1
    BY <1>1, <1>2 DEF LineEnd
  <1> HIDE DEF st, p, q
  <1>7. p \in 1 .. Len(s) + 1 /\ q \in p .. Len(s) + 1
    BY <1>1, <1>3, <1>4
  <1>8. ASSUME l < Len(st) PROVE s[q - 1] = LF /\ EndsLine(Cut(s, p, q))
    <2>1. s[q - 1] = LF /\ p < q
      BY <1>1, <1>5, <1>6, <1>8
    <2> QED
      BY <1>7, <2>1, CutIsClosed
  <1> QED
    BY <1>6, <1>7, <1>8 DEF p, q, st

\* The region of a group is the lines of its edits, and ends where a line ends.
LEMMA RegionRight ==
  ASSUME NEW source \in Seq(Bytes), NEW resolved, Fits(source, resolved),
         EndedBefore(source, resolved), NEW from \in 1 .. Len(resolved),
         \A i \in 1 .. from - 1 :
           resolved[i].finish =< LineStarts(source)[EditFirstLine(LineStarts(source), resolved[from])]
  PROVE  \E q \in Nat :
           RegionFrom(source, resolved, from, Group(source, LineStarts(source), resolved, from), q)
  <1> DEFINE st == LineStarts(source)
             N == Len(resolved)
             n == Len(source)
             first == EditFirstLine(st, resolved[from])
             p == st[first]
             R == Group(source, st, resolved, from)
  <1>1. resolved \in Seq(EditsOf(source)) /\ N \in Nat /\ n \in Nat
    BY DEF Fits
  <1>2. Len(st) \in Nat
    BY LinesAre
  <1>3. PICK g : /\ Grouped(source, resolved, from, g) /\ Whole(source, resolved, from, g)
                 /\ R = Region(source, st, resolved, from, g.end, first, g.last)
    BY GroupIs
  <1> DEFINE q == LineEnd(st, source, g.last)
             old == Part(source, p, q - 1)
             new == ApplyWithin(source, resolved, from, g.end, p, q)
  <1>4. /\ R.end = g.end /\ R.first = first /\ R.old = old /\ R.new = new
        /\ R = [end |-> g.end, first |-> first, old |-> old, new |-> new]
    BY <1>3 DEF Region
  <1>5. /\ g.end \in Nat /\ g.last \in Nat /\ from < g.end /\ g.end =< N + 1
        /\ first =< g.last /\ g.last =< Len(st)
        /\ \A i \in from .. g.end - 1 : resolved[i].finish =< q
    BY <1>3 DEF Grouped
  <1>6. /\ first \in 1 .. Len(st) /\ p \in 1 .. n + 1
        /\ \A i \in from .. N : p =< resolved[i].start
    BY EditsInTurn
  <1>7. g.end \in from + 1 .. N + 1 /\ g.last \in first .. Len(st)
    BY <1>1, <1>2, <1>5, <1>6
  <1>8. /\ q \in p .. n + 1
        /\ g.last < Len(st) =>
             q = st[g.last + 1] /\ source[q - 1] = LF /\ EndsLine(Cut(source, p, q))
        /\ g.last = Len(st) => q = n + 1
    BY <1>6, <1>7, LineEnds
  <1>9. old = Cut(source, p, q)
    <2> HIDE DEF p, q
    <2> QED
      BY <1>6, <1>8, PartIsCut
  <1>10. ~(g.end =< N /\ EditFirstLine(st, resolved[g.end]) =< g.last)
    <2> SUFFICES ASSUME g.end =< N, EditFirstLine(st, resolved[g.end]) =< g.last PROVE FALSE
      OBVIOUS
    <2>1. Grow(source, st, resolved, from, g).end = g.end + 1
      BY DEF Grow
    <2>2. Grow(source, st, resolved, from, g) = g
      BY <1>3, Zenon DEF Whole
    <2> HIDE DEF st
    <2> QED
      BY <1>5, <2>1, <2>2
  <1>11. g.last < Len(st) /\ st[g.last + 1] =< n /\ EndsLine(old) => EndsLine(new)
    <2> SUFFICES ASSUME g.last < Len(st), st[g.last + 1] =< n, EndsLine(old), ~EndsLine(new)
                 PROVE  FALSE
      OBVIOUS
    <2>1. Region(source, st, resolved, from, g.end, first, g.last)
            = [end |-> g.end, first |-> first, old |-> old, new |-> new]
      BY <1>3, <1>4, Zenon
    <2>2. Grow(source, st, resolved, from, g) = [end |-> g.end, last |-> g.last + 1]
      <3> DEFINE r == Region(source, st, resolved, from, g.end, first, g.last)
      <3>1. EndsLine(r.old) /\ ~EndsLine(r.new)
        <4> HIDE DEF r, old, new
        <4> QED
          BY <2>1 DEF r
      <3> QED
        BY <1>10, <3>1, Zenon DEF Grow
    <2>3. Grow(source, st, resolved, from, g) = g
      BY <1>3, Zenon DEF Whole
    <2> HIDE DEF st
    <2>4. g.last = g.last + 1
      BY <2>2, <2>3
    <2> QED
      BY <1>5, <2>4
  <1>12. ASSUME g.end =< N
         PROVE  /\ q =< st[EditFirstLine(st, resolved[g.end])]
                /\ \A i \in g.end .. N : q =< resolved[i].start
                /\ g.last < Len(st)
    <2> DEFINE k == EditFirstLine(st, resolved[g.end])
    <2>1. g.end \in 1 .. N
      BY <1>1, <1>5, <1>12
    <2>2. /\ k \in 1 .. Len(st) /\ st[k] \in 1 .. n + 1
          /\ \A i \in g.end .. N : st[k] =< resolved[i].start
      BY <2>1, EditsInTurn
    <2>3. ~(k =< g.last)
      BY <1>10, <1>12
    <2> HIDE DEF k
    <2>4. g.last \in 1 .. Len(st) /\ k \in g.last .. Len(st) /\ g.last < k /\ g.last < Len(st)
      BY <1>2, <1>5, <1>6, <2>2, <2>3
    <2>5. q =< st[k]
      BY <2>4, StartsInOrder
    <2>6. ASSUME NEW i \in g.end .. N PROVE q =< resolved[i].start
      <3>1. i \in 1 .. N
        BY <1>1, <1>5
      <3>2. resolved[i].start \in 1 .. n + 1
        BY <1>1, <3>1, EditIs
      <3> HIDE DEF q, p, st
      <3> QED
        BY <1>6, <1>8, <2>2, <2>5, <3>2
    <2> QED
      BY <2>4, <2>5, <2>6 DEF k
  <1>13. (Closed(old) /\ Closed(new)) \/ (q = n + 1 /\ g.end = N + 1)
    <2>1. CASE g.end > N
      <3>1. g.end = N + 1
        <4> HIDE DEF N, p, st
        <4> QED
          BY <1>1, <1>5, <2>1
      <3> HIDE DEF old, new, p, q
      <3>2. CASE g.last = Len(st)
        BY <1>8, <3>1, <3>2
      <3>3. CASE g.last < Len(st) /\ st[g.last + 1] =< n
        BY <1>8, <1>9, <1>11, <3>3 DEF Closed
      <3>4. CASE g.last < Len(st) /\ ~(st[g.last + 1] =< n)
        <4>1. q = n + 1
          BY <1>1, <1>6, <1>8, <3>4
        <4> QED
          BY <3>1, <4>1
      <3> HIDE DEF st
      <3> QED
        BY <1>2, <1>5, <3>2, <3>3, <3>4
    <2>2. CASE g.end =< N /\ st[g.last + 1] =< n
      <3>1. g.last < Len(st)
        BY <1>12, <2>2
      <3> HIDE DEF old, new, p, q
      <3> QED
        BY <1>8, <1>9, <1>11, <2>2, <3>1 DEF Closed
    <2>3. CASE g.end =< N /\ ~(st[g.last + 1] =< n)
      <3>1. g.last < Len(st) /\ q = st[g.last + 1] /\ source[q - 1] = LF
            /\ EndsLine(Cut(source, p, q))
        BY <1>8, <1>12, <2>3
      <3> HIDE DEF p, q
      <3>2. q = n + 1
        BY <1>1, <1>6, <1>8, <2>3, <3>1
      <3>3. \A i \in g.end .. N : n + 1 =< resolved[i].start
        BY <1>12, <2>3, <3>2
      <3>4. \A i \in g.end .. N : i \in 1 .. N /\ resolved[i].start = n + 1
        <4> TAKE i \in g.end .. N
        <4>1. i \in 1 .. N
          BY <1>1, <1>5
        <4>2. resolved[i].start \in 1 .. n + 1
          BY <1>1, <4>1, EditIs
        <4>3. n + 1 =< resolved[i].start
          BY <3>3
        <4> HIDE DEF n
        <4> QED
          BY <1>1, <4>1, <4>2, <4>3
      <3>5. g.end = N /\ N \in 1 .. N
        <4> SUFFICES ASSUME g.end < N PROVE FALSE
          BY <1>1, <1>5, <2>3
        <4>1. g.end \in g.end .. N /\ N \in g.end .. N /\ g.end \in 1 .. N /\ N \in 1 .. N
          BY <1>1, <1>5
        <4>2. resolved[g.end].start < resolved[N].start
          BY <4>1, InTurn
        <4>3. resolved[g.end].start = n + 1 /\ resolved[N].start = n + 1
          BY <3>4, <4>1
        <4> QED
          BY <1>1, <4>2, <4>3
      <3>6. N \in g.end .. N
        BY <1>1, <3>5
      <3>7. resolved[N].start = n + 1 /\ from \in 1 .. N - 1
        BY <1>1, <1>5, <3>4, <3>5, <3>6
      <3>8. EndsLine(source)
        <4>1. source[n] = LF /\ n >= 1
          <5>1. p < q
            <6>1. Len(Cut(source, p, q)) = q - p /\ Cut(source, p, q) \in Seq(Bytes)
              BY <1>6, <1>8, PartIsCut
            <6>2. Cut(source, p, q) # <<>>
              BY <3>1 DEF EndsLine
            <6> DEFINE c == Cut(source, p, q)
            <6>3. Len(c) # 0
              <7>1. c \in Seq(Bytes) /\ c # <<>>
                BY <6>1, <6>2
              <7> HIDE DEF c
              <7> QED
                BY <7>1
            <6> HIDE DEF c
            <6>4. Len(c) = q - p
              BY <6>1 DEF c
            <6> QED
              BY <1>1, <1>6, <1>8, <6>3, <6>4
          <5>2. q - 1 = n
            BY <1>1, <3>2
          <5> QED
            BY <1>1, <1>6, <3>1, <3>2, <5>1, <5>2
        <4>2. source # <<>>
          BY <4>1
        <4> QED
          BY <4>1, <4>2 DEF EndsLine
      <3>9. Closed(ApplyWithin(source, resolved, from, N, p, n + 1))
        <4>1. \A i \in 1 .. from - 1 : resolved[i].finish =< p
          BY DEF p, first, st
        <4> QED
          BY <1>6, <3>7, <3>8, <4>1, BeforeLast
      <3>10. Closed(new)
        BY <3>2, <3>5, <3>9
      <3>11. Closed(old)
        BY <1>9, <3>1 DEF Closed
      <3> QED
        BY <3>10, <3>11
    <2> QED
      BY <1>1, <1>5, <2>1, <2>2, <2>3
  <1>14. q \in Nat
    <2> HIDE DEF q, p
    <2> QED
      BY <1>6, <1>8
  <1>15. \A i \in from .. g.end - 1 : p =< resolved[i].start /\ resolved[i].finish =< q
    <2>1. \A i \in from .. g.end - 1 : i \in from .. N
      BY <1>1, <1>5
    <2> HIDE DEF p, q
    <2> QED
      BY <1>5, <1>6, <2>1
  <1>16. RegionFrom(source, resolved, from, R, q)
    <2>1. R.end = g.end /\ R.first = first /\ R.old = old /\ R.new = new
      BY <1>4
    <2>2. g.end =< N => q =< st[EditFirstLine(st, resolved[g.end])]
      BY <1>12
    <2>3. st[R.first] = p
      BY <2>1
    <2> HIDE DEF R, q, old
    <2> QED
      BY <1>6, <1>7, <1>8, <1>9, <1>13, <1>15, <2>1, <2>2, <2>3, Zenon DEF RegionFrom
  <1> QED
    BY <1>14, <1>16

-----------------------------------------------------------------------------
(***************************************************************************)
(* Patches.  Lines that are alike are carried over; a hunk of a region     *)
(* that starts where the patch is carries it to the end of the region.     *)
(***************************************************************************)
\* Hunks of lines, and how far a patch got.
HunksOf(X) ==
  {h \in [oldStart : Nat, removed : Seq(X), newStart : Int, added : Seq(X)] :
     Len(h.removed) = 0 \/ h.oldStart >= 1}

\* How far a file is patched.
Progress(X) == [fits : BOOLEAN, read : Nat, out : Seq(X)]

\* Nothing is patched yet.
Unpatched == [fits |-> TRUE, read |-> 0, out |-> <<>>]

\* A hunk keeps the kind of what is patched.
LEMMA PatchKeeps ==
  ASSUME NEW X, NEW lines \in Seq(X), NEW done \in Progress(X), NEW hunk \in HunksOf(X)
  PROVE  Patch(lines, done, hunk) \in Progress(X)
  <1> DEFINE upTo == Before(hunk.oldStart, Len(hunk.removed))
             r == Len(hunk.removed)
             part == Part(lines, done.read + 1, upTo)
             fits == /\ done.fits /\ done.read =< upTo
                     /\ upTo + Len(hunk.removed) =< Len(lines)
                     /\ SubSeq(lines, upTo + 1, upTo + Len(hunk.removed)) = hunk.removed
                     /\ Before(hunk.newStart, Len(hunk.added)) = Len(done.out \o part)
  <1>1. /\ hunk.oldStart \in Nat /\ hunk.removed \in Seq(X) /\ hunk.added \in Seq(X)
        /\ (r = 0 \/ hunk.oldStart >= 1)
    BY DEF HunksOf
  <1>2. r \in Nat
    BY <1>1
  <1>3. upTo \in Nat
    <2>1. upTo = IF r = 0 THEN hunk.oldStart ELSE hunk.oldStart - 1
      BY DEF Before
    <2> HIDE DEF upTo, r
    <2> QED
      BY <1>1, <1>2, <2>1
  <1>4. done.read \in Nat /\ done.out \in Seq(X)
    BY DEF Progress
  <1>5. part \in Seq(X)
    <2>1. done.read + 1 \in Nat /\ done.read + 1 >= 1 /\ upTo \in Int
      BY <1>3, <1>4
    <2> HIDE DEF upTo
    <2> QED
      BY <2>1, PartType
  <1>6. Patch(lines, done, hunk)
          = [fits |-> fits, read |-> upTo + r, out |-> done.out \o part \o hunk.added]
    BY DEF Patch
  <1>7. fits \in BOOLEAN
    OBVIOUS
  <1> HIDE DEF fits, upTo, r, part
  <1>8. done.out \o part \o hunk.added \in Seq(X)
    BY <1>1, <1>4, <1>5
  <1>9. upTo + r \in Nat
    BY <1>2, <1>3
  <1> QED
    BY <1>6, <1>7, <1>8, <1>9 DEF Progress

\* The loop of Patched.
Patches(lines, diff, f) ==
  /\ f[0] = Unpatched
  /\ \A n \in 1 .. Len(diff) : f[n] = Patch(lines, f[n - 1], diff[n])
  /\ LET done == f[Len(diff)]
     IN  Patched(lines, diff)
           = IF done.fits THEN {done.out \o SubSeq(lines, done.read + 1, Len(lines))} ELSE {}

\* The loop of Patched.
LEMMA PatchLoop ==
  ASSUME NEW X, NEW lines \in Seq(X), NEW diff \in Seq(HunksOf(X))
  PROVE  \E f : Patches(lines, diff, f)
  <1> DEFINE Done[n \in 0 .. Len(diff)] ==
               IF n = 0 THEN [fits |-> TRUE, read |-> 0, out |-> <<>>]
               ELSE Patch(lines, Done[n - 1], diff[n])
             N == Len(diff)
             one == [fits |-> TRUE, read |-> 0, out |-> <<>>]
             Y == Progress(X)
             step == [p \in (1 .. N) \X Y |-> Patch(lines, p[2], diff[p[1]])]
  <1>1. LET done == Done[N]
        IN  Patched(lines, diff)
              = IF done.fits THEN {done.out \o SubSeq(lines, done.read + 1, Len(lines))} ELSE {}
    BY DEF Patched
  <1>2. N \in Nat
    OBVIOUS
  <1>3. one \in Y
    BY DEF Progress
  <1>4. ASSUME NEW n \in 1 .. N, NEW x \in Y PROVE Patch(lines, x, diff[n]) \in Y
    <2>1. diff[n] \in HunksOf(X)
      OBVIOUS
    <2> QED
      BY <2>1, PatchKeeps
  <1> HIDE DEF Y
  <1>5. step \in [(1 .. N) \X Y -> Y]
    BY <1>4
  <1>6. PICK f \in Loop(N, Y, one, step) : TRUE
    <2> HIDE DEF step, N, one
    <2> QED
      BY <1>2, <1>3, <1>5, Iterates
  <1>7. /\ f \in [0 .. N -> Y] /\ f[0] = one
        /\ \A n \in 1 .. N : f[n] = Patch(lines, f[n - 1], diff[n])
    <2> HIDE DEF N, one
    <2>1. /\ f \in [0 .. N -> Y] /\ f[0] = one
          /\ \A n \in 1 .. N : f[n] = step[<<n, f[n - 1]>>]
      BY <1>6 DEF Loop
    <2>2. ASSUME NEW n \in 1 .. N PROVE <<n, f[n - 1]>> \in (1 .. N) \X Y
      <3>1. n - 1 \in 0 .. N
        BY <1>2
      <3> QED
        BY <3>1, <2>1
    <2> QED
      BY <2>1, <2>2
  <1> DEFINE Body(g) == [n \in 0 .. Len(diff) |->
               IF n = 0 THEN [fits |-> TRUE, read |-> 0, out |-> <<>>]
               ELSE Patch(lines, g[n - 1], diff[n])]
  <1>8. f = Body(f)
    <2>1. \A n \in 0 .. N : f[n] = IF n = 0 THEN one ELSE Patch(lines, f[n - 1], diff[n])
      <3>1. \A n \in 0 .. N : n = 0 \/ n \in 1 .. N
        BY <1>2
      <3> HIDE DEF N, one
      <3> QED
        BY <1>7, <3>1
    <2>2. f = [n \in 0 .. N |-> f[n]]
      BY <1>7
    <2> HIDE DEF N, one
    <2>3. f = [n \in 0 .. N |-> IF n = 0 THEN one ELSE Patch(lines, f[n - 1], diff[n])]
      BY <2>1, <2>2
    <2> QED
      BY <2>3, Zenon DEF N, one
  <1>9. Done = Body(Done)
    BY <1>8, Zenon
  <1> HIDE DEF Done
  <1>10. /\ Done[0] = one
         /\ \A n \in 1 .. N : Done[n] = Patch(lines, Done[n - 1], diff[n])
    <2>1. 0 \in 0 .. N /\ \A n \in 1 .. N : n \in 0 .. N /\ n # 0
      BY <1>2
    <2>2. \A n \in 0 .. N : Done[n] = IF n = 0 THEN one ELSE Patch(lines, Done[n - 1], diff[n])
      BY <1>9, Zenon
    <2> HIDE DEF N, one
    <2> QED
      BY <2>1, <2>2
  <1> QED
    BY <1>1, <1>10, Zenon DEF Patches, Unpatched

\* What a diff comes to, before the lines after its last hunk.
Leads(lines, diff, done) == \E f : Patches(lines, diff, f) /\ f[Len(diff)] = done

\* No hunks patch nothing.
LEMMA PatchNone ==
  ASSUME NEW X, NEW lines \in Seq(X)
  PROVE  Leads(lines, <<>>, Unpatched)
  <1>1. <<>> \in Seq(HunksOf(X)) /\ Len(<<>>) = 0
    OBVIOUS
  <1>2. PICK f : Patches(lines, <<>>, f)
    BY <1>1, PatchLoop
  <1>3. f[0] = Unpatched
    BY <1>2 DEF Patches
  <1> QED
    BY <1>1, <1>2, <1>3 DEF Leads

\* One hunk more.
LEMMA PatchMore ==
  ASSUME NEW X, NEW lines \in Seq(X), NEW diff \in Seq(HunksOf(X)), NEW hunk \in HunksOf(X),
         NEW done, Leads(lines, diff, done)
  PROVE  Leads(lines, diff \o <<hunk>>, Patch(lines, done, hunk))
  <1> DEFINE more == diff \o <<hunk>>
             N == Len(diff)
  <1>1. more \in Seq(HunksOf(X)) /\ Len(more) = N + 1 /\ N \in Nat /\ more[N + 1] = hunk
        /\ \A n \in 1 .. N : more[n] = diff[n]
    OBVIOUS
  <1>2. PICK f : Patches(lines, diff, f) /\ f[N] = done
    BY DEF Leads
  <1> HIDE DEF more
  <1>3. PICK g : Patches(lines, more, g)
    BY <1>1, PatchLoop
  <1>4. f[0] = Unpatched /\ \A n \in 1 .. N : f[n] = Patch(lines, f[n - 1], diff[n])
    BY <1>2 DEF Patches
  <1>5. g[0] = Unpatched /\ \A n \in 1 .. Len(more) : g[n] = Patch(lines, g[n - 1], more[n])
    BY <1>3 DEF Patches
  <1> DEFINE S == {n \in 0 .. N : g[n] = f[n]}
  <1> HIDE DEF N
  <1>6. 0 \in S
    BY <1>1, <1>4, <1>5
  <1>7. ASSUME NEW n \in 1 .. N, n - 1 \in S PROVE n \in S
    <2>1. g[n - 1] = f[n - 1] /\ n \in 0 .. N /\ n \in 1 .. Len(more)
      BY <1>1, <1>7
    <2>2. g[n] = f[n]
      BY <1>1, <1>4, <1>5, <2>1
    <2> QED
      BY <2>1, <2>2
  <1>8. g[N] = f[N]
    <2> HIDE DEF S
    <2>1. N \in 0 .. N
      BY <1>1
    <2>2. N \in S
      BY <1>1, <1>6, <1>7, <2>1, Upwards
    <2> QED
      BY <2>2 DEF S
  <1>9. g[N + 1] = Patch(lines, g[N], hunk)
    <2>1. N + 1 \in 1 .. Len(more) /\ N + 1 - 1 = N
      BY <1>1
    <2> QED
      BY <1>1, <1>5, <2>1
  <1>10. g[Len(more)] = Patch(lines, done, hunk)
    BY <1>1, <1>2, <1>8, <1>9
  <1>11. Leads(lines, more, Patch(lines, done, hunk))
    BY <1>3, <1>10, Zenon DEF Leads
  <1> QED
    BY <1>11 DEF more

\* The first a lines are patched to M.
Carries(X, lines, done, a, M) ==
  /\ done \in Progress(X) /\ done.fits
  /\ a \in 0 .. Len(lines) /\ done.read =< a
  /\ done.out \o Cut(lines, done.read + 1, a + 1) = M

\* Lines that nothing changes are carried over.
LEMMA CarriesOn ==
  ASSUME NEW X, NEW lines \in Seq(X), NEW done, NEW a, NEW M, Carries(X, lines, done, a, M),
         NEW b \in a .. Len(lines)
  PROVE  /\ Carries(X, lines, done, b, M \o Cut(lines, a + 1, b + 1))
         /\ M \in Seq(X) /\ Cut(lines, a + 1, b + 1) \in Seq(X)
         /\ Len(Cut(lines, a + 1, b + 1)) = b - a
  <1> DEFINE r == done.read
             out == done.out
             c == Cut(lines, r + 1, a + 1)
             d == Cut(lines, a + 1, b + 1)
             e == Cut(lines, r + 1, b + 1)
  <1>1. /\ r \in Nat /\ out \in Seq(X) /\ done.fits /\ done \in Progress(X)
        /\ a \in 0 .. Len(lines) /\ r =< a /\ out \o c = M
    BY DEF Carries, Progress
  <1>2. /\ r + 1 \in 1 .. Len(lines) + 1 /\ a + 1 \in r + 1 .. Len(lines) + 1
        /\ b + 1 \in a + 1 .. Len(lines) + 1 /\ a + 1 \in 1 .. Len(lines) + 1
        /\ b \in 0 .. Len(lines) /\ r =< b /\ (b + 1) - (a + 1) = b - a
    BY <1>1
  <1>3. c \in Seq(X) /\ d \in Seq(X) /\ Len(d) = b - a
    BY <1>2, PartIsCut
  <1>4. e = c \o d
    BY <1>2, CutsJoin
  <1> HIDE DEF c, d, e
  <1>5. out \in Seq(X)
    BY <1>1
  <1>10. out \o c = M
    BY <1>1 DEF c
  <1> HIDE DEF out
  <1>9. /\ (out \o c) \o d = out \o (c \o d)
        /\ out \o c \in Seq(X)
    BY <1>3, <1>5
  <1>6. out \o e = M \o d
    BY <1>4, <1>9, <1>10
  <1>7. Carries(X, lines, done, b, M \o d)
    BY <1>1, <1>2, <1>6 DEF Carries, e, out
  <1>8. M \in Seq(X)
    BY <1>9, <1>10
  <1> QED
    BY <1>3, <1>7, <1>8 DEF d

\* A hunk that names the lines b + 1 .. r and the place where the new lines go.
LEMMA CarriesHunk ==
  ASSUME NEW X, NEW lines \in Seq(X), NEW done, NEW a, NEW M, Carries(X, lines, done, a, M),
         NEW b \in a .. Len(lines), NEW r \in b .. Len(lines), NEW e \in r .. Len(lines),
         NEW hunk \in HunksOf(X), hunk.removed = Cut(lines, b + 1, r + 1),
         Before(hunk.oldStart, Len(hunk.removed)) = b,
         Before(hunk.newStart, Len(hunk.added)) = Len(M) + (b - a)
  PROVE  Carries(X, lines, Patch(lines, done, hunk), e,
                 M \o Cut(lines, a + 1, b + 1) \o hunk.added \o Cut(lines, r + 1, e + 1))
  <1> DEFINE d == Cut(lines, a + 1, b + 1)
             z == Cut(lines, r + 1, e + 1)
             out == done.out \o Part(lines, done.read + 1, b)
             next == Patch(lines, done, hunk)
             n == Len(lines)
  <1>1. /\ done.read \in Nat /\ done.fits /\ done \in Progress(X)
        /\ a \in 0 .. n /\ done.read =< a /\ n \in Nat
    BY DEF Carries, Progress
  <1>2. /\ Carries(X, lines, done, b, M \o d) /\ M \in Seq(X) /\ d \in Seq(X) /\ Len(d) = b - a
    BY CarriesOn
  <1>3. hunk.removed \in Seq(X) /\ hunk.added \in Seq(X)
    BY DEF HunksOf
  <1>4. out = M \o d
    <2>1. /\ done.read + 1 \in 1 .. Len(lines) + 1 /\ b + 1 \in done.read + 1 .. Len(lines) + 1
          /\ b + 1 - 1 = b
      BY <1>1
    <2> DEFINE i == done.read + 1
               j == b + 1
    <2>2. j - 1 = b /\ i \in 1 .. Len(lines) + 1 /\ j \in i .. Len(lines) + 1
      BY <2>1
    <2>3. Cut(lines, i, j) = Cut(lines, done.read + 1, b + 1)
      OBVIOUS
    <2> HIDE DEF i, j
    <2>4. Part(lines, i, j - 1) = Cut(lines, i, j)
      BY <2>2, PartIsCut
    <2>5. Part(lines, i, b) = Cut(lines, i, j)
      BY <2>2, <2>4
    <2>6. done.out \o Cut(lines, done.read + 1, b + 1) = M \o d
      BY <1>2 DEF Carries
    <2> QED
      BY <2>3, <2>5, <2>6, Zenon DEF i
  <1>5. Len(hunk.removed) = r - b
    <2>1. b + 1 \in 1 .. Len(lines) + 1 /\ r + 1 \in b + 1 .. Len(lines) + 1
          /\ (r + 1) - (b + 1) = r - b
      BY <1>1
    <2> DEFINE i == b + 1
               j == r + 1
    <2> HIDE DEF i, j
    <2>2. Len(Cut(lines, i, j)) = j - i
      BY <2>1, PartIsCut DEF i, j
    <2> QED
      BY <1>1, <2>1, <2>2 DEF i, j
  <1>6. Len(M \o d) = Len(M) + (b - a)
    <2> DEFINE k == Len(d)
               m == Len(M)
               s == M \o d
    <2>1. Len(s) = m + k /\ m \in Nat /\ k = b - a
      BY <1>2
    <2> HIDE DEF k, m
    <2> QED
      BY <2>1 DEF m
  <1>7. next = [fits |-> /\ done.fits /\ done.read =< b
                         /\ b + Len(hunk.removed) =< Len(lines)
                         /\ SubSeq(lines, b + 1, b + Len(hunk.removed)) = hunk.removed
                         /\ Before(hunk.newStart, Len(hunk.added)) = Len(out),
                read |-> b + Len(hunk.removed),
                out  |-> out \o hunk.added]
    <2> DEFINE At(u) == [fits |-> /\ done.fits /\ done.read =< u
                                  /\ u + Len(hunk.removed) =< Len(lines)
                                  /\ SubSeq(lines, u + 1, u + Len(hunk.removed)) = hunk.removed
                                  /\ Before(hunk.newStart, Len(hunk.added))
                                       = Len(done.out \o Part(lines, done.read + 1, u)),
                         read |-> u + Len(hunk.removed),
                         out  |-> done.out \o Part(lines, done.read + 1, u) \o hunk.added]
               upTo == Before(hunk.oldStart, Len(hunk.removed))
    <2>1. next = At(upTo)
      BY Zenon DEF Patch
    <2> HIDE DEF At, upTo, next
    <2>2. upTo = b
      BY DEF upTo
    <2>3. next = At(b)
      BY <2>1, <2>2
    <2> QED
      BY <2>3, Zenon DEF At
  <1>8. /\ b + Len(hunk.removed) = r /\ done.read =< b /\ r =< Len(lines)
        /\ r + 1 - 1 = r
    BY <1>1, <1>5
  <1>9. SubSeq(lines, b + 1, r) = hunk.removed
    <2>1. Cut(lines, b + 1, r + 1) = SubSeq(lines, b + 1, r + 1 - 1)
      BY DEF Cut
    <2> QED
      BY <1>8, <2>1
  <1>10. Before(hunk.newStart, Len(hunk.added)) = Len(out)
    BY <1>4, <1>6
  <1> HIDE DEF out, next
  <1>11. next.fits /\ next.read = r /\ next.out = out \o hunk.added
    BY <1>1, <1>7, <1>8, <1>9, <1>10
  <1>12. next \in Progress(X)
    BY <1>1, PatchKeeps DEF next
  <1>13. e \in 0 .. Len(lines) /\ r =< e
    BY <1>1
  <1>14. next.out \o Cut(lines, next.read + 1, e + 1) = M \o d \o hunk.added \o z
    BY <1>4, <1>11
  <1> QED
    BY <1>11, <1>12, <1>13, <1>14 DEF Carries, next

\* Two sequences begin alike.
Alike(s, t, n) == \A i \in 1 .. n : s[i] = t[i]

\* What two sequences begin with.
LEMMA CommonPrefixIs ==
  ASSUME NEW X, NEW s \in Seq(X), NEW t \in Seq(X), NEW most \in Nat,
         most =< Len(s), most =< Len(t)
  PROVE  LET n == CommonPrefix(s, t, most)
         IN  /\ n \in 0 .. most
             /\ Alike(s, t, n)
             /\ n < most => s[n + 1] # t[n + 1]
  <1> DEFINE S == {n \in 0 .. most : \A i \in 1 .. n : s[i] = t[i]}
             Ok(n) == /\ SubSeq(s, 1, n) = SubSeq(t, 1, n)
                      /\ n < most => s[n + 1] # t[n + 1]
  <1>1. S \in SUBSET (0 .. most) /\ S # {}
    <2>1. 0 \in S
      OBVIOUS
    <2> QED
      BY <2>1
  <1>2. PICK m \in S : \A q \in S : q <= m
    <2> HIDE DEF S
    <2> QED
      BY <1>1, HasLast
  <1>3. ASSUME NEW n \in 0 .. most
        PROVE  /\ SubSeq(s, 1, n) \in Seq(X) /\ SubSeq(t, 1, n) \in Seq(X)
               /\ Len(SubSeq(s, 1, n)) = n /\ Len(SubSeq(t, 1, n)) = n
               /\ \A i \in 1 .. n : SubSeq(s, 1, n)[i] = s[i] /\ SubSeq(t, 1, n)[i] = t[i]
    BY SubSeqProperties
  <1>4. m \in 0 .. most /\ \A i \in 1 .. m : s[i] = t[i]
    OBVIOUS
  <1>5. SubSeq(s, 1, m) = SubSeq(t, 1, m)
    <2> DEFINE u == SubSeq(s, 1, m)
               v == SubSeq(t, 1, m)
    <2>1. u \in Seq(X) /\ v \in Seq(X) /\ Len(u) = m /\ Len(v) = m
          /\ \A i \in 1 .. m : u[i] = s[i] /\ v[i] = t[i]
      BY <1>3, <1>4
    <2> HIDE DEF u, v, S
    <2>2. \A i \in 1 .. m : u[i] = v[i]
      BY <1>4, <2>1
    <2>3. u = v
      BY <2>1, <2>2
    <2> QED
      BY <2>3 DEF u, v
  <1>6. m < most => s[m + 1] # t[m + 1]
    <2> SUFFICES ASSUME m < most, s[m + 1] = t[m + 1] PROVE FALSE
      OBVIOUS
    <2>1. m + 1 \in 0 .. most /\ \A i \in 1 .. m + 1 : i \in 1 .. m \/ i = m + 1
      BY <1>4
    <2>2. \A i \in 1 .. m + 1 : s[i] = t[i]
      BY <1>4, <2>1
    <2>3. m + 1 \in S
      BY <2>1, <2>2
    <2> HIDE DEF S
    <2> QED
      BY <1>2, <1>4, <2>3
  <1> HIDE DEF S
  <1> DEFINE n == CommonPrefix(s, t, most)
  <1>7. n \in 0 .. most /\ Ok(n)
    <2>1. \E k \in 0 .. most : Ok(k)
      BY <1>4, <1>5, <1>6
    <2>2. n = CHOOSE k \in 0 .. most : Ok(k)
      BY DEF CommonPrefix
    <2> HIDE DEF Ok, n
    <2> QED
      BY <2>1, <2>2
  <1> HIDE DEF n
  <1>8. \A i \in 1 .. n : s[i] = t[i]
    <2> DEFINE u == SubSeq(s, 1, n)
               v == SubSeq(t, 1, n)
    <2>1. \A i \in 1 .. n : u[i] = s[i] /\ v[i] = t[i]
      BY <1>3, <1>7
    <2>2. u = v
      BY <1>7
    <2> HIDE DEF u, v
    <2> QED
      BY <2>1, <2>2
  <1> QED
    BY <1>7, <1>8 DEF n, Alike

\* Two sequences are alike for n elements after places i and j.
AlikeAt(s, i, t, j, n) == \A k \in 1 .. n : s[i + k] = t[j + k]

\* Cuts of two sequences that are alike.
LEMMA CutsAlike ==
  ASSUME NEW X, NEW s \in Seq(X), NEW t \in Seq(X), NEW n \in Nat,
         NEW i \in Nat, i + n =< Len(s), NEW j \in Nat, j + n =< Len(t),
         AlikeAt(s, i, t, j, n)
  PROVE  Cut(s, i + 1, i + n + 1) = Cut(t, j + 1, j + n + 1)
  <1> DEFINE a == i + 1
             b == i + n + 1
             c == j + 1
             d == j + n + 1
             u == Cut(s, a, b)
             v == Cut(t, c, d)
  <1>1. /\ a \in 1 .. Len(s) + 1 /\ b \in a .. Len(s) + 1 /\ b - a = n
        /\ c \in 1 .. Len(t) + 1 /\ d \in c .. Len(t) + 1 /\ d - c = n
    OBVIOUS
  <1>6. \A k \in 1 .. n : a + k - 1 = i + k /\ c + k - 1 = j + k
    OBVIOUS
  <1> HIDE DEF a, b, c, d
  <1>7. /\ a \in 1 .. Len(s) + 1 /\ b \in a .. Len(s) + 1
        /\ c \in 1 .. Len(t) + 1 /\ d \in c .. Len(t) + 1
    BY <1>1
  <1>8. /\ u \in Seq(X) /\ Len(u) = b - a
        /\ v \in Seq(X) /\ Len(v) = d - c
    BY <1>7, PartIsCut
  <1>9. \A k \in 1 .. b - a : u[k] = s[a + k - 1]
    BY <1>7, PartIsCut
  <1>10. \A k \in 1 .. d - c : v[k] = t[c + k - 1]
    BY <1>7, PartIsCut
  <1>2. u \in Seq(X) /\ Len(u) = n /\ \A k \in 1 .. n : u[k] = s[a + k - 1]
    BY <1>1, <1>8, <1>9
  <1>3. v \in Seq(X) /\ Len(v) = n /\ \A k \in 1 .. n : v[k] = t[c + k - 1]
    BY <1>1, <1>8, <1>10
  <1> HIDE DEF u, v
  <1>4. \A k \in 1 .. n : u[k] = v[k]
    <2> TAKE k \in 1 .. n
    <2>1. u[k] = s[a + k - 1] /\ v[k] = t[c + k - 1]
      BY <1>1, <1>2, <1>3
    <2>2. a + k - 1 = i + k /\ c + k - 1 = j + k
      BY <1>6
    <2>3. s[i + k] = t[j + k]
      BY DEF AlikeAt
    <2> QED
      BY <2>1, <2>2, <2>3
  <1>5. u = v
    BY <1>2, <1>3, <1>4
  <1> QED
    BY <1>5 DEF u, v, a, b, c, d

\* What two sequences begin and end with.
LEMMA EndsAlike ==
  ASSUME NEW X, NEW s \in Seq(X), NEW t \in Seq(X)
  PROVE  LET p == CommonPrefix(s, t, Shorter(s, t))
             z == CommonPrefix(Reverse(s), Reverse(t), Shorter(s, t) - p)
         IN  /\ p \in Nat /\ z \in Nat /\ p + z =< Len(s) /\ p + z =< Len(t)
             /\ Alike(s, t, p)
             /\ AlikeAt(s, Len(s) - z, t, Len(t) - z, z)
  <1> DEFINE m == Len(s)
             n == Len(t)
             most == Shorter(s, t)
             p == CommonPrefix(s, t, most)
             z == CommonPrefix(Reverse(s), Reverse(t), most - p)
             rs == Reverse(s)
             rt == Reverse(t)
  <1>1. m \in Nat /\ n \in Nat
    OBVIOUS
  <1>2. most \in Nat /\ most =< m /\ most =< n
    <2>1. most = IF m < n THEN m ELSE n
      BY DEF Shorter
    <2> HIDE DEF m, n
    <2> QED
      BY <1>1, <2>1
  <1> HIDE DEF most
  <1>3. p \in 0 .. most /\ \A k \in 1 .. p : s[k] = t[k]
    BY <1>2, CommonPrefixIs DEF Alike
  <1>4. /\ rs \in Seq(X) /\ Len(rs) = m /\ \A k \in 1 .. m : rs[k] = s[m - k + 1]
        /\ rt \in Seq(X) /\ Len(rt) = n /\ \A k \in 1 .. n : rt[k] = t[n - k + 1]
    BY DEF Reverse
  <1> HIDE DEF p, rs, rt
  <1>5. z \in 0 .. most - p /\ \A k \in 1 .. z : rs[k] = rt[k]
    <2> DEFINE l == most - p
    <2>1. l \in Nat /\ l =< m /\ l =< n
      BY <1>1, <1>2, <1>3
    <2>3. rs \in Seq(X) /\ rt \in Seq(X) /\ Len(rs) = m /\ Len(rt) = n
      BY <1>4
    <2> HIDE DEF l, m, n
    <2>4. l =< Len(rs) /\ l =< Len(rt)
      BY <2>1, <2>3
    <2>5. CommonPrefix(rs, rt, l) \in 0 .. l
      BY <2>1, <2>3, <2>4, CommonPrefixIs
    <2>6. Alike(rs, rt, CommonPrefix(rs, rt, l))
      BY <2>1, <2>3, <2>4, CommonPrefixIs
    <2> QED
      BY <2>5, <2>6 DEF l, rs, rt, Alike
  <1> HIDE DEF z, m, n
  <1>6. ASSUME NEW k \in 1 .. z PROVE s[m - z + k] = t[n - z + k]
    <2> DEFINE i == z - k + 1
    <2>1. /\ i \in 1 .. z /\ i \in 1 .. m /\ i \in 1 .. n
          /\ m - i + 1 = m - z + k /\ n - i + 1 = n - z + k
      BY <1>1, <1>2, <1>3, <1>5
    <2> HIDE DEF i
    <2>2. rs[i] = rt[i]
      BY <1>5, <2>1
    <2>3. rs[i] = s[m - i + 1] /\ rt[i] = t[n - i + 1]
      BY <1>4, <2>1
    <2> QED
      BY <2>1, <2>2, <2>3
  <1>7. p \in Nat /\ z \in Nat /\ p + z =< m /\ p + z =< n
    BY <1>1, <1>2, <1>3, <1>5
  <1> QED
    <2>1. Alike(s, t, p) /\ AlikeAt(s, m - z, t, n - z, z)
      BY <1>3, <1>6 DEF Alike, AlikeAt
    <2> QED
      BY <1>7, <2>1 DEF p, z, m, n, most, rs, rt

\* The middle of a sequence.
LEMMA CutWithin ==
  ASSUME NEW X, NEW s \in Seq(X), NEW i \in 0 .. Len(s), NEW j \in i .. Len(s)
  PROVE  /\ SubSeq(s, i + 1, j) = Cut(s, i + 1, j + 1)
         /\ Cut(s, i + 1, j + 1) \in Seq(X) /\ Len(Cut(s, i + 1, j + 1)) = j - i
  <1> DEFINE n == Len(s)
             a == i + 1
             b == j + 1
             u == Cut(s, a, b)
  <1>1. /\ n \in Nat /\ a \in 1 .. n + 1 /\ b \in a .. n + 1 /\ b - 1 = j /\ b - a = j - i
    OBVIOUS
  <1> HIDE DEF a, b
  <1>2. SubSeq(s, a, j) = Cut(s, a, b)
    BY <1>1 DEF Cut
  <1>3. u \in Seq(X) /\ Len(u) = b - a
    BY <1>1, PartIsCut
  <1> QED
    BY <1>1, <1>2, <1>3 DEF a, b

\* A sequence is what it begins with, what is after that, and what it ends with.
LEMMA InThree ==
  ASSUME NEW X, NEW s \in Seq(X), NEW i \in 0 .. Len(s), NEW j \in i .. Len(s)
  PROVE  s = Cut(s, 1, i + 1) \o Cut(s, i + 1, j + 1) \o Cut(s, j + 1, Len(s) + 1)
  <1> DEFINE n == Len(s)
             a == i + 1
             b == j + 1
             z == n + 1
  <1>1. /\ n \in Nat /\ a \in 1 .. n + 1 /\ b \in a .. n + 1 /\ z \in b .. n + 1
        /\ z \in 1 .. n + 1 /\ a \in 1 .. z /\ b \in 1 .. n + 1 /\ b \in 1 .. z
        /\ b - 1 = j /\ z - 1 = n /\ 1 \in 1 .. n + 1 /\ b - a = j - i /\ a \in 1 .. b
    OBVIOUS
  <1> HIDE DEF a, b, z
  <1>2. s = Cut(s, 1, z)
    <2>1. Cut(s, 1, z) = SubSeq(s, 1, n)
      BY <1>1 DEF Cut
    <2>2. SubSeq(s, 1, n) = s
      OBVIOUS
    <2> QED
      BY <2>1, <2>2
  <1>5. Cut(s, 1, z) = Cut(s, 1, b) \o Cut(s, b, z)
    BY <1>1, CutsJoin
  <1>6. Cut(s, 1, b) = Cut(s, 1, a) \o Cut(s, a, b)
    BY <1>1, CutsJoin
  <1>7. s = Cut(s, 1, a) \o Cut(s, a, b) \o Cut(s, b, z)
    BY <1>2, <1>5, <1>6
  <1> QED
    BY <1>7 DEF a, b, z

\* The texts of lines.
Texts == Seq(Bytes)

\* A hunk of the lines removed .. of one place names it.
LEMMA HunkNames ==
  ASSUME NEW x \in Int, NEW c \in Nat
  PROVE  /\ Before(HunkStart(x, c), c) = x - 1
         /\ HunkStart(x, c) \in Int
         /\ x >= 1 => HunkStart(x, c) \in Nat /\ (c = 0 \/ HunkStart(x, c) >= 1)
  BY DEF Before, HunkStart

\* The places of a hunk, in the lines a + 1 .. e that u of the old and v of the new are.
LEMMA HunkPlaces ==
  ASSUME NEW a \in Nat, NEW n \in Nat, NEW e \in Nat, a =< e, e =< n, NEW p \in Nat, NEW z \in Nat,
         NEW u, u = e - a, NEW v \in Nat, p + z =< u, p + z =< v
  PROVE  /\ a + p \in a .. n /\ e - z \in a + p .. n /\ e \in e - z .. n /\ (a + p) - a = p
         /\ a + p \in 0 .. n /\ e - z \in 0 .. n /\ e - z \in Nat /\ a + p \in Nat
         /\ p \in 0 .. u /\ u - z \in p .. u /\ u - z \in Nat
         /\ p \in 0 .. v /\ v - z \in p .. v /\ v - z \in Nat
         /\ (e - z) - (a + p) = u - z - p /\ a + (u - z) = e - z /\ u - z - p \in Nat
         /\ p + (u - z - p) =< u /\ (a + p) + (u - z - p) =< n
         /\ p + (u - z - p) + 1 = u - z + 1 /\ (a + p) + (u - z - p) + 1 = e - z + 1
         /\ \A k \in 1 .. u - z - p : p + k \in 1 .. u /\ a + (p + k) = (a + p) + k
         /\ \A k \in 1 .. p : k \in 1 .. u
         /\ \A k \in 1 .. z : u - z + k \in 1 .. u /\ a + (u - z + k) = (e - z) + k
         /\ v - z + z = v /\ e - z + z = e /\ v - z + z + 1 = v + 1 /\ e - z + z + 1 = e + 1
         /\ a + p =< n
  OBVIOUS

\* The hunk of a region takes a patch over it.
LEMMA HunkCarries ==
  ASSUME NEW lines \in Seq(Texts), NEW diff \in Seq(HunksOf(Texts)), NEW done,
         Leads(lines, diff, done), NEW a, NEW M, Carries(Texts, lines, done, a, M),
         NEW region, region.old \in Seq(Bytes), region.new \in Seq(Bytes), region.first = a + 1,
         NEW e \in a .. Len(lines), TextLines(region.old) = Cut(lines, a + 1, e + 1),
         NEW lineDelta, lineDelta = Len(M) - a
  PROVE  LET more == diff \o Hunk(region, lineDelta)
         IN  /\ more \in Seq(HunksOf(Texts))
             /\ \E next : /\ Leads(lines, more, next)
                          /\ Carries(Texts, lines, next, e, M \o TextLines(region.new))
  <1> DEFINE s == TextLines(region.old)
             t == TextLines(region.new)
             n == Len(lines)
             p == CommonPrefix(s, t, Shorter(s, t))
             z == CommonPrefix(Reverse(s), Reverse(t), Shorter(s, t) - p)
             b == a + p
             r == e - z
             removed == SubSeq(s, p + 1, Len(s) - z)
             added == SubSeq(t, p + 1, Len(t) - z)
             at == region.first + p
             hunk == [oldStart |-> HunkStart(at, Len(removed)), removed |-> removed,
                      newStart |-> HunkStart(at + lineDelta, Len(added)), added |-> added]
             A == Cut(lines, a + 1, b + 1)
             C == Cut(lines, r + 1, e + 1)
  <1>1. Hunk(region, lineDelta) = IF removed = <<>> /\ added = <<>> THEN <<>> ELSE <<hunk>>
    BY DEF Hunk
  <1>2. s \in Seq(Texts) /\ t \in Seq(Texts)
    BY LinesAre DEF Texts
  <1>3. /\ p \in Nat /\ z \in Nat /\ p + z =< Len(s) /\ p + z =< Len(t)
        /\ Alike(s, t, p) /\ AlikeAt(s, Len(s) - z, t, Len(t) - z, z)
    <2> HIDE DEF s, t
    <2> QED
      BY <1>2, EndsAlike
  <1> HIDE DEF p, z
  <1>4. a \in Nat /\ a =< n /\ n \in Nat /\ e \in Nat /\ a =< e /\ e =< n
    <2>1. a \in 0 .. n /\ n \in Nat
      BY DEF Carries
    <2> QED
      BY <2>1
  <1> DEFINE u == Len(s)
             v == Len(t)
             m == u - z - p
             f == u - z
             g == v - z
  <1>5. u = e - a /\ \A k \in 1 .. e - a : s[k] = lines[a + k]
    <2> DEFINE i == a + 1
               j == e + 1
    <2>1. /\ i \in 1 .. n + 1 /\ j \in i .. n + 1 /\ j - i = e - a
          /\ \A k \in 1 .. e - a : i + k - 1 = a + k
      BY <1>4
    <2>2. s = Cut(lines, i, j)
      OBVIOUS
    <2> HIDE DEF i, j, s
    <2>3. Len(Cut(lines, i, j)) = j - i
      BY <2>1, PartIsCut
    <2>4. \A k \in 1 .. j - i : Cut(lines, i, j)[k] = lines[i + k - 1]
      BY <2>1, PartIsCut
    <2> QED
      BY <2>1, <2>2, <2>3, <2>4
  <1>6. v \in Nat
    BY <1>2
  <1>20. \A k \in 1 .. u : s[k] = lines[a + k]
    BY <1>5
  <1>21. u = e - a /\ p \in Nat /\ z \in Nat /\ p + z =< u /\ p + z =< v
    BY <1>3, <1>5
  <1>22. Alike(s, t, p) /\ AlikeAt(s, f, t, g, z)
    BY <1>3
  <1> HIDE DEF s, t, u, v
  <1>7. /\ b \in a .. n /\ r \in b .. n /\ e \in r .. n /\ b - a = p
        /\ b \in 0 .. n /\ r \in 0 .. n /\ r \in Nat /\ b \in Nat
        /\ p \in 0 .. u /\ f \in p .. u /\ f \in Nat
        /\ p \in 0 .. v /\ g \in p .. v /\ g \in Nat
        /\ r - b = m /\ a + f = r /\ m \in Nat
        /\ p + m =< u /\ b + m =< n
        /\ p + m + 1 = f + 1 /\ b + m + 1 = r + 1
        /\ g + z = v /\ r + z = e /\ g + z + 1 = v + 1 /\ r + z + 1 = e + 1
        /\ a + p =< n
    BY <1>4, <1>6, <1>21, HunkPlaces
  <1>23. /\ \A k \in 1 .. m : p + k \in 1 .. u /\ a + (p + k) = b + k
         /\ \A k \in 1 .. p : k \in 1 .. u
         /\ \A k \in 1 .. z : f + k \in 1 .. u /\ a + (f + k) = r + k
    BY <1>4, <1>6, <1>21, HunkPlaces
  <1>24. AlikeAt(s, p, lines, b, m)
    <2> SUFFICES ASSUME NEW k \in 1 .. m PROVE s[p + k] = lines[b + k]
      BY DEF AlikeAt
    <2>1. p + k \in 1 .. u /\ a + (p + k) = b + k
      BY <1>23
    <2>2. s[p + k] = lines[a + (p + k)]
      BY <1>20, <2>1
    <2> QED
      BY <2>1, <2>2
  <1>25. AlikeAt(t, 0, lines, a, p)
    <2> SUFFICES ASSUME NEW k \in 1 .. p PROVE t[0 + k] = lines[a + k]
      BY DEF AlikeAt
    <2>1. k \in 1 .. u /\ 0 + k = k
      BY <1>21, <1>23
    <2>2. s[k] = lines[a + k]
      BY <1>20, <2>1
    <2>3. s[k] = t[k]
      BY <1>22 DEF Alike
    <2> QED
      BY <2>1, <2>2, <2>3
  <1>26. AlikeAt(t, g, lines, r, z)
    <2> SUFFICES ASSUME NEW k \in 1 .. z PROVE t[g + k] = lines[r + k]
      BY DEF AlikeAt
    <2>1. f + k \in 1 .. u /\ a + (f + k) = r + k
      BY <1>23
    <2>2. s[f + k] = lines[a + (f + k)]
      BY <1>20, <2>1
    <2>3. s[f + k] = t[g + k]
      BY <1>22 DEF AlikeAt
    <2> QED
      BY <2>1, <2>2, <2>3
  <1>27. /\ Len(s) = u /\ Len(t) = v /\ Len(lines) = n
         /\ removed = SubSeq(s, p + 1, f) /\ added = SubSeq(t, p + 1, g)
    BY DEF u, v
  <1> HIDE DEF m, f, g, b, r, n, removed, added
  <1>28. p \in 0 .. Len(s) /\ f \in p .. Len(s)
    BY <1>7, <1>27
  <1>29. p \in 0 .. Len(t) /\ g \in p .. Len(t)
    BY <1>7, <1>27
  <1>30. m \in Nat /\ p \in Nat /\ p + m =< Len(s) /\ b \in Nat /\ b + m =< Len(lines)
    BY <1>7, <1>21, <1>27
  <1>8. removed = Cut(lines, b + 1, r + 1)
    <2>1. Cut(s, p + 1, p + m + 1) = Cut(lines, b + 1, b + m + 1)
      BY <1>2, <1>30, <1>24, CutsAlike
    <2>2. SubSeq(s, p + 1, f) = Cut(s, p + 1, f + 1)
      BY <1>2, <1>28, CutWithin
    <2>3. p + m + 1 = f + 1 /\ b + m + 1 = r + 1 /\ removed = SubSeq(s, p + 1, f)
      BY <1>7, <1>27
    <2> QED
      BY <2>1, <2>2, <2>3
  <1>9. /\ added \in Seq(Texts) /\ Len(added) = g - p
        /\ t = Cut(t, 1, p + 1) \o added \o Cut(t, g + 1, v + 1)
    <2>1. t = Cut(t, 1, p + 1) \o Cut(t, p + 1, g + 1) \o Cut(t, g + 1, Len(t) + 1)
      BY <1>2, <1>29, InThree
    <2>2. SubSeq(t, p + 1, g) = Cut(t, p + 1, g + 1)
      BY <1>2, <1>29, CutWithin
    <2>3. Cut(t, p + 1, g + 1) \in Seq(Texts) /\ Len(Cut(t, p + 1, g + 1)) = g - p
      BY <1>2, <1>29, CutWithin
    <2>4. Len(t) = v /\ added = SubSeq(t, p + 1, g)
      BY <1>27
    <2> QED
      BY <2>1, <2>2, <2>3, <2>4
  <1>10. Cut(t, 1, p + 1) = A
    <2> DEFINE o == 0
    <2>1. o + 1 = 1 /\ o + p + 1 = p + 1
      BY <1>21
    <2>3. /\ o \in Nat /\ p \in Nat /\ o + p =< Len(t) /\ a \in Nat /\ a + p =< Len(lines)
      <3>1. p =< v /\ a + p =< n
        BY <1>7, <1>21
      <3> QED
        BY <1>4, <1>21, <1>27, <3>1
    <2>4. AlikeAt(t, o, lines, a, p)
      BY <1>25
    <2> HIDE DEF o
    <2>2. Cut(t, o + 1, o + p + 1) = Cut(lines, a + 1, a + p + 1)
      BY <1>2, <2>3, <2>4, CutsAlike
    <2> QED
      BY <2>1, <2>2 DEF b
  <1>11. Cut(t, g + 1, v + 1) = C
    <2>1. /\ g \in Nat /\ z \in Nat /\ g + z =< Len(t) /\ r \in Nat /\ r + z =< Len(lines)
      BY <1>4, <1>7, <1>21, <1>27
    <2>2. Cut(t, g + 1, g + z + 1) = Cut(lines, r + 1, r + z + 1)
      BY <1>2, <1>26, <2>1, CutsAlike
    <2>3. g + z + 1 = v + 1 /\ r + z + 1 = e + 1
      BY <1>7
    <2> QED
      BY <2>2, <2>3
  <1>12. t = A \o added \o C
    BY <1>9, <1>10, <1>11
  <1> HIDE DEF A, C
  <1>13. A \in Seq(Texts) /\ M \in Seq(Texts)
    BY <1>7, CarriesOn DEF A
  <1>14. C \in Seq(Texts)
    <2>1. r \in 0 .. Len(lines) /\ e \in r .. Len(lines)
      BY <1>7, <1>27
    <2> QED
      BY <2>1, CutWithin DEF C
  <1>15. M \o t = M \o A \o added \o C
    <2>1. Regroups(M, A, added, C)
      BY <1>9, <1>13, <1>14, Regroup
    <2>2. ((M \o A) \o added) \o C = M \o ((A \o added) \o C)
      BY <2>1 DEF Regroups
    <2> QED
      BY <1>12, <2>2
  <1>16. Len(removed) = r - b /\ removed \in Seq(Texts)
    <2>1. b \in 0 .. Len(lines) /\ r \in b .. Len(lines)
      BY <1>7, <1>27
    <2>2. Cut(lines, b + 1, r + 1) \in Seq(Texts) /\ Len(Cut(lines, b + 1, r + 1)) = r - b
      BY <2>1, CutWithin
    <2> QED
      BY <1>8, <2>2
  <1>31. b \in a .. Len(lines) /\ r \in b .. Len(lines) /\ e \in r .. Len(lines)
    BY <1>7, <1>27
  <1> DEFINE more == diff \o Hunk(region, lineDelta)
             Goal == /\ more \in Seq(HunksOf(Texts))
                     /\ \E next : Leads(lines, more, next) /\ Carries(Texts, lines, next, e, M \o t)
  <1> SUFFICES Goal
    BY DEF t
  <1>17. CASE removed = <<>> /\ added = <<>>
    <2>1. more = diff
      BY <1>1, <1>17
    <2>2. b = r
      BY <1>4, <1>7, <1>16, <1>17
    <2>3. Carries(Texts, lines, done, r, M \o A)
      BY <1>31, <2>2, CarriesOn DEF A
    <2>4. Carries(Texts, lines, done, e, (M \o A) \o C)
      <3> DEFINE w == M \o A
      <3> HIDE DEF w
      <3>1. Carries(Texts, lines, done, e, w \o Cut(lines, r + 1, e + 1))
        BY <1>31, <2>3, CarriesOn DEF w
      <3> QED
        BY <3>1 DEF w, C
    <2>5. (M \o A) \o added = M \o A
      <3> DEFINE w == M \o A
      <3>1. w \in Seq(Texts)
        BY <1>13
      <3> HIDE DEF w
      <3>2. w \o <<>> = w
        BY <3>1
      <3> QED
        BY <1>17, <3>2 DEF w
    <2>6. M \o t = (M \o A) \o C
      BY <1>15, <2>5
    <2> QED
      BY <2>1, <2>4, <2>6
  <1>18. CASE ~(removed = <<>> /\ added = <<>>)
    <2> DEFINE c == Len(removed)
               d == Len(added)
               x == at
               y == at + lineDelta
    <2>1. more = diff \o <<hunk>>
      BY <1>1, <1>18
    <2>2. /\ x \in Int /\ x >= 1 /\ x - 1 = b /\ b \in Nat
          /\ y \in Int /\ y - 1 = Len(M) + (b - a)
      <3>1. Len(M) \in Nat
        BY <1>13
      <3> QED
        BY <1>3, <1>4, <3>1 DEF b
    <2>3. c \in Nat /\ d \in Nat
      BY <1>9, <1>16
    <2>4. /\ Before(HunkStart(x, c), c) = b /\ HunkStart(x, c) \in Nat
          /\ (c = 0 \/ HunkStart(x, c) >= 1)
      <3> HIDE DEF x, c
      <3> QED
        BY <2>2, <2>3, HunkNames
    <2>5. Before(HunkStart(y, d), d) = Len(M) + (b - a) /\ HunkStart(y, d) \in Int
      <3> HIDE DEF y, d
      <3> QED
        BY <2>2, <2>3, HunkNames
    <2>6. hunk \in HunksOf(Texts)
      <3>1. hunk \in [oldStart : Nat, removed : Seq(Texts), newStart : Int, added : Seq(Texts)]
        <4> HIDE DEF x, y, c, d
        <4> QED
          BY <1>9, <1>16, <2>4, <2>5 DEF x, y, c, d
      <3>2. hunk.removed = removed /\ hunk.oldStart = HunkStart(x, c)
        OBVIOUS
      <3>3. Len(hunk.removed) = 0 \/ hunk.oldStart >= 1
        BY <2>4, <3>2
      <3> HIDE DEF hunk
      <3> QED
        BY <3>1, <3>3 DEF HunksOf
    <2>7. /\ hunk.removed = removed /\ hunk.added = added
          /\ hunk.oldStart = HunkStart(x, c) /\ hunk.newStart = HunkStart(y, d)
      OBVIOUS
    <2> HIDE DEF hunk
    <2>8. /\ hunk.removed = Cut(lines, b + 1, r + 1)
          /\ Before(hunk.oldStart, Len(hunk.removed)) = b
          /\ Before(hunk.newStart, Len(hunk.added)) = Len(M) + (b - a)
      BY <1>8, <2>4, <2>5, <2>7
    <2>9. Carries(Texts, lines, Patch(lines, done, hunk), e, M \o A \o hunk.added \o C)
      BY <1>31, <2>6, <2>8, CarriesHunk DEF A, C
    <2>10. Carries(Texts, lines, Patch(lines, done, hunk), e, M \o t)
      BY <1>15, <2>7, <2>9
    <2>11. Leads(lines, diff \o <<hunk>>, Patch(lines, done, hunk))
      BY <2>6, PatchMore
    <2>12. diff \o <<hunk>> \in Seq(HunksOf(Texts))
      BY <2>6
    <2> QED
      BY <2>1, <2>10, <2>11, <2>12
  <1> QED
    BY <1>17, <1>18

\* An empty text has no lines.
LEMMA LinesOfNone == TextLines(<<>>) = <<>>
  <1> DEFINE s == <<>>
             st == LineStarts(s)
  <1>1. s \in Seq(Bytes) /\ Len(s) = 0
    OBVIOUS
  <1> HIDE DEF s
  <1>2. StartsOf(s, 0, st)
    BY <1>1, LineStartsAre
  <1>3. Len(st) \in Nat /\ Len(st) >= 1
    BY <1>2 DEF StartsOf
  <1>4. Len(st) = 1
    <2> SUFFICES ASSUME Len(st) >= 2 PROVE FALSE
      BY <1>3
    <2>1. 2 \in 2 .. Len(st) /\ 2 \in 1 .. Len(st)
      BY <1>3
    <2>2. st[2] =< 0 + 1 /\ st[2] >= 2 /\ st \in Seq(Nat)
      BY <1>2, <2>1 DEF StartsOf
    <2> HIDE DEF st
    <2>3. st[2] \in Nat
      BY <2>1, <2>2
    <2> QED
      BY <2>2, <2>3
  <1>5. Closed(s)
    BY DEF Closed, s
  <1>6. TextLines(s) \in Seq(Seq(Bytes)) /\ Len(TextLines(s)) = 0
    <2>1. TextLines(s) \in Seq(Seq(Bytes))
      BY <1>1, LinesAre
    <2>2. Len(TextLines(s)) = Len(st) - (IF Closed(s) THEN 1 ELSE 0)
      BY <1>1, LinesAre
    <2> DEFINE m == Len(TextLines(s))
               k == Len(st)
    <2>3. m = k - (IF Closed(s) THEN 1 ELSE 0) /\ k = 1
      BY <1>4, <2>2
    <2> HIDE DEF m, k
    <2>4. m = 0
      BY <1>5, <2>3
    <2> QED
      BY <2>1, <2>4 DEF m
  <1> DEFINE t == TextLines(s)
  <1>7. t \in Seq(Seq(Bytes)) /\ Len(t) = 0
    BY <1>6
  <1> HIDE DEF t
  <1>8. t = <<>>
    BY <1>7
  <1> QED
    BY <1>8 DEF t, s

\* What is between a beginning and an end of a sequence.
LEMMA CutBetween ==
  ASSUME NEW X, NEW P \in Seq(X), NEW Q \in Seq(X), NEW R \in Seq(X)
  PROVE  LET s == (P \o Q) \o R
         IN  /\ Len(P) \in 0 .. Len(s) /\ Len(P) + Len(Q) \in Len(P) .. Len(s)
             /\ s \in Seq(X)
             /\ Cut(s, Len(P) + 1, Len(P) + Len(Q) + 1) = Q
  <1> DEFINE s == (P \o Q) \o R
             a == Len(P)
             n == Len(Q)
             m == Len(R)
             o == 0
  <1>1. /\ a \in Nat /\ n \in Nat /\ m \in Nat /\ s \in Seq(X) /\ Len(s) = a + n + m
    OBVIOUS
  <1>2. \A k \in 1 .. n : s[a + k] = Q[k]
    OBVIOUS
  <1> HIDE DEF s
  <1>3. AlikeAt(s, a, Q, o, n)
    BY <1>2 DEF AlikeAt
  <1>4. a + n =< Len(s) /\ o \in Nat /\ o + n =< Len(Q) /\ o + 1 = 1 /\ o + n + 1 = n + 1
    BY <1>1
  <1>5. a \in 0 .. Len(s) /\ a + n \in a .. Len(s)
    BY <1>1
  <1> HIDE DEF o
  <1>6. Cut(s, a + 1, a + n + 1) = Cut(Q, o + 1, o + n + 1)
    <2>1. n \in Nat /\ a \in Nat /\ a + n =< Len(s) /\ o \in Nat /\ o + n =< Len(Q) /\ s \in Seq(X)
      BY <1>1, <1>4
    <2> HIDE DEF a, n
    <2> QED
      BY <1>3, <2>1, CutsAlike
  <1>7. Cut(Q, 1, n + 1) = Q
    <2> DEFINE j == n + 1
    <2>1. j - 1 = n
      BY <1>1
    <2>2. Cut(Q, 1, j) = SubSeq(Q, 1, j - 1)
      BY DEF Cut
    <2>3. SubSeq(Q, 1, n) = Q
      OBVIOUS
    <2> QED
      BY <2>1, <2>2, <2>3
  <1> QED
    BY <1>1, <1>4, <1>5, <1>6, <1>7 DEF s

\* The lines of a text between two places that are the ends of lines.
LEMMA LinesBetween ==
  ASSUME NEW s \in Seq(Bytes), NEW c \in 1 .. Len(s) + 1, NEW d \in c .. Len(s) + 1,
         Closed(Cut(s, 1, c)), Closed(Cut(s, 1, d)) \/ d = Len(s) + 1
  PROVE  LET lines == TextLines(s)
             a == Len(TextLines(Cut(s, 1, c)))
             e == Len(TextLines(Cut(s, 1, d)))
         IN  /\ lines \in Seq(Texts)
             /\ a \in 0 .. Len(lines) /\ e \in a .. Len(lines)
             /\ e - a = Len(TextLines(Cut(s, c, d)))
             /\ TextLines(Cut(s, c, d)) = Cut(lines, a + 1, e + 1)
  <1> DEFINE lines == TextLines(s)
             n == Len(s)
             z == n + 1
             P == TextLines(Cut(s, 1, c))
             Q == TextLines(Cut(s, c, d))
             D == TextLines(Cut(s, 1, d))
             R == TextLines(Cut(s, d, z))
  <1>1. /\ n \in Nat /\ 1 \in 1 .. n + 1 /\ c \in 1 .. n + 1 /\ d \in 1 .. n + 1 /\ z \in d .. n + 1
        /\ d \in c .. n + 1 /\ z \in 1 .. n + 1 /\ z - 1 = n
    OBVIOUS
  <1> HIDE DEF z
  <1>2. /\ Cut(s, 1, c) \in Seq(Bytes) /\ Cut(s, c, d) \in Seq(Bytes) /\ Cut(s, 1, d) \in Seq(Bytes)
        /\ Cut(s, d, z) \in Seq(Bytes)
    BY <1>1, PartIsCut
  <1>3. Cut(s, 1, d) = Cut(s, 1, c) \o Cut(s, c, d)
    BY <1>1, CutsJoin
  <1>4. D = P \o Q
    <2>1. TextLines(Cut(s, 1, c) \o Cut(s, c, d)) = P \o Q
      BY <1>2, LinesJoin, Zenon
    <2> QED
      BY <1>3, <2>1
  <1>5. s = Cut(s, 1, d) \o Cut(s, d, z) /\ s = Cut(s, 1, z)
    <2>1. Cut(s, 1, z) = Cut(s, 1, d) \o Cut(s, d, z)
      BY <1>1, CutsJoin
    <2>2. Cut(s, 1, z) = SubSeq(s, 1, n)
      BY <1>1 DEF Cut
    <2>3. SubSeq(s, 1, n) = s
      OBVIOUS
    <2> QED
      BY <2>1, <2>2, <2>3
  <1>6. /\ P \in Seq(Texts) /\ Q \in Seq(Texts) /\ R \in Seq(Texts) /\ D \in Seq(Texts)
    BY <1>2, LinesAre DEF Texts
  <1>7. lines = D \o R
    <2>1. CASE Closed(Cut(s, 1, d))
      <3>1. TextLines(Cut(s, 1, d) \o Cut(s, d, z)) = D \o R
        BY <1>2, <2>1, LinesJoin
      <3> QED
        BY <1>5, <3>1
    <2>2. CASE d = n + 1
      <3>1. d = z
        BY <2>2 DEF z
      <3>2. R = <<>>
        <4>1. Cut(s, d, d) = <<>>
          <5> DEFINE w == Cut(s, d, d)
          <5>1. w \in Seq(Bytes) /\ Len(w) = d - d
            <6>1. d \in 1 .. Len(s) + 1 /\ d \in d .. Len(s) + 1
              BY <1>1
            <6> QED
              BY <6>1, PartIsCut
          <5> HIDE DEF w
          <5>2. w = <<>>
            BY <1>1, <5>1
          <5> QED
            BY <5>2 DEF w
        <4> QED
          BY <3>1, <4>1, LinesOfNone
      <3>3. lines = D
        BY <1>5, <3>1
      <3>4. D \o <<>> = D
        <4> HIDE DEF D
        <4> QED
          BY <1>6
      <3> QED
        BY <3>2, <3>3, <3>4
    <2> QED
      BY <2>1, <2>2
  <1> HIDE DEF P, Q, R, D, lines
  <1>8. lines = (P \o Q) \o R
    BY <1>4, <1>7
  <1>9. /\ Len(P) \in 0 .. Len(lines) /\ Len(P) + Len(Q) \in Len(P) .. Len(lines)
        /\ lines \in Seq(Texts)
        /\ Cut(lines, Len(P) + 1, Len(P) + Len(Q) + 1) = Q
    BY <1>6, <1>8, CutBetween
  <1>10. Len(D) = Len(P) + Len(Q) /\ Len(D) - Len(P) = Len(Q)
    <2> DEFINE a == Len(P)
               b == Len(Q)
    <2>1. a \in Nat /\ b \in Nat /\ Len(D) = a + b
      BY <1>4, <1>6
    <2> HIDE DEF a, b
    <2>2. Len(D) = a + b /\ Len(D) - a = b
      BY <2>1
    <2> QED
      BY <2>2 DEF a, b
  <1>11. /\ Len(D) \in Len(P) .. Len(lines)
         /\ Q = Cut(lines, Len(P) + 1, Len(D) + 1)
    BY <1>9, <1>10
  <1> QED
    BY <1>9, <1>10, <1>11 DEF P, Q, R, D, lines

-----------------------------------------------------------------------------
(***************************************************************************)
(* The loop of BuildDiff.  What is built patches the lines up to a place,  *)
(* and no edit that is left starts before it.                              *)
(***************************************************************************)
\* Where a diff is: the edits before one are done, up to a place where a line ends.
Caught(source, resolved, built, c, done) ==
  LET k == built.from
      st == LineStarts(source)
      old == Cut(source, 1, c)
      new == ApplyWithin(source, resolved, 1, k, 1, c)
  IN  /\ k \in 1 .. Len(resolved) + 1
      /\ \A i \in 1 .. k - 1 : resolved[i].finish =< c
      /\ k =< Len(resolved) => c =< st[EditFirstLine(st, resolved[k])]
      /\ \/ Closed(old) /\ Closed(new)
         \/ c = Len(source) + 1 /\ k = Len(resolved) + 1
      /\ built.diff \in Seq(HunksOf(Texts))
      /\ Leads(TextLines(source), built.diff, done)
      /\ Carries(Texts, TextLines(source), done, Len(TextLines(old)), TextLines(new))
      /\ built.lineDelta = Len(TextLines(new)) - Len(TextLines(old))

\* The lines up to a later place where a line ends are alike in both texts.
LEMMA CatchUp ==
  ASSUME NEW source \in Seq(Bytes), NEW resolved, Fits(source, resolved),
         NEW k \in 1 .. Len(resolved) + 1, NEW c \in 1 .. Len(source) + 1,
         NEW d \in c .. Len(source) + 1, NEW done,
         \A i \in 1 .. k - 1 : resolved[i].finish =< c,
         Closed(Cut(source, 1, c)), Closed(ApplyWithin(source, resolved, 1, k, 1, c)),
         Closed(Cut(source, 1, d)) \/ d = Len(source) + 1,
         Carries(Texts, TextLines(source), done, Len(TextLines(Cut(source, 1, c))),
                 TextLines(ApplyWithin(source, resolved, 1, k, 1, c)))
  PROVE  LET new == ApplyWithin(source, resolved, 1, k, 1, c)
             then == ApplyWithin(source, resolved, 1, k, 1, d)
         IN  /\ then = new \o Cut(source, c, d)
             /\ new \in Seq(Bytes) /\ then \in Seq(Bytes) /\ Cut(source, c, d) \in Seq(Bytes)
             /\ Carries(Texts, TextLines(source), done, Len(TextLines(Cut(source, 1, d))),
                        TextLines(then))
             /\ Len(TextLines(then)) - Len(TextLines(Cut(source, 1, d)))
                  = Len(TextLines(new)) - Len(TextLines(Cut(source, 1, c)))
  <1> DEFINE new == ApplyWithin(source, resolved, 1, k, 1, c)
             then == ApplyWithin(source, resolved, 1, k, 1, d)
             lines == TextLines(source)
             a == Len(TextLines(Cut(source, 1, c)))
             e == Len(TextLines(Cut(source, 1, d)))
             z == Cut(source, c, d)
  <1>1. /\ resolved \in Seq(EditsOf(source)) /\ Len(resolved) \in Nat /\ Len(source) \in Nat
        /\ 1 \in 1 .. Len(source) + 1 /\ 1 \in 1 .. Len(resolved) + 1
        /\ c \in 1 .. Len(source) + 1 /\ d \in 1 .. Len(source) + 1 /\ c \in Nat /\ d \in Nat
    BY DEF Fits
  <1>2. new \in Seq(Bytes) /\ then \in Seq(Bytes)
    BY <1>1, ApplyType
  <1>3. z \in Seq(Bytes)
    BY PartIsCut
  <1>4. then = new \o z
    <2>1. c \in 1 .. Len(source) + 1 /\ d \in c .. Len(source) + 1 /\ k \in 1 .. Len(resolved) + 1
      OBVIOUS
    <2> QED
      BY <1>1, <2>1, ApplyMore
  <1>5. /\ lines \in Seq(Texts) /\ a \in 0 .. Len(lines) /\ e \in a .. Len(lines)
        /\ e - a = Len(TextLines(z)) /\ TextLines(z) = Cut(lines, a + 1, e + 1)
    BY LinesBetween
  <1> HIDE DEF new, then, a, e, z, lines
  <1>6. TextLines(then) = TextLines(new) \o TextLines(z)
    <2>1. Closed(new)
      BY DEF new
    <2> QED
      BY <1>2, <1>3, <1>4, <2>1, LinesJoin
  <1>7. Carries(Texts, lines, done, a, TextLines(new))
    BY DEF lines, a, new
  <1>8. Carries(Texts, lines, done, e, TextLines(new) \o Cut(lines, a + 1, e + 1))
    BY <1>5, <1>7, CarriesOn
  <1>9. Carries(Texts, lines, done, e, TextLines(then))
    BY <1>5, <1>6, <1>8
  <1>10. Len(TextLines(then)) - e = Len(TextLines(new)) - a
    <2> DEFINE u == TextLines(new)
               v == TextLines(z)
               w == TextLines(then)
    <2>1. u \in Seq(Texts) /\ v \in Seq(Texts) /\ w = u \o v
      BY <1>2, <1>3, <1>6, LinesAre DEF Texts
    <2>2. e - a = Len(v) /\ a \in Int /\ e \in Int
      BY <1>5
    <2> HIDE DEF u, v, w
    <2> DEFINE m == Len(u)
               n == Len(v)
               l == Len(w)
    <2>3. l = m + n /\ m \in Nat /\ n \in Nat
      BY <2>1
    <2>4. e - a = n
      BY <2>2
    <2> HIDE DEF m, n, l
    <2>5. l - e = m - a
      BY <2>2, <2>3, <2>4
    <2> QED
      BY <2>5 DEF m, l, u, w
  <1> QED
    BY <1>2, <1>3, <1>4, <1>9, <1>10 DEF new, then, a, e, z, lines

\* The text before a line ends in a newline, from wherever it begins.
LEMMA ClosedBefore ==
  ASSUME NEW s \in Seq(Bytes), NEW l \in 1 .. Len(LineStarts(s)), NEW c \in 1 .. LineStarts(s)[l]
  PROVE  /\ Closed(Cut(s, c, LineStarts(s)[l]))
         /\ LineStarts(s)[l] \in 1 .. Len(s) + 1
  <1> DEFINE st == LineStarts(s)
             p == st[l]
  <1>1. /\ Len(st) \in Nat /\ st[1] = 1
        /\ \A k \in 2 .. Len(st) : st[k] >= 2 /\ s[st[k] - 1] = LF
    BY LineStartsAre DEF StartsOf
  <1>2. p \in 1 .. Len(s) + 1
    BY LineIsCut
  <1>3. l = 1 \/ l \in 2 .. Len(st)
    OBVIOUS
  <1>4. c = p \/ s[p - 1] = LF
    <2>1. CASE l = 1
      <3>1. p = 1
        BY <1>1, <2>1
      <3> HIDE DEF p
      <3>2. c \in 1 .. p
        BY DEF p
      <3> QED
        BY <3>1, <3>2
    <2>2. CASE l \in 2 .. Len(st)
      BY <1>1, <2>2
    <2> QED
      BY <1>3, <2>1, <2>2
  <1>5. c \in 1 .. p
    OBVIOUS
  <1> HIDE DEF p, st
  <1>6. c \in 1 .. Len(s) + 1 /\ p \in c .. Len(s) + 1
    BY <1>2, <1>5
  <1>7. Closed(Cut(s, c, p))
    BY <1>4, <1>6, CutIsClosed
  <1> QED
    BY <1>2, <1>7 DEF p, st

\* One region more of a diff.
NextBuilt(source, resolved, built) ==
  LET region == Group(source, LineStarts(source), resolved, built.from)
  IN  [from      |-> region.end,
       lineDelta |-> built.lineDelta + Len(TextLines(region.new)) - Len(TextLines(region.old)),
       diff      |-> built.diff \o Hunk(region, built.lineDelta)]

\* A group more is built: the hunk of its region patches the lines before it and its own.
LEMMA BuildStep ==
  ASSUME NEW source \in Seq(Bytes), NEW resolved, Fits(source, resolved),
         EndedBefore(source, resolved), NEW built, NEW c \in 1 .. Len(source) + 1, NEW done,
         Caught(source, resolved, built, c, done), built.from =< Len(resolved)
  PROVE  LET next == NextBuilt(source, resolved, built)
         IN  /\ \E d \in 1 .. Len(source) + 1 : \E after : Caught(source, resolved, next, d, after)
             /\ next.from \in built.from + 1 .. Len(resolved) + 1
  <1> DEFINE st == LineStarts(source)
             N == Len(resolved)
             n == Len(source)
             k == built.from
             region == Group(source, st, resolved, k)
             p == st[region.first]
             lines == TextLines(source)
             next == NextBuilt(source, resolved, built)
             new == ApplyWithin(source, resolved, 1, k, 1, c)
             then == ApplyWithin(source, resolved, 1, k, 1, p)
             a == Len(TextLines(Cut(source, 1, p)))
             M == TextLines(then)
  <1>1. /\ resolved \in Seq(EditsOf(source)) /\ N \in Nat /\ n \in Nat /\ 1 \in 1 .. n + 1
        /\ 1 \in 1 .. N + 1
    BY DEF Fits
  <1>2. /\ k \in 1 .. N + 1
        /\ \A i \in 1 .. k - 1 : resolved[i].finish =< c
        /\ c =< st[EditFirstLine(st, resolved[k])]
        /\ Closed(Cut(source, 1, c)) /\ Closed(new)
        /\ built.diff \in Seq(HunksOf(Texts))
        /\ Leads(lines, built.diff, done)
        /\ Carries(Texts, lines, done, Len(TextLines(Cut(source, 1, c))), TextLines(new))
        /\ built.lineDelta = Len(TextLines(new)) - Len(TextLines(Cut(source, 1, c)))
    <2>1. k # N + 1
      BY <1>1
    <2> QED
      BY <2>1 DEF Caught
  <1>3. k \in 1 .. N /\ k \in Nat /\ k \in 1 .. N + 1
    BY <1>1, <1>2
  <1>30. \A i \in 1 .. k - 1 : resolved[i].finish =< st[EditFirstLine(st, resolved[k])]
    <2> DEFINE at == st[EditFirstLine(st, resolved[k])]
    <2>1. at \in 1 .. n + 1
      BY <1>3, EditsInTurn
    <2> TAKE i \in 1 .. k - 1
    <2>2. i \in 1 .. N
      BY <1>1, <1>3
    <2>3. resolved[i].finish \in 1 .. n + 1
      BY <1>1, <2>2, EditIs
    <2>4. c =< at /\ resolved[i].finish =< c
      BY <1>2
    <2> HIDE DEF at
    <2> QED
      BY <1>1, <2>1, <2>3, <2>4 DEF at
  <1>4. PICK q \in Nat : RegionFrom(source, resolved, k, region, q)
    BY <1>3, <1>30, RegionRight
  <1>5. /\ region.end \in k + 1 .. N + 1
        /\ region.first = EditFirstLine(st, resolved[k])
        /\ region.first \in 1 .. Len(st)
        /\ q \in p .. n + 1
        /\ region.old = Cut(source, p, q)
        /\ region.new = ApplyWithin(source, resolved, k, region.end, p, q)
        /\ \A i \in k .. region.end - 1 : p =< resolved[i].start /\ resolved[i].finish =< q
        /\ region.end =< N => q =< st[EditFirstLine(st, resolved[region.end])]
        /\ \/ Closed(region.old) /\ Closed(region.new)
           \/ q = n + 1 /\ region.end = N + 1
    BY <1>4, Zenon DEF RegionFrom
  <1>6. p \in 1 .. n + 1 /\ c \in 1 .. p
    <2>1. p \in 1 .. n + 1
      BY <1>5, LineIsCut
    <2>2. c =< p
      BY <1>2, <1>5
    <2> HIDE DEF p
    <2> QED
      BY <2>1, <2>2
  <1>7. Closed(Cut(source, 1, p)) /\ a = region.first - 1 /\ Closed(Cut(source, c, p))
    <2>1. Closed(Cut(source, 1, p)) /\ a = region.first - 1
      BY <1>5, LinesBefore
    <2>2. Closed(Cut(source, c, p))
      BY <1>5, <1>6, ClosedBefore
    <2> QED
      BY <2>1, <2>2
  <1>8. /\ then = new \o Cut(source, c, p)
        /\ new \in Seq(Bytes) /\ then \in Seq(Bytes) /\ Cut(source, c, p) \in Seq(Bytes)
        /\ Carries(Texts, lines, done, a, M)
        /\ Len(M) - a = built.lineDelta
    <2> HIDE DEF p
    <2>1. p \in c .. n + 1
      BY <1>6
    <2>2. /\ then = new \o Cut(source, c, p)
          /\ new \in Seq(Bytes) /\ then \in Seq(Bytes) /\ Cut(source, c, p) \in Seq(Bytes)
      BY <1>2, <1>7, <2>1, CatchUp
    <2>3. Carries(Texts, lines, done, a, M)
      BY <1>2, <1>7, <2>1, CatchUp
    <2>4. Len(M) - a = Len(TextLines(new)) - Len(TextLines(Cut(source, 1, c)))
      BY <1>2, <1>7, <2>1, CatchUp
    <2> QED
      BY <1>2, <2>2, <2>3, <2>4
  <1>9. Closed(then)
    BY <1>2, <1>7, <1>8, ClosedJoins
  <1> HIDE DEF p, st, region
  <1>10. region.old \in Seq(Bytes) /\ region.new \in Seq(Bytes)
    <2>1. Cut(source, p, q) \in Seq(Bytes)
      BY <1>5, <1>6, PartIsCut
    <2>2. region.end \in k .. N + 1 /\ q \in Nat
      BY <1>1, <1>3, <1>5
    <2>3. ApplyWithin(source, resolved, k, region.end, p, q) \in Seq(Bytes)
      BY <1>1, <1>3, <1>6, <2>2, ApplyType
    <2> QED
      BY <1>5, <2>1, <2>3
  <1> DEFINE old2 == Cut(source, 1, q)
             new2 == ApplyWithin(source, resolved, 1, region.end, 1, q)
             e == Len(TextLines(old2))
  <1>11. q \in 1 .. n + 1 /\ p \in 1 .. q
    BY <1>5, <1>6
  <1>12. old2 = Cut(source, 1, p) \o region.old /\ Cut(source, 1, p) \in Seq(Bytes)
    <2>1. Cut(source, 1, q) = Cut(source, 1, p) \o Cut(source, p, q)
      BY <1>1, <1>5, <1>6, CutsJoin
    <2>2. Cut(source, 1, p) \in Seq(Bytes)
      BY <1>1, <1>6, PartIsCut
    <2> QED
      BY <1>5, <2>1, <2>2
  <1>13. \/ Closed(old2) /\ Closed(region.new)
         \/ q = n + 1 /\ region.end = N + 1
    <2>1. CASE Closed(region.old) /\ Closed(region.new)
      <3> DEFINE u == Cut(source, 1, p)
      <3>2. u \in Seq(Bytes) /\ Closed(u) /\ region.old \in Seq(Bytes) /\ Closed(region.old)
        BY <1>7, <1>10, <1>12, <2>1
      <3> HIDE DEF u
      <3>3. Closed(u \o region.old)
        BY <3>2, ClosedJoins
      <3>1. Closed(Cut(source, 1, p) \o region.old)
        BY <3>3 DEF u
      <3> QED
        BY <1>12, <2>1, <3>1
    <2> QED
      BY <1>5, <2>1
  <1>14. /\ lines \in Seq(Texts) /\ a \in 0 .. Len(lines) /\ e \in a .. Len(lines)
         /\ e - a = Len(TextLines(region.old))
         /\ TextLines(region.old) = Cut(lines, a + 1, e + 1)
    <2>1. p \in 1 .. n + 1 /\ q \in p .. n + 1
      BY <1>5, <1>6
    <2>2. Closed(Cut(source, 1, p)) /\ (Closed(Cut(source, 1, q)) \/ q = n + 1)
      BY <1>7, <1>13
    <2>3. TextLines(region.old) = TextLines(Cut(source, p, q))
      BY <1>5
    <2> QED
      BY <2>1, <2>2, <2>3, LinesBetween
  <1> DEFINE more == built.diff \o Hunk(region, built.lineDelta)
  <1>15. /\ more \in Seq(HunksOf(Texts))
         /\ \E after : /\ Leads(lines, more, after)
                       /\ Carries(Texts, lines, after, e, M \o TextLines(region.new))
    <2>1. region.first = a + 1 /\ built.lineDelta = Len(M) - a
      <3>1. a \in Nat /\ region.first \in Int
        BY <1>5, <1>14
      <3> QED
        BY <1>7, <1>8, <3>1
    <2> HIDE DEF a, e, M, lines
    <2> QED
      BY <1>2, <1>8, <1>10, <1>14, <2>1, HunkCarries
  <1>16. new2 = then \o region.new
    <2>1. /\ \A i \in 1 .. k - 1 : resolved[i].finish =< p
          /\ \A i \in k .. region.end - 1 : p =< resolved[i].start /\ resolved[i].finish =< q
      <3> SUFFICES ASSUME NEW i \in 1 .. k - 1 PROVE resolved[i].finish =< p
        BY <1>5
      <3>1. i \in 1 .. N
        BY <1>1, <1>3
      <3>2. resolved[i].finish \in 1 .. n + 1
        BY <1>1, <3>1, EditIs
      <3>3. resolved[i].finish =< c
        BY <1>2
      <3> QED
        BY <1>6, <3>2, <3>3
    <2>2. /\ k \in 1 .. N + 1 /\ region.end \in k .. N + 1
          /\ p \in 1 .. n + 1 /\ q \in p .. n + 1
      BY <1>1, <1>3, <1>5, <1>6
    <2>3. ApplyWithin(source, resolved, 1, region.end, 1, q)
            = ApplyWithin(source, resolved, 1, k, 1, p)
                \o ApplyWithin(source, resolved, k, region.end, p, q)
      BY <1>1, <2>1, <2>2, ApplySplit
    <2> QED
      BY <1>5, <2>3
  <1>17. TextLines(new2) = M \o TextLines(region.new)
    <2>1. TextLines(then \o region.new) = TextLines(then) \o TextLines(region.new)
      BY <1>8, <1>9, <1>10, LinesJoin
    <2> QED
      BY <1>16, <2>1
  <1>18. next.lineDelta = Len(TextLines(new2)) - e
    <2> DEFINE u == TextLines(region.new)
               v == TextLines(region.old)
               m == Len(M)
               l == Len(u)
    <2>1. next.lineDelta = built.lineDelta + Len(u) - Len(v)
      BY DEF NextBuilt, region, st
    <2>2. u \in Seq(Texts) /\ M \in Seq(Texts)
      BY <1>8, <1>10, LinesAre DEF Texts
    <2>3. TextLines(new2) = M \o u
      BY <1>17
    <2> HIDE DEF u, M, new2, next
    <2>4. Len(M \o u) = m + l /\ m \in Nat /\ l \in Nat
      BY <2>2
    <2>5. built.lineDelta = m - a /\ Len(v) = e - a /\ e \in Int /\ a \in Int
      BY <1>8, <1>14
    <2>6. Len(TextLines(new2)) = m + l
      BY <2>3, <2>4
    <2>7. next.lineDelta = (m - a) + l - (e - a)
      BY <2>1, <2>5
    <2> HIDE DEF m, l, a, e
    <2> QED
      BY <2>4, <2>5, <2>6, <2>7
  <1>19. \/ Closed(old2) /\ Closed(new2)
         \/ q = n + 1 /\ region.end = N + 1
    <2>1. Closed(region.new) => Closed(then \o region.new)
      BY <1>8, <1>9, <1>10, ClosedJoins
    <2> QED
      BY <1>13, <1>16, <2>1
  <1>20. \A i \in 1 .. region.end - 1 : resolved[i].finish =< q
    <2> TAKE i \in 1 .. region.end - 1
    <2>1. i \in 1 .. k - 1 \/ i \in k .. region.end - 1
      BY <1>3, <1>5
    <2>2. CASE i \in 1 .. k - 1
      <3>1. i \in 1 .. N
        BY <1>1, <1>3, <2>2
      <3>2. resolved[i].finish \in 1 .. n + 1
        BY <1>1, <3>1, EditIs
      <3>3. resolved[i].finish =< c
        BY <1>2, <2>2
      <3> QED
        BY <1>6, <1>11, <3>2, <3>3
    <2>3. CASE i \in k .. region.end - 1
      BY <1>5, <2>3
    <2> QED
      BY <2>1, <2>2, <2>3
  <1>21. next.from = region.end /\ next.diff = more
    BY DEF NextBuilt, region, st
  <1>22. next.from \in k + 1 .. N + 1
    BY <1>5, <1>21
  <1>23. \E d \in 1 .. n + 1 : \E after : Caught(source, resolved, next, d, after)
    <2> HIDE DEF next, old2, new2, e, lines, more
    <2>1. PICK after : /\ Leads(lines, more, after)
                       /\ Carries(Texts, lines, after, e, M \o TextLines(region.new))
      BY <1>15
    <2>2. next.from \in 1 .. N + 1
      BY <1>1, <1>3, <1>22
    <2>3. next.diff \in Seq(HunksOf(Texts)) /\ Leads(lines, next.diff, after)
      BY <1>15, <1>21, <2>1
    <2>4. Carries(Texts, lines, after, e, TextLines(new2))
      BY <1>17, <2>1
    <2>5. Caught(source, resolved, next, q, after)
      <3>1. /\ \A i \in 1 .. next.from - 1 : resolved[i].finish =< q
            /\ next.from =< N => q =< st[EditFirstLine(st, resolved[next.from])]
            /\ \/ Closed(old2) /\ Closed(new2)
               \/ q = n + 1 /\ next.from = N + 1
        BY <1>5, <1>19, <1>20, <1>21
      <3>2. /\ old2 = Cut(source, 1, q)
            /\ new2 = ApplyWithin(source, resolved, 1, next.from, 1, q)
        BY <1>21 DEF old2, new2
      <3> QED
        BY <1>18, <2>2, <2>3, <2>4, <3>1, <3>2 DEF Caught, st, lines, e
    <2> QED
      BY <1>11, <2>5
  <1> QED
    BY <1>22, <1>23 DEF next

\* A diff that is built up to some place in the source.
Ready(source, resolved, built) ==
  /\ built \in [from : Nat, lineDelta : Int, diff : Seq(HunksOf(Texts))]
  /\ \E c \in 1 .. Len(source) + 1 : \E done : Caught(source, resolved, built, c, done)

\* What the loop of BuildDiff starts with.
NothingBuilt == [from |-> 1, lineDelta |-> 0, diff |-> <<>>]

\* A step of the loop of BuildDiff.
BuildsOn(source, resolved, built) ==
  IF built.from > Len(resolved) THEN built ELSE NextBuilt(source, resolved, built)

\* Nothing built is ready.
LEMMA BuildBegins ==
  ASSUME NEW source \in Seq(Bytes), NEW resolved, Fits(source, resolved)
  PROVE  Ready(source, resolved, NothingBuilt)
  <1> DEFINE st == LineStarts(source)
             N == Len(resolved)
             n == Len(source)
             b == NothingBuilt
             lines == TextLines(source)
  <1>1. /\ resolved \in Seq(EditsOf(source)) /\ N \in Nat /\ n \in Nat /\ 1 \in 1 .. n + 1
        /\ 1 \in 1 .. N + 1 /\ 1 \in 1 .. 1
    BY DEF Fits
  <1>2. b.from = 1 /\ b.lineDelta = 0 /\ b.diff = <<>>
    BY DEF NothingBuilt
  <1>3. b \in [from : Nat, lineDelta : Int, diff : Seq(HunksOf(Texts))]
    <2>1. <<>> \in Seq(HunksOf(Texts))
      OBVIOUS
    <2> QED
      BY <2>1 DEF NothingBuilt
  <1>4. Cut(source, 1, 1) = <<>>
    <2> DEFINE w == Cut(source, 1, 1)
    <2>1. w \in Seq(Bytes) /\ Len(w) = 1 - 1
      BY <1>1, PartIsCut
    <2> HIDE DEF w
    <2>2. w = <<>>
      BY <2>1
    <2> QED
      BY <2>2 DEF w
  <1>5. ApplyWithin(source, resolved, 1, 1, 1, 1) = <<>>
    <2>1. 1 \in 1 .. n + 1
      BY <1>1
    <2>2. ApplyWithin(source, resolved, 1, 1, 1, 1) = Cut(source, 1, 1)
      BY <1>1, <2>1, ApplyNone
    <2> QED
      BY <1>4, <2>2
  <1>6. lines \in Seq(Texts)
    BY LinesAre DEF Texts
  <1>7. Leads(lines, <<>>, Unpatched)
    BY <1>6, PatchNone
  <1>8. Carries(Texts, lines, Unpatched, 0, <<>>)
    <2> HIDE DEF lines
    <2>1. /\ Unpatched.fits /\ Unpatched.read = 0 /\ Unpatched.out = <<>>
          /\ Unpatched \in Progress(Texts)
      <3>1. <<>> \in Seq(Texts)
        OBVIOUS
      <3> QED
        BY <3>1 DEF Unpatched, Progress
    <2>2. Cut(lines, 0 + 1, 0 + 1) = <<>>
      <3> DEFINE w == Cut(lines, 1, 1)
      <3>1. 1 \in 1 .. Len(lines) + 1
        BY <1>6
      <3>2. w \in Seq(Texts) /\ Len(w) = 1 - 1
        BY <1>6, <3>1, PartIsCut
      <3> HIDE DEF w
      <3>3. w = <<>>
        BY <3>2
      <3> QED
        BY <3>3 DEF w
    <2>3. <<>> \o <<>> = <<>>
      OBVIOUS
    <2>4. 0 \in 0 .. Len(lines) /\ 0 =< 0
      BY <1>6
    <2> QED
      BY <2>1, <2>2, <2>3, <2>4 DEF Carries
  <1>9. N >= 1 => 1 =< st[EditFirstLine(st, resolved[1])]
    <2> SUFFICES ASSUME N >= 1 PROVE 1 =< st[EditFirstLine(st, resolved[1])]
      OBVIOUS
    <2>1. 1 \in 1 .. N
      BY <1>1
    <2>2. st[EditFirstLine(st, resolved[1])] \in 1 .. n + 1
      BY <2>1, EditsInTurn
    <2> HIDE DEF st
    <2> QED
      BY <2>2
  <1>10. Caught(source, resolved, b, 1, Unpatched)
    <2>1. Closed(<<>>) /\ Len(TextLines(<<>>)) = 0 /\ TextLines(<<>>) = <<>>
      BY LinesOfNone DEF Closed
    <2>2. \A i \in 1 .. 1 - 1 : resolved[i].finish =< 1
      OBVIOUS
    <2>3. <<>> \in Seq(HunksOf(Texts)) /\ 0 - 0 = 0
      OBVIOUS
    <2> DEFINE old == Cut(source, 1, 1)
               new == ApplyWithin(source, resolved, 1, 1, 1, 1)
               k == b.from
    <2> HIDE DEF b, lines
    <2>4. /\ Closed(old) /\ Closed(new)
          /\ Leads(lines, b.diff, Unpatched)
          /\ Carries(Texts, lines, Unpatched, Len(TextLines(old)), TextLines(new))
          /\ b.lineDelta = Len(TextLines(new)) - Len(TextLines(old))
      BY <1>2, <1>4, <1>5, <1>7, <1>8, <2>1, <2>3
    <2>5. /\ k \in 1 .. N + 1
          /\ \A i \in 1 .. k - 1 : resolved[i].finish =< 1
          /\ k =< N => 1 =< st[EditFirstLine(st, resolved[k])]
          /\ b.diff \in Seq(HunksOf(Texts))
          /\ new = ApplyWithin(source, resolved, 1, k, 1, 1)
      BY <1>1, <1>2, <1>9, <2>2, <2>3
    <2> HIDE DEF old, new, k
    <2>6. old = Cut(source, 1, 1)
      BY DEF old
    <2> QED
      BY <2>4, <2>5, <2>6 DEF Caught, k, lines, st
  <1> QED
    BY <1>1, <1>3, <1>10 DEF Ready

\* A step of the loop keeps it ready, and takes in an edit as long as there are some.
LEMMA BuildKeeps ==
  ASSUME NEW source \in Seq(Bytes), NEW resolved, Fits(source, resolved),
         EndedBefore(source, resolved), NEW built, Ready(source, resolved, built)
  PROVE  LET next == BuildsOn(source, resolved, built)
         IN  /\ Ready(source, resolved, next)
             /\ built.from =< Len(resolved) => next.from > built.from
             /\ built.from > Len(resolved) => next = built
  <1> DEFINE next == BuildsOn(source, resolved, built)
             N == Len(resolved)
  <1>1. N \in Nat /\ built.from \in Nat
    BY DEF Fits, Ready
  <1>2. CASE built.from > N
    <2>1. next = built
      BY <1>2 DEF BuildsOn
    <2>2. ~(built.from =< N)
      BY <1>1, <1>2
    <2> HIDE DEF next
    <2>3. /\ Ready(source, resolved, next)
          /\ built.from =< N => next.from > built.from
          /\ built.from > N => next = built
      BY <2>1, <2>2
    <2> QED
      BY <2>3 DEF next
  <1>3. CASE ~(built.from > N)
    <2>1. next = NextBuilt(source, resolved, built) /\ built.from =< N
      BY <1>1, <1>3 DEF BuildsOn
    <2>2. PICK c \in 1 .. Len(source) + 1 : \E done : Caught(source, resolved, built, c, done)
      BY DEF Ready
    <2>3. PICK done : Caught(source, resolved, built, c, done)
      BY <2>2
    <2>4. /\ \E d \in 1 .. Len(source) + 1 : \E after : Caught(source, resolved, next, d, after)
          /\ next.from \in built.from + 1 .. N + 1
      BY <2>1, <2>3, BuildStep
    <2>5. next \in [from : Nat, lineDelta : Int, diff : Seq(HunksOf(Texts))]
      <3>1. next.from \in Nat
        BY <1>1, <2>4
      <3>2. next.diff \in Seq(HunksOf(Texts))
        BY <2>4 DEF Caught
      <3>3. next.lineDelta \in Int
        <4>1. PICK d \in 1 .. Len(source) + 1 : \E after : Caught(source, resolved, next, d, after)
          BY <2>4
        <4> DEFINE x == TextLines(ApplyWithin(source, resolved, 1, next.from, 1, d))
                   y == TextLines(Cut(source, 1, d))
        <4>2. next.lineDelta = Len(x) - Len(y)
          BY <4>1 DEF Caught
        <4>3. x \in Seq(Texts) /\ y \in Seq(Texts)
          <5>1. Cut(source, 1, d) \in Seq(Bytes)
            <6>1. 1 \in 1 .. Len(source) + 1
              BY <4>1
            <6> QED
              BY <4>1, <6>1, PartIsCut
          <5>2. ApplyWithin(source, resolved, 1, next.from, 1, d) \in Seq(Bytes)
            <6>1. /\ 1 \in 1 .. Len(source) + 1 /\ 1 \in 1 .. N + 1
                  /\ next.from \in 1 .. N + 1 /\ d \in Nat
                  /\ resolved \in Seq(EditsOf(source))
              BY <1>1, <2>4, <4>1 DEF Fits
            <6> HIDE DEF next
            <6> QED
              BY <6>1, ApplyType
          <5> QED
            BY <5>1, <5>2, LinesAre DEF Texts
        <4> HIDE DEF x, y
        <4>4. Len(x) \in Nat /\ Len(y) \in Nat
          BY <4>3
        <4> QED
          BY <4>2, <4>4
      <3>4. next = [from |-> next.from, lineDelta |-> next.lineDelta, diff |-> next.diff]
        BY <2>1 DEF NextBuilt
      <3> HIDE DEF next
      <3> QED
        BY <3>1, <3>2, <3>3, <3>4
    <2>6. Ready(source, resolved, next)
      BY <2>4, <2>5 DEF Ready
    <2>7. next.from > built.from /\ ~(built.from > N)
      BY <1>1, <1>3, <2>4
    <2> QED
      BY <2>6, <2>7
  <1> QED
    BY <1>2, <1>3

\* The states of the loop of BuildDiff.
Builds(source, resolved, f) ==
  /\ f[0] = NothingBuilt
  /\ \A n \in 0 .. Len(resolved) : Ready(source, resolved, f[n])
  /\ \A n \in 1 .. Len(resolved) : f[n] = BuildsOn(source, resolved, f[n - 1])
  /\ BuildDiff(source, resolved) = f[Len(resolved)].diff

\* The loop of BuildDiff.
LEMMA BuildLoop ==
  ASSUME NEW source \in Seq(Bytes), NEW resolved, Fits(source, resolved),
         EndedBefore(source, resolved)
  PROVE  \E f : Builds(source, resolved, f)
  <1> DEFINE starts == LineStarts(source)
             Built[times \in 0 .. Len(resolved)] ==
               IF times = 0 THEN [from |-> 1, lineDelta |-> 0, diff |-> <<>>]
               ELSE LET built == Built[times - 1]
                        region == Group(source, starts, resolved, built.from)
                    IN  IF built.from > Len(resolved) THEN built
                        ELSE [from      |-> region.end,
                              lineDelta |-> built.lineDelta + Len(TextLines(region.new))
                                                            - Len(TextLines(region.old)),
                              diff      |-> built.diff \o Hunk(region, built.lineDelta)]
             N == Len(resolved)
             one == [from |-> 1, lineDelta |-> 0, diff |-> <<>>]
             Y == {b \in [from : Nat, lineDelta : Int, diff : Seq(HunksOf(Texts))] :
                     Ready(source, resolved, b)}
             step == [p \in (1 .. N) \X Y |-> BuildsOn(source, resolved, p[2])]
  <1>1. BuildDiff(source, resolved) = Built[N].diff
    BY DEF BuildDiff
  <1>2. N \in Nat
    BY DEF Fits
  <1>3. one \in Y
    <2>1. Ready(source, resolved, one)
      BY BuildBegins DEF NothingBuilt
    <2> QED
      BY <2>1 DEF Ready
  <1>4. ASSUME NEW x \in Y PROVE BuildsOn(source, resolved, x) \in Y
    <2>1. Ready(source, resolved, BuildsOn(source, resolved, x))
      BY BuildKeeps
    <2> QED
      BY <2>1 DEF Ready
  <1>13. \A b \in Y : Ready(source, resolved, b)
    OBVIOUS
  <1> HIDE DEF Y
  <1>5. step \in [(1 .. N) \X Y -> Y]
    BY <1>4
  <1>6. PICK f \in Loop(N, Y, one, step) : TRUE
    <2> HIDE DEF step, N, one
    <2> QED
      BY <1>2, <1>3, <1>5, Iterates
  <1>7. /\ f \in [0 .. N -> Y] /\ f[0] = one
        /\ \A n \in 1 .. N : f[n] = BuildsOn(source, resolved, f[n - 1])
    <2> HIDE DEF N, one
    <2>1. /\ f \in [0 .. N -> Y] /\ f[0] = one
          /\ \A n \in 1 .. N : f[n] = step[<<n, f[n - 1]>>]
      BY <1>6 DEF Loop
    <2>2. ASSUME NEW n \in 1 .. N PROVE <<n, f[n - 1]>> \in (1 .. N) \X Y
      <3>1. n - 1 \in 0 .. N
        BY <1>2
      <3> QED
        BY <3>1, <2>1
    <2> QED
      BY <2>1, <2>2
  <1> DEFINE Body(g) == [times \in 0 .. Len(resolved) |->
               IF times = 0 THEN [from |-> 1, lineDelta |-> 0, diff |-> <<>>]
               ELSE LET built == g[times - 1]
                        region == Group(source, starts, resolved, built.from)
                    IN  IF built.from > Len(resolved) THEN built
                        ELSE [from      |-> region.end,
                              lineDelta |-> built.lineDelta + Len(TextLines(region.new))
                                                            - Len(TextLines(region.old)),
                              diff      |-> built.diff \o Hunk(region, built.lineDelta)]]
  <1>8. f = Body(f)
    <2>1. \A n \in 0 .. N : f[n] = IF n = 0 THEN one ELSE BuildsOn(source, resolved, f[n - 1])
      <3>1. \A n \in 0 .. N : n = 0 \/ n \in 1 .. N
        BY <1>2
      <3> HIDE DEF N, one
      <3> QED
        BY <1>7, <3>1
    <2>2. f = [n \in 0 .. N |-> f[n]]
      BY <1>7
    <2> HIDE DEF N, one
    <2>3. f = [n \in 0 .. N |-> IF n = 0 THEN one ELSE BuildsOn(source, resolved, f[n - 1])]
      BY <2>1, <2>2
    <2> QED
      BY <2>3, Zenon DEF N, one, BuildsOn, NextBuilt
  <1>9. Built = Body(Built)
    BY <1>8, Zenon
  <1> HIDE DEF Built
  <1>10. /\ Built[0] = one
         /\ \A n \in 1 .. N : Built[n] = BuildsOn(source, resolved, Built[n - 1])
    <2>1. 0 \in 0 .. N /\ \A n \in 1 .. N : n \in 0 .. N /\ n # 0
      BY <1>2
    <2>2. \A n \in 0 .. N : Built[n] = IF n = 0 THEN one
                                       ELSE BuildsOn(source, resolved, Built[n - 1])
      BY <1>9, Zenon DEF BuildsOn, NextBuilt
    <2> HIDE DEF N, one
    <2> QED
      BY <2>1, <2>2
  <1>11. \A n \in 0 .. N : Built[n] \in Y
    <2> HIDE DEF N, one
    <2> QED
      BY <1>2, <1>3, <1>4, <1>10, LoopKeeps
  <1>12. \A n \in 0 .. N : Ready(source, resolved, Built[n])
    BY <1>11, <1>13
  <1> QED
    BY <1>1, <1>10, <1>12, Zenon DEF Builds, NothingBuilt

\* A diff that is all built patches the lines of the source to those of its edits.
LEMMA CaughtAll ==
  ASSUME NEW source \in Seq(Bytes), NEW resolved, Fits(source, resolved), NEW built,
         Ready(source, resolved, built), built.from = Len(resolved) + 1
  PROVE  TextLines(ApplyWithin(source, resolved, 1, Len(resolved) + 1, 1, Len(source) + 1))
           \in Patched(TextLines(source), built.diff)
  <1> DEFINE n == Len(source)
             z == n + 1
             k == Len(resolved) + 1
             lines == TextLines(source)
             then == ApplyWithin(source, resolved, 1, k, 1, z)
  <1>1. /\ resolved \in Seq(EditsOf(source)) /\ k \in Nat /\ n \in Nat /\ k \in 1 .. Len(resolved) + 1
        /\ z \in 1 .. Len(source) + 1 /\ z - 1 = n /\ built.from = k
    BY DEF Fits
  <1>2. PICK c \in 1 .. n + 1 : \E done : Caught(source, resolved, built, c, done)
    BY DEF Ready
  <1>3. PICK done : Caught(source, resolved, built, c, done)
    BY <1>2
  <1> DEFINE old == Cut(source, 1, c)
             new == ApplyWithin(source, resolved, 1, k, 1, c)
  <1>4. /\ \A i \in 1 .. k - 1 : resolved[i].finish =< c
        /\ (Closed(old) /\ Closed(new)) \/ c = z
        /\ Leads(lines, built.diff, done)
        /\ Carries(Texts, lines, done, Len(TextLines(old)), TextLines(new))
    <2> HIDE DEF k
    <2> QED
      BY <1>1, <1>3 DEF Caught
  <1>5. lines \in Seq(Texts) /\ Len(lines) \in Nat
    <2>1. lines \in Seq(Texts)
      BY LinesAre DEF Texts
    <2> HIDE DEF lines
    <2> QED
      BY <2>1
  <1>6. Cut(source, 1, z) = source
    <2>1. Cut(source, 1, z) = SubSeq(source, 1, n)
      BY <1>1 DEF Cut
    <2>2. SubSeq(source, 1, n) = source
      OBVIOUS
    <2> QED
      BY <2>1, <2>2
  <1>7. Carries(Texts, lines, done, Len(lines), TextLines(then))
    <2>1. CASE c = z
      <3> HIDE DEF z
      <3> QED
        BY <1>4, <1>6, <2>1
    <2>2. CASE Closed(old) /\ Closed(new)
      <3>1. z \in c .. Len(source) + 1
        BY <1>1
      <3>2. Carries(Texts, lines, done, Len(TextLines(Cut(source, 1, z))), TextLines(then))
        <4> HIDE DEF k
        <4> QED
          BY <1>1, <1>4, <2>2, <3>1, CatchUp
      <3> QED
        BY <1>6, <3>2
    <2> QED
      BY <1>4, <2>1, <2>2
  <1> HIDE DEF then, lines
  <1>8. /\ done.fits /\ done \in Progress(Texts)
        /\ done.out \o Cut(lines, done.read + 1, Len(lines) + 1) = TextLines(then)
    BY <1>7 DEF Carries
  <1>9. Cut(lines, done.read + 1, Len(lines) + 1) = SubSeq(lines, done.read + 1, Len(lines))
    <2> DEFINE m == Len(lines)
               j == m + 1
    <2>1. j - 1 = m
      BY <1>5
    <2> HIDE DEF j
    <2>2. Cut(lines, done.read + 1, j) = SubSeq(lines, done.read + 1, m)
      BY <2>1 DEF Cut
    <2> QED
      BY <2>2 DEF j
  <1>10. PICK f : Patches(lines, built.diff, f) /\ f[Len(built.diff)] = done
    BY <1>4 DEF Leads
  <1>11. Patched(lines, built.diff)
           = IF done.fits THEN {done.out \o SubSeq(lines, done.read + 1, Len(lines))} ELSE {}
    BY <1>10 DEF Patches
  <1>12. TextLines(then) \in Patched(lines, built.diff)
    BY <1>8, <1>9, <1>11
  <1> QED
    BY <1>12 DEF then, lines

\* buildDiff: a diff, applied to the lines of the source, gives those of the text that the
\* edits leave.
THEOREM BuildDiffRight ==
  ASSUME NEW source \in Seq(Bytes), NEW resolved, Fits(source, resolved),
         EndedBefore(source, resolved)
  PROVE  TextLines(ApplyWithin(source, resolved, 1, Len(resolved) + 1, 1, Len(source) + 1))
           \in Patched(TextLines(source), BuildDiff(source, resolved))
  <1> DEFINE N == Len(resolved)
  <1>1. PICK f : Builds(source, resolved, f)
    BY BuildLoop
  <1>2. /\ \A n \in 0 .. N : Ready(source, resolved, f[n])
        /\ \A n \in 1 .. N : f[n] = BuildsOn(source, resolved, f[n - 1])
        /\ f[0].from = 1
        /\ BuildDiff(source, resolved) = f[N].diff
    BY <1>1 DEF Builds, NothingBuilt
  <1>3. N \in Nat
    BY DEF Fits
  <1>4. \A n \in 0 .. N : f[n].from \in 1 .. N + 1
    BY <1>2 DEF Ready, Caught
  <1> DEFINE S == {n \in 0 .. N : f[n].from >= n + 1}
  <1> HIDE DEF N
  <1>5. 0 \in S
    BY <1>2, <1>3
  <1>6. ASSUME NEW n \in 1 .. N, n - 1 \in S PROVE n \in S
    <2> DEFINE b == f[n - 1]
               h == f[n]
    <2>1. n \in 0 .. N /\ n - 1 \in 0 .. N
      BY <1>3
    <2>2. b.from \in 1 .. N + 1 /\ h.from \in 1 .. N + 1 /\ b.from >= n
      BY <1>3, <1>4, <1>6, <2>1
    <2>3. Ready(source, resolved, b) /\ h = BuildsOn(source, resolved, b)
      BY <1>2, <2>1
    <2> HIDE DEF b, h
    <2>4. /\ b.from =< N => h.from > b.from
          /\ b.from > N => h = b
      BY <2>3, BuildKeeps DEF N
    <2>5. h.from >= n + 1
      BY <1>3, <2>1, <2>2, <2>4
    <2> QED
      BY <2>1, <2>5 DEF h
  <1>7. N \in S
    <2> HIDE DEF S
    <2>1. N \in 0 .. N
      BY <1>3
    <2> QED
      BY <1>3, <1>5, <1>6, <2>1, Upwards
  <1>8. f[N].from = N + 1
    BY <1>3, <1>4, <1>7
  <1>9. Ready(source, resolved, f[N])
    BY <1>2, <1>7
  <1>10. TextLines(ApplyWithin(source, resolved, 1, Len(resolved) + 1, 1, Len(source) + 1))
           \in Patched(TextLines(source), f[N].diff)
    BY <1>8, <1>9, CaughtAll DEF N
  <1> QED
    BY <1>2, <1>10

-----------------------------------------------------------------------------
(***************************************************************************)
(* planScriptEdits.  What it does not refuse is in order and does not      *)
(* overlap.                                                                *)
(***************************************************************************)
\* A strict total order on a set, as a set of pairs.
Orders(S, before) ==
  /\ \A x \in S : <<x, x>> \notin before
  /\ \A x, y, z \in S : <<x, y>> \in before /\ <<y, z>> \in before => <<x, z>> \in before
  /\ \A x, y \in S : x # y => <<x, y>> \in before \/ <<y, x>> \in before

\* The elements of a set that are before one.
Below(S, before, x) == {y \in S : <<y, x>> \in before}

\* How many are before an element tells its place.
LEMMA Ranks ==
  ASSUME NEW S, IsFiniteSet(S), NEW before, Orders(S, before)
  PROVE  /\ \A x \in S : Cardinality(Below(S, before, x)) \in 0 .. Cardinality(S) - 1
         /\ \A x, y \in S : <<x, y>> \in before =>
              Cardinality(Below(S, before, x)) < Cardinality(Below(S, before, y))
  <1> DEFINE B(x) == Below(S, before, x)
  <1>1. Cardinality(S) \in Nat
    BY FS_CardinalityType
  <1>2. ASSUME NEW x \in S PROVE IsFiniteSet(B(x)) /\ Cardinality(B(x)) \in Nat
    <2>1. B(x) \in SUBSET S
      BY DEF Below
    <2> HIDE DEF B
    <2>2. IsFiniteSet(B(x))
      BY <2>1, FS_Subset
    <2> QED
      BY <2>2, FS_CardinalityType
  <1>3. ASSUME NEW x \in S PROVE Cardinality(B(x)) \in 0 .. Cardinality(S) - 1
    <2>1. B(x) \in SUBSET (S \ {x})
      BY DEF Below, Orders
    <2>2. IsFiniteSet(S \ {x}) /\ Cardinality(S \ {x}) = Cardinality(S) - 1
      BY FS_RemoveElement
    <2> HIDE DEF B
    <2>3. Cardinality(B(x)) =< Cardinality(S \ {x})
      BY <2>1, <2>2, FS_Subset
    <2> QED
      BY <1>1, <1>2, <2>2, <2>3
  <1>4. ASSUME NEW x \in S, NEW y \in S, <<x, y>> \in before
        PROVE  Cardinality(B(x)) < Cardinality(B(y))
    <2>1. B(x) \in SUBSET B(y)
      BY <1>4 DEF Below, Orders
    <2>2. x \in B(y) /\ x \notin B(x)
      BY <1>4 DEF Below, Orders
    <2> HIDE DEF B
    <2>3. B(x) # B(y)
      BY <2>2
    <2>4. Cardinality(B(x)) =< Cardinality(B(y)) /\ Cardinality(B(x)) # Cardinality(B(y))
      BY <1>2, <2>1, <2>3, FS_Subset
    <2> QED
      BY <1>2, <2>4
  <1> QED
    BY <1>3, <1>4

\* A finite set in order: each element once, and the ones before it in front of it.
InTheOrder(S, before, s) ==
  /\ s \in Seq(S) /\ Len(s) = Cardinality(S)
  /\ \A n, m \in 1 .. Len(s) : n < m => <<s[n], s[m]>> \in before
  /\ \A x \in S : \E n \in 1 .. Len(s) : s[n] = x

\* A finite set has such an order: InOrder gives it.
LEMMA InOrderIs ==
  ASSUME NEW S, IsFiniteSet(S), NEW before, Orders(S, before)
  PROVE  InTheOrder(S, before, InOrder(S, before))
  <1> DEFINE N == Cardinality(S)
             rank == [x \in S |-> Cardinality(Below(S, before, x))]
             T == 0 .. N - 1
             s == InOrder(S, before)
  <1>1. N \in Nat
    BY FS_CardinalityType
  <1>2. /\ rank \in [S -> T]
        /\ \A x, y \in S : <<x, y>> \in before => rank[x] < rank[y]
    BY Ranks
  <1>3. \A n \in 1 .. N : s[n] = CHOOSE x \in S : rank[x] = n - 1
    BY DEF InOrder, Below
  <1>4. DOMAIN s = 1 .. N
    BY DEF InOrder
  <1>5. \A x, y \in S : x # y => <<x, y>> \in before \/ <<y, x>> \in before
    BY DEF Orders
  <1> HIDE DEF rank
  <1>6. \A x, y \in S : rank[x] \in Int /\ (rank[x] = rank[y] => x = y)
    <2> TAKE x, y \in S
    <2>1. rank[x] \in T /\ rank[y] \in T
      BY <1>2
    <2>2. rank[x] \in Int /\ rank[y] \in Int
      BY <2>1
    <2>3. rank[x] = rank[y] => ~(rank[x] < rank[y]) /\ ~(rank[y] < rank[x])
      BY <2>2
    <2>4. rank[x] = rank[y] => <<x, y>> \notin before /\ <<y, x>> \notin before
      BY <1>2, <2>3
    <2> QED
      BY <1>5, <2>2, <2>4
  <1>7. rank \in Injection(S, T)
    <2> HIDE DEF T
    <2>1. rank \in [S -> T] /\ DOMAIN rank = S
      BY <1>2
    <2>2. IsInjective(rank)
      BY <1>6, <2>1 DEF IsInjective
    <2> QED
      BY <2>1, <2>2 DEF Injection
  <1>8. IsFiniteSet(T) /\ Cardinality(T) = N
    BY <1>1, FS_Interval
  <1>9. rank \in Surjection(S, T)
    <2> HIDE DEF T, N
    <2>1. Cardinality(S) = Cardinality(T)
      BY <1>8 DEF N
    <2> QED
      BY <1>7, <1>8, <2>1, FS_Injection, Zenon
  <1>10. \A n \in T : \E x \in S : rank[x] = n
    <2> HIDE DEF T, N
    <2> QED
      BY <1>9 DEF Surjection
  <1>11. ASSUME NEW n \in 1 .. N PROVE s[n] \in S /\ rank[s[n]] = n - 1
    <2>1. n - 1 \in T
      BY <1>1
    <2>2. \E x \in S : rank[x] = n - 1
      BY <1>10, <2>1
    <2> HIDE DEF s, T, N
    <2> QED
      BY <1>3, <2>2
  <1>12. s = [n \in 1 .. N |-> s[n]]
    <2> DEFINE F(n) == CHOOSE x \in S : Cardinality({y \in S : <<y, x>> \in before}) = n - 1
    <2>1. s = [n \in 1 .. N |-> F(n)]
      BY DEF InOrder
    <2> HIDE DEF F, s, N
    <2> QED
      BY <2>1
  <1> HIDE DEF s
  <1>13. s \in Seq(S) /\ Len(s) = N
    <2>1. s \in [1 .. N -> S]
      BY <1>11, <1>12
    <2> HIDE DEF N, s
    <2> QED
      BY <1>1, <2>1
  <1>14. ASSUME NEW n \in 1 .. N, NEW m \in 1 .. N, n < m PROVE <<s[n], s[m]>> \in before
    <2>1. rank[s[n]] < rank[s[m]] /\ rank[s[n]] \in Int /\ rank[s[m]] \in Int
      BY <1>11, <1>14
    <2>2. s[n] # s[m] /\ ~(rank[s[m]] < rank[s[n]])
      BY <2>1
    <2> QED
      BY <1>2, <1>5, <1>11, <2>2
  <1>15. ASSUME NEW x \in S PROVE \E n \in 1 .. N : s[n] = x
    <2>1. rank[x] \in T
      BY <1>2
    <2> DEFINE n == rank[x] + 1
    <2>2. n \in 1 .. N /\ n - 1 = rank[x]
      BY <1>1, <2>1
    <2> HIDE DEF n
    <2>3. s[n] = x
      BY <1>6, <1>11, <2>2
    <2> QED
      BY <2>2, <2>3
  <1> HIDE DEF N
  <1> QED
    BY <1>13, <1>14, <1>15 DEF InTheOrder, s, N

\* The edits that can be asked.
EditsAsked == [old : Seq(Bytes), new : Seq(Bytes), line : Nat]

\* A text that is at a place ends within the source.
LEMMA FoundWithin ==
  ASSUME NEW source \in Seq(Bytes), NEW i \in 1 .. Len(source) + 1, NEW old \in Seq(Bytes),
         Part(source, i, i + Len(old) - 1) = old
  PROVE  i + Len(old) \in i .. Len(source) + 1
  <1> DEFINE n == Len(source)
             m == Len(old)
             b == i + m - 1
             c == IF b < n THEN b ELSE n
  <1>1. n \in Nat /\ m \in Nat /\ i \in Nat /\ i =< n + 1 /\ i >= 1
    OBVIOUS
  <1>2. old = SubSeq(source, i, c)
    BY DEF Part
  <1>3. c \in Int /\ c =< n
    BY <1>1
  <1> HIDE DEF c, n, m
  <1>4. \A k \in i .. c : source[k] \in Bytes
    <2>1. \A k \in i .. c : k \in 1 .. Len(source)
      BY <1>1, <1>3 DEF n
    <2> QED
      BY <2>1
  <1>5. Len(SubSeq(source, i, c)) = IF i <= c THEN c - i + 1 ELSE 0
    BY <1>1, <1>3, <1>4, SubSeqProperties
  <1>6. m = IF i <= c THEN c - i + 1 ELSE 0
    BY <1>2, <1>5 DEF m
  <1>7. i + m =< n + 1 /\ i + m >= i /\ i + m \in Int
    BY <1>1, <1>3, <1>6
  <1> QED
    BY <1>1, <1>7 DEF n, m

\* An edit is located at one place at most, and what it replaces is there.
LEMMA LocateIs ==
  ASSUME NEW source \in Seq(Bytes), NEW edit \in EditsAsked
  PROVE  /\ \A i, j \in LocateEdit(source, edit) : i = j
         /\ \A i \in LocateEdit(source, edit) :
              i \in 1 .. Len(source) + 1 /\ i + Len(edit.old) \in i .. Len(source) + 1
  <1> DEFINE st == LineStarts(source)
             occ == Occurrences(source, edit.old)
  <1>1. edit.old \in Seq(Bytes) /\ Len(source) \in Nat
    BY DEF EditsAsked
  <1>2. ASSUME NEW i \in 1 .. Len(source) + 1,
               Part(source, i, i + Len(edit.old) - 1) = edit.old
        PROVE  i + Len(edit.old) \in i .. Len(source) + 1
    BY <1>1, <1>2, FoundWithin
  <1>3. CASE edit.line # 0
    <2>1. \A i \in LocateEdit(source, edit) :
            /\ edit.line \in DOMAIN st /\ i = st[edit.line]
            /\ Part(source, i, i + Len(edit.old) - 1) = edit.old
      BY <1>3 DEF LocateEdit
    <2>2. edit.line \in DOMAIN st => st[edit.line] \in 1 .. Len(source) + 1
      <3>1. StartsOf(source, Len(source), st)
        BY LineStartsAre
      <3>2. DOMAIN st = 1 .. Len(st)
        BY <3>1 DEF StartsOf
      <3> QED
        BY <3>2, LineIsCut
    <2> HIDE DEF st
    <2> QED
      BY <1>2, <2>1, <2>2
  <1>4. CASE edit.line = 0
    <2>1. \A i \in LocateEdit(source, edit) :
            /\ i \in occ /\ Cardinality(occ) = 1
            /\ i \in DOMAIN source
            /\ Part(source, i, i + Len(edit.old) - 1) = edit.old
      BY <1>4 DEF LocateEdit, Occurrences
    <2>2. IsFiniteSet(occ)
      <3>1. occ \in SUBSET (1 .. Len(source))
        BY DEF Occurrences
      <3>2. IsFiniteSet(1 .. Len(source))
        BY <1>1, FS_Interval
      <3> HIDE DEF occ
      <3> QED
        BY <3>1, <3>2, FS_Subset
    <2> HIDE DEF occ
    <2>3. \A i, j \in LocateEdit(source, edit) : i = j
      <3>1. Cardinality(occ) = 1 => \E x : occ = {x}
        BY <2>2, FS_Singleton
      <3> QED
        BY <2>1, <3>1
    <2>4. \A i \in DOMAIN source : i \in 1 .. Len(source) + 1
      BY <1>1
    <2> QED
      BY <1>2, <2>1, <2>3, <2>4
  <1> QED
    BY <1>3, <1>4

\* The edits that are located, each once.
LEMMA LocatedAre ==
  ASSUME NEW source \in Seq(Bytes), NEW edits \in Seq(EditsAsked)
  PROVE  /\ Located(source, edits) \subseteq EditsOf(source)
         /\ \A x \in Located(source, edits) :
              x.start =< x.finish /\ x.index \in 1 .. Len(edits)
         /\ \A x, y \in Located(source, edits) : x.index = y.index => x = y
         /\ IsFiniteSet(Located(source, edits))
         /\ Cardinality(Located(source, edits)) =< Len(edits)
  <1> DEFINE S == Located(source, edits)
             n == Len(source)
             Found(x) == /\ x.index \in 1 .. Len(edits)
                         /\ x.start \in 1 .. n + 1
                         /\ x.start \in LocateEdit(source, edits[x.index])
                         /\ x = [index |-> x.index, start |-> x.start,
                                 finish |-> x.start + Len(edits[x.index].old),
                                 new |-> edits[x.index].new]
  <1>1. n \in Nat /\ Len(edits) \in Nat /\ \A k \in 1 .. Len(edits) : edits[k] \in EditsAsked
    OBVIOUS
  <1>2. ASSUME NEW x \in S PROVE Found(x)
    <2> DEFINE P == (DOMAIN edits) \X (1 .. n + 1)
               At(p) == [index |-> p[1], start |-> p[2],
                         finish |-> p[2] + Len(edits[p[1]].old), new |-> edits[p[1]].new]
    <2>3. S = {At(p) : p \in {p \in P : p[2] \in LocateEdit(source, edits[p[1]])}}
      BY DEF Located
    <2>4. PICK p \in P : p[2] \in LocateEdit(source, edits[p[1]]) /\ x = At(p)
      <3> HIDE DEF P, At, S
      <3> QED
        BY <2>3
    <2> DEFINE k == p[1]
               i == p[2]
    <2>5. k \in DOMAIN edits /\ i \in 1 .. n + 1
      <3> HIDE DEF n
      <3> QED
        BY <2>4
    <2>6. DOMAIN edits = 1 .. Len(edits)
      BY <1>1
    <2>1. /\ k \in 1 .. Len(edits) /\ i \in 1 .. n + 1
          /\ i \in LocateEdit(source, edits[k])
          /\ x = [index |-> k, start |-> i, finish |-> i + Len(edits[k].old),
                  new |-> edits[k].new]
      BY <2>4, <2>5, <2>6
    <2> HIDE DEF k, i, P, At, S, n
    <2>2. x.index = k /\ x.start = i
      BY <2>1
    <2> QED
      BY <2>1, <2>2
  <1> HIDE DEF S
  <1>3. ASSUME NEW x \in S
        PROVE  /\ x \in EditsOf(source) /\ x.start =< x.finish /\ x.index \in 1 .. Len(edits)
    <2> DEFINE k == x.index
               i == x.start
               f == i + Len(edits[k].old)
               w == edits[k].new
    <2>1. /\ k \in 1 .. Len(edits) /\ i \in 1 .. n + 1 /\ i \in LocateEdit(source, edits[k])
          /\ x = [index |-> k, start |-> i, finish |-> f, new |-> w]
      BY <1>2
    <2>2. edits[k] \in EditsAsked
      BY <1>1, <2>1
    <2>3. f \in i .. n + 1
      BY <2>1, <2>2, LocateIs
    <2>4. w \in Seq(Bytes)
      BY <2>2 DEF EditsAsked
    <2>5. k \in Nat /\ f \in 1 .. n + 1 /\ i =< f /\ x.finish = f
      <3> HIDE DEF k, i, f, w
      <3>1. x.finish = f
        BY <2>1
      <3> QED
        BY <1>1, <2>1, <2>3, <3>1
    <2> HIDE DEF k, i, f, w
    <2>6. x \in EditsOf(source)
      <3>1. x = [index |-> k, start |-> i, finish |-> f, new |-> w]
        BY <2>1
      <3>2. k \in Nat /\ i \in 1 .. n + 1 /\ f \in 1 .. n + 1
        BY <2>1, <2>5
      <3> DEFINE P == 1 .. n + 1
      <3>3. EditsOf(source) = [index : Nat, start : P, finish : P, new : Seq(Bytes)]
        BY DEF EditsOf
      <3>4. i \in P /\ f \in P
        BY <3>2
      <3> HIDE DEF P, n
      <3> QED
        BY <2>4, <3>1, <3>2, <3>3, <3>4
    <2> QED
      BY <2>1, <2>5, <2>6 DEF k, i
  <1>4. ASSUME NEW x \in S, NEW y \in S, x.index = y.index PROVE x = y
    <2> DEFINE k == x.index
    <2>1. /\ k \in 1 .. Len(edits)
          /\ x.start \in LocateEdit(source, edits[k]) /\ y.start \in LocateEdit(source, edits[k])
          /\ x = [index |-> k, start |-> x.start, finish |-> x.start + Len(edits[k].old),
                  new |-> edits[k].new]
          /\ y = [index |-> k, start |-> y.start, finish |-> y.start + Len(edits[k].old),
                  new |-> edits[k].new]
      BY <1>2, <1>4
    <2>2. edits[k] \in EditsAsked
      BY <1>1, <2>1
    <2> HIDE DEF k
    <2>3. x.start = y.start
      BY <2>1, <2>2, LocateIs
    <2> QED
      BY <2>1, <2>3
  <1>5. IsFiniteSet(S) /\ Cardinality(S) =< Len(edits)
    <2> DEFINE f == [x \in S |-> x.index]
               T == 1 .. Len(edits)
    <2>1. IsFiniteSet(T) /\ Cardinality(T) = Len(edits)
      <3> DEFINE m == Len(edits)
      <3>1. m \in Nat
        BY <1>1
      <3> HIDE DEF m
      <3>2. IsFiniteSet(1 .. m) /\ Cardinality(1 .. m) = m
        BY <3>1, FS_Interval
      <3> QED
        BY <3>2 DEF m
    <2>2. f \in [S -> T] /\ DOMAIN f = S
      <3> HIDE DEF T
      <3>1. \A x \in S : x.index \in T
        BY <1>3 DEF T
      <3> QED
        BY <3>1
    <2>3. IsInjective(f)
      <3>1. \A x \in S : f[x] = x.index
        OBVIOUS
      <3>2. \A x, y \in S : f[x] = f[y] => x = y
        BY <1>4, <3>1
      <3> HIDE DEF f
      <3> QED
        BY <2>2, <3>2 DEF IsInjective
    <2> HIDE DEF f, T
    <2>4. f \in Injection(S, T)
      BY <2>2, <2>3 DEF Injection
    <2> QED
      BY <2>1, <2>4, FS_Injection
  <1> QED
    BY <1>3, <1>4, <1>5 DEF S

\* The order of the edits: by place, and by when they were asked at one place.
PlaceOrder(S) ==
  {p \in S \X S : \/ p[1].start < p[2].start
                  \/ p[1].start = p[2].start /\ p[1].index < p[2].index}

\* The edits that are resolved are in the order of their places.
LEMMA ResolvedAre ==
  ASSUME NEW source \in Seq(Bytes), NEW edits \in Seq(EditsAsked)
  PROVE  LET resolved == ResolveEdits(source, edits)
         IN  /\ resolved \in Seq(EditsOf(source)) /\ Len(resolved) =< Len(edits)
             /\ \A i \in 1 .. Len(resolved) : resolved[i].start =< resolved[i].finish
             /\ \A i, j \in 1 .. Len(resolved) :
                  i < j => resolved[i].start =< resolved[j].start
  <1> DEFINE S == Located(source, edits)
             before == PlaceOrder(S)
             s == ResolveEdits(source, edits)
  <1>1. /\ S \subseteq EditsOf(source)
        /\ \A x \in S : x.start =< x.finish /\ x.index \in 1 .. Len(edits)
        /\ \A x, y \in S : x.index = y.index => x = y
        /\ IsFiniteSet(S) /\ Cardinality(S) =< Len(edits)
    BY LocatedAre
  <1>2. s = InOrder(S, before)
    BY DEF ResolveEdits, PlaceOrder
  <1> HIDE DEF S, s
  <1>3. \A x \in S : x.start \in Int /\ x.index \in Int
    <2> TAKE x \in S
    <2>1. x \in EditsOf(source) /\ x.index \in 1 .. Len(edits)
      BY <1>1
    <2>2. x.start \in 1 .. Len(source) + 1
      BY <2>1 DEF EditsOf
    <2>3. x.start \in Int
      BY <2>2
    <2> QED
      BY <2>1, <2>3
  <1>4. \A x, y \in S : <<x, y>> \in before
          <=> \/ x.start < y.start
              \/ x.start = y.start /\ x.index < y.index
    BY DEF PlaceOrder
  <1> HIDE DEF before
  <1>5. Orders(S, before)
    <2>1. \A x \in S : <<x, x>> \notin before
      BY <1>3, <1>4
    <2>2. ASSUME NEW x \in S, NEW y \in S, NEW z \in S,
                 <<x, y>> \in before, <<y, z>> \in before
          PROVE  <<x, z>> \in before
      BY <1>3, <1>4, <2>2
    <2>3. ASSUME NEW x \in S, NEW y \in S, x # y
          PROVE  <<x, y>> \in before \/ <<y, x>> \in before
      <3>1. x.index # y.index
        BY <1>1, <2>3
      <3> QED
        BY <1>3, <1>4, <3>1
    <2> QED
      BY <2>1, <2>2, <2>3 DEF Orders
  <1>6. InTheOrder(S, before, s)
    BY <1>1, <1>2, <1>5, InOrderIs
  <1>7. /\ s \in Seq(S) /\ Len(s) = Cardinality(S)
        /\ \A i, j \in 1 .. Len(s) : i < j => <<s[i], s[j]>> \in before
    BY <1>6 DEF InTheOrder
  <1>8. s \in Seq(EditsOf(source)) /\ \A i \in 1 .. Len(s) : s[i] \in S
    BY <1>1, <1>7
  <1>9. ASSUME NEW i \in 1 .. Len(s), NEW j \in 1 .. Len(s), i < j
        PROVE  s[i].start =< s[j].start
    <2>1. <<s[i], s[j]>> \in before /\ s[i] \in S /\ s[j] \in S
      BY <1>7, <1>8, <1>9
    <2> QED
      BY <1>3, <1>4, <2>1
  <1> QED
    BY <1>1, <1>7, <1>8, <1>9 DEF s

\* Edits that are in order and do not overlap fit.
LEMMA PlansFit ==
  ASSUME NEW source \in Seq(Bytes), NEW edits \in Seq(EditsAsked),
         PlanScriptEdits(source, edits).ok
  PROVE  /\ Fits(source, ResolveEdits(source, edits))
         /\ PlanScriptEdits(source, edits).newSource
              = ApplyWithin(source, ResolveEdits(source, edits), 1,
                            Len(ResolveEdits(source, edits)) + 1, 1, Len(source) + 1)
         /\ PlanScriptEdits(source, edits).diff
              = BuildDiff(source, ResolveEdits(source, edits))
  <1> DEFINE s == ResolveEdits(source, edits)
  <1>1. /\ s \in Seq(EditsOf(source))
        /\ \A i \in 1 .. Len(s) : s[i].start =< s[i].finish
        /\ \A i, j \in 1 .. Len(s) : i < j => s[i].start =< s[j].start
    BY ResolvedAre
  <1>2. /\ \A at \in 2 .. Len(s) : ~Overlap(s[at - 1], s[at])
        /\ PlanScriptEdits(source, edits).newSource
             = ApplyWithin(source, s, 1, Len(s) + 1, 1, Len(source) + 1)
        /\ PlanScriptEdits(source, edits).diff = BuildDiff(source, s)
    BY DEF PlanScriptEdits, Refused
  <1> HIDE DEF s
  <1>3. Len(s) \in Nat /\ Len(source) \in Nat
    BY <1>1
  <1>4. \A i \in 1 .. Len(s) : s[i].start \in Int /\ s[i].finish \in Int
    <2> TAKE i \in 1 .. Len(s)
    <2>1. s[i].start \in 1 .. Len(source) + 1 /\ s[i].finish \in 1 .. Len(source) + 1
      BY <1>1, EditIs
    <2> QED
      BY <2>1
  <1>5. ASSUME NEW i \in 1 .. Len(s), NEW j \in 1 .. Len(s), i < j
        PROVE  s[i].finish =< s[j].start /\ s[i].start < s[j].start
    <2> DEFINE k == i + 1
    <2>1. k \in 2 .. Len(s) /\ k - 1 = i /\ k \in 1 .. Len(s) /\ (k < j \/ k = j) /\ i < k
      BY <1>3, <1>5
    <2> HIDE DEF k
    <2>2. ~Overlap(s[i], s[k])
      <3>1. ~Overlap(s[k - 1], s[k])
        BY <1>2, <2>1
      <3> QED
        BY <2>1, <3>1
    <2>3. ~(s[k].start < s[i].finish) /\ s[k].start # s[i].start
      BY <2>2 DEF Overlap
    <2>4. s[i].start =< s[k].start
      BY <1>1, <2>1
    <2>5. s[k].start =< s[j].start
      <3>1. CASE k < j
        BY <1>1, <2>1, <3>1
      <3>2. CASE k = j
        BY <1>4, <2>1, <3>2
      <3> QED
        BY <2>1, <3>1, <3>2
    <2> QED
      BY <1>4, <2>1, <2>3, <2>4, <2>5
  <1>6. Fits(source, s)
    BY <1>1, <1>5 DEF Fits
  <1> QED
    BY <1>2, <1>6 DEF s

\* The edits before one in the empty line that a final newline leaves drop that newline.
LosesEnd(source, resolved) ==
  LET before == ApplyWithin(source, resolved, 1, Len(resolved), 1, Len(source) + 1)
  IN  /\ EndsLine(source) /\ Len(resolved) > 1
      /\ resolved[Len(resolved)].start = Len(source) + 1
      /\ before # <<>> /\ ~EndsLine(before)

\* planScriptEdits: the diff of a plan is the change of its edits.
THEOREM PlansAreTheChange ==
  ASSUME NEW source \in Seq(Bytes), NEW edits \in Seq(EditsAsked),
         PlanScriptEdits(source, edits).ok,
         ~LosesEnd(source, ResolveEdits(source, edits))
  PROVE  TextLines(PlanScriptEdits(source, edits).newSource)
           \in Patched(TextLines(source), PlanScriptEdits(source, edits).diff)
  <1> DEFINE s == ResolveEdits(source, edits)
  <1>1. /\ Fits(source, s)
        /\ PlanScriptEdits(source, edits).newSource
             = ApplyWithin(source, s, 1, Len(s) + 1, 1, Len(source) + 1)
        /\ PlanScriptEdits(source, edits).diff = BuildDiff(source, s)
    BY PlansFit
  <1>2. ~LosesEnd(source, s)
    OBVIOUS
  <1> HIDE DEF s
  <1>5. EndedBefore(source, s)
    BY <1>2, Zenon DEF EndedBefore, LosesEnd, Closed
  <1>6. TextLines(ApplyWithin(source, s, 1, Len(s) + 1, 1, Len(source) + 1))
          \in Patched(TextLines(source), BuildDiff(source, s))
    BY <1>1, <1>5, BuildDiffRight
  <1> QED
    BY <1>1, <1>6

-----------------------------------------------------------------------------
(***************************************************************************)
(* diffSources.  The edits of the lines that are not alike make one text   *)
(* of the other.                                                           *)
(***************************************************************************)
\* All the lines of a source, the empty one after a final newline as well.
AllLines(s) == [l \in DOMAIN LineStarts(s) |-> LineText(s, l)]

\* Where its first lines end.
EndOf(s, l) == LineEnd(LineStarts(s), s, l)

\* The lines of a source follow each other from end to end.
EndsInTurn(s, count) ==
  /\ count \in Nat /\ count >= 1 /\ Len(s) \in Nat
  /\ AllLines(s) \in Seq(Texts) /\ Len(AllLines(s)) = count
  /\ DOMAIN LineStarts(s) = 1 .. count /\ Len(LineStarts(s)) = count
  /\ EndOf(s, 0) = 1 /\ EndOf(s, count) = Len(s) + 1
  /\ \A l \in 0 .. count : EndOf(s, l) \in 1 .. Len(s) + 1
  /\ \A l \in 1 .. count :
       /\ LineStarts(s)[l] = EndOf(s, l - 1) /\ EndOf(s, l - 1) =< EndOf(s, l)
       /\ AllLines(s)[l] = Cut(s, EndOf(s, l - 1), EndOf(s, l))
  /\ \A k, l \in 0 .. count : k =< l => EndOf(s, k) =< EndOf(s, l)
  /\ \A k, l \in 1 .. count : k < l => EndOf(s, k - 1) < EndOf(s, l - 1)
  /\ \A l \in 1 .. count - 1 : EndsLine(AllLines(s)[l])

\* Where the lines of a text end.
LEMMA EndsAre ==
  ASSUME NEW s \in Seq(Bytes)
  PROVE  EndsInTurn(s, Len(LineStarts(s)))
  <1> DEFINE st == LineStarts(s)
             N == Len(st)
             n == Len(s)
             lines == AllLines(s)
  <1>1. StartsOf(s, n, st) /\ n \in Nat
    BY LineStartsAre
  <1>2. /\ st \in Seq(Nat) /\ N \in Nat /\ N >= 1 /\ st[1] = 1 /\ DOMAIN st = 1 .. N
        /\ \A l \in 1 .. N : 1 =< st[l] /\ st[l] =< n + 1 /\ st[l] \in Nat
        /\ \A k, l \in 1 .. N : k < l => st[k] < st[l]
    BY <1>1 DEF StartsOf
  <1>3. \A l \in 1 .. N : LineText(s, l) = Cut(s, st[l], EndOf(s, l)) /\ LineText(s, l) \in Texts
    BY LineIsCut DEF EndOf, Texts
  <1>4. lines = [l \in 1 .. N |-> LineText(s, l)]
    BY <1>2 DEF AllLines
  <1>5. ASSUME NEW l \in 1 .. N - 1 PROVE EndsLine(LineText(s, l))
    <2>1. l \in 1 .. N /\ l \in l .. N /\ l < N
      BY <1>2
    <2>2. EndsLine(Cut(s, st[l], EndOf(s, l)))
      BY <2>1, LineEnds DEF EndOf
    <2> QED
      BY <1>3, <2>1, <2>2
  <1>6. \A l \in Nat : EndOf(s, l) = IF l < N THEN st[l + 1] ELSE n + 1
    BY DEF EndOf, LineEnd
  <1> HIDE DEF st, n, lines, N
  <1>7. lines \in Seq(Texts) /\ Len(lines) = N /\ \A l \in 1 .. N : lines[l] = LineText(s, l)
    <2>1. lines \in [1 .. N -> Texts]
      BY <1>3, <1>4
    <2> QED
      BY <1>2, <1>4, <2>1
  <1>8. EndOf(s, 0) = 1 /\ EndOf(s, N) = n + 1
    BY <1>2, <1>6
  <1>9. \A l \in 1 .. N : st[l] = EndOf(s, l - 1)
    BY <1>2, <1>6
  <1>10. \A l \in 0 .. N : EndOf(s, l) \in 1 .. n + 1
    <2> TAKE l \in 0 .. N
    <2>1. CASE l < N
      <3>1. l + 1 \in 1 .. N
        BY <1>2, <2>1
      <3> QED
        BY <1>1, <1>2, <1>6, <2>1, <3>1
    <2>2. CASE l = N
      BY <1>1, <1>8, <2>2
    <2> QED
      BY <1>2, <2>1, <2>2
  <1>11. ASSUME NEW k \in 0 .. N, NEW l \in 0 .. N, k =< l PROVE EndOf(s, k) =< EndOf(s, l)
    <2>1. EndOf(s, k) \in 1 .. n + 1 /\ EndOf(s, l) \in 1 .. n + 1
      BY <1>10
    <2>2. CASE k = l
      BY <1>1, <2>1, <2>2
    <2>3. CASE l = N
      BY <1>1, <1>8, <2>1, <2>3
    <2>4. CASE k # l /\ l # N
      <3>1. k + 1 \in 1 .. N /\ l + 1 \in 1 .. N /\ k + 1 < l + 1 /\ k < N /\ l < N
        BY <1>2, <1>11, <2>4
      <3>2. EndOf(s, k) = st[k + 1] /\ EndOf(s, l) = st[l + 1]
        BY <1>6, <3>1
      <3> QED
        BY <1>2, <3>1, <3>2
    <2> QED
      BY <2>2, <2>3, <2>4
  <1>12. \A l \in 1 .. N : EndOf(s, l - 1) =< EndOf(s, l)
    <2> TAKE l \in 1 .. N
    <2>1. l - 1 \in 0 .. N /\ l \in 0 .. N /\ l - 1 =< l
      BY <1>2
    <2> QED
      BY <1>11, <2>1
  <1>13. \A k, l \in 1 .. N : k < l => EndOf(s, k - 1) < EndOf(s, l - 1)
    BY <1>2, <1>9
  <1>14. \A l \in 1 .. N : lines[l] = Cut(s, EndOf(s, l - 1), EndOf(s, l))
    BY <1>3, <1>7, <1>9
  <1>15. \A l \in 1 .. N - 1 : EndsLine(lines[l])
    <2> TAKE l \in 1 .. N - 1
    <2>1. l \in 1 .. N
      BY <1>2
    <2> QED
      BY <1>5, <1>7, <2>1
  <1>16. EndsInTurn(s, N)
    BY <1>1, <1>2, <1>7, <1>8, <1>9, <1>10, <1>11, <1>12, <1>13, <1>14, <1>15
       DEF EndsInTurn, n, lines, st, N
  <1> QED
    BY <1>16 DEF N, st

\* Lines that are alike have the same text.
LEMMA SameLinesSameText ==
  ASSUME NEW s \in Seq(Bytes), NEW t \in Seq(Bytes), NEW c \in Nat, NEW d \in Nat,
         EndsInTurn(s, c), EndsInTurn(t, d), NEW i \in 0 .. c, NEW j \in 0 .. d,
         NEW n \in Nat, i + n =< c, j + n =< d,
         AlikeAt(AllLines(s), i, AllLines(t), j, n)
  PROVE  Cut(s, EndOf(s, i), EndOf(s, i + n)) = Cut(t, EndOf(t, j), EndOf(t, j + n))
  <1> DEFINE E(k) == EndOf(s, i + k)
             F(k) == EndOf(t, j + k)
             S == {k \in 0 .. n : Cut(s, E(0), E(k)) = Cut(t, F(0), F(k))}
  <1>1. /\ \A l \in 0 .. c : EndOf(s, l) \in 1 .. Len(s) + 1
        /\ \A l \in 1 .. c :
             /\ EndOf(s, l - 1) =< EndOf(s, l)
             /\ AllLines(s)[l] = Cut(s, EndOf(s, l - 1), EndOf(s, l))
        /\ \A k, l \in 0 .. c : k =< l => EndOf(s, k) =< EndOf(s, l)
        /\ Len(s) \in Nat
    BY DEF EndsInTurn
  <1>2. /\ \A l \in 0 .. d : EndOf(t, l) \in 1 .. Len(t) + 1
        /\ \A l \in 1 .. d :
             /\ EndOf(t, l - 1) =< EndOf(t, l)
             /\ AllLines(t)[l] = Cut(t, EndOf(t, l - 1), EndOf(t, l))
        /\ \A k, l \in 0 .. d : k =< l => EndOf(t, k) =< EndOf(t, l)
        /\ Len(t) \in Nat
    BY DEF EndsInTurn
  <1>3. \A k \in 0 .. n : i + k \in 0 .. c /\ i =< i + k /\ j + k \in 0 .. d /\ j =< j + k
    OBVIOUS
  <1>4. i + 0 = i /\ j + 0 = j /\ i \in 0 .. c /\ j \in 0 .. d /\ 0 \in 0 .. n
    OBVIOUS
  <1>5. \A k \in 0 .. n : /\ E(k) \in 1 .. Len(s) + 1 /\ E(0) =< E(k)
                          /\ F(k) \in 1 .. Len(t) + 1 /\ F(0) =< F(k)
    BY <1>1, <1>2, <1>3, <1>4
  <1>6. \A k \in 1 .. n :
          /\ E(k - 1) =< E(k) /\ AllLines(s)[i + k] = Cut(s, E(k - 1), E(k))
          /\ F(k - 1) =< F(k) /\ AllLines(t)[j + k] = Cut(t, F(k - 1), F(k))
    <2> TAKE k \in 1 .. n
    <2>1. /\ i + k \in 1 .. c /\ i + k - 1 = i + (k - 1)
          /\ j + k \in 1 .. d /\ j + k - 1 = j + (k - 1)
      OBVIOUS
    <2>2. /\ E(k - 1) = EndOf(s, i + k - 1) /\ F(k - 1) = EndOf(t, j + k - 1)
      BY <2>1
    <2> QED
      BY <1>1, <1>2, <2>1, <2>2
  <1>7. \A k \in 1 .. n : AllLines(s)[i + k] = AllLines(t)[j + k]
    BY DEF AlikeAt
  <1>8. E(0) = EndOf(s, i) /\ F(0) = EndOf(t, j)
    BY <1>4
  <1> HIDE DEF E, F
  <1>9. \A m \in 1 .. Len(s) + 1 : Cut(s, m, m) = <<>>
    <2> TAKE m \in 1 .. Len(s) + 1
    <2>1. Cut(s, m, m) \in Seq(Bytes) /\ Len(Cut(s, m, m)) = m - m
      BY PartIsCut
    <2> QED
      BY <2>1
  <1>10. \A m \in 1 .. Len(t) + 1 : Cut(t, m, m) = <<>>
    <2> TAKE m \in 1 .. Len(t) + 1
    <2>1. Cut(t, m, m) \in Seq(Bytes) /\ Len(Cut(t, m, m)) = m - m
      BY PartIsCut
    <2> QED
      BY <2>1
  <1>11. 0 \in S
    BY <1>4, <1>5, <1>9, <1>10
  <1>12. ASSUME NEW k \in 1 .. n, k - 1 \in S PROVE k \in S
    <2>1. k \in 0 .. n /\ k - 1 \in 0 .. n
      OBVIOUS
    <2>2. /\ E(0) \in 1 .. Len(s) + 1 /\ F(0) \in 1 .. Len(t) + 1
          /\ E(k - 1) \in E(0) .. Len(s) + 1 /\ E(k) \in E(k - 1) .. Len(s) + 1
          /\ F(k - 1) \in F(0) .. Len(t) + 1 /\ F(k) \in F(k - 1) .. Len(t) + 1
      <3>1. /\ E(0) \in 1 .. Len(s) + 1 /\ E(k - 1) \in 1 .. Len(s) + 1
            /\ E(k) \in 1 .. Len(s) + 1 /\ E(0) =< E(k - 1) /\ E(k - 1) =< E(k)
        BY <1>4, <1>5, <1>6, <2>1
      <3>2. /\ F(0) \in 1 .. Len(t) + 1 /\ F(k - 1) \in 1 .. Len(t) + 1
            /\ F(k) \in 1 .. Len(t) + 1 /\ F(0) =< F(k - 1) /\ F(k - 1) =< F(k)
        BY <1>4, <1>5, <1>6, <2>1
      <3>3. Len(s) \in Nat /\ Len(t) \in Nat
        BY <1>1, <1>2
      <3>4. E(k - 1) \in E(0) .. Len(s) + 1 /\ E(k) \in E(k - 1) .. Len(s) + 1
        BY <3>1, <3>3
      <3>5. F(k - 1) \in F(0) .. Len(t) + 1 /\ F(k) \in F(k - 1) .. Len(t) + 1
        BY <3>2, <3>3
      <3> QED
        BY <3>1, <3>2, <3>4, <3>5
    <2>3. /\ Cut(s, E(0), E(k)) = Cut(s, E(0), E(k - 1)) \o Cut(s, E(k - 1), E(k))
          /\ Cut(t, F(0), F(k)) = Cut(t, F(0), F(k - 1)) \o Cut(t, F(k - 1), F(k))
      BY <2>2, CutsJoin
    <2>4. /\ Cut(s, E(0), E(k - 1)) = Cut(t, F(0), F(k - 1))
          /\ Cut(s, E(k - 1), E(k)) = Cut(t, F(k - 1), F(k))
      BY <1>6, <1>7, <1>12
    <2>5. Cut(s, E(0), E(k)) = Cut(t, F(0), F(k))
      BY <2>3, <2>4
    <2> QED
      BY <2>1, <2>5
  <1> HIDE DEF S
  <1>13. n \in 0 .. n
    OBVIOUS
  <1>14. n \in S
    BY <1>11, <1>12, <1>13, Upwards
  <1> QED
    BY <1>8, <1>14 DEF S, E, F

\* Edits that make one text of another.
Rewrites(old, resolved, new) ==
  /\ Fits(old, resolved) /\ EndedBefore(old, resolved)
  /\ ApplyWithin(old, resolved, 1, Len(resolved) + 1, 1, Len(old) + 1) = new

\* One edit of the lines between the ones that are alike.
LEMMA OneEdit ==
  ASSUME NEW old \in Seq(Bytes), NEW new \in Seq(Bytes), NEW c \in Nat, NEW d \in Nat,
         EndsInTurn(old, c), EndsInTurn(new, d),
         NEW p \in Nat, NEW z \in Nat, p + z =< c, p + z =< d,
         AlikeAt(AllLines(old), 0, AllLines(new), 0, p),
         AlikeAt(AllLines(old), c - z, AllLines(new), d - z, z)
  PROVE  Rewrites(old, << [index |-> 1, start |-> EndOf(old, p), finish |-> EndOf(old, c - z),
                           new |-> Cut(new, EndOf(new, p), EndOf(new, d - z))] >>, new)
  <1> DEFINE start == EndOf(old, p)
             finish == EndOf(old, c - z)
             from == EndOf(new, p)
             to == EndOf(new, d - z)
             n == Len(old) + 1
             m == Len(new) + 1
             text == Cut(new, from, to)
             edit == [index |-> 1, start |-> start, finish |-> finish, new |-> text]
             resolved == <<edit>>
  <1>1. /\ Len(old) \in Nat /\ Len(new) \in Nat
        /\ start \in 1 .. n /\ finish \in 1 .. n /\ start =< finish
        /\ from \in 1 .. m /\ to \in 1 .. m /\ from =< to
        /\ EndOf(old, 0) = 1 /\ EndOf(old, c) = n /\ EndOf(new, 0) = 1 /\ EndOf(new, d) = m
    <2>1. /\ p \in 0 .. c /\ c - z \in 0 .. c /\ p =< c - z
          /\ p \in 0 .. d /\ d - z \in 0 .. d /\ p =< d - z
      OBVIOUS
    <2> QED
      BY <2>1 DEF EndsInTurn
  <1>2. Cut(old, 1, start) = Cut(new, 1, from)
    <2>1. /\ 0 \in 0 .. c /\ 0 \in 0 .. d /\ 0 + p = p
          /\ 0 + p =< c /\ 0 + p =< d
      OBVIOUS
    <2>2. Cut(old, EndOf(old, 0), EndOf(old, 0 + p)) = Cut(new, EndOf(new, 0), EndOf(new, 0 + p))
      BY <2>1, SameLinesSameText
    <2> QED
      BY <1>1, <2>1, <2>2
  <1>3. Cut(old, finish, n) = Cut(new, to, m)
    <2> DEFINE i == c - z
               j == d - z
    <2>1. /\ i \in 0 .. c /\ j \in 0 .. d /\ i + z = c /\ j + z = d
          /\ i + z =< c /\ j + z =< d
      OBVIOUS
    <2> HIDE DEF i, j
    <2>2. Cut(old, EndOf(old, i), EndOf(old, i + z)) = Cut(new, EndOf(new, j), EndOf(new, j + z))
      BY <2>1, SameLinesSameText DEF i, j
    <2>3. Cut(old, EndOf(old, i), EndOf(old, c)) = Cut(new, EndOf(new, j), EndOf(new, d))
      BY <2>1, <2>2
    <2> QED
      BY <1>1, <2>3 DEF i, j
  <1> HIDE DEF start, finish, from, to
  <1>4. text \in Seq(Bytes)
    <2>1. from \in 1 .. Len(new) + 1 /\ to \in from .. Len(new) + 1
      BY <1>1
    <2> QED
      BY <2>1, PartIsCut
  <1>5. edit \in EditsOf(old)
    <2> HIDE DEF text
    <2> DEFINE P == 1 .. n
    <2>1. start \in P /\ finish \in P /\ 1 \in Nat
      BY <1>1
    <2>2. EditsOf(old) = [index : Nat, start : P, finish : P, new : Seq(Bytes)]
      BY DEF EditsOf
    <2> HIDE DEF P, n
    <2> QED
      BY <1>4, <2>1, <2>2
  <1>6. edit.start = start /\ edit.finish = finish /\ edit.new = text
    OBVIOUS
  <1> HIDE DEF edit
  <1>7. resolved \in Seq(EditsOf(old)) /\ Len(resolved) = 1 /\ resolved[1] = edit
    BY <1>5
  <1> HIDE DEF resolved
  <1>8. Fits(old, resolved)
    <2>1. \A i \in 1 .. Len(resolved) : i = 1
      BY <1>7
    <2>2. \A i, j \in 1 .. Len(resolved) : ~(i < j)
      BY <1>7
    <2>3. \A i \in 1 .. Len(resolved) : resolved[i].start =< resolved[i].finish
      BY <1>1, <1>6, <1>7, <2>1
    <2> QED
      BY <1>7, <2>2, <2>3 DEF Fits
  <1>9. EndedBefore(old, resolved)
    BY <1>7 DEF EndedBefore
  <1>10. ApplyWithin(old, resolved, 1, 1 + 1, 1, n) = new
    <2>1. /\ 1 \in 1 .. Len(resolved) /\ 1 \in 1 .. Len(resolved) + 1 /\ 1 \in 1 .. Len(old) + 1
          /\ n \in finish .. Len(old) + 1 /\ start \in 1 .. Len(old) + 1
      BY <1>1, <1>7
    <2>2. ApplyWithin(old, resolved, 1, 1 + 1, 1, n)
            = ApplyWithin(old, resolved, 1, 1, 1, resolved[1].start)
                \o resolved[1].new \o Cut(old, resolved[1].finish, n)
      <3>1. n \in resolved[1].finish .. Len(old) + 1
        BY <1>6, <1>7, <2>1
      <3> HIDE DEF n
      <3> QED
        BY <1>7, <2>1, <3>1, ApplyNext
    <2>3. ApplyWithin(old, resolved, 1, 1, 1, start) = Cut(old, 1, start)
      BY <1>7, <2>1, ApplyNone
    <2> HIDE DEF n, m, text
    <2>4. ApplyWithin(old, resolved, 1, 1 + 1, 1, n)
            = Cut(new, 1, from) \o text \o Cut(new, to, m)
      BY <1>2, <1>3, <1>6, <1>7, <2>2, <2>3
    <2>5. /\ 1 \in 1 .. Len(new) + 1 /\ from \in 1 .. Len(new) + 1
          /\ to \in from .. Len(new) + 1 /\ m \in to .. Len(new) + 1
          /\ to \in 1 .. Len(new) + 1 /\ m - 1 = Len(new)
      BY <1>1 DEF m
    <2>6. /\ Cut(new, 1, from) \o Cut(new, from, to) = Cut(new, 1, to)
          /\ Cut(new, 1, to) \o Cut(new, to, m) = Cut(new, 1, m)
      BY <2>5, CutsJoin
    <2>7. Cut(new, 1, m) = new
      <3>1. Cut(new, 1, m) = SubSeq(new, 1, Len(new))
        BY <2>5 DEF Cut
      <3>2. SubSeq(new, 1, Len(new)) = new
        OBVIOUS
      <3> QED
        BY <3>1, <3>2
    <2> QED
      BY <2>4, <2>6, <2>7 DEF text
  <1>11. ApplyWithin(old, resolved, 1, Len(resolved) + 1, 1, n) = new
    <2> HIDE DEF n
    <2> QED
      BY <1>7, <1>10
  <1>12. Rewrites(old, resolved, new)
    BY <1>8, <1>9, <1>11 DEF Rewrites
  <1> QED
    BY <1>12 DEF resolved, edit, start, finish, text, from, to

\* The lines that are not alike, from the first to the last, and an edit of each.
LinesInTurn(old, new, count, at) ==
  /\ at \in Seq(1 .. count)
  /\ \A i, j \in 1 .. Len(at) : i < j => at[i] < at[j]
  /\ \A l \in 1 .. count :
       (\E i \in 1 .. Len(at) : at[i] = l) \/ AllLines(old)[l] = AllLines(new)[l]

\* The edit that replaces a line.
LineEdit(old, new, i, l) ==
  [index |-> i, start |-> LineStarts(old)[l], finish |-> EndOf(old, l), new |-> AllLines(new)[l]]

\* An edit of each line.
LineEditsOf(old, new, at, resolved) ==
  /\ Len(resolved) = Len(at)
  /\ \A i \in 1 .. Len(at) : resolved[i] = LineEdit(old, new, i, at[i])

\* Edits of different lines fit, and only the last line can lack a newline.
LEMMA LineEditsFit ==
  ASSUME NEW old \in Seq(Bytes), NEW new \in Seq(Bytes), NEW c \in Nat,
         EndsInTurn(old, c), EndsInTurn(new, c),
         NEW at, LinesInTurn(old, new, c, at),
         NEW resolved \in Seq(EditsOf(old)), LineEditsOf(old, new, at, resolved)
  PROVE  Fits(old, resolved) /\ EndedBefore(old, resolved)
  <1> DEFINE N == Len(at)
  <1>1. /\ at \in Seq(1 .. c) /\ Len(resolved) = N
        /\ \A i, j \in 1 .. N : i < j => at[i] < at[j]
        /\ \A i \in 1 .. N : resolved[i] = LineEdit(old, new, i, at[i])
    BY DEF LinesInTurn, LineEditsOf
  <1>2. N \in Nat /\ \A i \in 1 .. N : at[i] \in 1 .. c
    BY <1>1
  <1> HIDE DEF N
  <1>3. /\ \A l \in 0 .. c : EndOf(old, l) \in 1 .. Len(old) + 1
        /\ \A l \in 1 .. c : /\ LineStarts(old)[l] = EndOf(old, l - 1)
                             /\ EndOf(old, l - 1) =< EndOf(old, l)
        /\ \A k, l \in 0 .. c : k =< l => EndOf(old, k) =< EndOf(old, l)
        /\ \A k, l \in 1 .. c : k < l => EndOf(old, k - 1) < EndOf(old, l - 1)
        /\ \A l \in 1 .. c - 1 : EndsLine(AllLines(new)[l])
    BY DEF EndsInTurn
  <1>4. \A i \in 1 .. N : /\ resolved[i].start = EndOf(old, at[i] - 1)
                          /\ resolved[i].finish = EndOf(old, at[i])
                          /\ resolved[i].new = AllLines(new)[at[i]]
    <2> TAKE i \in 1 .. N
    <2>1. at[i] \in 1 .. c
      BY <1>2
    <2>2. LineStarts(old)[at[i]] = EndOf(old, at[i] - 1)
      BY <1>3, <2>1
    <2>3. /\ resolved[i].start = LineStarts(old)[at[i]]
          /\ resolved[i].finish = EndOf(old, at[i]) /\ resolved[i].new = AllLines(new)[at[i]]
      BY <1>1 DEF LineEdit
    <2> QED
      BY <2>2, <2>3
  <1>5. \A i \in 1 .. N : resolved[i].start =< resolved[i].finish
    BY <1>2, <1>3, <1>4
  <1>6. ASSUME NEW i \in 1 .. N, NEW j \in 1 .. N, i < j
        PROVE  /\ resolved[i].finish =< resolved[j].start
               /\ resolved[i].start < resolved[j].start
    <2> DEFINE k == at[i]
               l == at[j]
    <2>1. k \in 1 .. c /\ l \in 1 .. c /\ k < l
      BY <1>1, <1>2, <1>6
    <2>2. resolved[i].finish = EndOf(old, k) /\ resolved[j].start = EndOf(old, l - 1)
          /\ resolved[i].start = EndOf(old, k - 1)
      BY <1>4
    <2> HIDE DEF k, l
    <2>3. k \in 0 .. c /\ l - 1 \in 0 .. c /\ k =< l - 1
      BY <2>1
    <2>4. EndOf(old, k) =< EndOf(old, l - 1) /\ EndOf(old, k - 1) < EndOf(old, l - 1)
      BY <1>3, <2>1, <2>3
    <2> QED
      BY <2>2, <2>4
  <1>7. Fits(old, resolved)
    BY <1>1, <1>5, <1>6 DEF Fits
  <1>8. ASSUME NEW i \in 1 .. N - 1 PROVE EndsLine(resolved[i].new)
    <2> DEFINE k == at[i]
               l == at[N]
    <2>1. i \in 1 .. N /\ N \in 1 .. N /\ i < N
      BY <1>2
    <2>2. k \in 1 .. c /\ l \in 1 .. c /\ k < l /\ resolved[i].new = AllLines(new)[k]
      BY <1>1, <1>2, <1>4, <2>1
    <2> HIDE DEF k, l
    <2>3. k \in 1 .. c - 1
      BY <2>2
    <2> QED
      BY <1>3, <2>2, <2>3
  <1>9. EndedBefore(old, resolved)
    BY <1>1, <1>7, <1>8, EndedEdits DEF EndedBefore
  <1> QED
    BY <1>7, <1>9

\* The lines up to one, with the edits of them applied, are those of the new text.
RewrittenTo(old, new, at, resolved, l) ==
  \E k \in 1 .. Len(at) + 1 :
    /\ \A i \in 1 .. k - 1 : at[i] =< l
    /\ \A i \in k .. Len(at) : at[i] > l
    /\ ApplyWithin(old, resolved, 1, k, 1, EndOf(old, l)) = Cut(new, 1, EndOf(new, l))

\* One line more, whether it is edited or alike.
LEMMA RewritesNext ==
  ASSUME NEW old \in Seq(Bytes), NEW new \in Seq(Bytes), NEW c \in Nat,
         EndsInTurn(old, c), EndsInTurn(new, c),
         NEW at, LinesInTurn(old, new, c, at),
         NEW resolved \in Seq(EditsOf(old)), LineEditsOf(old, new, at, resolved),
         NEW l \in 1 .. c, RewrittenTo(old, new, at, resolved, l - 1)
  PROVE  RewrittenTo(old, new, at, resolved, l)
  <1> DEFINE N == Len(at)
             e == EndOf(old, l - 1)
             f == EndOf(old, l)
             g == EndOf(new, l - 1)
             h == EndOf(new, l)
             n == Len(old) + 1
             m == Len(new) + 1
  <1>1. /\ at \in Seq(1 .. c) /\ Len(resolved) = N
        /\ \A i, j \in 1 .. N : i < j => at[i] < at[j]
        /\ \A i \in 1 .. N : resolved[i] = LineEdit(old, new, i, at[i])
    BY DEF LinesInTurn, LineEditsOf
  <1>2. N \in Nat /\ \A i \in 1 .. N : at[i] \in 1 .. c
    BY <1>1
  <1>3. Fits(old, resolved)
    BY LineEditsFit
  <1>4. /\ \A k, j \in 0 .. c : k =< j => EndOf(old, k) =< EndOf(old, j)
        /\ LineStarts(old)[l] = e /\ AllLines(old)[l] = Cut(old, e, f)
        /\ AllLines(new)[l] = Cut(new, g, h)
    BY DEF EndsInTurn
  <1>5. /\ e \in 1 .. n /\ f \in 1 .. n /\ e =< f
        /\ g \in 1 .. m /\ h \in 1 .. m /\ g =< h
        /\ Len(old) \in Nat /\ Len(new) \in Nat /\ l - 1 \in 0 .. c /\ l \in 0 .. c
    <2>1. l - 1 \in 0 .. c /\ l \in 0 .. c
      OBVIOUS
    <2> QED
      BY <2>1 DEF EndsInTurn
  <1> HIDE DEF N
  <1>6. PICK k \in 1 .. N + 1 :
          /\ \A i \in 1 .. k - 1 : at[i] =< l - 1
          /\ \A i \in k .. N : at[i] > l - 1
          /\ ApplyWithin(old, resolved, 1, k, 1, e) = Cut(new, 1, g)
    BY DEF RewrittenTo, N
  <1> HIDE DEF e, f, g, h
  <1>7. Cut(new, 1, h) = Cut(new, 1, g) \o Cut(new, g, h)
    <2>1. 1 \in 1 .. Len(new) + 1 /\ g \in 1 .. Len(new) + 1 /\ h \in g .. Len(new) + 1
      BY <1>5
    <2> QED
      BY <2>1, CutsJoin
  <1>8. CASE \E i \in 1 .. N : at[i] = l
    <2>1. PICK j \in 1 .. N : at[j] = l
      BY <1>8
    <2>2. j = k
      <3>1. ~(j < k)
        <4>1. j < k => j \in 1 .. k - 1
          BY <1>2
        <4>2. j < k => l =< l - 1
          BY <1>6, <2>1, <4>1
        <4> QED
          BY <4>2
      <3>2. ~(k < j)
        <4>1. k < j => k \in 1 .. N /\ k \in k .. N
          BY <1>2
        <4>2. k < j => at[k] < l /\ at[k] > l - 1 /\ at[k] \in Int
          BY <1>1, <1>2, <1>6, <2>1, <4>1
        <4> QED
          BY <4>2
      <3> QED
        BY <1>2, <3>1, <3>2
    <2>3. k \in 1 .. N /\ at[k] = l
      BY <2>1, <2>2
    <2>4. resolved[k].start = e /\ resolved[k].finish = f /\ resolved[k].new = Cut(new, g, h)
      BY <1>1, <1>4, <2>3 DEF LineEdit, f
    <2>5. ApplyWithin(old, resolved, 1, k + 1, 1, f)
            = ApplyWithin(old, resolved, 1, k, 1, e) \o Cut(new, g, h) \o Cut(old, f, f)
      <3>1. /\ 1 \in 1 .. Len(resolved) /\ k \in 1 .. Len(resolved) /\ 1 \in 1 .. Len(old) + 1
            /\ f \in resolved[k].finish .. Len(old) + 1
        BY <1>1, <1>2, <1>5, <2>3, <2>4
      <3>2. ApplyWithin(old, resolved, 1, k + 1, 1, f)
              = ApplyWithin(old, resolved, 1, k, 1, resolved[k].start)
                  \o resolved[k].new \o Cut(old, resolved[k].finish, f)
        BY <3>1, ApplyNext
      <3> QED
        BY <2>4, <3>2
    <2>6. Cut(old, f, f) = <<>>
      <3>1. f \in 1 .. Len(old) + 1 /\ f \in f .. Len(old) + 1 /\ f - f = 0
        BY <1>5
      <3>2. Cut(old, f, f) \in Seq(Bytes) /\ Len(Cut(old, f, f)) = f - f
        BY <3>1, PartIsCut
      <3> QED
        BY <3>1, <3>2
    <2>7. Cut(new, 1, h) \in Seq(Bytes)
      <3>1. 1 \in 1 .. Len(new) + 1 /\ h \in 1 .. Len(new) + 1
        BY <1>5
      <3> QED
        BY <3>1, PartIsCut
    <2>8. Cut(new, 1, h) \o <<>> = Cut(new, 1, h)
      <3> DEFINE t == Cut(new, 1, h)
      <3> HIDE DEF t
      <3> QED
        BY <2>7 DEF t
    <2>9. ApplyWithin(old, resolved, 1, k + 1, 1, f) = Cut(new, 1, h)
      BY <1>6, <1>7, <2>5, <2>6, <2>8
    <2>10. \A i \in 1 .. (k + 1) - 1 : at[i] =< l
      <3> TAKE i \in 1 .. (k + 1) - 1
      <3>1. i = k \/ i \in 1 .. k - 1
        OBVIOUS
      <3>2. i \in 1 .. N
        BY <1>2, <2>3
      <3>3. at[i] \in Int
        BY <1>2, <3>2
      <3> QED
        BY <1>6, <2>3, <3>1, <3>3
    <2>11. \A i \in k + 1 .. N : at[i] > l
      <3> TAKE i \in k + 1 .. N
      <3>1. i \in 1 .. N /\ k < i
        BY <1>2
      <3>2. at[k] < at[i] /\ at[i] \in Int
        BY <1>1, <1>2, <2>3, <3>1
      <3> QED
        BY <2>3, <3>2
    <2>12. k + 1 \in 1 .. N + 1
      BY <1>2, <2>3
    <2> QED
      BY <2>9, <2>10, <2>11, <2>12 DEF RewrittenTo, N, f, h
  <1>9. CASE ~ \E i \in 1 .. N : at[i] = l
    <2>1. Cut(old, e, f) = Cut(new, g, h)
      <3>1. AllLines(old)[l] = AllLines(new)[l]
        BY <1>9 DEF LinesInTurn, N
      <3> QED
        BY <1>4, <3>1
    <2>2. \A i \in 1 .. k - 1 : resolved[i].finish =< e
      <3> TAKE i \in 1 .. k - 1
      <3>1. i \in 1 .. N
        BY <1>2
      <3>2. at[i] \in 0 .. c /\ at[i] =< l - 1
        <4>1. at[i] \in 1 .. c
          BY <1>2, <3>1
        <4> QED
          BY <1>6, <4>1
      <3>3. resolved[i].finish = EndOf(old, at[i])
        BY <1>1, <3>1 DEF LineEdit
      <3>4. EndOf(old, at[i]) =< EndOf(old, l - 1)
        BY <1>4, <1>5, <3>2
      <3> QED
        BY <3>3, <3>4 DEF e
    <2>3. ApplyWithin(old, resolved, 1, k, 1, f)
            = ApplyWithin(old, resolved, 1, k, 1, e) \o Cut(old, e, f)
      <3>1. /\ 1 \in 1 .. Len(resolved) + 1 /\ k \in 1 .. Len(resolved) + 1
            /\ 1 \in 1 .. Len(old) + 1 /\ e \in 1 .. Len(old) + 1 /\ f \in e .. Len(old) + 1
        BY <1>1, <1>2, <1>5
      <3> QED
        BY <1>3, <2>2, <3>1, ApplyMore
    <2>4. ApplyWithin(old, resolved, 1, k, 1, f) = Cut(new, 1, h)
      BY <1>6, <1>7, <2>1, <2>3
    <2>5. \A i \in 1 .. k - 1 : at[i] =< l
      <3> TAKE i \in 1 .. k - 1
      <3>1. i \in 1 .. N
        BY <1>2
      <3>2. at[i] \in Int /\ at[i] =< l - 1
        BY <1>2, <1>6, <3>1
      <3> QED
        BY <3>2
    <2>6. \A i \in k .. N : at[i] > l
      <3> TAKE i \in k .. N
      <3>1. i \in 1 .. N
        BY <1>2
      <3>2. at[i] \in Int /\ at[i] > l - 1 /\ at[i] # l
        BY <1>2, <1>6, <1>9, <3>1
      <3> QED
        BY <3>2
    <2> QED
      BY <2>4, <2>5, <2>6 DEF RewrittenTo, N, f, h
  <1> QED
    BY <1>8, <1>9

\* Edits of the lines that are not alike make one text of the other.
LEMMA LineEditsRewrite ==
  ASSUME NEW old \in Seq(Bytes), NEW new \in Seq(Bytes), NEW c \in Nat,
         EndsInTurn(old, c), EndsInTurn(new, c),
         NEW at, LinesInTurn(old, new, c, at),
         NEW resolved \in Seq(EditsOf(old)), LineEditsOf(old, new, at, resolved)
  PROVE  Rewrites(old, resolved, new)
  <1> DEFINE N == Len(at)
             S == {l \in 0 .. c : RewrittenTo(old, new, at, resolved, l)}
  <1>1. at \in Seq(1 .. c) /\ Len(resolved) = N
    BY DEF LinesInTurn, LineEditsOf
  <1>2. N \in Nat /\ \A i \in 1 .. N : at[i] \in 1 .. c
    BY <1>1
  <1>3. /\ Len(old) \in Nat /\ Len(new) \in Nat
        /\ EndOf(old, 0) = 1 /\ EndOf(old, c) = Len(old) + 1
        /\ EndOf(new, 0) = 1 /\ EndOf(new, c) = Len(new) + 1
    BY DEF EndsInTurn
  <1> HIDE DEF N
  <1>4. RewrittenTo(old, new, at, resolved, 0)
    <2>1. /\ 1 \in 1 .. N + 1 /\ 1 \in 1 .. Len(resolved) + 1 /\ 1 \in 1 .. Len(old) + 1
          /\ 1 \in 1 .. Len(new) + 1 /\ 1 - 1 = 0
      BY <1>1, <1>2, <1>3
    <2>2. ApplyWithin(old, resolved, 1, 1, 1, 1) = Cut(old, 1, 1)
      BY <2>1, ApplyNone
    <2>3. Cut(old, 1, 1) = <<>> /\ Cut(new, 1, 1) = <<>>
      <3>1. /\ Cut(old, 1, 1) \in Seq(Bytes) /\ Len(Cut(old, 1, 1)) = 1 - 1
            /\ Cut(new, 1, 1) \in Seq(Bytes) /\ Len(Cut(new, 1, 1)) = 1 - 1
        BY <2>1, PartIsCut
      <3> QED
        BY <2>1, <3>1
    <2>4. \A i \in 1 .. 1 - 1 : at[i] =< 0
      OBVIOUS
    <2>5. \A i \in 1 .. N : at[i] > 0
      BY <1>2
    <2> QED
      BY <1>3, <2>1, <2>2, <2>3, <2>4, <2>5 DEF RewrittenTo, N
  <1>5. ASSUME NEW l \in 1 .. c, l - 1 \in S PROVE l \in S
    BY <1>5, RewritesNext
  <1>6. 0 \in S /\ c \in 0 .. c
    BY <1>4
  <1> HIDE DEF S
  <1>7. c \in S
    BY <1>5, <1>6, Upwards
  <1>8. PICK k \in 1 .. N + 1 :
          /\ \A i \in k .. N : at[i] > c
          /\ ApplyWithin(old, resolved, 1, k, 1, EndOf(old, c)) = Cut(new, 1, EndOf(new, c))
    BY <1>7 DEF S, RewrittenTo, N
  <1>9. k = N + 1
    <2>1. k =< N => k \in k .. N /\ k \in 1 .. N
      BY <1>2
    <2>2. k =< N => at[k] > c /\ at[k] \in 1 .. c
      BY <1>2, <1>8, <2>1
    <2> QED
      BY <1>2, <2>2
  <1>10. Cut(new, 1, Len(new) + 1) = new
    <2>1. Len(new) + 1 - 1 = Len(new)
      BY <1>3
    <2>2. SubSeq(new, 1, Len(new)) = new
      OBVIOUS
    <2> QED
      BY <2>1, <2>2 DEF Cut
  <1>11. ApplyWithin(old, resolved, 1, Len(resolved) + 1, 1, Len(old) + 1) = new
    BY <1>1, <1>3, <1>8, <1>9, <1>10
  <1> QED
    BY <1>11, LineEditsFit DEF Rewrites

\* The edits that diffSources makes of two texts.
EditsBetween(old, new, p, z) ==
  LET c == Len(AllLines(old))
      d == Len(AllLines(new))
      changed == {l \in p + 1 .. c - z : AllLines(old)[l] # AllLines(new)[l]}
      inOrder == InOrder(changed, {q \in changed \X changed : q[1] < q[2]})
      StartOf(source, line) ==
        IF line \in DOMAIN LineStarts(source) THEN LineStarts(source)[line] ELSE Len(source) + 1
  IN  IF c = d
      THEN [i \in 1 .. Cardinality(changed) |->
              [index |-> i, start |-> StartOf(old, inOrder[i]),
               finish |-> EndOf(old, inOrder[i]), new |-> AllLines(new)[inOrder[i]]]]
      ELSE << [index |-> 1, start |-> StartOf(old, p + 1), finish |-> EndOf(old, c - z),
               new |-> Part(new, StartOf(new, p + 1), EndOf(new, d - z) - 1)] >>

\* They make the new text of the old one.
LEMMA EditsBetweenRewrite ==
  ASSUME NEW old \in Seq(Bytes), NEW new \in Seq(Bytes), NEW c \in Nat, NEW d \in Nat,
         EndsInTurn(old, c), EndsInTurn(new, d),
         NEW p \in Nat, NEW z \in Nat, p + z =< c, p + z =< d,
         AlikeAt(AllLines(old), 0, AllLines(new), 0, p),
         AlikeAt(AllLines(old), c - z, AllLines(new), d - z, z)
  PROVE  Rewrites(old, EditsBetween(old, new, p, z), new)
  <1> DEFINE StartOf(source, line) ==
               IF line \in DOMAIN LineStarts(source) THEN LineStarts(source)[line]
               ELSE Len(source) + 1
             changed == {l \in p + 1 .. c - z : AllLines(old)[l] # AllLines(new)[l]}
             before == {q \in changed \X changed : q[1] < q[2]}
             at == InOrder(changed, before)
  <1>1. /\ Len(AllLines(old)) = c /\ Len(AllLines(new)) = d
        /\ DOMAIN LineStarts(old) = 1 .. c /\ DOMAIN LineStarts(new) = 1 .. d
        /\ \A l \in 1 .. c : LineStarts(old)[l] = EndOf(old, l - 1)
        /\ \A l \in 1 .. d : LineStarts(new)[l] = EndOf(new, l - 1)
        /\ EndOf(old, c) = Len(old) + 1 /\ EndOf(new, d) = Len(new) + 1
    BY DEF EndsInTurn
  <1>2. CASE c # d
    <2> DEFINE e == EndOf(old, p)
               g == EndOf(new, p)
               h == EndOf(new, d - z)
    <2>1. StartOf(old, p + 1) = e
      <3>1. CASE p + 1 =< c
        <4>1. p + 1 \in 1 .. c /\ p + 1 - 1 = p
          BY <3>1
        <4> QED
          BY <1>1, <4>1
      <3>2. CASE ~(p + 1 =< c)
        <4>1. p + 1 \notin 1 .. c /\ p = c
          BY <3>2
        <4> QED
          BY <1>1, <4>1
      <3> QED
        BY <3>1, <3>2
    <2>2. StartOf(new, p + 1) = g
      <3>1. CASE p + 1 =< d
        <4>1. p + 1 \in 1 .. d /\ p + 1 - 1 = p
          BY <3>1
        <4> QED
          BY <1>1, <4>1
      <3>2. CASE ~(p + 1 =< d)
        <4>1. p + 1 \notin 1 .. d /\ p = d
          BY <3>2
        <4> QED
          BY <1>1, <4>1
      <3> QED
        BY <3>1, <3>2
    <2>3. Part(new, g, h - 1) = Cut(new, g, h)
      <3>1. p \in 0 .. d /\ d - z \in 0 .. d /\ p =< d - z
        OBVIOUS
      <3>2. /\ Len(new) \in Nat /\ g \in 1 .. Len(new) + 1 /\ h \in 1 .. Len(new) + 1 /\ g =< h
        BY <3>1 DEF EndsInTurn
      <3> HIDE DEF g, h
      <3>3. h \in g .. Len(new) + 1
        BY <3>2
      <3> QED
        BY <3>2, <3>3, PartIsCut
    <2>4. EditsBetween(old, new, p, z)
            = << [index |-> 1, start |-> StartOf(old, p + 1), finish |-> EndOf(old, c - z),
                  new |-> Part(new, StartOf(new, p + 1), h - 1)] >>
      BY <1>1, <1>2, Zenon DEF EditsBetween
    <2> HIDE DEF StartOf, e, g, h
    <2>5. EditsBetween(old, new, p, z)
            = << [index |-> 1, start |-> e, finish |-> EndOf(old, c - z),
                  new |-> Cut(new, g, h)] >>
      BY <2>1, <2>2, <2>3, <2>4
    <2> QED
      BY <2>5, OneEdit DEF e, g, h
  <1>3. CASE c = d
    <2>1. IsFiniteSet(changed) /\ changed \subseteq 1 .. c
      <3>1. changed \in SUBSET (1 .. c)
        OBVIOUS
      <3>2. IsFiniteSet(1 .. c)
        BY FS_Interval
      <3> HIDE DEF changed
      <3> QED
        BY <3>1, <3>2, FS_Subset
    <2>2. \A l \in 1 .. c : l \notin changed => AllLines(old)[l] = AllLines(new)[l]
      <3> TAKE l \in 1 .. c
      <3>1. CASE l =< p
        <4>1. l \in 1 .. p /\ 0 + l = l
          BY <3>1
        <4>2. AllLines(old)[0 + l] = AllLines(new)[0 + l]
          BY <4>1 DEF AlikeAt
        <4> QED
          BY <4>1, <4>2
      <3>2. CASE l > c - z
        <4> DEFINE k == l - (c - z)
        <4>1. k \in 1 .. z /\ c - z + k = l /\ d - z + k = l
          BY <1>3, <3>2
        <4> HIDE DEF k
        <4>2. AllLines(old)[c - z + k] = AllLines(new)[d - z + k]
          BY <4>1 DEF AlikeAt
        <4> QED
          BY <4>1, <4>2
      <3>3. CASE ~(l =< p) /\ ~(l > c - z)
        BY <3>3
      <3> QED
        BY <3>1, <3>2, <3>3
    <2> HIDE DEF changed
    <2>3. \A k, l \in changed : <<k, l>> \in before <=> k < l
      OBVIOUS
    <2>4. \A k \in changed : k \in Int
      BY <2>1
    <2> HIDE DEF before
    <2>5. Orders(changed, before)
      BY <2>3, <2>4 DEF Orders
    <2>6. InTheOrder(changed, before, at)
      BY <2>1, <2>5, InOrderIs
    <2>7. /\ at \in Seq(changed) /\ Len(at) = Cardinality(changed)
          /\ \A i, j \in 1 .. Len(at) : i < j => <<at[i], at[j]>> \in before
          /\ \A l \in changed : \E i \in 1 .. Len(at) : at[i] = l
      BY <2>6 DEF InTheOrder
    <2> DEFINE resolved == EditsBetween(old, new, p, z)
               n == Len(at)
    <2>8. resolved = [i \in 1 .. n |->
                        [index |-> i, start |-> StartOf(old, at[i]),
                         finish |-> EndOf(old, at[i]), new |-> AllLines(new)[at[i]]]]
      <3>1. resolved = [i \in 1 .. Cardinality(changed) |->
                        [index |-> i, start |-> StartOf(old, at[i]),
                         finish |-> EndOf(old, at[i]), new |-> AllLines(new)[at[i]]]]
        BY <1>1, <1>3, Zenon DEF EditsBetween, changed, before
      <3> HIDE DEF resolved, at
      <3> QED
        BY <2>7, <3>1
    <2> HIDE DEF at, resolved
    <2>9. n \in Nat /\ \A i \in 1 .. n : at[i] \in changed /\ at[i] \in 1 .. c
      <3>1. at \in Seq(changed)
        BY <2>7
      <3>2. n \in Nat /\ \A i \in 1 .. n : at[i] \in changed
        BY <3>1
      <3> HIDE DEF n
      <3> QED
        BY <2>1, <3>2
    <2>10. \A i \in 1 .. n : resolved[i] = LineEdit(old, new, i, at[i])
      <3> TAKE i \in 1 .. n
      <3>1. at[i] \in DOMAIN LineStarts(old)
        BY <1>1, <2>9
      <3>2. StartOf(old, at[i]) = LineStarts(old)[at[i]]
        BY <3>1
      <3>3. resolved[i] = [index |-> i, start |-> StartOf(old, at[i]),
                           finish |-> EndOf(old, at[i]), new |-> AllLines(new)[at[i]]]
        <4> HIDE DEF StartOf, n
        <4> QED
          BY <2>8
      <3> HIDE DEF StartOf
      <3> QED
        BY <3>2, <3>3 DEF LineEdit
    <2> HIDE DEF n, StartOf
    <2>11. \A i \in 1 .. n : resolved[i] \in EditsOf(old)
      <3> TAKE i \in 1 .. n
      <3> DEFINE l == at[i]
                 a == LineStarts(old)[l]
                 b == EndOf(old, l)
                 w == AllLines(new)[l]
                 P == 1 .. Len(old) + 1
      <3>1. l \in 1 .. c /\ l - 1 \in 0 .. c /\ l \in 0 .. c /\ l \in 1 .. d
        <4>1. l \in 1 .. c
          BY <2>9
        <4> HIDE DEF l
        <4> QED
          BY <1>3, <4>1
      <3>2. a \in P /\ b \in P
        <4>1. EndOf(old, l - 1) \in P /\ EndOf(old, l) \in P
          BY <3>1 DEF EndsInTurn
        <4> HIDE DEF l
        <4> QED
          BY <1>1, <3>1, <4>1
      <3>3. w \in Seq(Bytes)
        <4>1. AllLines(new) \in Seq(Texts) /\ Len(AllLines(new)) = d
          BY DEF EndsInTurn
        <4>2. w \in Texts
          BY <3>1, <4>1
        <4> QED
          BY <4>2 DEF Texts
      <3>4. i \in Nat
        BY <2>9
      <3>5. resolved[i] = [index |-> i, start |-> a, finish |-> b, new |-> w]
        BY <2>10 DEF LineEdit
      <3>6. EditsOf(old) = [index : Nat, start : P, finish : P, new : Seq(Bytes)]
        BY DEF EditsOf
      <3> HIDE DEF P, a, b, w, l
      <3> QED
        BY <3>2, <3>3, <3>4, <3>5, <3>6
    <2>12. resolved \in Seq(EditsOf(old)) /\ Len(resolved) = n
      <3>1. resolved \in [1 .. n -> EditsOf(old)]
        BY <2>8, <2>11
      <3> QED
        BY <2>9, <3>1
    <2>13. LineEditsOf(old, new, at, resolved)
      BY <2>10, <2>12 DEF LineEditsOf, n
    <2>14. LinesInTurn(old, new, c, at)
      <3>1. at \in Seq(1 .. c)
        <4>1. at \in Seq(changed)
          BY <2>7
        <4> DEFINE R == 1 .. c
        <4>2. changed \subseteq R
          BY <2>1
        <4> HIDE DEF R
        <4>3. at \in Seq(R)
          BY <4>1, <4>2
        <4> QED
          BY <4>3 DEF R
      <3>2. \A i, j \in 1 .. n : i < j => at[i] < at[j]
        BY <2>3, <2>7, <2>9 DEF n
      <3>3. \A l \in 1 .. c : (\E i \in 1 .. n : at[i] = l) \/ AllLines(old)[l] = AllLines(new)[l]
        BY <2>2, <2>7 DEF n
      <3> QED
        BY <3>1, <3>2, <3>3 DEF LinesInTurn, n
    <2>15. EndsInTurn(new, c)
      BY <1>3
    <2> QED
      BY <2>12, <2>13, <2>14, <2>15, LineEditsRewrite DEF resolved
  <1> QED
    BY <1>2, <1>3

\* diffSources: the diff of two texts is the change from one to the other.
THEOREM DiffsOfTexts ==
  ASSUME NEW old \in Seq(Bytes), NEW new \in Seq(Bytes)
  PROVE  TextLines(new) \in Patched(TextLines(old), DiffSources(old, new))
  <1> DEFINE s == AllLines(old)
             t == AllLines(new)
             p == CommonPrefix(s, t, Shorter(s, t))
             z == CommonPrefix(Reverse(s), Reverse(t), Shorter(s, t) - p)
             resolved == EditsBetween(old, new, p, z)
             c == Len(LineStarts(old))
             d == Len(LineStarts(new))
  <1>1. CASE old = new
    <2> DEFINE lines == TextLines(old)
    <2>1. DiffSources(old, new) = <<>>
      BY <1>1 DEF DiffSources
    <2>2. lines \in Seq(Texts)
      BY LinesAre DEF Texts
    <2> HIDE DEF lines
    <2>3. Leads(lines, <<>>, Unpatched)
      BY <2>2, PatchNone
    <2>4. PICK f : Patches(lines, <<>>, f) /\ f[Len(<<>>)] = Unpatched
      BY <2>3 DEF Leads
    <2>5. Patched(lines, <<>>) = {<<>> \o SubSeq(lines, 0 + 1, Len(lines))}
      BY <2>4 DEF Patches, Unpatched
    <2>6. <<>> \o SubSeq(lines, 0 + 1, Len(lines)) = lines
      <3>1. SubSeq(lines, 1, Len(lines)) = lines /\ 0 + 1 = 1
        BY <2>2
      <3>2. <<>> \o lines = lines
        BY <2>2
      <3> QED
        BY <3>1, <3>2
    <2>7. lines \in Patched(lines, <<>>)
      BY <2>5, <2>6
    <2> QED
      BY <1>1, <2>1, <2>7 DEF lines
  <1>2. CASE old # new
    <2>1. DiffSources(old, new) = BuildDiff(old, resolved)
      BY <1>2, Zenon DEF DiffSources, EditsBetween, AllLines, EndOf
    <2>2. EndsInTurn(old, c) /\ EndsInTurn(new, d)
      BY EndsAre
    <2> HIDE DEF c, d
    <2>3. c \in Nat /\ d \in Nat /\ s \in Seq(Texts) /\ t \in Seq(Texts) /\ Len(s) = c /\ Len(t) = d
      BY <2>2 DEF EndsInTurn
    <2> HIDE DEF s, t
    <2>4. /\ p \in Nat /\ z \in Nat /\ p + z =< Len(s) /\ p + z =< Len(t)
          /\ Alike(s, t, p) /\ AlikeAt(s, Len(s) - z, t, Len(t) - z, z)
      BY <2>3, EndsAlike
    <2> HIDE DEF p, z
    <2>5. AlikeAt(s, 0, t, 0, p)
      <3>1. \A k \in 1 .. p : 0 + k = k /\ s[k] = t[k]
        BY <2>4 DEF Alike
      <3> QED
        BY <3>1 DEF AlikeAt
    <2>6. /\ p \in Nat /\ z \in Nat /\ p + z =< c /\ p + z =< d
          /\ AlikeAt(s, c - z, t, d - z, z)
      BY <2>3, <2>4
    <2>7. Rewrites(old, resolved, new)
      BY <2>2, <2>3, <2>5, <2>6, EditsBetweenRewrite DEF s, t
    <2> HIDE DEF resolved
    <2>8. TextLines(ApplyWithin(old, resolved, 1, Len(resolved) + 1, 1, Len(old) + 1))
            \in Patched(TextLines(old), BuildDiff(old, resolved))
      BY <2>7, BuildDiffRight DEF Rewrites
    <2>9. ApplyWithin(old, resolved, 1, Len(resolved) + 1, 1, Len(old) + 1) = new
      BY <2>7 DEF Rewrites
    <2> QED
      BY <2>1, <2>8, <2>9
  <1> QED
    BY <1>1, <1>2

\* The diff of a preview is the change that is written, for an edit that is planned as
\* for a source that is replaced.
THEOREM DiffsAreTheChange == ScriptSpec => []DiffIsTheChange
  <1>1. ScriptInit => DiffIsTheChange
    BY DEF ScriptInit, DiffIsTheChange, Refused
  <1>2. DiffIsTheChange /\ [ScriptNext]_scriptVars => DiffIsTheChange'
    <2> SUFFICES ASSUME DiffIsTheChange, [ScriptNext]_scriptVars PROVE DiffIsTheChange'
      OBVIOUS
    <2>1. ASSUME NEW source \in Sources, NEW edits \in EditLists, PlansEdits(source, edits)
          PROVE  DiffIsTheChange'
      <3>1. /\ asked'.source = source /\ asked'.edits = edits
            /\ plan' = PlanScriptEdits(source, edits)
        BY <2>1 DEF PlansEdits
      <3>2. source \in Seq(Bytes) /\ edits \in Seq(EditsAsked)
        BY ScriptsAssumption DEF EditsAsked
      <3> SUFFICES ASSUME plan'.ok, ~JoinsLastLine'
                   PROVE  TextLines(plan'.newSource)
                            \in Patched(TextLines(asked'.source), plan'.diff)
        BY DEF DiffIsTheChange
      <3>3. ~LosesEnd(source, ResolveEdits(source, edits))
        BY <3>1, Zenon DEF JoinsLastLine, LosesEnd
      <3>4. TextLines(PlanScriptEdits(source, edits).newSource)
              \in Patched(TextLines(source), PlanScriptEdits(source, edits).diff)
        BY <3>1, <3>2, <3>3, PlansAreTheChange
      <3> QED
        BY <3>1, <3>4
    <2>2. ASSUME NEW old \in Sources, NEW new \in Sources, PreviewsReplacement(old, new)
          PROVE  DiffIsTheChange'
      <3>1. /\ asked'.source = old /\ plan'.newSource = new
            /\ plan'.diff = DiffSources(old, new)
        BY <2>2 DEF PreviewsReplacement
      <3>2. old \in Seq(Bytes) /\ new \in Seq(Bytes)
        BY ScriptsAssumption
      <3>3. TextLines(new) \in Patched(TextLines(old), DiffSources(old, new))
        BY <3>2, DiffsOfTexts
      <3> QED
        BY <3>1, <3>3 DEF DiffIsTheChange
    <2>3. ASSUME UNCHANGED scriptVars PROVE DiffIsTheChange'
      <3>1. asked' = asked /\ plan' = plan
        BY <2>3 DEF scriptVars
      <3> QED
        BY <3>1 DEF DiffIsTheChange, JoinsLastLine
    <2> QED
      BY <2>1, <2>2, <2>3 DEF ScriptNext
  <1> QED
    BY <1>1, <1>2, PTL DEF ScriptSpec

=============================================================================
