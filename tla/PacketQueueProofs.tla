-------------------------- MODULE PacketQueueProofs --------------------------
(***************************************************************************)
(* PacketQueue implements PacketFifo, for any packets that fit the ring and *)
(* any size of it.                                                         *)
(*                                                                         *)
(* Every byte in the ring is in the frame of a packet or in the first part  *)
(* of one.  A begin is nowhere but first in a frame and an end nowhere but  *)
(* last, so that what lies between two ends is abandoned frames and, after  *)
(* them, a whole one; and the parser forgets all that was before a begin.   *)
(***************************************************************************)
EXTENDS PacketQueue, FiniteSetTheorems, WellFoundedInduction, TLAPS

Byte == 0..255

-----------------------------------------------------------------------------
(* Induction and recursion, over sets and functions. *)

\* A set of natural numbers that is not empty has a least element.
LEMMA LeastNatural ==
  ASSUME NEW T, T \subseteq Nat, T # {}
  PROVE  \E x \in T : \A y \in T : x <= y
<1> DEFINE R == OpToRel(<, Nat)
<1>1. \A x, y \in Nat : x < y => <<x, y>> \in R BY DEF OpToRel
<1>2. IsWellFoundedOn(R, Nat) BY NatLessThanWellFounded
<1> HIDE DEF R
<1>3. PICK x \in T : \A y \in T : ~ (<<y, x>> \in R) BY <1>2, WFMin, Zenon
<1>4. ASSUME NEW y \in T PROVE x <= y
  <2>1. ~ (y < x) BY <1>1, <1>3, Zenon
  <2> QED BY <2>1
<1> QED BY <1>4

\* A set with 0 that no step up to n leaves has all numbers up to n.
LEMMA UpTo ==
  ASSUME NEW n \in Nat, NEW T, 0 \in T, \A k \in 1..n : k - 1 \in T => k \in T
  PROVE  \A k \in 0..n : k \in T
<1> DEFINE U == {k \in 0..n : k \notin T}
<1>1. U = {}
  <2> SUFFICES ASSUME U # {} PROVE FALSE OBVIOUS
  <2>1. U \subseteq Nat OBVIOUS
  <2>2. PICK x \in U : \A y \in U : x <= y
    <3> HIDE DEF U
    <3> QED BY <2>1, LeastNatural
  <2>3. x \in 1..n /\ x - 1 \in 0..n /\ ~ (x <= x - 1) BY <2>2
  <2>4. x - 1 \in T BY <2>2, <2>3
  <2> QED BY <2>2, <2>3, <2>4
<1> QED BY <1>1

\* n steps G within S, and f following them from a.
StepsOf(G, n, S) == G \in [1..n -> [S -> S]]
Follows(f, G, n, S, a) ==
  f \in [0..n -> S] /\ f[0] = a /\ \A k \in 1..n : f[k] = G[k][f[k - 1]]

\* Steps that stay in S can be followed from a member of S.
LEMMA Run ==
  ASSUME NEW n \in Nat, NEW S, NEW a \in S, NEW G, StepsOf(G, n, S)
  PROVE  \E f : Follows(f, G, n, S, a)
<1> USE DEF StepsOf, Follows
<1> DEFINE T == {m \in 0..n : \E f \in [0..m -> S] :
                   f[0] = a /\ \A k \in 1..m : f[k] = G[k][f[k - 1]]}
<1>1. 0 \in T
  <2> DEFINE f == [i \in 0..0 |-> a]
  <2>1. f \in [0..0 -> S] /\ f[0] = a BY SMT
  <2>2. \A k \in 1..0 : f[k] = G[k][f[k - 1]] BY SMT
  <2>3. 0 \in 0..n OBVIOUS
  <2> HIDE DEF f
  <2> QED BY <2>1, <2>2, <2>3
<1>2. ASSUME NEW m \in 1..n, m - 1 \in T PROVE m \in T
  <2>1. PICK f \in [0..(m - 1) -> S] :
          f[0] = a /\ \A k \in 1..(m - 1) : f[k] = G[k][f[k - 1]]
    BY <1>2
  <2> DEFINE g == [i \in 0..m |-> IF i = m THEN G[m][f[m - 1]] ELSE f[i]]
  <2>2. m - 1 \in 0..(m - 1) /\ f[m - 1] \in S OBVIOUS
  <2>3. G[m][f[m - 1]] \in S BY <2>2
  <2>4. \A i \in 0..m : i # m => i \in 0..(m - 1) OBVIOUS
  <2>5. \A i \in 0..m : g[i] \in S BY <2>3, <2>4
  <2>6. g \in [0..m -> S] BY <2>5
  <2>7. g[0] = a BY <2>1
  <2>8. ASSUME NEW k \in 1..m PROVE g[k] = G[k][g[k - 1]]
    <3>1. k \in 0..m /\ k - 1 \in 0..m /\ k - 1 # m OBVIOUS
    <3>2. g[k - 1] = f[k - 1] BY <3>1
    <3>3. CASE k = m BY <3>1, <3>2, <3>3
    <3>4. CASE k # m
      <4>1. k \in 1..(m - 1) BY <3>4
      <4>2. g[k] = f[k] BY <3>1, <3>4
      <4> QED BY <2>1, <3>2, <4>1, <4>2
    <3> QED BY <3>3, <3>4
  <2>9. m \in 0..n OBVIOUS
  <2> HIDE DEF g
  <2> QED BY <2>6, <2>7, <2>8, <2>9
<1>3. n \in T
  <2> HIDE DEF T
  <2>1. n \in 0..n OBVIOUS
  <2> QED BY <1>1, <1>2, <2>1, UpTo
<1> QED BY <1>3

-----------------------------------------------------------------------------
(* Frames: PROTO_AddRb. *)

\* One sequence after the other.
LEMMA Joined ==
  ASSUME NEW u \in Seq(Byte), NEW v \in Seq(Byte), NEW t, t = u \o v
  PROVE  /\ t \in Seq(Byte) /\ Len(t) = Len(u) + Len(v) /\ Len(u) <= Len(t)
         /\ \A i \in 1..Len(u) : t[i] = u[i]
         /\ \A i \in 1..Len(t) : ~ (i <= Len(u)) =>
              i - Len(u) \in 1..Len(v) /\ t[i] = v[i - Len(u)]
  OBVIOUS

\* A byte is stuffed to one or two that do not look like the begin or the end of a frame.
LEMMA StuffedType ==
  ASSUME NEW b \in Byte
  PROVE  /\ Stuffed(b) \in Seq(Byte) /\ Len(Stuffed(b)) \in 1..2
         /\ \A i \in 1..Len(Stuffed(b)) : Stuffed(b)[i] \notin {BEGIN, END}
<1>1. CASE b \in {ESC, BEGIN, END}
  <2>1. Flip(b) \in {93, 94, 95} BY <1>1 DEF Flip, ESC, BEGIN, END
  <2>2. Stuffed(b) = <<125, Flip(b)>> BY <1>1 DEF Stuffed, ESC
  <2> QED BY <2>1, <2>2 DEF Byte, BEGIN, END
<1>2. CASE b \notin {ESC, BEGIN, END}
  <2>1. Stuffed(b) = <<b>> BY <1>2 DEF Stuffed
  <2> QED BY <1>2, <2>1
<1> QED BY <1>1, <1>2

\* What Stuffing is: a packet is stuffed byte by byte.
LEMMA StuffingIs ==
  ASSUME NEW p \in Seq(Byte)
  PROVE  /\ Stuffing(p) \in [0..Len(p) -> Seq(Byte)]
         /\ Stuffing(p)[0] = << >>
         /\ \A k \in 1..Len(p) : Stuffing(p)[k] = Stuffing(p)[k - 1] \o Stuffed(p[k])
<1> DEFINE n == Len(p)
           G == [k \in 1..n |-> [s \in Seq(Byte) |-> s \o Stuffed(p[k])]]
           st == Stuffing(p)
<1>1. n \in Nat /\ \A k \in 1..n : p[k] \in Byte OBVIOUS
<1>2. \A k \in 1..n : \A s \in Seq(Byte) : s \o Stuffed(p[k]) \in Seq(Byte)
  BY <1>1, StuffedType
<1>3. StepsOf(G, n, Seq(Byte)) BY <1>2 DEF StepsOf
<1>4. << >> \in Seq(Byte) OBVIOUS
<1>5. PICK f \in [0..n -> Seq(Byte)] : f[0] = << >> /\ \A k \in 1..n : f[k] = G[k][f[k - 1]]
  <2> HIDE DEF n, G
  <2>1. \E f : Follows(f, G, n, Seq(Byte), << >>) BY <1>1, <1>3, <1>4, Run, Zenon
  <2> QED BY <2>1 DEF Follows
<1>6. \A k \in 1..n : k - 1 \in 0..n BY <1>1
<1>7. \A k \in 1..n : f[k] = f[k - 1] \o Stuffed(p[k]) BY <1>5, <1>6
<1>8. f = [k \in 0..n |-> IF k = 0 THEN << >> ELSE f[k - 1] \o Stuffed(p[k])]
  <2>1. ASSUME NEW k \in 0..n
        PROVE  f[k] = IF k = 0 THEN << >> ELSE f[k - 1] \o Stuffed(p[k])
    <3>1. k # 0 => k \in 1..n BY <1>1
    <3> QED BY <1>5, <1>7, <3>1
  <2> QED BY <2>1
<1>9. st = [k \in 0..n |-> IF k = 0 THEN << >> ELSE st[k - 1] \o Stuffed(p[k])]
  BY <1>8 DEF Stuffing
<1> HIDE DEF st
<1>10. st[0] = << >> BY <1>1, <1>9
<1>11. \A k \in 1..n : st[k] = st[k - 1] \o Stuffed(p[k])
  <2> SUFFICES ASSUME NEW k \in 1..n PROVE st[k] = st[k - 1] \o Stuffed(p[k]) OBVIOUS
  <2>1. k \in 0..n /\ k # 0 BY <1>1
  <2> QED BY <1>9, <2>1
<1> DEFINE T == {k \in 0..n : st[k] = f[k]}
<1>12. \A k \in 0..n : k \in T
  <2>1. 0 \in T BY <1>1, <1>5, <1>10
  <2>2. ASSUME NEW k \in 1..n, k - 1 \in T PROVE k \in T
    <3>1. k \in 0..n BY <1>1
    <3> QED BY <1>7, <1>11, <2>2, <3>1
  <2> HIDE DEF T, n
  <2> QED BY <1>1, <2>1, <2>2, UpTo
<1>13. st \in [0..n -> Seq(Byte)]
  <2>1. \A k \in 0..n : st[k] \in Seq(Byte) BY <1>5, <1>12
  <2>2. st = [k \in 0..n |-> st[k]] BY <1>9
  <2> HIDE DEF n
  <2> QED BY <2>1, <2>2
<1> QED BY <1>10, <1>11, <1>13 DEF st

\* What is put for the first bytes of a packet begins what is put for all.
LEMMA StuffingGrows ==
  ASSUME NEW p \in Seq(Byte), NEW k \in 0..Len(p)
  PROVE  /\ Len(Stuffing(p)[k]) <= Len(Stuffing(p)[Len(p)])
         /\ \A i \in 1..Len(Stuffing(p)[k]) : Stuffing(p)[Len(p)][i] = Stuffing(p)[k][i]
<1> DEFINE st == Stuffing(p)
           n == Len(p)
           Begins(l) == /\ Len(st[l]) <= Len(st[n])
                        /\ \A i \in 1..Len(st[l]) : st[n][i] = st[l][i]
           T == {d \in 0..n : Begins(n - d)}
<1>1. n \in Nat /\ \A l \in 1..n : p[l] \in Byte OBVIOUS
<1>2. /\ st \in [0..n -> Seq(Byte)]
      /\ \A l \in 1..n : st[l] = st[l - 1] \o Stuffed(p[l])
  BY StuffingIs
<1> HIDE DEF st, n
<1>3. 0 \in T
  <2>1. n - 0 = n /\ n \in 0..n /\ 0 \in 0..n BY <1>1
  <2>2. st[n] \in Seq(Byte) BY <1>2, <2>1
  <2>3. Begins(n) BY <2>2
  <2> QED BY <2>1, <2>3
<1>4. ASSUME NEW d \in 1..n, d - 1 \in T PROVE d \in T
  <2> DEFINE l == n - d
  <2>1. /\ l \in 0..n /\ l + 1 \in 1..n /\ l + 1 \in 0..n /\ (l + 1) - 1 = l
        /\ n - (d - 1) = l + 1 /\ d \in 0..n
    BY <1>1
  <2>2. Begins(l + 1) BY <1>4, <2>1
  <2> HIDE DEF l
  <2>3. st[l + 1] = st[l] \o Stuffed(p[l + 1]) BY <1>2, <2>1
  <2>4. st[l] \in Seq(Byte) /\ Stuffed(p[l + 1]) \in Seq(Byte)
    BY <1>1, <1>2, <2>1, StuffedType
  <2>5. Len(st[l]) <= Len(st[l + 1]) /\ \A i \in 1..Len(st[l]) : st[l + 1][i] = st[l][i]
    <3>1. PICK u \in Seq(Byte) : u = st[l] BY <2>4
    <3>2. PICK v \in Seq(Byte) : v = Stuffed(p[l + 1]) BY <2>4
    <3>3. PICK t : t = st[l + 1] OBVIOUS
    <3>4. t = u \o v BY <2>3, <3>1, <3>2, <3>3
    <3>5. Len(u) <= Len(t) /\ \A i \in 1..Len(u) : t[i] = u[i] BY <3>4, Joined
    <3> QED BY <3>1, <3>3, <3>5
  <2>7. n \in 0..n BY <1>1
  <2>8. Len(st[l]) \in Nat /\ Len(st[l + 1]) \in Nat /\ Len(st[n]) \in Nat
    BY <1>2, <2>1, <2>7
  <2>9. Begins(l) BY <2>2, <2>5, <2>8
  <2> QED BY <2>1, <2>9 DEF l
<1>5. \A d \in 0..n : d \in T
  <2> HIDE DEF T
  <2> QED BY <1>1, <1>3, <1>4, UpTo
<1>6. n - k \in 0..n /\ n - (n - k) = k BY <1>1 DEF n
<1>7. Begins(k) BY <1>5, <1>6
<1> QED BY <1>7 DEF st, n

\* No byte of a packet looks like the begin or the end of a frame.
LEMMA StuffingHides ==
  ASSUME NEW p \in Seq(Byte)
  PROVE  \A i \in 1..Len(Stuffing(p)[Len(p)]) : Stuffing(p)[Len(p)][i] \notin {BEGIN, END}
<1> DEFINE st == Stuffing(p)
           n == Len(p)
           T == {k \in 0..n : \A i \in 1..Len(st[k]) : st[k][i] \notin {BEGIN, END}}
<1>1. n \in Nat /\ \A l \in 1..n : p[l] \in Byte OBVIOUS
<1>2. /\ st \in [0..n -> Seq(Byte)] /\ st[0] = << >>
      /\ \A l \in 1..n : st[l] = st[l - 1] \o Stuffed(p[l])
  BY StuffingIs
<1> HIDE DEF st, n
<1>3. 0 \in T BY <1>1, <1>2
<1>4. ASSUME NEW k \in 1..n, k - 1 \in T PROVE k \in T
  <2>1. k \in 0..n /\ k - 1 \in 0..n BY <1>1
  <2>2. /\ st[k - 1] \in Seq(Byte) /\ Stuffed(p[k]) \in Seq(Byte)
        /\ st[k] = st[k - 1] \o Stuffed(p[k])
        /\ \A i \in 1..Len(Stuffed(p[k])) : Stuffed(p[k])[i] \notin {BEGIN, END}
    BY <1>1, <1>2, <2>1, StuffedType
  <2>3. \A i \in 1..Len(st[k - 1]) : st[k - 1][i] \notin {BEGIN, END} BY <1>4
  <2>4. ASSUME NEW i \in 1..Len(st[k]) PROVE st[k][i] \notin {BEGIN, END}
    <3>1. CASE i <= Len(st[k - 1])
      <4>1. i \in 1..Len(st[k - 1]) /\ st[k][i] = st[k - 1][i] BY <2>2, <3>1
      <4> QED BY <2>3, <4>1
    <3>2. CASE ~ (i <= Len(st[k - 1]))
      <4>1. PICK u \in Seq(Byte) : u = st[k - 1] BY <2>2
      <4>2. PICK v \in Seq(Byte) : v = Stuffed(p[k]) BY <2>2
      <4>3. PICK t : t = st[k] OBVIOUS
      <4>4. t = u \o v BY <2>2, <4>1, <4>2, <4>3
      <4>5. i \in 1..Len(t) /\ ~ (i <= Len(u)) BY <3>2, <4>1, <4>3
      <4>6. i - Len(u) \in 1..Len(v) /\ t[i] = v[i - Len(u)] BY <4>4, <4>5, Joined
      <4> QED BY <2>2, <4>2, <4>3, <4>6
    <3> QED BY <3>1, <3>2
  <2> QED BY <2>1, <2>4
<1>5. \A k \in 0..n : k \in T
  <2> HIDE DEF T
  <2> QED BY <1>1, <1>3, <1>4, UpTo
<1>6. n \in 0..n BY <1>1
<1>7. \A i \in 1..Len(st[n]) : st[n][i] \notin {BEGIN, END} BY <1>5, <1>6
<1> QED BY <1>7 DEF st, n

\* A frame: begin, the packet, end.
LEMMA FrameIs ==
  ASSUME NEW p \in Packets
  PROVE  /\ p \in Seq(Byte) /\ Frame[p] \in Seq(Byte)
         /\ Stuffing(p)[Len(p)] \in Seq(Byte)
         /\ Len(Frame[p]) = Len(Stuffing(p)[Len(p)]) + 2
         /\ Frame[p][1] = BEGIN /\ Frame[p][Len(Frame[p])] = END
         /\ \A i \in 1..Len(Stuffing(p)[Len(p)]) : Frame[p][i + 1] = Stuffing(p)[Len(p)][i]
<1> DEFINE body == Stuffing(p)[Len(p)]
<1>1. p \in Seq(Byte) BY PacketAssumption DEF Byte
<1>2. body \in Seq(Byte)
  <2>1. Len(p) \in 0..Len(p) BY <1>1
  <2> QED BY <1>1, <2>1, StuffingIs
<1>3. Frame[p] = <<BEGIN>> \o body \o <<END>> BY DEF Frame
<1> HIDE DEF body
<1>4. BEGIN \in Byte /\ END \in Byte BY DEF BEGIN, END, Byte
<1>5. Frame[p] \in Seq(Byte) /\ Len(Frame[p]) = Len(body) + 2 BY <1>2, <1>3, <1>4
<1>6. Frame[p][1] = BEGIN BY <1>2, <1>3, <1>4
<1>7. Frame[p][Len(body) + 2] = END BY <1>2, <1>3, <1>4
<1>8. \A i \in 1..Len(body) : Frame[p][i + 1] = body[i] BY <1>2, <1>3, <1>4
<1> QED BY <1>1, <1>2, <1>5, <1>6, <1>7, <1>8 DEF body

\* A begin is the first byte of a frame, an end the last.
LEMMA FrameMarks ==
  ASSUME NEW p \in Packets, NEW j \in 1..Len(Frame[p])
  PROVE  /\ Frame[p][j] = BEGIN <=> j = 1
         /\ Frame[p][j] = END <=> j = Len(Frame[p])
<1>1. /\ Len(Frame[p]) = Len(Stuffing(p)[Len(p)]) + 2 /\ Len(Stuffing(p)[Len(p)]) \in Nat
      /\ Frame[p][1] = BEGIN /\ Frame[p][Len(Frame[p])] = END
  BY FrameIs
<1>2. BEGIN # END BY DEF BEGIN, END
<1>3. ASSUME j # 1, j # Len(Frame[p]) PROVE Frame[p][j] \notin {BEGIN, END}
  <2>1. j - 1 \in 1..Len(Stuffing(p)[Len(p)]) /\ (j - 1) + 1 = j BY <1>1, <1>3
  <2>2. Frame[p][j] = Stuffing(p)[Len(p)][j - 1] BY <2>1, FrameIs
  <2>3. p \in Seq(Byte) BY FrameIs
  <2> QED BY <2>1, <2>2, <2>3, StuffingHides
<1> QED BY <1>1, <1>2, <1>3

-----------------------------------------------------------------------------
(* Reading a frame: PROTO_ParseByte. *)

\* What the parser is in a frame behind the first k bytes of its packet.
Behind(p, k) == [begin |-> TRUE, esc |-> FALSE, data |-> SubSeq(p, 1, k)]

\* s is what the parser is after each of m bytes of c; the frame of p, but for its end,
\* is in c behind place a.
Parses(s, c, m) == \A k \in 1..m : s[k] = ParseByte(s[k - 1], c[k])
Begins(p, c, a) == \A j \in 1..(Len(Frame[p]) - 1) : c[a + j] = Frame[p][j]

\* Whatever was before, a begin begins anew.
LEMMA ParseBegin ==
  ASSUME NEW t
  PROVE  ParseByte(t, BEGIN) = [begin |-> TRUE, esc |-> FALSE, data |-> << >>]
  BY DEF ParseByte, BEGIN, ESC

\* The next byte was escaped.
LEMMA ParseEscape ==
  ASSUME NEW d \in Seq(Byte)
  PROVE  ParseByte([begin |-> TRUE, esc |-> FALSE, data |-> d], ESC)
           = [begin |-> TRUE, esc |-> TRUE, data |-> d]
  BY DEF ParseByte

\* A byte of the packet.
LEMMA ParseData ==
  ASSUME NEW d \in Seq(Byte), Len(d) < MaxLen, NEW e \in BOOLEAN,
         NEW b \in Byte, b # ESC, b # BEGIN
  PROVE  ParseByte([begin |-> TRUE, esc |-> e, data |-> d], b)
           = [begin |-> TRUE, esc |-> FALSE, data |-> Append(d, IF e THEN Flip(b) ELSE b)]
  BY DEF ParseByte

\* The bytes that one byte is stuffed to are read as that byte.
LEMMA ParseStuffed ==
  ASSUME NEW p \in Packets, NEW k \in 1..Len(p), NEW t, NEW u, NEW v,
         t = Behind(p, k - 1),
         u = ParseByte(t, Stuffed(p[k])[1]),
         Len(Stuffed(p[k])) = 2 => v = ParseByte(u, Stuffed(p[k])[2])
  PROVE  IF Len(Stuffed(p[k])) = 2 THEN v = Behind(p, k) ELSE u = Behind(p, k)
<1>1. p \in Seq(Byte) /\ Len(p) <= MaxLen /\ Len(p) \in Nat /\ MaxLen \in Nat
  BY PacketAssumption DEF Byte
<1>2. PICK b \in Byte : b = p[k] BY <1>1
<1>3. PICK d \in Seq(Byte) : d = SubSeq(p, 1, k - 1)
  <2>1. SubSeq(p, 1, k - 1) = [i \in 1..(k - 1) |-> p[i]] BY <1>1
  <2>2. k - 1 \in Nat /\ \A i \in 1..(k - 1) : p[i] \in Byte BY <1>1
  <2>3. [i \in 1..(k - 1) |-> p[i]] \in Seq(Byte) BY <2>2
  <2> QED BY <2>1, <2>3
<1>4. Len(d) < MaxLen /\ Append(d, b) = SubSeq(p, 1, k)
  <2>1. Len(d) = k - 1 BY <1>1, <1>3
  <2>2. Len(d) < MaxLen BY <1>1, <2>1
  <2>3. Append(d, b) = SubSeq(p, 1, k) BY <1>1, <1>2, <1>3
  <2> QED BY <2>2, <2>3
<1>5. t = [begin |-> TRUE, esc |-> FALSE, data |-> d] BY <1>3 DEF Behind
<1>6. Behind(p, k) = [begin |-> TRUE, esc |-> FALSE, data |-> Append(d, b)]
  BY <1>4 DEF Behind
<1>7. CASE b \in {ESC, BEGIN, END}
  <2>1. /\ Stuffed(b) = <<ESC, Flip(b)>> /\ Flip(b) \in {93, 94, 95} /\ Flip(Flip(b)) = b
    <3>1. Stuffed(b) = <<ESC, Flip(b)>> BY <1>7 DEF Stuffed
    <3>2. b \in {125, 126, 127} BY <1>7 DEF ESC, BEGIN, END
    <3>3. Flip(b) = b - 32 BY <3>2 DEF Flip
    <3>4. Flip(b - 32) = b BY <3>2 DEF Flip
    <3> QED BY <3>1, <3>2, <3>3, <3>4
  <2>2. Len(Stuffed(b)) = 2 /\ Stuffed(b)[1] = ESC /\ Stuffed(b)[2] = Flip(b) BY <2>1
  <2>3. u = ParseByte(t, ESC) /\ v = ParseByte(u, Flip(b)) BY <1>2, <2>2
  <2>4. u = [begin |-> TRUE, esc |-> TRUE, data |-> d] BY <1>5, <2>3, ParseEscape
  <2>5. Flip(b) \in Byte /\ Flip(b) # ESC /\ Flip(b) # BEGIN BY <2>1 DEF ESC, BEGIN, Byte
  <2>6. PICK x \in Byte : x = Flip(b) BY <2>5
  <2>7. v = [begin |-> TRUE, esc |-> FALSE, data |-> Append(d, IF TRUE THEN Flip(x) ELSE x)]
    BY <1>4, <2>3, <2>4, <2>5, <2>6, ParseData
  <2>8. v = Behind(p, k) BY <1>6, <2>1, <2>6, <2>7
  <2> QED BY <1>2, <2>2, <2>8
<1>8. CASE b \notin {ESC, BEGIN, END}
  <2>1. Stuffed(b) = <<b>> BY <1>8 DEF Stuffed
  <2>2. Len(Stuffed(b)) = 1 /\ Stuffed(b)[1] = b BY <2>1
  <2>3. u = ParseByte(t, b) BY <1>2, <2>2
  <2>4. u = [begin |-> TRUE, esc |-> FALSE, data |-> Append(d, IF FALSE THEN Flip(b) ELSE b)]
    BY <1>4, <1>5, <1>8, <2>3, ParseData
  <2>5. u = Behind(p, k) BY <1>6, <2>4
  <2> QED BY <1>2, <2>2, <2>5
<1> QED BY <1>7, <1>8

\* Whatever the parser was before it, a frame is read as its packet, up to its end.
LEMMA ParseFrame ==
  ASSUME NEW p \in Packets, NEW s, NEW c, NEW m \in Nat, NEW a \in Nat,
         a + Len(Frame[p]) - 1 <= m, Parses(s, c, m), Begins(p, c, a)
  PROVE  s[a + Len(Frame[p]) - 1].data = p
<1> DEFINE n == Len(p)
           st == Stuffing(p)
           T == {k \in 0..n : s[a + 1 + Len(st[k])] = Behind(p, k)}
<1>1. p \in Seq(Byte) /\ n \in Nat /\ \A k \in 1..n : p[k] \in Byte
  <2>1. p \in Seq(Byte) BY PacketAssumption DEF Byte
  <2> QED BY <2>1
<1>2. /\ st \in [0..n -> Seq(Byte)] /\ st[0] = << >>
      /\ \A k \in 1..n : st[k] = st[k - 1] \o Stuffed(p[k])
  BY <1>1, StuffingIs
<1>3. /\ Len(Frame[p]) = Len(st[n]) + 2 /\ Frame[p][1] = BEGIN
      /\ \A i \in 1..Len(st[n]) : Frame[p][i + 1] = st[n][i]
      /\ Len(st[n]) \in Nat
  BY FrameIs
<1>4. ASSUME NEW k \in 0..n
      PROVE  /\ Len(st[k]) \in Nat /\ Len(st[k]) <= Len(st[n])
             /\ \A i \in 1..Len(st[k]) : c[a + 1 + i] = st[k][i]
  <2>1. Len(st[k]) <= Len(st[n]) /\ \A i \in 1..Len(st[k]) : st[n][i] = st[k][i]
    BY <1>1, StuffingGrows
  <2>2. Len(st[k]) \in Nat BY <1>2
  <2> HIDE DEF st, n
  <2>3. ASSUME NEW i \in 1..Len(st[k]) PROVE c[a + 1 + i] = st[k][i]
    <3>1. i \in 1..Len(st[n]) /\ i + 1 \in 1..(Len(Frame[p]) - 1)
          /\ a + (i + 1) = a + 1 + i
      BY <1>3, <2>1, <2>2
    <3>2. c[a + (i + 1)] = Frame[p][i + 1] BY <3>1 DEF Begins
    <3> QED BY <1>3, <2>1, <3>1, <3>2
  <2> QED BY <2>1, <2>2, <2>3
<1> HIDE DEF st, n
<1>5. 0 \in T
  <2>1. a + 1 \in 1..m /\ 1 \in 1..(Len(Frame[p]) - 1) BY <1>3
  <2>2. c[a + 1] = BEGIN BY <1>3, <2>1 DEF Begins
  <2>3. s[a + 1] = ParseByte(s[(a + 1) - 1], BEGIN) BY <2>1, <2>2 DEF Parses
  <2>4. s[a + 1] = [begin |-> TRUE, esc |-> FALSE, data |-> << >>] BY <2>3, ParseBegin
  <2>5. SubSeq(p, 1, 0) = << >> BY <1>1
  <2>6. Len(st[0]) = 0 /\ a + 1 + 0 = a + 1 /\ 0 \in 0..n BY <1>1, <1>2
  <2> QED BY <2>4, <2>5, <2>6 DEF Behind
<1>6. ASSUME NEW k \in 1..n, k - 1 \in T PROVE k \in T
  <2>1. k \in 0..n /\ k - 1 \in 0..n /\ p[k] \in Byte BY <1>1
  <2>2. PICK x \in Seq(Byte) : x = st[k - 1] BY <1>2, <2>1
  <2>3. PICK y \in Seq(Byte) : y = Stuffed(p[k]) BY <2>1, StuffedType
  <2>4. PICK z : z = st[k] OBVIOUS
  <2>5. z = x \o y BY <1>2, <2>2, <2>3, <2>4
  <2>6. Len(y) \in 1..2 BY <2>1, <2>3, StuffedType
  <2>7. Len(z) = Len(x) + Len(y) /\ \A i \in 1..Len(y) : z[Len(x) + i] = y[i]
    BY <2>5
  <2> DEFINE q == a + 1 + Len(x)
  <2>8. /\ q \in Nat /\ a + 1 + Len(z) = q + Len(y)
        /\ q + Len(y) <= m /\ Len(z) \in Nat
    <3>1. Len(z) <= Len(st[n]) /\ Len(z) \in Nat BY <1>4, <2>1, <2>4
    <3> QED BY <1>3, <2>6, <2>7, <3>1
  <2>9. ASSUME NEW i \in 1..Len(y) PROVE s[q + i] = ParseByte(s[q + i - 1], y[i])
    <3>1. Len(x) + i \in 1..Len(z) BY <2>6, <2>7
    <3>2. c[a + 1 + (Len(x) + i)] = z[Len(x) + i] BY <1>4, <2>1, <2>4, <3>1
    <3>3. a + 1 + (Len(x) + i) = q + i /\ q + i \in 1..m BY <2>6, <2>8
    <3> QED BY <2>7, <3>2, <3>3 DEF Parses
  <2>10. s[q] = Behind(p, k - 1) BY <1>6, <2>2
  <2> HIDE DEF q
  <2>11. s[q + 1] = ParseByte(s[q], y[1])
    <3>1. 1 \in 1..Len(y)
      <4>1. PICK l \in 1..2 : l = Len(y) BY <2>6
      <4>2. 1 \in 1..l OBVIOUS
      <4> QED BY <4>1, <4>2
    <3>2. q + 1 - 1 = q BY <2>8
    <3> QED BY <2>9, <3>1, <3>2
  <2>12. Len(y) = 2 => s[q + 2] = ParseByte(s[q + 1], y[2])
    <3>1. Len(y) = 2 => 2 \in 1..Len(y) /\ q + 2 - 1 = q + 1 BY <2>8
    <3> QED BY <2>9, <3>1
  <2>13. k \in 1..Len(p) BY DEF n
  <2>13a. /\ s[q + 1] = ParseByte(s[q], Stuffed(p[k])[1])
          /\ Len(Stuffed(p[k])) = 2 => s[q + 2] = ParseByte(s[q + 1], Stuffed(p[k])[2])
    BY <2>3, <2>11, <2>12
  <2>14. IF Len(y) = 2 THEN s[q + 2] = Behind(p, k) ELSE s[q + 1] = Behind(p, k)
    <3>1. PICK t : t = s[q] OBVIOUS
    <3>2. PICK u : u = s[q + 1] OBVIOUS
    <3>3. PICK v : v = s[q + 2] OBVIOUS
    <3>4. t = Behind(p, k - 1) BY <2>10, <3>1
    <3>5. u = ParseByte(t, Stuffed(p[k])[1]) BY <2>13a, <3>1, <3>2
    <3>6. Len(Stuffed(p[k])) = 2 => v = ParseByte(u, Stuffed(p[k])[2])
      BY <2>13a, <3>2, <3>3
    <3>7. IF Len(Stuffed(p[k])) = 2 THEN v = Behind(p, k) ELSE u = Behind(p, k)
      BY <2>13, <3>4, <3>5, <3>6, ParseStuffed
    <3> QED BY <2>3, <3>2, <3>3, <3>7
  <2>15. s[q + Len(y)] = Behind(p, k)
    <3>1. Len(y) = 2 \/ Len(y) = 1 BY <2>6
    <3> QED BY <2>14, <3>1
  <2> QED BY <2>1, <2>4, <2>8, <2>15
<1>7. n \in T
  <2> HIDE DEF T
  <2>1. n \in 0..n BY <1>1
  <2> QED BY <1>1, <1>5, <1>6, <2>1, UpTo
<1>8. a + 1 + Len(st[n]) = a + Len(Frame[p]) - 1
  <2>1. PICK l \in Nat : l = Len(st[n]) BY <1>3
  <2>2. a + 1 + l = a + (l + 2) - 1 OBVIOUS
  <2> QED BY <1>3, <2>1, <2>2
<1>9. SubSeq(p, 1, n) = p BY <1>1 DEF n
<1>10. s[a + 1 + Len(st[n])] = Behind(p, n) BY <1>7
<1>11. Behind(p, n).data = p BY <1>9 DEF Behind
<1> QED BY <1>8, <1>10, <1>11

\* What the parser is before the first byte; what it may be later.
Fresh(stack) == [begin |-> stack, esc |-> FALSE, data |-> << >>]
Parser == [begin : BOOLEAN, esc : BOOLEAN, data : Seq(Int)]

\* The parser stays a parser.
LEMMA ParseByteType ==
  ASSUME NEW t \in Parser, NEW b \in Byte
  PROVE  ParseByte(t, b) \in Parser
<1>1. Flip(b) \in Int /\ b \in Int BY DEF Flip, Byte
<1>2. t.data \in Seq(Int) /\ << >> \in Seq(Int) BY DEF Parser
<1>3. Append(t.data, Flip(b)) \in Seq(Int) /\ Append(t.data, b) \in Seq(Int) BY <1>1, <1>2
<1> QED BY <1>1, <1>2, <1>3 DEF ParseByte, Parser

\* The parser goes through bytes.
LEMMA ParserRuns ==
  ASSUME NEW c \in Seq(Byte), NEW m \in 0..Len(c), NEW stack \in BOOLEAN
  PROVE  \E s : /\ s = [k \in 0..m |-> s[k]] /\ s[0] = Fresh(stack) /\ Parses(s, c, m)
<1> DEFINE G == [k \in 1..m |-> [t \in Parser |-> ParseByte(t, c[k])]]
<1>1. m \in Nat /\ \A k \in 1..m : c[k] \in Byte OBVIOUS
<1>2. StepsOf(G, m, Parser) BY <1>1, ParseByteType DEF StepsOf
<1>3. Fresh(stack) \in Parser BY DEF Fresh, Parser
<1>4. PICK f : Follows(f, G, m, Parser, Fresh(stack))
  <2> HIDE DEF G
  <2> QED BY <1>1, <1>2, <1>3, Run, Zenon
<1>5. /\ f \in [0..m -> Parser] /\ f[0] = Fresh(stack)
      /\ \A k \in 1..m : f[k] = G[k][f[k - 1]]
  BY <1>4 DEF Follows
<1>6. f = [k \in 0..m |-> f[k]] BY <1>5
<1>7. Parses(f, c, m)
  <2> SUFFICES ASSUME NEW k \in 1..m PROVE f[k] = ParseByte(f[k - 1], c[k]) BY DEF Parses
  <2>1. k - 1 \in 0..m BY <1>1
  <2>2. f[k - 1] \in Parser BY <1>5, <2>1
  <2>3. f[k] = G[k][f[k - 1]] BY <1>5
  <2> QED BY <2>2, <2>3
<1> QED BY <1>5, <1>6, <1>7

\* PROTO_ParseRb goes through the bytes of the ring up to the first end.
LEMMA StatesParse ==
  ASSUME NEW c \in Seq(Byte), c = Content, NEW e \in 1..Len(c), e = FrameEnd,
         NEW stack \in BOOLEAN
  PROVE  Parses(States(stack), c, e - 1)
<1> DEFINE m == e - 1
           a == States(stack)
<1>1. m \in 0..Len(c) /\ m \in Nat OBVIOUS
<1>2. PICK f : f = [k \in 0..m |-> f[k]] /\ f[0] = Fresh(stack) /\ Parses(f, c, m)
  <2> HIDE DEF m
  <2> QED BY <1>1, ParserRuns
<1>3. f = [k \in 0..m |-> IF k = 0 THEN [begin |-> stack, esc |-> FALSE, data |-> << >>]
                                   ELSE ParseByte(f[k - 1], c[k])]
  <2> HIDE DEF m
  <2>1. ASSUME NEW k \in 0..m
        PROVE  f[k] = IF k = 0 THEN [begin |-> stack, esc |-> FALSE, data |-> << >>]
                               ELSE ParseByte(f[k - 1], c[k])
    <3>1. CASE k = 0 BY <1>2, <3>1 DEF Fresh
    <3>2. CASE k # 0
      <4>1. k \in 1..m BY <1>1, <3>2
      <4> QED BY <1>2, <3>2, <4>1 DEF Parses
    <3> QED BY <3>1, <3>2
  <2>2. f = [k \in 0..m |-> f[k]] BY <1>2
  <2> QED BY <2>1, <2>2
<1>4. a = [k \in 0..m |-> IF k = 0 THEN [begin |-> stack, esc |-> FALSE, data |-> << >>]
                                   ELSE ParseByte(a[k - 1], c[k])]
  BY <1>3 DEF States
<1> HIDE DEF a, m
<1>5. Parses(a, c, m)
  <2> SUFFICES ASSUME NEW k \in 1..m PROVE a[k] = ParseByte(a[k - 1], c[k]) BY DEF Parses
  <2>1. k \in 0..m /\ k # 0 BY <1>1
  <2> QED BY <1>4, <2>1
<1> QED BY <1>5 DEF a, m

\* Different packets have different frames.
LEMMA FrameInjective ==
  ASSUME NEW p \in Packets, NEW q \in Packets, Frame[p] = Frame[q]
  PROVE  p = q
<1>1. PICK c \in Seq(Byte) : c = Frame[p] BY FrameIs
<1>2. Len(c) \in Nat /\ Len(c) >= 2
  <2>1. Len(Frame[p]) = Len(Stuffing(p)[Len(p)]) + 2 /\ Stuffing(p)[Len(p)] \in Seq(Byte)
    BY FrameIs
  <2>2. Len(Stuffing(p)[Len(p)]) \in Nat BY <2>1
  <2> QED BY <1>1, <2>1, <2>2
<1>3. PICK m \in 0..Len(c) : m = Len(c) - 1
  <2>1. PICK l \in Nat : l = Len(c) BY <1>2
  <2>2. l - 1 \in 0..l BY <1>2, <2>1
  <2> QED BY <2>1, <2>2
<1>4. PICK s : Parses(s, c, m) BY ParserRuns
<1>5. Begins(p, c, 0) /\ Begins(q, c, 0) BY <1>1, <1>2 DEF Begins
<1>6. m \in Nat /\ 0 + Len(c) - 1 <= m /\ 0 \in Nat BY <1>2, <1>3
<1>7. s[0 + Len(c) - 1].data = p BY <1>1, <1>4, <1>5, <1>6, ParseFrame
<1>8. s[0 + Len(c) - 1].data = q BY <1>1, <1>4, <1>5, <1>6, ParseFrame
<1> QED BY <1>7, <1>8

-----------------------------------------------------------------------------
(* What the bytes in the ring stand for. *)

\* The k-th byte of c is in a frame of p, or in the first part of one, that begins at s.
InFrame(p, c, s, k) ==
  /\ k - s + 1 <= Len(Frame[p])
  /\ \A j \in s..k : c[j] = Frame[p][j - s + 1]

\* All bytes are in frames or abandoned parts of frames.
Framed(c) == \A k \in 1..Len(c) : \E s \in 1..k, p \in Packets : InFrame(p, c, s, k)

\* f goes through the ends of frames in c, and P has their packets.
Holds(c, f, P) ==
  /\ f \in [1..Len(P) -> Ends(c)] /\ InOrder(f, Ends(c))
  /\ \A i \in 1..Len(P) : EndsAt(P[i], c, f[i])

\* Two ways to go through numbers in their order are the same: where they first differ,
\* the lower of the two would be missing in the other.
LEMMA InOrderOne ==
  ASSUME NEW n \in Nat, NEW E, E \subseteq Nat,
         NEW f \in [1..n -> E], NEW g \in [1..n -> E], InOrder(f, E), InOrder(g, E)
  PROVE  f = g
<1> DEFINE D == {k \in 1..n : f[k] # g[k]}
<1>1. /\ \A i, j \in 1..n : i < j => f[i] < f[j] /\ g[i] < g[j]
      /\ \A e \in E : (\E i \in 1..n : f[i] = e) /\ (\E i \in 1..n : g[i] = e)
  BY DEF InOrder
<1>2. \A k \in 1..n : f[k] \in Nat /\ g[k] \in Nat OBVIOUS
<1>3. ASSUME NEW a \in [1..n -> E], NEW b \in [1..n -> E], NEW k \in 1..n,
             \A i \in 1..n : i < k => a[i] = b[i],
             \A i, j \in 1..n : i < j => a[i] < a[j] /\ b[i] < b[j],
             \A e \in E : \E i \in 1..n : b[i] = e
      PROVE  ~ (a[k] < b[k])
  <2> SUFFICES ASSUME a[k] < b[k] PROVE FALSE OBVIOUS
  <2>1. \A i \in 1..n : a[i] \in Nat /\ b[i] \in Nat OBVIOUS
  <2>2. PICK i \in 1..n : b[i] = a[k] BY <1>3
  <2>3. CASE i < k
    <3>1. a[i] = a[k] /\ a[i] < a[k] BY <1>3, <2>2, <2>3
    <3> QED BY <2>1, <3>1
  <2>4. CASE i = k BY <2>1, <2>2, <2>4
  <2>5. CASE k < i
    <3>1. b[k] < b[i] BY <1>3, <2>5
    <3> QED BY <2>1, <2>2, <3>1
  <2> QED BY <2>3, <2>4, <2>5
<1>4. D = {}
  <2> SUFFICES ASSUME D # {} PROVE FALSE OBVIOUS
  <2>1. D \subseteq Nat OBVIOUS
  <2>2. PICK k \in D : \A i \in D : k <= i
    <3> HIDE DEF D
    <3> QED BY <2>1, LeastNatural
  <2>3. k \in 1..n /\ f[k] # g[k] OBVIOUS
  <2>4. ASSUME NEW i \in 1..n, i < k PROVE f[i] = g[i]
    <3>1. ~ (k <= i) BY <2>3, <2>4
    <3> QED BY <2>2, <3>1
  <2>5. ~ (f[k] < g[k]) BY <1>1, <1>3, <2>3, <2>4
  <2>6. ~ (g[k] < f[k]) BY <1>1, <1>3, <2>3, <2>4
  <2> QED BY <1>2, <2>3, <2>5, <2>6
<1> QED BY <1>4

\* One packet ends at one place.
LEMMA EndsAtOne ==
  ASSUME NEW c, NEW e \in Nat, NEW p \in Packets, NEW q \in Packets,
         EndsAt(p, c, e), EndsAt(q, c, e), Len(Frame[p]) <= Len(Frame[q])
  PROVE  p = q
<1> DEFINE x == Frame[p]
           y == Frame[q]
           m == Len(x)
           n == Len(y)
<1>1. /\ x \in Seq(Byte) /\ y \in Seq(Byte) /\ m \in Nat /\ n \in Nat
      /\ x[1] = BEGIN /\ m >= 2
  <2>1. x \in Seq(Byte) /\ y \in Seq(Byte) /\ x[1] = BEGIN BY FrameIs
  <2>2. m = Len(Stuffing(p)[Len(p)]) + 2 /\ Stuffing(p)[Len(p)] \in Seq(Byte) BY FrameIs
  <2>3. Len(Stuffing(p)[Len(p)]) \in Nat BY <2>2
  <2> QED BY <2>1, <2>2, <2>3
<1>2. \A j \in 1..n : y[j] = BEGIN => j = 1 BY FrameMarks
<1>3. /\ m <= e /\ \A j \in 1..m : c[e - m + j] = x[j]
      /\ n <= e /\ \A j \in 1..n : c[e - n + j] = y[j]
      /\ m <= n
  BY DEF EndsAt
<1> HIDE DEF x, y, m, n
<1>4. m = n
  <2>1. 1 \in 1..m /\ n - m + 1 \in 1..n /\ e - m + 1 = e - n + (n - m + 1) BY <1>1, <1>3
  <2>2. y[n - m + 1] = BEGIN BY <1>1, <1>3, <2>1
  <2>3. n - m + 1 = 1 BY <1>2, <2>1, <2>2
  <2> QED BY <1>1, <2>3
<1>5. \A j \in 1..m : x[j] = y[j] BY <1>3, <1>4
<1>6. x = y BY <1>1, <1>4, <1>5 DEF m, n
<1> QED BY <1>6, FrameInjective DEF x, y

\* What is known of the packets in c is all that Complete says.
LEMMA CompleteIs ==
  ASSUME NEW c \in Seq(Byte), NEW f, NEW P \in Seq(Packets), Holds(c, f, P)
  PROVE  CompleteIn(c) = P
<1> DEFINE E == Ends(c)
           n == Len(P)
<1>1. n \in Nat /\ E \subseteq Nat /\ P = [i \in 1..n |-> P[i]] /\ \A i \in 1..n : P[i] \in Packets
  BY DEF Ends
<1>2. /\ f \in [1..n -> E] /\ InOrder(f, E) /\ \A i \in 1..n : EndsAt(P[i], c, f[i])
  BY DEF Holds
<1> HIDE DEF E, n
<1>3. Cardinality(E) = n
  <2>1. \A i, j \in 1..n : i < j => f[i] < f[j] BY <1>2 DEF InOrder
  <2>2. \A i \in 1..n : f[i] \in Nat BY <1>1, <1>2
  <2>3. \A i, j \in 1..n : f[i] = f[j] => i = j
    <3> SUFFICES ASSUME NEW i \in 1..n, NEW j \in 1..n, f[i] = f[j] PROVE i = j OBVIOUS
    <3>1. ~ (i < j) /\ ~ (j < i) BY <2>1, <2>2
    <3> QED BY <3>1
  <2>4. f \in Injection(1..n, E) BY <1>2, <2>3 DEF Injection, IsInjective
  <2>5. \A e \in E : \E i \in 1..n : f[i] = e BY <1>2 DEF InOrder
  <2>6. f \in Surjection(1..n, E) BY <1>2, <2>5 DEF Surjection
  <2>7. ExistsBijection(1..n, E) BY <2>4, <2>6 DEF ExistsBijection, Bijection
  <2> QED BY <1>1, <2>7, FS_CountingElements
<1>4. Ordered(E) = f
  <2>1. \E g \in [1..Cardinality(E) -> E] : InOrder(g, E) BY <1>2, <1>3
  <2>2. Ordered(E) \in [1..n -> E] /\ InOrder(Ordered(E), E) BY <1>3, <2>1 DEF Ordered
  <2> QED BY <1>1, <1>2, <2>2, InOrderOne
<1>5. ASSUME NEW i \in 1..n PROVE (CHOOSE p \in Packets : EndsAt(p, c, f[i])) = P[i]
  <2> DEFINE q == CHOOSE p \in Packets : EndsAt(p, c, f[i])
  <2>1. P[i] \in Packets /\ EndsAt(P[i], c, f[i]) /\ f[i] \in Nat BY <1>1, <1>2
  <2>2. q \in Packets /\ EndsAt(q, c, f[i]) BY <2>1
  <2> HIDE DEF q
  <2>3. Len(Frame[q]) \in Nat /\ Len(Frame[P[i]]) \in Nat
    <3>1. Frame[q] \in Seq(Byte) /\ Frame[P[i]] \in Seq(Byte) BY <2>1, <2>2, FrameIs
    <3> QED BY <3>1
  <2>4. Len(Frame[q]) <= Len(Frame[P[i]]) \/ Len(Frame[P[i]]) <= Len(Frame[q]) BY <2>3
  <2>5. q = P[i] BY <2>1, <2>2, <2>4, EndsAtOne
  <2> QED BY <2>5 DEF q
<1>6. CompleteIn(c) = [i \in 1..n |-> CHOOSE p \in Packets : EndsAt(p, c, f[i])]
  BY <1>3, <1>4 DEF CompleteIn, E
<1>7. CompleteIn(c) = [i \in 1..n |-> P[i]] BY <1>5, <1>6
<1> QED BY <1>1, <1>7

\* The first m bytes of a frame of p behind c.
Added(c, p, m, d) ==
  /\ Len(d) = Len(c) + m
  /\ \A i \in 1..Len(c) : d[i] = c[i]
  /\ \A j \in 1..m : d[Len(c) + j] = Frame[p][j]

\* A frame has at least a begin and an end.
LEMMA FrameLen == ASSUME NEW p \in Packets PROVE Len(Frame[p]) \in Nat /\ Len(Frame[p]) >= 2
<1>1. Len(Frame[p]) = Len(Stuffing(p)[Len(p)]) + 2 /\ Stuffing(p)[Len(p)] \in Seq(Byte)
  BY FrameIs
<1>2. Len(Stuffing(p)[Len(p)]) \in Nat BY <1>1
<1> QED BY <1>1, <1>2

\* They leave all bytes in frames or parts of frames.
LEMMA AddedFramed ==
  ASSUME NEW c \in Seq(Byte), NEW d \in Seq(Byte), NEW p \in Packets,
         NEW m \in 0..Len(Frame[p]), Framed(c), Added(c, p, m, d)
  PROVE  Framed(d)
<1>1. PICK n \in Nat : n = Len(c) OBVIOUS
<1>2. m \in Nat /\ m <= Len(Frame[p]) BY FrameLen
<1>3. /\ Len(d) = n + m /\ \A i \in 1..n : d[i] = c[i]
      /\ \A j \in 1..m : d[n + j] = Frame[p][j]
  BY <1>1 DEF Added
<1> SUFFICES ASSUME NEW k \in 1..(n + m)
             PROVE  \E s \in 1..k, q \in Packets : InFrame(q, d, s, k)
  BY <1>3 DEF Framed
<1>4. CASE k <= n
  <2>1. k \in 1..n BY <1>2, <1>4
  <2>2. PICK s \in 1..k, q \in Packets : InFrame(q, c, s, k) BY <1>1, <2>1 DEF Framed
  <2>3. \A j \in s..k : j \in 1..n BY <2>1
  <2>4. \A j \in s..k : d[j] = c[j] BY <1>3, <2>3
  <2>5. InFrame(q, d, s, k) BY <2>2, <2>4 DEF InFrame
  <2> QED BY <2>5
<1>5. CASE ~ (k <= n)
  <2>1. n + 1 \in 1..k /\ k - (n + 1) + 1 <= m BY <1>2, <1>5
  <2>2. k - (n + 1) + 1 <= Len(Frame[p]) BY <1>2, <2>1, FrameLen
  <2>3. ASSUME NEW j \in (n + 1)..k PROVE d[j] = Frame[p][j - (n + 1) + 1]
    <3>1. j - n \in 1..m /\ n + (j - n) = j /\ j - (n + 1) + 1 = j - n BY <1>2
    <3> QED BY <1>3, <3>1
  <2>4. InFrame(p, d, n + 1, k) BY <2>2, <2>3 DEF InFrame
  <2> QED BY <2>1, <2>4
<1> QED BY <1>4, <1>5

\* What ends in c still ends there.
LEMMA EndsAtStays ==
  ASSUME NEW c \in Seq(Byte), NEW d, NEW q \in Packets, NEW e \in 1..Len(c),
         \A i \in 1..Len(c) : d[i] = c[i], EndsAt(q, c, e)
  PROVE  EndsAt(q, d, e)
<1>1. PICK n \in Nat : n = Len(Frame[q]) BY FrameLen
<1>2. n <= e /\ \A j \in 1..n : c[e - n + j] = Frame[q][j] BY <1>1 DEF EndsAt
<1>3. \A j \in 1..n : e - n + j \in 1..Len(c) BY <1>2
<1>4. \A j \in 1..n : d[e - n + j] = Frame[q][j] BY <1>2, <1>3
<1> QED BY <1>1, <1>2, <1>4 DEF EndsAt

\* A frame that is abandoned adds no packet.
LEMMA AddedPart ==
  ASSUME NEW c \in Seq(Byte), NEW d \in Seq(Byte), NEW p \in Packets,
         NEW m \in 0..Len(Frame[p]), m # Len(Frame[p]), Added(c, p, m, d),
         NEW f, NEW P \in Seq(Packets), Holds(c, f, P)
  PROVE  Holds(d, f, P)
<1>1. PICK n \in Nat : n = Len(c) OBVIOUS
<1>2. m \in Nat /\ m < Len(Frame[p]) BY FrameLen
<1>3. /\ Len(d) = n + m /\ \A i \in 1..n : d[i] = c[i]
      /\ \A j \in 1..m : d[n + j] = Frame[p][j]
  BY <1>1 DEF Added
<1>4. Ends(d) = Ends(c)
  <2>1. ASSUME NEW k \in 1..(n + m), ~ (k <= n) PROVE d[k] # END
    <3>1. k - n \in 1..m /\ n + (k - n) = k BY <1>2, <2>1
    <3>2. k - n \in 1..Len(Frame[p]) /\ k - n # Len(Frame[p]) BY <1>2, <3>1, FrameLen
    <3>3. Frame[p][k - n] # END BY <3>2, FrameMarks
    <3>4. d[n + (k - n)] = Frame[p][k - n] BY <1>3, <3>1
    <3> QED BY <3>1, <3>3, <3>4
  <2>2. \A k \in 1..(n + m) : d[k] = END <=> k \in 1..n /\ c[k] = END
    <3> SUFFICES ASSUME NEW k \in 1..(n + m) PROVE d[k] = END <=> k \in 1..n /\ c[k] = END
      OBVIOUS
    <3>1. CASE k <= n BY <1>3, <3>1
    <3>2. CASE ~ (k <= n) BY <2>1, <3>2
    <3> QED BY <3>1, <3>2
  <2>3. 1..n \subseteq 1..(n + m) BY <1>2
  <2> QED BY <1>1, <1>3, <2>2, <2>3 DEF Ends
<1>5. ASSUME NEW i \in 1..Len(P) PROVE EndsAt(P[i], d, f[i])
  <2>1. f[i] \in 1..Len(c) /\ EndsAt(P[i], c, f[i]) /\ P[i] \in Packets BY DEF Holds, Ends
  <2> QED BY <1>1, <1>3, <2>1, EndsAtStays
<1> QED BY <1>4, <1>5 DEF Holds

\* A whole frame adds its packet.
LEMMA AddedWhole ==
  ASSUME NEW c \in Seq(Byte), NEW d \in Seq(Byte), NEW p \in Packets,
         Added(c, p, Len(Frame[p]), d),
         NEW f, NEW P \in Seq(Packets), Holds(c, f, P)
  PROVE  \E g : Holds(d, g, Append(P, p))
<1> DEFINE Q == Append(P, p)
<1>1. PICK n \in Nat : n = Len(c) OBVIOUS
<1>2. PICK m \in Nat : m = Len(Frame[p]) /\ m >= 2 BY FrameLen
<1>3. PICK l \in Nat : l = Len(P) OBVIOUS
<1>4. /\ Len(d) = n + m /\ \A i \in 1..n : d[i] = c[i]
      /\ \A j \in 1..m : d[n + j] = Frame[p][j]
  BY <1>1, <1>2 DEF Added
<1>5. /\ Q \in Seq(Packets) /\ Len(Q) = l + 1 /\ Q[l + 1] = p
      /\ \A i \in 1..l : Q[i] = P[i]
  BY <1>3
<1> HIDE DEF Q
<1>6. Ends(d) = Ends(c) \union {n + m}
  <2>1. ASSUME NEW k \in 1..(n + m) PROVE d[k] = END <=> (k \in 1..n /\ c[k] = END) \/ k = n + m
    <3>1. CASE k <= n BY <1>2, <1>4, <3>1
    <3>2. CASE ~ (k <= n)
      <4>1. k - n \in 1..m /\ n + (k - n) = k BY <3>2
      <4>2. d[n + (k - n)] = Frame[p][k - n] BY <1>4, <4>1
      <4>3. Frame[p][k - n] = END <=> k - n = m BY <1>2, <4>1, FrameMarks
      <4> QED BY <3>2, <4>1, <4>2, <4>3
    <3> QED BY <3>1, <3>2
  <2>2. 1..n \subseteq 1..(n + m) /\ n + m \in 1..(n + m) BY <1>2
  <2> QED BY <1>1, <1>4, <2>1, <2>2 DEF Ends
<1> DEFINE g == [i \in 1..(l + 1) |-> IF i = l + 1 THEN n + m ELSE f[i]]
<1>7. /\ f \in [1..l -> Ends(c)] /\ InOrder(f, Ends(c))
      /\ \A i \in 1..l : EndsAt(P[i], c, f[i]) /\ f[i] \in 1..n
  BY <1>1, <1>3 DEF Holds, Ends
<1>8. \A i \in 1..(l + 1) : i # l + 1 => i \in 1..l OBVIOUS
<1>9. g[l + 1] = n + m /\ \A i \in 1..l : g[i] = f[i] OBVIOUS
<1>10. g \in [1..Len(Q) -> Ends(d)] BY <1>5, <1>6, <1>7, <1>8
<1> HIDE DEF g
<1>11. InOrder(g, Ends(d))
  <2>1. DOMAIN g = 1..(l + 1) /\ DOMAIN f = 1..l BY <1>5, <1>7, <1>10
  <2>2. ASSUME NEW i \in 1..(l + 1), NEW j \in 1..(l + 1), i < j PROVE g[i] < g[j]
    <3>1. i \in 1..l BY <2>2
    <3>2. CASE j = l + 1
      <4>1. f[i] < n + m BY <1>2, <1>7, <3>1
      <4> QED BY <1>9, <3>1, <3>2, <4>1
    <3>3. CASE j # l + 1
      <4>1. j \in 1..l BY <1>8, <3>3
      <4>2. f[i] < f[j] BY <1>7, <2>1, <2>2, <3>1, <4>1 DEF InOrder
      <4> QED BY <1>9, <3>1, <4>1, <4>2
    <3> QED BY <3>2, <3>3
  <2>3. ASSUME NEW e \in Ends(d) PROVE \E i \in 1..(l + 1) : g[i] = e
    <3>1. CASE e = n + m
      <4>1. l + 1 \in 1..(l + 1) OBVIOUS
      <4> QED BY <1>9, <3>1, <4>1
    <3>2. CASE e \in Ends(c)
      <4>1. PICK i \in 1..l : f[i] = e BY <1>7, <2>1, <3>2 DEF InOrder
      <4>2. i \in 1..(l + 1) OBVIOUS
      <4> QED BY <1>9, <4>1, <4>2
    <3> QED BY <1>6, <3>1, <3>2
  <2> QED BY <2>1, <2>2, <2>3 DEF InOrder
<1>12. ASSUME NEW i \in 1..(l + 1) PROVE EndsAt(Q[i], d, g[i])
  <2>1. CASE i = l + 1
    <3>1. m <= n + m /\ \A j \in 1..m : n + m - m + j = n + j OBVIOUS
    <3>2. EndsAt(p, d, n + m) BY <1>2, <1>4, <3>1 DEF EndsAt
    <3> QED BY <1>5, <1>9, <2>1, <3>2
  <2>2. CASE i # l + 1
    <3>1. i \in 1..l BY <1>8, <2>2
    <3>2. P[i] \in Packets /\ f[i] \in 1..Len(c) /\ EndsAt(P[i], c, f[i])
      BY <1>1, <1>3, <1>7, <3>1
    <3>3. EndsAt(P[i], d, f[i]) BY <1>1, <1>4, <3>2, EndsAtStays
    <3> QED BY <1>5, <1>9, <3>1, <3>3
  <2> QED BY <2>1, <2>2
<1> QED BY <1>5, <1>10, <1>11, <1>12 DEF Holds, Q

\* The bytes of c behind the first n.
Taken(c, n, d) == Len(d) = Len(c) - n /\ \A i \in 1..(Len(c) - n) : d[i] = c[i + n]

\* What is taken up to the first end ends with a whole frame, and leaves the others whole.
LEMMA TakenFrame ==
  ASSUME NEW c \in Seq(Byte), NEW d \in Seq(Byte), Framed(c), NEW e \in Ends(c),
         \A x \in Ends(c) : e <= x, Taken(c, e, d),
         NEW f, NEW P \in Seq(Packets), Holds(c, f, P)
  PROVE  /\ P # << >> /\ P[1] \in Packets /\ EndsAt(P[1], c, e)
         /\ Framed(d) /\ \E g : Holds(d, g, Tail(P))
<1>1. PICK n \in Nat : n = Len(c) OBVIOUS
<1>2. PICK l \in Nat : l = Len(P) OBVIOUS
<1>3. e \in 1..n /\ c[e] = END /\ \A x \in 1..n : c[x] = END => e <= x BY <1>1 DEF Ends
<1>4. Len(d) = n - e /\ \A i \in 1..(n - e) : d[i] = c[i + e] BY <1>1 DEF Taken
<1>5. /\ f \in [1..l -> Ends(c)] /\ \A i \in 1..l : f[i] \in 1..n
      /\ \A i, j \in 1..l : i < j => f[i] < f[j]
      /\ \A x \in Ends(c) : \E i \in 1..l : f[i] = x
      /\ \A i \in 1..l : EndsAt(P[i], c, f[i])
  <2>1. f \in [1..l -> Ends(c)] /\ InOrder(f, Ends(c)) /\ \A i \in 1..l : EndsAt(P[i], c, f[i])
    BY <1>2 DEF Holds
  <2>2. DOMAIN f = 1..l BY <2>1
  <2>3. \A i \in 1..l : f[i] \in 1..n BY <1>1, <2>1 DEF Ends
  <2> QED BY <2>1, <2>2, <2>3 DEF InOrder
<1>6. 1 \in 1..l /\ f[1] = e
  <2>1. PICK i \in 1..l : f[i] = e BY <1>5
  <2>2. 1 \in 1..l OBVIOUS
  <2>3. f[1] \in Ends(c) /\ e <= f[1] BY <1>5, <2>2
  <2>4. ~ (1 < i) BY <1>3, <1>5, <2>1, <2>2, <2>3
  <2> QED BY <2>1, <2>2, <2>4
<1>7. P # << >> /\ P[1] \in Packets /\ EndsAt(P[1], c, e) BY <1>2, <1>5, <1>6
<1>8. Framed(d)
  <2> SUFFICES ASSUME NEW k \in 1..(n - e)
               PROVE  \E s \in 1..k, q \in Packets : InFrame(q, d, s, k)
    BY <1>4 DEF Framed
  <2>1. k + e \in 1..n BY <1>3
  <2>2. PICK s \in 1..(k + e), q \in Packets : InFrame(q, c, s, k + e) BY <1>1, <2>1 DEF Framed
  <2>3. (k + e) - s + 1 <= Len(Frame[q]) /\ \A j \in s..(k + e) : c[j] = Frame[q][j - s + 1]
    BY <2>2 DEF InFrame
  <2>4. s > e
    <3> SUFFICES ASSUME ~ (s > e) PROVE FALSE OBVIOUS
    <3>1. PICK m \in Nat : m = Len(Frame[q]) BY FrameLen
    <3>2. e \in s..(k + e) /\ e - s + 1 \in 1..m /\ e - s + 1 # m BY <1>3, <2>3, <3>1
    <3>3. Frame[q][e - s + 1] # END BY <3>1, <3>2, FrameMarks
    <3> QED BY <1>3, <2>3, <3>2, <3>3
  <2>5. s - e \in 1..k /\ k - (s - e) + 1 = (k + e) - s + 1 BY <1>3, <2>4
  <2>6. ASSUME NEW j \in (s - e)..k PROVE d[j] = Frame[q][j - (s - e) + 1]
    <3>1. /\ j \in 1..(n - e) /\ j + e \in s..(k + e)
          /\ (j + e) - s + 1 = j - (s - e) + 1
      BY <1>3, <2>5
    <3> QED BY <1>4, <2>3, <3>1
  <2>7. InFrame(q, d, s - e, k) BY <2>3, <2>5, <2>6 DEF InFrame
  <2> QED BY <2>5, <2>7
<1> DEFINE Q == Tail(P)
           g == [i \in 1..(l - 1) |-> f[i + 1] - e]
<1>9. /\ Q \in Seq(Packets) /\ Len(Q) = l - 1 /\ \A i \in 1..(l - 1) : Q[i] = P[i + 1]
  BY <1>2, <1>6
<1> HIDE DEF Q
<1>10. \A i \in 1..(l - 1) : i + 1 \in 1..l /\ 1 < i + 1 OBVIOUS
<1>11. ASSUME NEW i \in 1..(l - 1)
       PROVE  /\ f[i + 1] \in 1..n /\ f[i + 1] \in Ends(c) /\ e < f[i + 1]
              /\ f[i + 1] - e \in Ends(d)
  <2>1. i + 1 \in 1..l /\ 1 \in 1..l /\ 1 < i + 1 BY <1>10, <1>6
  <2>2. f[i + 1] \in 1..n /\ f[i + 1] \in Ends(c) /\ f[1] < f[i + 1] BY <1>5, <2>1
  <2>3. PICK x \in 1..n : x = f[i + 1] BY <2>2
  <2>4. e < x /\ c[x] = END BY <1>6, <2>2, <2>3 DEF Ends
  <2>5. x - e \in 1..(n - e) /\ (x - e) + e = x BY <1>3, <2>4
  <2>6. d[x - e] = END BY <1>4, <2>4, <2>5
  <2>7. x - e \in Ends(d) BY <1>4, <2>5, <2>6 DEF Ends
  <2> QED BY <2>2, <2>3, <2>4, <2>7
<1>12. g \in [1..Len(Q) -> Ends(d)] BY <1>9, <1>11
<1>13. \A i \in 1..(l - 1) : g[i] = f[i + 1] - e OBVIOUS
<1> HIDE DEF g
<1>14. InOrder(g, Ends(d))
  <2>1. DOMAIN g = 1..(l - 1) BY <1>9, <1>12
  <2>2. ASSUME NEW i \in 1..(l - 1), NEW j \in 1..(l - 1), i < j PROVE g[i] < g[j]
    <3>1. i + 1 \in 1..l /\ j + 1 \in 1..l /\ i + 1 < j + 1 BY <1>10, <2>2
    <3>2. f[i + 1] < f[j + 1] /\ f[i + 1] \in 1..n /\ f[j + 1] \in 1..n BY <1>5, <3>1
    <3>3. f[i + 1] - e < f[j + 1] - e BY <1>3, <3>2
    <3> QED BY <1>13, <3>3
  <2>3. ASSUME NEW x \in Ends(d) PROVE \E i \in 1..(l - 1) : g[i] = x
    <3>1. x \in 1..(n - e) /\ d[x] = END BY <1>4 DEF Ends
    <3>2. x + e \in 1..n /\ c[x + e] = END BY <1>3, <1>4, <3>1
    <3>3. x + e \in Ends(c) BY <1>1, <3>2 DEF Ends
    <3>4. PICK i \in 1..l : f[i] = x + e BY <1>5, <3>3
    <3>5. i # 1 BY <1>3, <1>6, <3>1, <3>4
    <3>6. i - 1 \in 1..(l - 1) /\ (i - 1) + 1 = i BY <3>5
    <3>7. g[i - 1] = f[i] - e BY <1>13, <3>6
    <3>8. (x + e) - e = x BY <1>3, <3>1
    <3> QED BY <3>4, <3>6, <3>7, <3>8
  <2> QED BY <2>1, <2>2, <2>3 DEF InOrder
<1>15. ASSUME NEW i \in 1..(l - 1) PROVE EndsAt(Q[i], d, g[i])
  <2>1. PICK x \in 1..n : x = f[i + 1] BY <1>11
  <2>2. e < x /\ EndsAt(P[i + 1], c, x) BY <1>5, <1>10, <1>11, <2>1
  <2>3. P[i + 1] \in Packets /\ Q[i] = P[i + 1] BY <1>2, <1>9, <1>10
  <2>4. PICK q \in Packets : q = P[i + 1] BY <2>3
  <2>5. PICK m \in Nat : m = Len(Frame[q]) BY FrameLen
  <2>6. m <= x /\ \A j \in 1..m : c[x - m + j] = Frame[q][j]
    BY <2>2, <2>4, <2>5 DEF EndsAt
  <2>7. m <= x - e
    <3> SUFFICES ASSUME ~ (m <= x - e) PROVE FALSE OBVIOUS
    <3>1. e - x + m \in 1..m /\ e - x + m # m /\ x - m + (e - x + m) = e
      BY <1>3, <2>2, <2>6
    <3>2. c[e] = Frame[q][e - x + m] BY <2>6, <3>1
    <3>3. Frame[q][e - x + m] # END BY <2>5, <3>1, FrameMarks
    <3> QED BY <1>3, <3>2, <3>3
  <2>8. ASSUME NEW j \in 1..m PROVE d[x - e - m + j] = Frame[q][j]
    <3>1. x - e - m + j \in 1..(n - e) /\ (x - e - m + j) + e = x - m + j
      BY <1>3, <2>7
    <3> QED BY <1>4, <2>6, <3>1
  <2>9. EndsAt(q, d, x - e) BY <2>5, <2>7, <2>8 DEF EndsAt
  <2> QED BY <1>13, <2>1, <2>3, <2>4, <2>9
<1> QED BY <1>7, <1>8, <1>9, <1>12, <1>14, <1>15 DEF Holds, Q

-----------------------------------------------------------------------------
(* The ring: RINGBUF_Put, RINGBUF_Get. *)

\* The bytes in the ring are bytes, as many as fill_cnt says.
LEMMA ContentType == TypeOK => Content \in Seq(Byte) /\ Len(Content) = fill
<1> SUFFICES ASSUME TypeOK PROVE Content \in Seq(Byte) /\ Len(Content) = fill OBVIOUS
<1>1. fill \in 0..Size /\ r \in 0..(Size - 1) /\ Size \in Nat /\ buf \in [Slots -> Byte]
  BY PacketAssumption DEF TypeOK, Slots, Byte
<1>2. \A k \in 1..fill : Wrapped(r + k - 1) \in Slots BY <1>1 DEF Wrapped, Slots
<1>3. \A k \in 1..fill : buf[Wrapped(r + k - 1)] \in Byte BY <1>1, <1>2
<1>4. fill \in Nat BY <1>1
<1> QED BY <1>3, <1>4 DEF Content

\* The same after a step.
LEMMA ContentTypeNext == (TypeOK => Content \in Seq(Byte) /\ Len(Content) = fill)'
  BY ContentType, PTL

\* What is put into the ring is behind what was there.
LEMMA AddBytesAdds ==
  ASSUME TypeOK, NEW p \in Packets, NEW n \in 0..Len(Frame[p]), n <= Size - fill,
         AddBytes(Frame[p], n), r' = r
  PROVE  /\ buf' \in [Slots -> 0..255] /\ w' \in Slots /\ fill' \in 0..Size
         /\ w' = r' + fill' \/ w' = r' + fill' - Size
         /\ fill' = fill + n
         /\ \A k \in 1..fill : Content'[k] = Content[k]
         /\ \A j \in 1..n : Content'[fill + j] = Frame[p][j]
<1>1. /\ fill \in 0..Size /\ r \in 0..(Size - 1) /\ w \in 0..(Size - 1)
      /\ Size \in Nat /\ Size > 1 /\ buf \in [Slots -> 0..255]
      /\ w = r + fill \/ w = r + fill - Size
  BY PacketAssumption DEF TypeOK, Slots
<1>2. n \in Nat /\ \A k \in 1..n : Frame[p][k] \in 0..255
  <2>1. PICK x \in Seq(Byte) : x = Frame[p] BY FrameIs
  <2>2. \A k \in 1..Len(x) : x[k] \in Byte BY <2>1
  <2>3. n <= Len(x) /\ n \in Nat BY <2>1, FrameLen
  <2> QED BY <2>1, <2>2, <2>3 DEF Byte
<1>3. /\ buf' = [i \in Slots |-> LET k == Wrapped(i - w + Size)
                                  IN IF k < n THEN Frame[p][k + 1] ELSE buf[i]]
      /\ w' = Wrapped(w + n) /\ fill' = fill + n
  BY DEF AddBytes
<1>4. \A i \in Slots : Wrapped(i - w + Size) \in 0..(Size - 1) BY <1>1 DEF Wrapped, Slots
<1>5. buf' \in [Slots -> 0..255]
  <2>1. \A i \in Slots : LET k == Wrapped(i - w + Size)
                         IN (IF k < n THEN Frame[p][k + 1] ELSE buf[i]) \in 0..255
    <3> SUFFICES ASSUME NEW i \in Slots, NEW k \in 0..(Size - 1), k = Wrapped(i - w + Size)
                 PROVE  (IF k < n THEN Frame[p][k + 1] ELSE buf[i]) \in 0..255
      BY <1>4
    <3>1. k < n => k + 1 \in 1..n BY <1>2
    <3> QED BY <1>1, <1>2, <3>1
  <2> QED BY <1>3, <2>1
<1>6. w' \in Slots /\ fill' \in 0..Size /\ (w' = r + fill' \/ w' = r + fill' - Size)
  <2>1. w' = (IF w + n >= Size THEN w + n - Size ELSE w + n) BY <1>1, <1>2, <1>3 DEF Wrapped
  <2>2. fill' \in 0..Size BY <1>1, <1>2, <1>3
  <2>3. CASE w = r + fill
    <3>1. w' \in 0..(Size - 1) BY <1>1, <1>2, <2>1
    <3>2. w' = r + fill' \/ w' = r + fill' - Size BY <1>1, <1>2, <1>3, <2>1, <2>3
    <3> QED BY <2>2, <3>1, <3>2 DEF Slots
  <2>4. CASE w = r + fill - Size
    <3>1. w' \in 0..(Size - 1) BY <1>1, <1>2, <2>1
    <3>2. w' = r + fill' \/ w' = r + fill' - Size BY <1>1, <1>2, <1>3, <2>1, <2>4
    <3> QED BY <2>2, <3>1, <3>2 DEF Slots
  <2> QED BY <1>1, <2>3, <2>4
<1>7. ASSUME NEW k \in 1..(fill + n)
      PROVE  /\ Wrapped(r + k - 1) \in Slots
             /\ k <= fill => ~ (Wrapped(Wrapped(r + k - 1) - w + Size) < n)
             /\ ~ (k <= fill) => Wrapped(Wrapped(r + k - 1) - w + Size) = k - fill - 1
  <2>1. Wrapped(r + k - 1) \in Slots BY <1>1, <1>2 DEF Wrapped, Slots
  <2>2. ASSUME k <= fill PROVE ~ (Wrapped(Wrapped(r + k - 1) - w + Size) < n)
    BY <1>1, <1>2, <2>2 DEF Wrapped
  <2>3. ASSUME ~ (k <= fill) PROVE Wrapped(Wrapped(r + k - 1) - w + Size) = k - fill - 1
    BY <1>1, <1>2, <2>3 DEF Wrapped
  <2> QED BY <2>1, <2>2, <2>3
<1>8. ASSUME NEW k \in 1..(fill + n)
      PROVE  /\ k <= fill => Content'[k] = Content[k]
             /\ ~ (k <= fill) => Content'[k] = Frame[p][k - fill]
  <2>1. Content'[k] = buf'[Wrapped(r + k - 1)]
    <3>1. Content' = [x \in 1..fill' |-> buf'[Wrapped(r' + x - 1)]] BY DEF Content, Wrapped
    <3> QED BY <1>3, <3>1
  <2>2. PICK i \in Slots : i = Wrapped(r + k - 1) BY <1>7
  <2>3. PICK x : x = Wrapped(i - w + Size) OBVIOUS
  <2>4. buf'[i] = IF x < n THEN Frame[p][x + 1] ELSE buf[i] BY <1>3, <2>3
  <2>5. ASSUME k <= fill PROVE Content'[k] = Content[k]
    <3>1. ~ (x < n) BY <1>7, <2>2, <2>3, <2>5
    <3>2. k \in 1..fill BY <1>1, <2>5
    <3>3. Content[k] = buf[i] BY <2>2, <3>2 DEF Content
    <3> QED BY <2>1, <2>2, <2>4, <3>1, <3>3
  <2>6. ASSUME ~ (k <= fill) PROVE Content'[k] = Frame[p][k - fill]
    <3>1. x = k - fill - 1 BY <1>7, <2>2, <2>3, <2>6
    <3>2. x < n /\ x + 1 = k - fill BY <1>1, <1>2, <2>6, <3>1
    <3> QED BY <2>1, <2>2, <2>4, <3>2
  <2> QED BY <2>5, <2>6
<1>9. \A k \in 1..fill : k \in 1..(fill + n) /\ k <= fill BY <1>1, <1>2
<1>10. \A j \in 1..n : fill + j \in 1..(fill + n) /\ ~ (fill + j <= fill) /\ (fill + j) - fill = j
  BY <1>1, <1>2
<1>11. \A k \in 1..fill : Content'[k] = Content[k] BY <1>8, <1>9
<1>12. \A j \in 1..n : Content'[fill + j] = Frame[p][j]
  <2> SUFFICES ASSUME NEW j \in 1..n PROVE Content'[fill + j] = Frame[p][j] OBVIOUS
  <2>1. Content'[fill + j] = Frame[p][(fill + j) - fill] BY <1>8, <1>10
  <2> QED BY <1>10, <2>1
<1> QED BY <1>3, <1>5, <1>6, <1>11, <1>12

\* What is taken out of the ring is the first of what was there.
LEMMA TakeBytesTakes ==
  ASSUME TypeOK, NEW n \in 0..fill, TakeBytes(n)
  PROVE  /\ r' \in Slots /\ fill' \in 0..Size
         /\ w' = r' + fill' \/ w' = r' + fill' - Size
         /\ fill' = fill - n
         /\ \A k \in 1..(fill - n) : Content'[k] = Content[k + n]
<1>1. /\ fill \in 0..Size /\ r \in 0..(Size - 1) /\ w \in 0..(Size - 1)
      /\ Size \in Nat /\ Size > 1
      /\ w = r + fill \/ w = r + fill - Size
  BY PacketAssumption DEF TypeOK, Slots
<1>2. r' = Wrapped(r + n) /\ fill' = fill - n /\ buf' = buf /\ w' = w BY DEF TakeBytes
<1>3. r' \in Slots /\ fill' \in 0..Size /\ (w' = r' + fill' \/ w' = r' + fill' - Size)
  <2>1. r' = (IF r + n >= Size THEN r + n - Size ELSE r + n) BY <1>1, <1>2 DEF Wrapped
  <2>2. r' \in 0..(Size - 1) /\ fill' \in 0..Size BY <1>1, <1>2, <2>1
  <2>3. w' = r' + fill' \/ w' = r' + fill' - Size BY <1>1, <1>2, <2>1
  <2> QED BY <2>2, <2>3 DEF Slots
<1>4. ASSUME NEW k \in 1..(fill - n) PROVE Content'[k] = Content[k + n]
  <2>1. Content' = [x \in 1..fill' |-> buf'[Wrapped(r' + x - 1)]] BY DEF Content, Wrapped
  <2>2. Content'[k] = buf[Wrapped(r' + k - 1)] BY <1>2, <2>1
  <2>3. k + n \in 1..fill BY <1>1
  <2>4. Content[k + n] = buf[Wrapped(r + (k + n) - 1)] BY <2>3 DEF Content
  <2>5. Wrapped(r' + k - 1) = Wrapped(r + (k + n) - 1) BY <1>1, <1>2 DEF Wrapped
  <2> QED BY <2>2, <2>4, <2>5
<1> QED BY <1>2, <1>3, <1>4

-----------------------------------------------------------------------------
(* The invariant. *)

\* The ring holds frames, whole ones or abandoned ones, and the loop has a packet.
QueueInv ==
  /\ TypeOK
  /\ pc # "idle" => job \in Packets
  /\ Framed(Content)
  /\ \E f : \E P \in Seq(Packets) : Holds(Content, f, P)

\* A step of the queue, as PacketFifo sees it.
FifoNext == Fifo!Put \/ Fifo!Get \/ Fifo!Quiet

\* No end of a frame is 0.
LEMMA FrameEndIs ==
  ASSUME TypeOK
  PROVE  /\ FrameEnd = 0 <=> Ends(Content) = {}
         /\ FrameEnd # 0 => FrameEnd \in Ends(Content) /\ \A x \in Ends(Content) : FrameEnd <= x
         /\ FrameEnd \in 0..fill
<1> DEFINE E == Ends(Content)
<1>1. fill \in Nat /\ E \subseteq 1..fill
  <2>1. Size \in Nat /\ fill \in 0..Size BY PacketAssumption DEF TypeOK
  <2> QED BY <2>1, ContentType DEF Ends
<1>2. CASE E = {} BY <1>1, <1>2 DEF FrameEnd
<1>3. CASE E # {}
  <2>1. E \subseteq Nat BY <1>1
  <2>2. \E x \in E : \A y \in E : x <= y
    <3> HIDE DEF E
    <3> QED BY <1>3, <2>1, LeastNatural
  <2>3. FrameEnd = Min(E) BY <1>3 DEF FrameEnd
  <2> HIDE DEF E
  <2>4. Min(E) \in E /\ \A y \in E : Min(E) <= y BY <2>2 DEF Min
  <2>5. FrameEnd \in 1..fill BY <1>1, <2>3, <2>4
  <2> QED BY <1>3, <2>3, <2>4, <2>5 DEF E
<1> QED BY <1>2, <1>3

\* A packet is put whole, or the ring is full before its end.
LEMMA NextAddRb ==
  ASSUME QueueInv, NEW p \in Packets, AddRb(p),
         pc' \in {"idle", "put", "drop"}, job' \in Packets \union {None},
         pc' # "idle" => job' \in Packets
  PROVE  QueueInv' /\ FifoNext
<1> DEFINE n == IF Fits(p) THEN Len(Frame[p]) ELSE Size - fill
<1>1. /\ TypeOK /\ Framed(Content) /\ fill \in 0..Size /\ Size \in Nat
      /\ Content \in Seq(Byte) /\ Len(Content) = fill
  BY PacketAssumption, ContentType DEF QueueInv, TypeOK
<1>2. /\ n \in 0..Len(Frame[p]) /\ n <= Size - fill
      /\ Fits(p) => n = Len(Frame[p])
      /\ ~ Fits(p) => n # Len(Frame[p])
  <2>1. PICK m \in Nat : m = Len(Frame[p]) BY FrameLen
  <2>2. CASE Fits(p) BY <1>1, <2>1, <2>2 DEF Fits
  <2>3. CASE ~ Fits(p) BY <1>1, <2>1, <2>3 DEF Fits
  <2> QED BY <2>2, <2>3
<1>3. AddBytes(Frame[p], n) /\ r' = r /\ got' = None BY DEF AddRb
<1> HIDE DEF n
<1>4. /\ buf' \in [Slots -> 0..255] /\ w' \in Slots /\ fill' \in 0..Size
      /\ w' = r' + fill' \/ w' = r' + fill' - Size
      /\ fill' = fill + n
      /\ \A k \in 1..fill : Content'[k] = Content[k]
      /\ \A j \in 1..n : Content'[fill + j] = Frame[p][j]
  BY <1>1, <1>2, <1>3, AddBytesAdds
<1>5. TypeOK' BY <1>1, <1>3, <1>4 DEF TypeOK
<1>6. Content' \in Seq(Byte) /\ Len(Content') = fill' BY <1>5, ContentTypeNext
<1>7. PICK c \in Seq(Byte) : c = Content BY <1>1
<1>8. PICK d \in Seq(Byte) : d = Content' BY <1>6
<1>9. Added(c, p, n, d) BY <1>1, <1>4, <1>6, <1>7, <1>8 DEF Added
<1>9a. PICK f : \E P \in Seq(Packets) : Holds(c, f, P) BY <1>7 DEF QueueInv
<1>10. PICK P \in Seq(Packets) : Holds(c, f, P) BY <1>9a
<1>11. Complete = P BY <1>7, <1>10, CompleteIs DEF Complete
<1>12. Framed(d) BY <1>1, <1>2, <1>7, <1>9, AddedFramed
<1>13. CASE Fits(p)
  <2>1. Added(c, p, Len(Frame[p]), d) BY <1>2, <1>9, <1>13
  <2>2. PICK g : Holds(d, g, Append(P, p)) BY <1>10, <2>1, AddedWhole
  <2>3. Append(P, p) \in Seq(Packets) BY <1>10
  <2>4. Complete' = Append(P, p) BY <1>8, <2>2, <2>3, CompleteIs DEF Complete
  <2>5. QueueInv' BY <1>5, <1>8, <1>12, <2>2, <2>3 DEF QueueInv
  <2>6. Fifo!Put BY <1>3, <1>11, <2>4 DEF Fifo!Put
  <2> QED BY <2>5, <2>6 DEF FifoNext
<1>14. CASE ~ Fits(p)
  <2>1. n # Len(Frame[p]) BY <1>2, <1>14
  <2>2. Holds(d, f, P) BY <1>2, <1>9, <1>10, <2>1, AddedPart
  <2>3. Complete' = P BY <1>8, <1>10, <2>2, CompleteIs DEF Complete
  <2>4. QueueInv' BY <1>5, <1>8, <1>10, <1>12, <2>2 DEF QueueInv
  <2>5. Fifo!Quiet BY <1>3, <1>11, <2>3 DEF Fifo!Quiet
  <2> QED BY <2>4, <2>5 DEF FifoNext
<1> QED BY <1>13, <1>14

\* What is read up to the first end of a frame is its packet, whatever is before it and
\* whatever the parser finds on the stack.
LEMMA ParsedIs ==
  ASSUME NEW c \in Seq(Byte), c = Content, NEW e \in 1..Len(c), e = FrameEnd,
         NEW p \in Packets, EndsAt(p, c, e), NEW stack \in BOOLEAN
  PROVE  Parsed(stack) = p
<1>1. PICK m \in Nat : m = Len(Frame[p]) /\ m >= 2 BY FrameLen
<1>2. m <= e /\ \A j \in 1..m : c[e - m + j] = Frame[p][j] BY <1>1 DEF EndsAt
<1>3. PICK a \in Nat : a = e - m BY <1>2
<1>4. PICK s : s = States(stack) OBVIOUS
<1>5. Parses(s, c, e - 1) BY <1>4, StatesParse
<1>6. Begins(p, c, a)
  <2> SUFFICES ASSUME NEW j \in 1..(m - 1) PROVE c[a + j] = Frame[p][j] BY <1>1 DEF Begins
  <2>1. j \in 1..m /\ e - m + j = a + j BY <1>3
  <2> QED BY <1>2, <2>1
<1>7. e - 1 \in Nat /\ a + m - 1 = e - 1 BY <1>3
<1>8. s[a + m - 1].data = p BY <1>1, <1>5, <1>6, <1>7, ParseFrame
<1> QED BY <1>4, <1>7, <1>8 DEF Parsed

\* A packet is taken with all that comes before it, or everything is taken.
LEMMA NextParseRb ==
  ASSUME QueueInv, ParseRb, job' = job,
         pc' \in {"idle", "put", "drop"}, pc' # "idle" => job' \in Packets
  PROVE  QueueInv' /\ FifoNext
<1> DEFINE n == IF FrameEnd = 0 THEN fill ELSE FrameEnd
<1>1. /\ TypeOK /\ Framed(Content) /\ fill \in 0..Size /\ Size \in Nat
      /\ Content \in Seq(Byte) /\ Len(Content) = fill
  BY PacketAssumption, ContentType DEF QueueInv, TypeOK
<1>2. n \in 0..fill BY <1>1, FrameEndIs
<1>3. TakeBytes(n) /\ buf' = buf /\ w' = w BY DEF ParseRb, TakeBytes
<1> HIDE DEF n
<1>4. /\ r' \in Slots /\ fill' \in 0..Size
      /\ w' = r' + fill' \/ w' = r' + fill' - Size
      /\ fill' = fill - n
      /\ \A k \in 1..(fill - n) : Content'[k] = Content[k + n]
  BY <1>1, <1>2, <1>3, TakeBytesTakes
<1>5. PICK c \in Seq(Byte) : c = Content BY <1>1
<1>5a. PICK f : \E P \in Seq(Packets) : Holds(c, f, P) BY <1>5 DEF QueueInv
<1>6. PICK P \in Seq(Packets) : Holds(c, f, P) BY <1>5a
<1>7. Complete = P BY <1>5, <1>6, CompleteIs DEF Complete
<1>8. ASSUME got' = None \/ got' \in Seq(0..255)
      PROVE  /\ TypeOK' /\ Content' \in Seq(Byte) /\ Len(Content') = fill'
             /\ Taken(c, n, Content')
  <2>1. TypeOK' BY <1>1, <1>3, <1>4, <1>8 DEF TypeOK
  <2>2. Content' \in Seq(Byte) /\ Len(Content') = fill' BY <2>1, ContentTypeNext
  <2> QED BY <1>1, <1>4, <1>5, <2>1, <2>2 DEF Taken
<1>9. CASE FrameEnd = 0
  <2>1. got' = None BY <1>9 DEF ParseRb
  <2>2. PICK d \in Seq(Byte) : d = Content' BY <1>8, <2>1
  <2>3. n = fill /\ Len(d) = 0 BY <1>1, <1>4, <1>8, <1>9, <2>1, <2>2 DEF n
  <2>4. Ends(c) = {} BY <1>1, <1>5, <1>9, FrameEndIs
  <2>5. P = << >>
    <3>1. f \in [1..Len(P) -> {}] /\ Len(P) \in Nat BY <1>6, <2>4 DEF Holds
    <3>2. ~ (Len(P) >= 1)
      <4> SUFFICES ASSUME Len(P) >= 1 PROVE FALSE OBVIOUS
      <4>1. 1 \in 1..Len(P) BY <3>1
      <4> QED BY <3>1, <4>1
    <3> QED BY <1>6, <3>1, <3>2
  <2>6. Ends(d) = {} BY <2>3 DEF Ends
  <2>7. Holds(d, f, P)
    <3>1. \A i \in 1..Len(P) : FALSE BY <2>5
    <3> QED BY <1>6, <2>4, <2>6, <3>1 DEF Holds
  <2>8. Framed(d) BY <2>3 DEF Framed
  <2>9. Complete' = P BY <1>6, <2>2, <2>7, CompleteIs DEF Complete
  <2>10. QueueInv' BY <1>6, <1>8, <2>1, <2>2, <2>7, <2>8 DEF QueueInv
  <2>11. Fifo!Quiet BY <1>7, <2>1, <2>9 DEF Fifo!Quiet
  <2> QED BY <2>10, <2>11 DEF FifoNext
<1>10. CASE FrameEnd # 0
  <2>1. PICK stack \in BOOLEAN : got' = Parsed(stack) BY <1>10 DEF ParseRb
  <2>2. PICK e : e = FrameEnd OBVIOUS
  <2>3. e \in Ends(c) /\ (\A x \in Ends(c) : e <= x) /\ n = e
    BY <1>1, <1>5, <1>10, <2>2, FrameEndIs DEF n
  <2>4. PICK d \in Seq(Byte) :
          Len(d) = Len(c) - e /\ \A k \in 1..(Len(c) - e) : d[k] = c[k + e]
    <3> DEFINE x == [k \in 1..(Len(c) - e) |-> c[k + e]]
    <3>1. e \in 1..Len(c) /\ Len(c) \in Nat BY <2>3 DEF Ends
    <3>2. Len(c) - e \in Nat /\ \A k \in 1..(Len(c) - e) : k + e \in 1..Len(c) BY <3>1
    <3>3. \A k \in 1..(Len(c) - e) : c[k + e] \in Byte BY <3>2
    <3>4. x \in Seq(Byte) /\ Len(x) = Len(c) - e BY <3>2, <3>3
    <3> QED BY <3>4
  <2>5. Taken(c, e, d) BY <2>4 DEF Taken
  <2>6. /\ P # << >> /\ P[1] \in Packets /\ EndsAt(P[1], c, e)
        /\ Framed(d) /\ \E g : Holds(d, g, Tail(P))
    BY <1>1, <1>5, <1>6, <2>3, <2>5, TakenFrame
  <2>7. e \in 1..Len(c) BY <2>3 DEF Ends
  <2>8. got' = P[1] BY <1>5, <2>1, <2>2, <2>6, <2>7, ParsedIs
  <2>9. got' \in Seq(0..255) BY <2>6, <2>8, PacketAssumption
  <2>10. /\ TypeOK' /\ Content' \in Seq(Byte) /\ Taken(c, e, Content')
    BY <1>8, <2>3, <2>9
  <2>11. d = Content'
    <3>1. PICK x \in Seq(Byte) : x = Content' BY <2>10
    <3>2. Len(x) = Len(d) /\ \A k \in 1..Len(d) : x[k] = d[k] BY <2>4, <2>10, <3>1 DEF Taken
    <3> QED BY <3>1, <3>2
  <2>12. PICK g : Holds(d, g, Tail(P)) BY <2>6
  <2>13. Tail(P) \in Seq(Packets) /\ Head(P) = P[1] BY <1>6, <2>6
  <2>14. Complete' = Tail(P) BY <2>11, <2>12, <2>13, CompleteIs DEF Complete
  <2>15. QueueInv' BY <2>6, <2>10, <2>11, <2>12, <2>13 DEF QueueInv
  <2>16. Fifo!Get BY <1>7, <2>6, <2>8, <2>13, <2>14 DEF Fifo!Get
  <2> QED BY <2>15, <2>16 DEF FifoNext
<1> QED BY <1>9, <1>10

\* What leaves the ring alone leaves the packets in it.
LEMMA RingStays ==
  ASSUME UNCHANGED <<buf, r, fill>>
  PROVE  Content' = Content /\ Complete' = Complete
<1>1. Content' = Content BY DEF Content, Wrapped
<1> QED BY <1>1 DEF Complete

\* Every step keeps the invariant and is one of the abstract queue.
LEMMA NextQueue == QueueInv /\ Next => QueueInv' /\ FifoNext
<1> SUFFICES ASSUME QueueInv, Next PROVE QueueInv' /\ FifoNext OBVIOUS
<1>1. TypeOK /\ pc # "idle" => job \in Packets BY DEF QueueInv
<1>2. ASSUME NEW p \in Packets, Respond(p) PROVE QueueInv' /\ FifoNext
  <2>1. AddRb(p) /\ pc' = pc /\ job' = job /\ pc = "idle" BY <1>2 DEF Respond
  <2>2. pc' \in {"idle", "put", "drop"} /\ job' \in Packets \union {None}
    BY <2>1 DEF QueueInv, TypeOK
  <2> QED BY <2>1, <2>2, NextAddRb
<1>3. ASSUME NEW p \in Packets, Publish(p) PROVE QueueInv' /\ FifoNext
  <2>1. /\ pc' = "put" /\ job' = p /\ got' = None
        /\ buf' = buf /\ r' = r /\ w' = w /\ fill' = fill
    BY <1>3 DEF Publish
  <2>2. Content' = Content /\ Complete' = Complete BY <2>1, RingStays
  <2>3. TypeOK' BY <2>1 DEF QueueInv, TypeOK
  <2>4. QueueInv' BY <2>1, <2>2, <2>3 DEF QueueInv
  <2>5. Fifo!Quiet BY <2>1, <2>2 DEF Fifo!Quiet
  <2> QED BY <2>4, <2>5 DEF FifoNext
<1>4. CASE PublishPut
  <2>1. /\ AddRb(job) /\ pc' \in {"idle", "put", "drop"} /\ job' = job /\ pc = "put"
    BY <1>4 DEF PublishPut
  <2>2. job \in Packets BY <2>1 DEF QueueInv
  <2> QED BY <2>1, <2>2, NextAddRb
<1>5. CASE PublishDrop
  <2>1. /\ ParseRb /\ pc' \in {"idle", "put", "drop"} /\ job' = job /\ pc = "drop"
    BY <1>5 DEF PublishDrop
  <2>2. job \in Packets BY <2>1 DEF QueueInv
  <2> QED BY <2>1, <2>2, NextParseRb
<1>6. CASE Send
  <2>1. ParseRb /\ pc' = pc /\ job' = job /\ pc = "idle" BY <1>6 DEF Send
  <2>2. pc' \in {"idle", "put", "drop"} /\ (pc' # "idle" => job' \in Packets) BY <2>1
  <2> QED BY <2>1, <2>2, NextParseRb
<1> QED BY <1>2, <1>3, <1>4, <1>5, <1>6 DEF Next

\* Where nothing happens nothing changes.
LEMMA QueueStutters == QueueInv /\ UNCHANGED vars => QueueInv' /\ UNCHANGED <<Complete, got>>
<1> SUFFICES ASSUME QueueInv, UNCHANGED vars PROVE QueueInv' /\ UNCHANGED <<Complete, got>>
  OBVIOUS
<1>1. /\ buf' = buf /\ r' = r /\ w' = w /\ fill' = fill /\ pc' = pc /\ job' = job /\ got' = got
  BY DEF vars
<1>2. Content' = Content /\ Complete' = Complete BY <1>1, RingStays
<1>3. TypeOK' BY <1>1 DEF QueueInv, TypeOK
<1> QED BY <1>1, <1>2, <1>3 DEF QueueInv

\* QUEUE_Init makes a queue without packets.
LEMMA QueueBegins == Init => QueueInv /\ Fifo!Init
<1> SUFFICES ASSUME Init PROVE QueueInv /\ Fifo!Init OBVIOUS
<1>1. /\ buf = [i \in Slots |-> 0] /\ r = 0 /\ w = 0 /\ fill = 0
      /\ pc = "idle" /\ job = None /\ got = None
  BY DEF Init
<1>2. TypeOK BY <1>1, PacketAssumption DEF TypeOK, Slots
<1>3. PICK c \in Seq(Byte) : c = Content /\ Len(c) = 0 BY <1>1, <1>2, ContentType
<1>4. Framed(c) /\ Ends(c) = {} BY <1>3 DEF Framed, Ends
<1> DEFINE f == [i \in 1..0 |-> 0]
<1>5. << >> \in Seq(Packets) /\ Len(<< >>) = 0 OBVIOUS
<1>6. \A i \in 1..0 : FALSE OBVIOUS
<1>7. Holds(c, f, << >>) BY <1>4, <1>5, <1>6 DEF Holds, InOrder
<1>8. Complete = << >> BY <1>3, <1>5, <1>7, CompleteIs DEF Complete
<1>9. QueueInv BY <1>1, <1>2, <1>3, <1>4, <1>5, <1>7 DEF QueueInv
<1> QED BY <1>1, <1>8, <1>9 DEF Fifo!Init

-----------------------------------------------------------------------------
(* The theorems. *)

\* The counters of the ring agree with each other, and what is taken out of it is bytes
\* (RINGBUF_Put, RINGBUF_Get; QUEUE_Gets), for any size and any packets that fit.
THEOREM QueueTypes == Spec => []TypeOK
<1>1. QueueInv => TypeOK BY DEF QueueInv
<1>2. QueueInv /\ [Next]_vars => QueueInv' BY NextQueue, QueueStutters
<1> QED BY <1>1, <1>2, QueueBegins, PTL DEF Spec

\* QUEUE_Puts and QUEUE_Gets are a FIFO of whole packets, whatever was abandoned in the
\* ring and whatever PROTO_ParseRb finds on its stack.
THEOREM QueueIsFifo == Spec => PacketsInOrder
<1>1. QueueInv /\ [Next]_vars => QueueInv' /\ [Fifo!Next]_<<Complete, got>>
  BY NextQueue, QueueStutters DEF FifoNext, Fifo!Next
<1> QED BY <1>1, QueueBegins, PTL DEF Spec, PacketsInOrder, Fifo!Spec
=============================================================================
