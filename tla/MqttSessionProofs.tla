------------------------- MODULE MqttSessionProofs -------------------------
(***************************************************************************)
(* What an open session reads, answers, delivers and sends is right, for    *)
(* any packets that the standard lets a broker send, any number of them in  *)
(* a segment, any requests and any size of the buffers.                    *)
(*                                                                         *)
(* The segment, while it is read, is what the wires of its packets are      *)
(* behind the first j; these were PUBLISHes, were answered, in order, and   *)
(* delivered.  A packet at the beginning of a buffer is read alike whatever *)
(* is behind it.                                                           *)
(***************************************************************************)
EXTENDS MqttSession, WellFoundedInduction, TLAPS

-----------------------------------------------------------------------------
(* Sequences. *)

\* t is v behind u.
IsJoined(t, u, v) ==
  /\ t \in Seq(Nat) /\ Len(t) = Len(u) + Len(v)
  /\ \A i \in 1..Len(u) : t[i] = u[i]
  /\ \A i \in 1..Len(v) : t[Len(u) + i] = v[i]

\* One sequence after the other.
LEMMA Joined ==
  ASSUME NEW u \in Seq(Nat), NEW v \in Seq(Nat)
  PROVE  IsJoined(u \o v, u, v)
  BY DEF IsJoined

\* Sequences of one length that agree everywhere are the same.
LEMMA SameSeq ==
  ASSUME NEW S, NEW u \in Seq(S), NEW v \in Seq(S), Len(u) = Len(v),
         \A i \in 1..Len(u) : u[i] = v[i]
  PROVE  u = v
  OBVIOUS

\* It does not matter which of three sequences are joined first.
LEMMA Associative ==
  ASSUME NEW S, NEW u \in Seq(S), NEW v \in Seq(S), NEW w \in Seq(S)
  PROVE  (u \o v) \o w = u \o (v \o w)
  OBVIOUS

\* Joining nothing.
LEMMA JoinNothing ==
  ASSUME NEW S, NEW u \in Seq(S)
  PROVE  << >> \o u = u /\ u \o << >> = u
  OBVIOUS

\* c is a buffer like in_buffer, and t is in it behind place a.
IsBuffer(c) == c = [i \in 1..BufSize |-> c[i]]
HasBytes(c, a, t) == a + Len(t) <= BufSize /\ \A i \in 1..Len(t) : c[a + i] = t[i]

\* A sequence of length 0.
LEMMA Empty ==
  ASSUME NEW V, NEW t \in Seq(V), Len(t) = 0
  PROVE  t = << >>
  OBVIOUS

\* What a part of a buffer is.
LEMMA PartIs ==
  ASSUME NEW c, IsBuffer(c), NEW a \in Nat, NEW t \in Seq(Nat), HasBytes(c, a, t)
  PROVE  SubSeq(c, a + 1, a + Len(t)) = t
<1> DEFINE V == {c[i] : i \in 1..BufSize} \union Nat
<1>1. c \in Seq(V) /\ BufSize \in Nat
  <2>1. \A i \in 1..BufSize : c[i] \in V OBVIOUS
  <2> HIDE DEF V
  <2> QED BY <2>1, BufAssumption DEF IsBuffer
<1> HIDE DEF V
<1>2. Len(c) = BufSize BY <1>1 DEF IsBuffer
<1>3. PICK n \in Nat : n = Len(t) OBVIOUS
<1>4. a + n <= BufSize /\ \A i \in 1..n : c[a + i] = t[i] BY <1>3 DEF HasBytes
<1>5. SubSeq(c, a + 1, a + n) = [i \in 1..n |-> c[a + i]]
  <2>1. PICK N \in Nat : N = BufSize BY <1>1
  <2>2. a + n <= N /\ Len(c) = N BY <1>2, <1>4, <2>1
  <2>3. c \in Seq(V) BY <1>1
  <2>4. SubSeq(c, a + 1, a + n) = [i \in 1..n |-> c[i + (a + 1) - 1]] BY <2>2, <2>3
  <2>5. \A i \in 1..n : i + (a + 1) - 1 = a + i OBVIOUS
  <2> QED BY <2>4, <2>5
<1>6. t = [i \in 1..n |-> t[i]] BY <1>3
<1> QED BY <1>3, <1>4, <1>5, <1>6

-----------------------------------------------------------------------------
(* Induction and recursion, over sets and functions. *)

\* A set of natural numbers that is not empty has a least element.
LEMMA LeastNatural ==
  ASSUME NEW T, T \subseteq Nat, T # {}
  PROVE  \E x \in T : \A y \in T : x <= y
<1> DEFINE R == OpToRel(<, Nat)
<1>1. \A x, y \in Nat : x < y => <<x, y>> \in R BY DEF OpToRel
<1>2. IsWellFoundedOn(R, Nat) BY NatLessThanWellFounded
<1> HIDE DEF R
<1>3. PICK x \in T : \A y \in T : ~ (<<y, x>> \in R) BY <1>2, WFMin, Zenon
<1>4. ASSUME NEW y \in T PROVE x <= y
  <2>1. ~ (y < x) BY <1>1, <1>3, Zenon
  <2> QED BY <2>1
<1> QED BY <1>4

\* A set with 0 that no step up to n leaves has all numbers up to n.
LEMMA UpTo ==
  ASSUME NEW n \in Nat, NEW T, 0 \in T, \A k \in 1..n : k - 1 \in T => k \in T
  PROVE  \A k \in 0..n : k \in T
<1> DEFINE U == {k \in 0..n : k \notin T}
<1>1. U = {}
  <2> SUFFICES ASSUME U # {} PROVE FALSE OBVIOUS
  <2>1. U \subseteq Nat OBVIOUS
  <2>2. PICK x \in U : \A y \in U : x <= y
    <3> HIDE DEF U
    <3> QED BY <2>1, LeastNatural
  <2>3. x \in 1..n /\ x - 1 \in 0..n /\ ~ (x <= x - 1) BY <2>2
  <2>4. x - 1 \in T BY <2>2, <2>3
  <2> QED BY <2>2, <2>3, <2>4
<1> QED BY <1>1

\* n steps G within S, and f following them from a.
StepsOf(G, n, S) == G \in [1..n -> [S -> S]]
Follows(f, G, n, S, a) ==
  f \in [0..n -> S] /\ f[0] = a /\ \A k \in 1..n : f[k] = G[k][f[k - 1]]

\* Steps that stay in S can be followed from a member of S.
LEMMA Run ==
  ASSUME NEW n \in Nat, NEW S, NEW a \in S, NEW G, StepsOf(G, n, S)
  PROVE  \E f : Follows(f, G, n, S, a)
<1> USE DEF StepsOf, Follows
<1> DEFINE T == {m \in 0..n : \E f \in [0..m -> S] :
                   f[0] = a /\ \A k \in 1..m : f[k] = G[k][f[k - 1]]}
<1>1. 0 \in T
  <2> DEFINE f == [i \in 0..0 |-> a]
  <2>1. f \in [0..0 -> S] /\ f[0] = a BY SMT
  <2>2. \A k \in 1..0 : f[k] = G[k][f[k - 1]] BY SMT
  <2>3. 0 \in 0..n OBVIOUS
  <2> HIDE DEF f
  <2> QED BY <2>1, <2>2, <2>3
<1>2. ASSUME NEW m \in 1..n, m - 1 \in T PROVE m \in T
  <2>1. PICK f \in [0..(m - 1) -> S] :
          f[0] = a /\ \A k \in 1..(m - 1) : f[k] = G[k][f[k - 1]]
    BY <1>2
  <2> DEFINE g == [i \in 0..m |-> IF i = m THEN G[m][f[m - 1]] ELSE f[i]]
  <2>2. m - 1 \in 0..(m - 1) /\ f[m - 1] \in S OBVIOUS
  <2>3. G[m][f[m - 1]] \in S BY <2>2
  <2>4. \A i \in 0..m : i # m => i \in 0..(m - 1) OBVIOUS
  <2>5. \A i \in 0..m : g[i] \in S BY <2>3, <2>4
  <2>6. g \in [0..m -> S] BY <2>5
  <2>7. g[0] = a BY <2>1
  <2>8. ASSUME NEW k \in 1..m PROVE g[k] = G[k][g[k - 1]]
    <3>1. k \in 0..m /\ k - 1 \in 0..m /\ k - 1 # m OBVIOUS
    <3>2. g[k - 1] = f[k - 1] BY <3>1
    <3>3. CASE k = m BY <3>1, <3>2, <3>3
    <3>4. CASE k # m
      <4>1. k \in 1..(m - 1) BY <3>4
      <4>2. g[k] = f[k] BY <3>1, <3>4
      <4> QED BY <2>1, <3>2, <4>1, <4>2
    <3> QED BY <3>3, <3>4
  <2>9. m \in 0..n OBVIOUS
  <2> HIDE DEF g
  <2> QED BY <2>6, <2>7, <2>8, <2>9
<1>3. n \in T
  <2> HIDE DEF T
  <2>1. n \in 0..n OBVIOUS
  <2> QED BY <1>1, <1>2, <2>1, UpTo
<1> QED BY <1>3


-----------------------------------------------------------------------------
(* Sequences of sequences. *)

\* f[k] is what the first k sequences of e are, one after the other.
Joins(f, e, S) ==
  /\ f \in [0..Len(e) -> Seq(S)] /\ f[0] = << >>
  /\ \A k \in 1..Len(e) : f[k] = f[k - 1] \o e[k]

\* There is such an f.
LEMMA JoinsExist ==
  ASSUME NEW S, NEW e \in Seq(Seq(S))
  PROVE  \E f : Joins(f, e, S)
<1> DEFINE n == Len(e)
           G == [k \in 1..n |-> [s \in Seq(S) |-> s \o e[k]]]
<1>1. n \in Nat /\ \A k \in 1..n : e[k] \in Seq(S) OBVIOUS
<1>2. \A k \in 1..n : \A s \in Seq(S) : s \o e[k] \in Seq(S) BY <1>1
<1>3. StepsOf(G, n, Seq(S)) BY <1>2 DEF StepsOf
<1>4. << >> \in Seq(S) OBVIOUS
<1>5. PICK f : Follows(f, G, n, Seq(S), << >>)
  <2> HIDE DEF n, G
  <2> QED BY <1>1, <1>3, <1>4, Run, Zenon
<1>6. f \in [0..n -> Seq(S)] /\ f[0] = << >> /\ \A k \in 1..n : f[k] = G[k][f[k - 1]]
  BY <1>5 DEF Follows
<1>7. \A k \in 1..n : k - 1 \in 0..n BY <1>1
<1>8. \A k \in 1..n : f[k] = f[k - 1] \o e[k] BY <1>6, <1>7
<1> HIDE DEF G
<1> QED BY <1>6, <1>8 DEF Joins

\* e begins with the m sequences of t.
StartsWith(e, t) == Len(t) <= Len(e) /\ \A i \in 1..Len(t) : t[i] = e[i]

\* FlattenSeq joins them.
LEMMA FlattenIs ==
  ASSUME NEW S, NEW e \in Seq(Seq(S)), NEW f, Joins(f, e, S),
         NEW t \in Seq(Seq(S)), StartsWith(e, t)
  PROVE  FlattenSeq(t) = f[Len(t)]
<1>1. PICK m \in Nat : m = Len(t) OBVIOUS
<1>2. PICK n \in Nat : n = Len(e) OBVIOUS
<1>3. m <= n /\ \A i \in 1..m : t[i] = e[i] BY <1>1, <1>2 DEF StartsWith
<1>4. f \in [0..n -> Seq(S)] /\ f[0] = << >> /\ \A k \in 1..n : f[k] = f[k - 1] \o e[k]
  BY <1>2 DEF Joins
<1>5. \A k \in 1..m : f[k] = f[k - 1] \o t[k]
  <2> SUFFICES ASSUME NEW k \in 1..m PROVE f[k] = f[k - 1] \o t[k] OBVIOUS
  <2>1. k \in 1..n BY <1>3
  <2> QED BY <1>3, <1>4, <2>1
<1>6. CASE m = 0
  <2>1. t = << >>
    <3>1. Len(t) = 0 BY <1>1, <1>6
    <3> QED BY <3>1, Empty, Zenon
  <2>2. FlattenSeq(t) = t BY <1>1, <1>6 DEF FlattenSeq
  <2> QED BY <1>1, <1>4, <1>6, <2>1, <2>2
<1>7. CASE m # 0
  <2> DEFINE flat == CHOOSE g : g = [i \in 1..Len(t) |-> IF i = 1 THEN t[i] ELSE g[i - 1] \o t[i]]
             h == [i \in 1..Len(t) |-> f[i]]
  <2>1. f[1] = t[1]
    <3>1. 1 \in 1..m /\ 1 - 1 = 0 BY <1>7
    <3>2. f[1] = << >> \o t[1] BY <1>4, <1>5, <3>1
    <3>3. t[1] \in Seq(S) BY <1>1, <3>1
    <3> QED BY <3>2, <3>3
  <2>2. h = [i \in 1..Len(t) |-> IF i = 1 THEN t[i] ELSE h[i - 1] \o t[i]]
    <3>1. ASSUME NEW i \in 1..Len(t)
          PROVE  h[i] = IF i = 1 THEN t[i] ELSE h[i - 1] \o t[i]
      <4>1. CASE i = 1 BY <2>1, <4>1
      <4>2. CASE i # 1
        <5>1. i \in 1..m /\ i - 1 \in 1..Len(t) BY <1>1, <4>2
        <5> QED BY <1>5, <4>2, <5>1
      <4> QED BY <4>1, <4>2
    <3> QED BY <3>1
  <2>3. flat = [i \in 1..Len(t) |-> IF i = 1 THEN t[i] ELSE flat[i - 1] \o t[i]] BY <2>2
  <2>4. FlattenSeq(t) = flat[Len(t)] BY <1>1, <1>7 DEF FlattenSeq
  <2> HIDE DEF flat, h
  <2>5. flat[1] = t[1]
    <3>1. 1 \in 1..Len(t) BY <1>1, <1>7
    <3> QED BY <2>3, <3>1
  <2>6. ASSUME NEW i \in 1..m, i # 1 PROVE flat[i] = flat[i - 1] \o t[i]
    <3>1. i \in 1..Len(t) BY <1>1
    <3> QED BY <2>3, <2>6, <3>1
  <2> DEFINE T == {k \in 0..m : k = 0 \/ flat[k] = f[k]}
  <2>7. 0 \in T BY <1>1
  <2>8. ASSUME NEW k \in 1..m, k - 1 \in T PROVE k \in T
    <3>1. k \in 0..m BY <1>1
    <3>2. CASE k = 1 BY <2>1, <2>5, <3>1, <3>2
    <3>3. CASE k # 1
      <4>1. k - 1 # 0 /\ flat[k - 1] = f[k - 1] BY <2>8, <3>3
      <4> QED BY <1>5, <2>6, <3>1, <3>3, <4>1
    <3> QED BY <3>2, <3>3
  <2>9. \A k \in 0..m : k \in T
    <3> HIDE DEF T
    <3> QED BY <2>7, <2>8, UpTo
  <2>10. m \in 0..m OBVIOUS
  <2> QED BY <1>1, <1>7, <2>4, <2>9, <2>10
<1> QED BY <1>6, <1>7

\* What the first k are begins what more of them are.
LEMMA JoinsGrow ==
  ASSUME NEW e \in Seq(Seq(Nat)), NEW f, Joins(f, e, Nat), NEW k \in 0..Len(e)
  PROVE  /\ Len(f[k]) \in Nat /\ Len(f[Len(e)]) \in Nat /\ Len(f[k]) <= Len(f[Len(e)])
         /\ \A i \in 1..Len(f[k]) : f[Len(e)][i] = f[k][i]
<1>1. PICK n \in Nat : n = Len(e) OBVIOUS
<1>2. f \in [0..n -> Seq(Nat)] /\ \A l \in 1..n : f[l] = f[l - 1] \o e[l]
  BY <1>1 DEF Joins
<1>3. \A l \in 1..n : e[l] \in Seq(Nat) BY <1>1
<1> DEFINE Starts(l) == /\ Len(f[l]) <= Len(f[n])
                        /\ \A i \in 1..Len(f[l]) : f[n][i] = f[l][i]
           T == {d \in 0..n : Starts(n - d)}
<1>4. 0 \in T
  <2>1. n - 0 = n /\ n \in 0..n /\ 0 \in 0..n OBVIOUS
  <2>2. f[n] \in Seq(Nat) BY <1>2, <2>1
  <2>3. Starts(n) BY <2>2
  <2> QED BY <2>1, <2>3
<1>5. ASSUME NEW d \in 1..n, d - 1 \in T PROVE d \in T
  <2> DEFINE l == n - d
  <2>1. /\ l \in 0..n /\ l + 1 \in 1..n /\ l + 1 \in 0..n /\ (l + 1) - 1 = l
        /\ n - (d - 1) = l + 1 /\ d \in 0..n
    OBVIOUS
  <2>2. Starts(l + 1) BY <1>5, <2>1
  <2> HIDE DEF l
  <2>3. f[l + 1] = f[l] \o e[l + 1] BY <1>2, <2>1
  <2>4. PICK u \in Seq(Nat) : u = f[l] BY <1>2, <2>1
  <2>5. PICK v \in Seq(Nat) : v = e[l + 1] BY <1>3, <2>1
  <2>6. PICK t \in Seq(Nat) : t = f[l + 1] BY <1>2, <2>1
  <2>7. IsJoined(t, u, v) BY <2>3, <2>4, <2>5, <2>6, Joined
  <2>8. Len(u) <= Len(t) /\ \A i \in 1..Len(u) : t[i] = u[i] BY <2>7 DEF IsJoined
  <2>9. n \in 0..n OBVIOUS
  <2>10. PICK w \in Seq(Nat) : w = f[n] BY <1>2, <2>9
  <2>11. Len(t) <= Len(w) /\ \A i \in 1..Len(t) : w[i] = t[i] BY <2>2, <2>6, <2>10
  <2>12. Len(u) <= Len(w) BY <2>8, <2>11
  <2>13. ASSUME NEW i \in 1..Len(u) PROVE w[i] = u[i]
    <3>1. i \in 1..Len(t) BY <2>8
    <3> QED BY <2>8, <2>11, <3>1
  <2>14. Starts(l) BY <2>4, <2>10, <2>12, <2>13
  <2> QED BY <2>1, <2>14 DEF l
<1>6. \A d \in 0..n : d \in T
  <2> HIDE DEF T
  <2> QED BY <1>4, <1>5, UpTo
<1>7. k \in 0..n /\ n - k \in 0..n /\ n - (n - k) = k BY <1>1
<1>8. Starts(k) BY <1>6, <1>7
<1>9. f[k] \in Seq(Nat) /\ f[n] \in Seq(Nat) BY <1>2, <1>7
<1> QED BY <1>1, <1>8, <1>9

-----------------------------------------------------------------------------
(* Numbers in bytes. *)

\* The two bytes of a number.
LEMMA TwoBytes ==
  ASSUME NEW n \in Nat
  PROVE  /\ Bytes2(n) \in Seq(Nat) /\ Len(Bytes2(n)) = 2
         /\ Number(Bytes2(n)[1], Bytes2(n)[2]) = n
<1>1. n \div 256 \in Nat /\ n % 256 \in Nat /\ 256 * (n \div 256) + (n % 256) = n OBVIOUS
<1> QED BY <1>1 DEF Bytes2, Number

\* A string: its length and its bytes.
LEMMA StringIs ==
  ASSUME NEW s \in Seq(Nat)
  PROVE  /\ String(s) \in Seq(Nat) /\ Len(String(s)) = Len(s) + 2
         /\ Number(String(s)[1], String(s)[2]) = Len(s)
         /\ \A i \in 1..Len(s) : String(s)[2 + i] = s[i]
<1>1. PICK n \in Nat : n = Len(s) OBVIOUS
<1>2. PICK h \in Seq(Nat) : h = Bytes2(n) /\ Len(h) = 2 /\ Number(h[1], h[2]) = n
  BY TwoBytes
<1>3. PICK t : t = String(s) OBVIOUS
<1>4. t = h \o s BY <1>1, <1>2, <1>3 DEF String
<1>5. /\ t \in Seq(Nat) /\ Len(t) = Len(h) + Len(s)
      /\ \A i \in 1..Len(h) : t[i] = h[i]
      /\ \A i \in 1..Len(s) : t[Len(h) + i] = s[i]
  <2>1. IsJoined(t, h, s) BY <1>4, Joined
  <2> QED BY <2>1 DEF IsJoined
<1>6. t[1] = h[1] /\ t[2] = h[2] BY <1>2, <1>5
<1> QED BY <1>1, <1>2, <1>3, <1>5, <1>6

\* There are identifiers.
LEMMA SomeIds == Max16 \in Nat /\ Max16 > 1
  BY DEF Max16

\* Bytes are numbers.
LEMMA BytesAre ==
  ASSUME NEW s \in Seq(Byte)
  PROVE  s \in Seq(Nat)
<1>1. s = [i \in 1..Len(s) |-> s[i]] /\ Len(s) \in Nat OBVIOUS
<1>2. \A i \in 1..Len(s) : s[i] \in Byte OBVIOUS
<1>3. \A b \in Byte : b \in Nat BY DEF Byte
<1>4. \A i \in 1..Len(s) : s[i] \in Nat BY <1>2, <1>3
<1> QED BY <1>1, <1>4

\* The next identifier is one.
LEMMA NextIdIs ==
  ASSUME NEW id \in 0..Max16
  PROVE  NextId(id) \in 0..Max16 /\ NextId(id) # 0
  BY SomeIds DEF NextId

-----------------------------------------------------------------------------
(* A packet on the wire. *)

\* The bytes of the length n of a body, and a packet with the first byte h.
Lengths(n) == IF n < 128 THEN <<n>> ELSE <<128 + (n % 128), n \div 128>>
Framed(h, body) == <<h>> \o Lengths(Len(body)) \o body
HeaderLen(n) == IF n < 128 THEN 2 ELSE 3

\* c begins with w.
Begins(c, w) == \A i \in 1..Len(w) : c[i] = w[i]

\* w has these parts.
IsFramed(w, h, body) ==
  /\ w \in Seq(Nat) /\ Len(w) = HeaderLen(Len(body)) + Len(body) /\ w[1] = h
  /\ \A i \in 1..Len(body) : w[HeaderLen(Len(body)) + i] = body[i]
  /\ IF Len(body) < 128 THEN w[2] = Len(body)
     ELSE w[2] = 128 + (Len(body) % 128) /\ w[3] = Len(body) \div 128

\* Where the parts of a packet are.
LEMMA FramedIs ==
  ASSUME NEW h \in Nat, NEW body \in Seq(Nat)
  PROVE  IsFramed(Framed(h, body), h, body)
<1>1. PICK n \in Nat : n = Len(body) OBVIOUS
<1>2. PICK e \in {2, 3} : e = HeaderLen(n) BY DEF HeaderLen
<1>3. PICK w : w = Framed(h, body) OBVIOUS
<1> DEFINE l == Lengths(n)
           first == <<h>>
           head == first \o l
<1>4. w = head \o body BY <1>1, <1>3 DEF Framed
<1>5. /\ l \in Seq(Nat) /\ Len(l) = e - 1
      /\ IF n < 128 THEN l[1] = n ELSE l[1] = 128 + (n % 128) /\ l[2] = n \div 128
  <2>1. CASE n < 128 BY <1>2, <2>1 DEF Lengths, HeaderLen
  <2>2. CASE ~ (n < 128)
    <3>1. n % 128 \in Nat /\ n \div 128 \in Nat OBVIOUS
    <3> QED BY <1>2, <2>2, <3>1 DEF Lengths, HeaderLen
  <2> QED BY <2>1, <2>2
<1>6. first \in Seq(Nat) /\ Len(first) = 1 /\ first[1] = h OBVIOUS
<1> HIDE DEF l, first
<1>7. /\ head \in Seq(Nat) /\ Len(head) = e /\ head[1] = h
      /\ IF n < 128 THEN head[2] = n ELSE head[2] = 128 + (n % 128) /\ head[3] = n \div 128
  <2>1. /\ head \in Seq(Nat) /\ Len(head) = Len(first) + Len(l)
        /\ \A i \in 1..Len(first) : head[i] = first[i]
        /\ \A i \in 1..Len(l) : head[Len(first) + i] = l[i]
    <3>1. IsJoined(head, first, l) BY <1>5, <1>6, Joined
    <3> HIDE DEF head
    <3> QED BY <3>1 DEF IsJoined
  <2> HIDE DEF head
  <2>2. Len(head) = e /\ head[1] = h /\ \A i \in 1..(e - 1) : head[1 + i] = l[i]
    BY <1>2, <1>5, <1>6, <2>1
  <2>3. 1 \in 1..(e - 1) /\ (~ (n < 128) => 2 \in 1..(e - 1)) BY <1>2 DEF HeaderLen
  <2>4. head[2] = l[1] /\ (~ (n < 128) => head[3] = l[2])
    <3>1. 1 + 1 = 2 /\ 1 + 2 = 3 OBVIOUS
    <3> QED BY <2>2, <2>3, <3>1
  <2> QED BY <1>5, <2>1, <2>2, <2>4
<1> HIDE DEF head
<1>8. /\ w \in Seq(Nat) /\ Len(w) = e + n
      /\ \A i \in 1..Len(head) : w[i] = head[i]
      /\ \A i \in 1..n : w[e + i] = body[i]
  <2>1. /\ w \in Seq(Nat) /\ Len(w) = Len(head) + Len(body)
        /\ \A i \in 1..Len(head) : w[i] = head[i]
        /\ \A i \in 1..Len(body) : w[Len(head) + i] = body[i]
    <3>1. IsJoined(w, head, body) BY <1>4, <1>7, Joined
    <3> QED BY <3>1 DEF IsJoined
  <2> QED BY <1>1, <1>7, <2>1
<1>9. w[1] = h /\ w[2] = head[2] /\ (~ (n < 128) => w[3] = head[3])
  <2>1. 1 \in 1..e /\ 2 \in 1..e /\ (~ (n < 128) => 3 \in 1..e) BY <1>2 DEF HeaderLen
  <2> QED BY <1>7, <1>8, <2>1
<1>10. IsFramed(w, h, body) BY <1>1, <1>2, <1>7, <1>8, <1>9 DEF IsFramed
<1> QED BY <1>3, <1>10

\* The end of the length is found, whatever is behind the packet (mqtt_get_total_length).
LEMMA LengthEndIs ==
  ASSUME NEW h \in Nat, NEW body \in Seq(Nat), Len(body) < 128 * 128, NEW c,
         Begins(c, Framed(h, body)), NEW N \in Nat, HeaderLen(Len(body)) <= N
  PROVE  LengthEnd(c, N) = HeaderLen(Len(body))
<1>1. PICK n \in Nat : n = Len(body) OBVIOUS
<1>2. PICK e \in {2, 3} : e = HeaderLen(n) BY DEF HeaderLen
<1>3. PICK w \in Seq(Nat) :
        /\ w = Framed(h, body) /\ Len(w) = e + n
        /\ IF n < 128 THEN w[2] = n ELSE w[2] = 128 + (n % 128) /\ w[3] = n \div 128
  <2>1. PICK w : w = Framed(h, body) OBVIOUS
  <2>2. /\ w \in Seq(Nat) /\ Len(w) = e + n
        /\ IF n < 128 THEN w[2] = n ELSE w[2] = 128 + (n % 128) /\ w[3] = n \div 128
    <3>1. IsFramed(w, h, body) BY <2>1, FramedIs
    <3> QED BY <1>1, <1>2, <3>1 DEF IsFramed
  <2> QED BY <2>1, <2>2
<1>4. c[2] = w[2] /\ (~ (n < 128) => c[3] = w[3])
  <2>1. \A i \in 1..Len(w) : c[i] = w[i] BY <1>3 DEF Begins
  <2> QED BY <1>2, <1>3, <2>1 DEF HeaderLen
<1>5. e = IF c[2] < 128 THEN 2 ELSE 3
  <2>1. n % 128 \in Nat OBVIOUS
  <2> QED BY <1>2, <1>3, <1>4, <2>1 DEF HeaderLen
<1>6. c[e] < 128
  <2>1. ~ (n < 128) => n \div 128 < 128 BY <1>1
  <2> QED BY <1>2, <1>3, <1>4, <2>1 DEF HeaderLen
<1> DEFINE last == {i \in 2..N : c[i] < 128}
<1>7. e \in last /\ \A j \in last : e <= j
  <2>1. e \in 2..N BY <1>1, <1>2
  <2>2. ASSUME NEW j \in last PROVE e <= j
    <3>1. j \in 2..N /\ (j = 2 => c[2] < 128) OBVIOUS
    <3> QED BY <1>2, <1>5, <3>1
  <2> QED BY <1>6, <2>1, <2>2
<1>8. LengthEnd(c, N) = CHOOSE i \in last : \A j \in last : i <= j BY <1>7 DEF LengthEnd
<1>9. last \subseteq Nat OBVIOUS
<1> HIDE DEF last
<1>10. \A i \in last : (\A j \in last : i <= j) => i = e BY <1>2, <1>7, <1>9
<1>11. (CHOOSE i \in last : \A j \in last : i <= j) = e BY <1>7, <1>10
<1> QED BY <1>1, <1>2, <1>8, <1>11

\* So is the length of the packet.
LEMMA TotalLengthIs ==
  ASSUME NEW h \in Nat, NEW body \in Seq(Nat), Len(body) < 128 * 128, NEW c,
         Begins(c, Framed(h, body)), NEW N \in Nat, HeaderLen(Len(body)) <= N
  PROVE  TotalLength(c, N) = Len(Framed(h, body))
<1>1. PICK n \in Nat : n = Len(body) OBVIOUS
<1>2. PICK e \in {2, 3} : e = HeaderLen(n) BY DEF HeaderLen
<1>3. PICK w \in Seq(Nat) :
        /\ w = Framed(h, body) /\ Len(w) = e + n
        /\ IF n < 128 THEN w[2] = n ELSE w[2] = 128 + (n % 128) /\ w[3] = n \div 128
  <2>1. PICK w : w = Framed(h, body) OBVIOUS
  <2>2. /\ w \in Seq(Nat) /\ Len(w) = e + n
        /\ IF n < 128 THEN w[2] = n ELSE w[2] = 128 + (n % 128) /\ w[3] = n \div 128
    <3>1. IsFramed(w, h, body) BY <2>1, FramedIs
    <3> QED BY <1>1, <1>2, <3>1 DEF IsFramed
  <2> QED BY <2>1, <2>2
<1>4. c[2] = w[2] /\ (~ (n < 128) => c[3] = w[3])
  <2>1. \A i \in 1..Len(w) : c[i] = w[i] BY <1>3 DEF Begins
  <2> QED BY <1>2, <1>3, <2>1 DEF HeaderLen
<1>5. LengthEnd(c, N) = e BY <1>1, <1>2, LengthEndIs
<1> DEFINE E == LengthEnd(c, N)
           Step(s, i) == IF i > E THEN 0 ELSE (c[i] % 128) + 128 * s[i + 1]
           f == [i \in 2..(E + 1) |-> IF i > E THEN 0
                  ELSE (c[i] % 128) + 128 * (IF i + 1 > E THEN 0 ELSE c[i + 1] % 128)]
           sum == CHOOSE s : s = [i \in 2..(E + 1) |-> Step(s, i)]
<1>6. f = [i \in 2..(E + 1) |-> Step(f, i)]
  <2>1. ASSUME NEW i \in 2..(E + 1) PROVE f[i] = Step(f, i)
    <3>1. CASE i > E BY <3>1
    <3>2. CASE ~ (i > E)
      <4>1. i + 1 \in 2..(E + 1) BY <1>2, <1>5, <3>2
      <4>2. f[i + 1] = IF i + 1 > E THEN 0 ELSE c[i + 1] % 128
        <5>1. CASE i + 1 > E BY <4>1, <5>1
        <5>2. CASE ~ (i + 1 > E)
          <6>1. i + 2 > E /\ (i + 1) + 1 > E BY <1>2, <1>5, <5>2
          <6>2. e = 3 /\ i = 2 BY <1>2, <1>5, <5>2
          <6>3. c[3] % 128 \in Nat BY <1>2, <1>3, <1>4, <6>2 DEF HeaderLen
          <6> QED BY <4>1, <5>2, <6>1, <6>2, <6>3
        <5> QED BY <5>1, <5>2
      <4> QED BY <3>2, <4>2
    <3> QED BY <3>1, <3>2
  <2> HIDE DEF Step
  <2> QED BY <2>1
<1>7. sum = [i \in 2..(E + 1) |-> Step(sum, i)] BY <1>6
<1>8. TotalLength(c, N) = sum[2] + E BY DEF TotalLength
<1> HIDE DEF f, sum, E
<1>9. sum[2] = n
  <2>0. E = e BY <1>5 DEF E
  <2>1. sum[e + 1] = 0
    <3>1. e + 1 \in 2..(E + 1) /\ e + 1 > E BY <1>2, <2>0
    <3> QED BY <1>7, <2>0, <3>1
  <2>2. CASE n < 128
    <3>1. e = 2 /\ 2 \in 2..(E + 1) /\ c[2] = n BY <2>0, <1>2, <1>3, <1>4, <2>2 DEF HeaderLen
    <3>2. sum[3] = 0 BY <2>1, <3>1
    <3>3. sum[2] = (c[2] % 128) + 128 * sum[3]
      <4>1. 2 \in 2..(E + 1) /\ 3 \in 2..(E + 1) /\ ~ (2 > E) BY <2>0, <3>1
      <4> QED BY <1>7, <2>0, <4>1
    <3>4. n % 128 = n
      <4>1. n \in Int /\ 0 <= n /\ n < 128 BY <1>1, <2>2
      <4> QED BY <4>1
    <3> QED BY <3>1, <3>2, <3>3, <3>4
  <2>3. CASE ~ (n < 128)
    <3>1. e = 3 /\ c[2] = 128 + (n % 128) /\ c[3] = n \div 128
      BY <1>2, <1>3, <1>4, <2>3 DEF HeaderLen
    <3>2. sum[4] = 0 BY <2>1, <3>1
    <3>3. sum[3] = (c[3] % 128) + 128 * sum[4] /\ sum[2] = (c[2] % 128) + 128 * sum[3]
      <4>1. 2 \in 2..(E + 1) /\ 3 \in 2..(E + 1) /\ ~ (2 > E) /\ ~ (3 > E) BY <2>0, <3>1
      <4> QED BY <1>7, <2>0, <4>1
    <3>4. /\ (n \div 128) % 128 = n \div 128 /\ (128 + (n % 128)) % 128 = n % 128
          /\ (n % 128) + 128 * (n \div 128) = n /\ n \div 128 \in Nat
      <4>1. n \in Nat /\ n < 16384 BY <1>1
      <4>2. PICK k \in Nat : k = n \div 128 BY <4>1
      <4>3. PICK r \in Nat : r = n % 128 BY <4>1
      <4>4. r < 128 /\ r + 128 * k = n BY <4>1, <4>2, <4>3
      <4>5. k < 128 BY <4>1, <4>4
      <4>6. k % 128 = k /\ (128 + r) % 128 = r BY <4>4, <4>5
      <4> QED BY <4>2, <4>3, <4>4, <4>6
    <3> QED BY <3>1, <3>2, <3>3, <3>4
  <2> QED BY <2>2, <2>3
<1> QED BY <1>1, <1>2, <1>3, <1>5, <1>8, <1>9 DEF E

-----------------------------------------------------------------------------
(* A packet of the broker. *)

\* What follows the header of a packet, and its first byte.
Body(p) == (IF p.type = PUBLISH THEN String(p.topic) ELSE << >>)
           \o (IF p.id # 0 THEN Bytes2(p.id) ELSE << >>) \o p.data
First(p) == 16 * p.type + 2 * p.qos

\* The parts of a packet that a broker may send.
LEMMA PacketIs ==
  ASSUME NEW p \in Incoming
  PROVE  /\ p.type \in 1..15 /\ p.qos \in 0..2 /\ p.id \in Nat
         /\ p.topic \in Seq(Nat) /\ p.data \in Seq(Nat)
         /\ p.type = PUBLISH => p.topic # << >> /\ (p.id # 0 <=> p.qos > 0)
         /\ p.type \in {PUBREC, PUBREL} => p.id # 0 /\ p.data = << >>
<1>1. /\ p.type \in 1..15 /\ p.qos \in 0..2 /\ p.id \in 0..Max16
      /\ p.topic \in Seq(Byte) /\ p.data \in Seq(Byte)
  BY IncomingAssumption
<1>2. p.id \in Nat BY <1>1, SomeIds
<1> QED BY <1>1, <1>2, BytesAre, IncomingAssumption

\* The first byte holds the type and the quality of service.
LEMMA FirstIs ==
  ASSUME NEW p \in Incoming
  PROVE  First(p) \in Nat /\ First(p) \div 16 = p.type /\ (First(p) \div 2) % 4 = p.qos
<1>1. PICK t \in 1..15 : t = p.type BY PacketIs
<1>2. PICK q \in 0..2 : q = p.qos BY PacketIs
<1>3. (16 * t + 2 * q) \div 16 = t /\ ((16 * t + 2 * q) \div 2) % 4 = q
  <2>1. (16 * t + 2 * q) \div 16 = t OBVIOUS
  <2>2. (16 * t + 2 * q) \div 2 = 8 * t + q OBVIOUS
  <2>3. (8 * t + q) % 4 = q OBVIOUS
  <2> QED BY <2>1, <2>2, <2>3
<1>4. PICK f \in Nat : f = 16 * t + 2 * q OBVIOUS
<1>5. First(p) = f BY <1>1, <1>2, <1>4 DEF First
<1>6. f \div 16 = t /\ (f \div 2) % 4 = q BY <1>3, <1>4
<1> QED BY <1>1, <1>2, <1>4, <1>5, <1>6

\* What is put on the wire is framed.
LEMMA AnyWireIs ==
  ASSUME NEW p
  PROVE  Wire(p) = Framed(First(p), Body(p))
  BY DEF Wire, Framed, First, Body, Lengths

\* The body of a packet of the broker is one.
LEMMA WireIs ==
  ASSUME NEW p \in Incoming
  PROVE  Wire(p) = Framed(First(p), Body(p)) /\ Body(p) \in Seq(Nat)
<1>1. Wire(p) = Framed(First(p), Body(p)) BY AnyWireIs
<1>2. Body(p) \in Seq(Nat)
  <2>1. PICK u \in Seq(Nat) : u = IF p.type = PUBLISH THEN String(p.topic) ELSE << >>
    <3>1. String(p.topic) \in Seq(Nat) BY PacketIs, StringIs
    <3>2. << >> \in Seq(Nat) OBVIOUS
    <3> QED BY <3>1, <3>2
  <2>2. PICK v \in Seq(Nat) : v = IF p.id # 0 THEN Bytes2(p.id) ELSE << >>
    <3>1. Bytes2(p.id) \in Seq(Nat) BY PacketIs, TwoBytes
    <3>2. << >> \in Seq(Nat) OBVIOUS
    <3> QED BY <3>1, <3>2
  <2>3. PICK d \in Seq(Nat) : d = p.data BY PacketIs
  <2>4. Body(p) = u \o v \o d BY <2>1, <2>2, <2>3 DEF Body
  <2> QED BY <2>4
<1> QED BY <1>1, <1>2

\* Where the parts of a PUBLISH are in its body.
IdLen(p) == IF p.qos > 0 THEN 2 ELSE 0
DataAt(p) == 2 + Len(p.topic) + IdLen(p)

\* They follow each other.
LEMMA PublishIs ==
  ASSUME NEW p \in Incoming, p.type = PUBLISH
  PROVE  /\ Len(p.topic) \in Nat \ {0} /\ Len(p.data) \in Nat
         /\ Len(Body(p)) = DataAt(p) + Len(p.data)
         /\ Number(Body(p)[1], Body(p)[2]) = Len(p.topic)
         /\ \A i \in 1..Len(p.topic) : Body(p)[2 + i] = p.topic[i]
         /\ p.qos > 0 => Number(Body(p)[3 + Len(p.topic)], Body(p)[4 + Len(p.topic)]) = p.id
         /\ \A i \in 1..Len(p.data) : Body(p)[DataAt(p) + i] = p.data[i]
<1>1. PICK l \in Nat \ {0} : l = Len(p.topic) BY PacketIs
<1>2. PICK u \in Seq(Nat) :
        /\ u = String(p.topic) /\ Len(u) = l + 2 /\ Number(u[1], u[2]) = l
        /\ \A i \in 1..l : u[2 + i] = p.topic[i]
  BY <1>1, PacketIs, StringIs
<1>3. PICK v \in Seq(Nat) :
        /\ v = IF p.id # 0 THEN Bytes2(p.id) ELSE << >>
        /\ Len(v) = IdLen(p) /\ (p.qos > 0 => Number(v[1], v[2]) = p.id)
  <2>1. CASE p.qos > 0
    <3>1. p.id # 0 /\ p.id \in Nat BY <2>1, PacketIs
    <3> QED BY <2>1, <3>1, TwoBytes DEF IdLen
  <2>2. CASE ~ (p.qos > 0)
    <3>1. ~ (p.id # 0) BY <2>2, PacketIs
    <3>2. << >> \in Seq(Nat) /\ Len(<< >>) = 0 OBVIOUS
    <3> QED BY <2>2, <3>1, <3>2 DEF IdLen
  <2> QED BY <2>1, <2>2
<1>4. PICK d \in Seq(Nat) : d = p.data BY PacketIs
<1>5. PICK x : x = u \o v OBVIOUS
<1>6. PICK b : b = x \o d OBVIOUS
<1>7. b = Body(p) BY <1>2, <1>3, <1>4, <1>5, <1>6 DEF Body
<1>8. PICK k \in {0, 2} : k = IdLen(p) BY DEF IdLen
<1>9. /\ x \in Seq(Nat) /\ Len(x) = l + 2 + k
      /\ \A i \in 1..(l + 2) : x[i] = u[i]
      /\ \A i \in 1..k : x[l + 2 + i] = v[i]
  <2>1. /\ x \in Seq(Nat) /\ Len(x) = Len(u) + Len(v)
        /\ \A i \in 1..Len(u) : x[i] = u[i]
        /\ \A i \in 1..Len(v) : x[Len(u) + i] = v[i]
    <3>1. IsJoined(x, u, v) BY <1>5, Joined
    <3> QED BY <3>1 DEF IsJoined
  <2> QED BY <1>1, <1>2, <1>3, <1>8, <2>1
<1>10. /\ b \in Seq(Nat) /\ Len(b) = l + 2 + k + Len(d)
       /\ \A i \in 1..(l + 2 + k) : b[i] = x[i]
       /\ \A i \in 1..Len(d) : b[l + 2 + k + i] = d[i]
  <2>1. /\ b \in Seq(Nat) /\ Len(b) = Len(x) + Len(d)
        /\ \A i \in 1..Len(x) : b[i] = x[i]
        /\ \A i \in 1..Len(d) : b[Len(x) + i] = d[i]
    <3>1. IsJoined(b, x, d) BY <1>6, <1>9, Joined
    <3> QED BY <3>1 DEF IsJoined
  <2> QED BY <1>9, <2>1
<1>11. b[1] = u[1] /\ b[2] = u[2]
  <2>1. 1 \in 1..(l + 2) /\ 2 \in 1..(l + 2) /\ 1 \in 1..(l + 2 + k) /\ 2 \in 1..(l + 2 + k)
    BY <1>8
  <2> QED BY <1>9, <1>10, <2>1
<1>12. \A i \in 1..l : b[2 + i] = p.topic[i]
  <2> SUFFICES ASSUME NEW i \in 1..l PROVE b[2 + i] = p.topic[i] OBVIOUS
  <2>1. PICK j \in 1..(l + 2) : j = 2 + i BY <1>1
  <2>2. j \in 1..(l + 2 + k) BY <1>1, <1>8
  <2>3. b[j] = u[j] BY <1>9, <1>10, <2>2
  <2> QED BY <1>2, <2>1, <2>3
<1>13. p.qos > 0 => b[3 + l] = v[1] /\ b[4 + l] = v[2]
  <2> SUFFICES ASSUME p.qos > 0 PROVE b[3 + l] = v[1] /\ b[4 + l] = v[2] OBVIOUS
  <2>1. k = 2 BY <1>8 DEF IdLen
  <2>2. /\ 1 \in 1..k /\ 2 \in 1..k /\ l + 2 + 1 = 3 + l /\ l + 2 + 2 = 4 + l
        /\ 3 + l \in 1..(l + 2 + k) /\ 4 + l \in 1..(l + 2 + k)
    BY <2>1
  <2> QED BY <1>9, <1>10, <2>2
<1>14. DataAt(p) = l + 2 + k BY <1>1, <1>8 DEF DataAt
<1>15. Number(b[1], b[2]) = l BY <1>2, <1>11
<1>16. p.qos > 0 => Number(b[3 + l], b[4 + l]) = p.id BY <1>3, <1>13
<1>17. Len(b) = DataAt(p) + Len(d) /\ \A i \in 1..Len(d) : b[DataAt(p) + i] = d[i]
  BY <1>10, <1>14
<1>18. Len(d) \in Nat OBVIOUS
<1> QED BY <1>1, <1>4, <1>7, <1>12, <1>15, <1>16, <1>17, <1>18

\* The others that are answered with an identifier hold nothing but one.
LEMMA OnlyIdIs ==
  ASSUME NEW p \in Incoming, p.type \in {PUBREC, PUBREL}
  PROVE  Len(Body(p)) = 2 /\ Number(Body(p)[1], Body(p)[2]) = p.id
<1>1. p.id # 0 /\ p.id \in Nat /\ p.data = << >> /\ p.type # PUBLISH
  BY PacketIs DEF PUBREC, PUBREL, PUBLISH
<1>2. PICK v \in Seq(Nat) : v = Bytes2(p.id) /\ Len(v) = 2 /\ Number(v[1], v[2]) = p.id
  BY <1>1, TwoBytes
<1>3. Body(p) = << >> \o v \o << >> BY <1>1, <1>2 DEF Body
<1>4. Body(p) = v BY <1>3, JoinNothing
<1> QED BY <1>2, <1>4

\* p is at the beginning of c, and fits in_buffer.
AtBegin(c, p) == Begins(c, Wire(p)) /\ Len(Wire(p)) < BufSize

\* Its header is as long as its body says, and its body is behind it.
LEMMA PartsAre ==
  ASSUME NEW p \in Incoming, NEW c, AtBegin(c, p)
  PROVE  /\ Len(Body(p)) \in Nat /\ Len(Body(p)) < 128 * 128
         /\ HeaderLen(Len(Body(p))) \in {2, 3} /\ (Len(Body(p)) < 128 <=> c[2] < 128)
         /\ HeaderLen(Len(Body(p))) = IF c[2] < 128 THEN 2 ELSE 3
         /\ Len(Wire(p)) = HeaderLen(Len(Body(p))) + Len(Body(p))
         /\ c[1] = First(p)
         /\ \A i \in 1..Len(Body(p)) : c[HeaderLen(Len(Body(p))) + i] = Body(p)[i]
<1>1. PICK b \in Seq(Nat) : b = Body(p) BY WireIs
<1>2. PICK n \in Nat : n = Len(b) OBVIOUS
<1>3. PICK e \in {2, 3} : e = HeaderLen(n) BY DEF HeaderLen
<1>4. PICK w \in Seq(Nat) :
        /\ w = Wire(p) /\ Len(w) = e + n /\ w[1] = First(p)
        /\ \A i \in 1..n : w[e + i] = b[i]
        /\ IF n < 128 THEN w[2] = n ELSE w[2] = 128 + (n % 128) /\ w[3] = n \div 128
  <2>1. PICK h \in Nat : h = First(p) BY FirstIs
  <2>2. PICK w : w = Framed(h, b) OBVIOUS
  <2>3. w = Wire(p) BY <1>1, <2>1, <2>2, WireIs
  <2>4. /\ w \in Seq(Nat) /\ Len(w) = e + n /\ w[1] = h
        /\ \A i \in 1..n : w[e + i] = b[i]
        /\ IF n < 128 THEN w[2] = n ELSE w[2] = 128 + (n % 128) /\ w[3] = n \div 128
    <3>1. IsFramed(w, h, b) BY <2>2, FramedIs
    <3> QED BY <1>2, <1>3, <3>1 DEF IsFramed
  <2> QED BY <2>1, <2>3, <2>4
<1>5. Len(w) < BufSize /\ \A i \in 1..Len(w) : c[i] = w[i] BY <1>4 DEF AtBegin, Begins
<1>6. n < 128 * 128 BY <1>3, <1>4, <1>5, BufAssumption
<1>7. c[1] = w[1] /\ c[2] = w[2]
  <2>1. 1 \in 1..Len(w) /\ 2 \in 1..Len(w) BY <1>3, <1>4
  <2> QED BY <1>5, <2>1
<1>8. n < 128 <=> c[2] < 128
  <2>1. n % 128 \in Nat OBVIOUS
  <2> QED BY <1>4, <1>7, <2>1
<1>9. \A i \in 1..n : c[e + i] = b[i]
  <2> SUFFICES ASSUME NEW i \in 1..n PROVE c[e + i] = b[i] OBVIOUS
  <2>1. e + i \in 1..Len(w) BY <1>3, <1>4
  <2> QED BY <1>4, <1>5, <2>1
<1>10. e = IF c[2] < 128 THEN 2 ELSE 3 BY <1>3, <1>8 DEF HeaderLen
<1> QED BY <1>1, <1>2, <1>3, <1>4, <1>6, <1>7, <1>8, <1>9, <1>10

\* Its type, its quality of service and its length are read (mqtt_get_type, mqtt_get_qos,
\* mqtt_get_total_length).
LEMMA ReadsHeader ==
  ASSUME NEW p \in Incoming, NEW c, AtBegin(c, p), NEW N \in Nat, Len(Wire(p)) <= N
  PROVE  /\ TypeOf(c) = p.type /\ QosOf(c) = p.qos /\ TotalLength(c, N) = Len(Wire(p))
         /\ LengthEnd(c, N) = HeaderLen(Len(Body(p)))
<1>1. TypeOf(c) = p.type /\ QosOf(c) = p.qos
  BY PartsAre, FirstIs DEF TypeOf, QosOf
<1>2. PICK b \in Seq(Nat) : b = Body(p) BY WireIs
<1>3. PICK h \in Nat : h = First(p) BY FirstIs
<1>4. Wire(p) = Framed(h, b) BY <1>2, <1>3, WireIs
<1>5. Begins(c, Framed(h, b)) BY <1>4 DEF AtBegin
<1>6. Len(b) < 128 * 128 /\ HeaderLen(Len(b)) <= N BY <1>2, PartsAre
<1>7. TotalLength(c, N) = Len(Framed(h, b)) BY <1>5, <1>6, TotalLengthIs
<1>8. LengthEnd(c, N) = HeaderLen(Len(b)) BY <1>5, <1>6, LengthEndIs
<1> QED BY <1>1, <1>2, <1>4, <1>7, <1>8

\* The topic of a PUBLISH is found.
LEMMA FindsTopic ==
  ASSUME NEW p \in Incoming, p.type = PUBLISH, NEW c, AtBegin(c, p),
         NEW N \in Nat, Len(Wire(p)) <= N
  PROVE  /\ HasTopic(c, N) /\ TopicLen(c, N) = Len(p.topic)
         /\ TopicEnd(c, N) = HeaderLen(Len(Body(p))) + 2 + Len(p.topic)
<1>1. PICK n \in Nat : n = Len(Body(p)) BY PartsAre
<1>2. PICK e \in {2, 3} : e = HeaderLen(n) BY DEF HeaderLen
<1>3. PICK l \in Nat \ {0} : l = Len(p.topic) BY PublishIs
<1>4. PICK d \in Nat : d = Len(p.data) BY PublishIs
<1>5. PICK k \in {0, 2} : k = IdLen(p) BY DEF IdLen
<1>51. n = 2 + l + k + d BY <1>1, <1>3, <1>4, <1>5, PublishIs DEF DataAt
<1>6. LengthEnd(c, N) = e /\ e + n <= N BY <1>1, <1>2, ReadsHeader, PartsAre
<1>7. c[e + 1] = Body(p)[1] /\ c[e + 2] = Body(p)[2]
  <2>1. \A i \in 1..n : c[e + i] = Body(p)[i] BY <1>1, <1>2, PartsAre
  <2>2. 1 \in 1..n /\ 2 \in 1..n BY <1>51
  <2> QED BY <2>1, <2>2
<1>8. TopicLen(c, N) = l BY <1>3, <1>6, <1>7, PublishIs DEF TopicLen
<1>9. HasTopic(c, N)
  <2>1. e + 2 < N BY <1>51, <1>6
  <2> QED BY <1>6, <2>1 DEF HasTopic
<1> QED BY <1>1, <1>2, <1>3, <1>6, <1>8, <1>9 DEF TopicEnd

\* The identifier of a PUBLISH is read as far as in_buffer goes (mqtt_get_id).
LEMMA ReadsPublishId ==
  ASSUME NEW p \in Incoming, p.type = PUBLISH, p.qos > 0, NEW c, AtBegin(c, p)
  PROVE  GetId(c, BufSize) = p.id
<1>1. PICK n \in Nat : n = Len(Body(p)) BY PartsAre
<1>2. PICK e \in {2, 3} : e = HeaderLen(n) BY DEF HeaderLen
<1>3. PICK l \in Nat \ {0} : l = Len(p.topic) BY PublishIs
<1>4. PICK d \in Nat : d = Len(p.data) BY PublishIs
<1>5. n = 4 + l + d
  <2>1. PICK k \in {0, 2} : k = IdLen(p) BY DEF IdLen
  <2>2. n = 2 + l + k + d BY <1>1, <1>3, <1>4, <2>1, PublishIs DEF DataAt
  <2>3. k = 2 BY <2>1 DEF IdLen
  <2> QED BY <2>2, <2>3
<1>6. Len(Wire(p)) = e + n /\ e + n < BufSize BY <1>1, <1>2, PartsAre DEF AtBegin
<1>7. BufSize \in Nat /\ Len(Wire(p)) <= BufSize BY <1>6, BufAssumption
<1>8. TopicEnd(c, BufSize) = e + 2 + l /\ HasTopic(c, BufSize)
  BY <1>1, <1>2, <1>3, <1>7, FindsTopic
<1>9. TypeOf(c) = PUBLISH /\ QosOf(c) > 0 BY <1>7, ReadsHeader
<1>10. e + 2 + l + 2 < BufSize
  <2>1. e + n < BufSize BY <1>6
  <2> QED BY <1>5, <1>7, <2>1
<1>11. GetId(c, BufSize) = Number(c[e + 2 + l + 1], c[e + 2 + l + 2])
  BY <1>8, <1>9, <1>10 DEF GetId
<1>12. c[e + 2 + l + 1] = Body(p)[3 + l] /\ c[e + 2 + l + 2] = Body(p)[4 + l]
  <2>1. \A i \in 1..n : c[e + i] = Body(p)[i] BY <1>1, <1>2, PartsAre
  <2>2. /\ 3 + l \in 1..n /\ 4 + l \in 1..n
        /\ e + (3 + l) = e + 2 + l + 1 /\ e + (4 + l) = e + 2 + l + 2
    BY <1>5
  <2>3. c[e + (3 + l)] = Body(p)[3 + l] /\ c[e + (4 + l)] = Body(p)[4 + l] BY <2>1, <2>2
  <2> QED BY <2>2, <2>3
<1> QED BY <1>3, <1>11, <1>12, PublishIs

\* So is that of a PUBREC or a PUBREL.
LEMMA ReadsOnlyId ==
  ASSUME NEW p \in Incoming, p.type \in {PUBREC, PUBREL}, NEW c, AtBegin(c, p)
  PROVE  GetId(c, BufSize) = p.id
<1>1. Len(Body(p)) = 2 /\ Number(Body(p)[1], Body(p)[2]) = p.id BY OnlyIdIs
<1>2. HeaderLen(Len(Body(p))) = 2 /\ c[2] < 128 BY <1>1, PartsAre DEF HeaderLen
<1>3. c[3] = Body(p)[1] /\ c[4] = Body(p)[2]
  <2>1. \A i \in 1..2 : c[2 + i] = Body(p)[i]
    <3>1. \A i \in 1..Len(Body(p)) : c[HeaderLen(Len(Body(p))) + i] = Body(p)[i] BY PartsAre
    <3> QED BY <1>1, <1>2, <3>1
  <2>2. 1 \in 1..2 /\ 2 \in 1..2 /\ 2 + 1 = 3 /\ 2 + 2 = 4 OBVIOUS
  <2> QED BY <2>1, <2>2
<1>4. BufSize \in Nat /\ Len(Wire(p)) <= BufSize /\ BufSize >= 4
  BY <1>1, <1>2, PartsAre, BufAssumption DEF AtBegin
<1>5. TypeOf(c) \in WithId /\ TypeOf(c) # PUBLISH
  BY <1>4, ReadsHeader DEF WithId, PUBREC, PUBREL, PUBLISH
<1> QED BY <1>1, <1>2, <1>3, <1>4, <1>5 DEF GetId

\* What mqttDataCb copies of c.
CopyOf(c, s) == IF s.len = 0 THEN << >>
                ELSE IF s.at = 0 THEN Undefined ELSE SubSeq(c, s.at, s.at + s.len - 1)

\* A slice that is in c is copied.
LEMMA CopyIs ==
  ASSUME NEW c, IsBuffer(c), NEW a \in Nat, NEW t \in Seq(Nat), t # << >>, HasBytes(c, a, t)
  PROVE  CopyOf(c, Slice(a + 1, Len(t))) = t
<1>1. PICK x \in Nat : x = a + 1 OBVIOUS
<1>2. PICK n \in Nat : n = Len(t) OBVIOUS
<1>3. n # 0 /\ x # 0 /\ x + n - 1 = a + n BY <1>1, <1>2
<1>4. CopyOf(c, Slice(x, n)) = SubSeq(c, x, x + n - 1) BY <1>3 DEF CopyOf, Slice
<1>5. SubSeq(c, a + 1, a + Len(t)) = t BY PartIs
<1> QED BY <1>1, <1>2, <1>3, <1>4, <1>5

\* The topic is copied (mqtt_get_publish_topic).
LEMMA CopiesTopic ==
  ASSUME NEW p \in Incoming, p.type = PUBLISH, NEW c, IsBuffer(c),
         AtBegin(c, p), NEW N \in Nat, Len(Wire(p)) <= N
  PROVE  CopyOf(c, PublishTopic(c, N)) = p.topic
<1>1. PICK n \in Nat : n = Len(Body(p)) BY PartsAre
<1>2. PICK e \in {2, 3} : e = HeaderLen(n) BY DEF HeaderLen
<1>3. PICK l \in Nat \ {0} : l = Len(p.topic) BY PublishIs
<1>4. PICK t \in Seq(Nat) : t = p.topic BY PacketIs
<1>5. 2 + l <= n
  <2>1. Len(p.data) \in Nat /\ IdLen(p) \in {0, 2} BY PublishIs DEF IdLen
  <2>2. n = 2 + l + IdLen(p) + Len(p.data) BY <1>1, <1>3, PublishIs DEF DataAt
  <2> QED BY <2>1, <2>2
<1>6. Len(Wire(p)) = e + n /\ e + n < BufSize BY <1>1, <1>2, PartsAre DEF AtBegin
<1>7. /\ HasTopic(c, N) /\ TopicLen(c, N) = l /\ TopicEnd(c, N) = e + 2 + l
      /\ LengthEnd(c, N) = e
  BY <1>1, <1>2, <1>3, FindsTopic, ReadsHeader
<1>8. e + 2 + l <= N BY <1>5, <1>6
<1>9. PublishTopic(c, N) = Slice(e + 3, l)
  BY <1>7, <1>8 DEF PublishTopic
<1>10. HasBytes(c, e + 2, t)
  <2>1. (e + 2) + Len(t) <= BufSize
    <3>1. e + n < BufSize /\ BufSize \in Nat BY <1>6, BufAssumption
    <3>2. Len(t) = l BY <1>3, <1>4
    <3> QED BY <1>5, <3>1, <3>2
  <2>2. ASSUME NEW i \in 1..Len(t) PROVE c[(e + 2) + i] = t[i]
    <3>1. \A j \in 1..n : c[e + j] = Body(p)[j] BY <1>1, <1>2, PartsAre
    <3>2. PICK j \in 1..n : j = 2 + i BY <1>3, <1>4, <1>5
    <3>3. c[e + j] = Body(p)[j] BY <3>1
    <3>4. Body(p)[2 + i] = p.topic[i] BY <1>4, PublishIs
    <3>5. e + j = (e + 2) + i BY <3>2
    <3> QED BY <1>4, <3>2, <3>3, <3>4, <3>5
  <2> QED BY <2>1, <2>2 DEF HasBytes
<1>11. (e + 2) + 1 = e + 3 /\ e + 2 \in Nat /\ t # << >> BY <1>3, <1>4
<1>12. CopyOf(c, Slice((e + 2) + 1, Len(t))) = t BY <1>10, <1>11, CopyIs
<1> QED BY <1>3, <1>4, <1>9, <1>11, <1>12

\* So is the data, unless the message is empty, is to be acknowledged and is the last of
\* the segment (mqtt_get_publish_data).
LEMMA CopiesData ==
  ASSUME NEW p \in Incoming, p.type = PUBLISH, NEW c, IsBuffer(c),
         AtBegin(c, p), NEW N \in Nat, Len(Wire(p)) <= N
  PROVE  \/ CopyOf(c, PublishData(c, N)) = p.data
         \/ p.qos > 0 /\ p.data = << >> /\ N = Len(Wire(p))
<1>1. PICK n \in Nat : n = Len(Body(p)) BY PartsAre
<1>2. PICK e \in {2, 3} : e = HeaderLen(n) BY DEF HeaderLen
<1>3. PICK l \in Nat \ {0} : l = Len(p.topic) BY PublishIs
<1>4. PICK t \in Seq(Nat) : t = p.data BY PacketIs
<1>5. PICK d \in Nat : d = Len(t) OBVIOUS
<1>6. PICK k \in {0, 2} : k = IdLen(p) BY DEF IdLen
<1>7. DataAt(p) = 2 + l + k /\ n = 2 + l + k + d
  BY <1>1, <1>3, <1>4, <1>5, <1>6, PublishIs DEF DataAt
<1>8. Len(Wire(p)) = e + n /\ e + n < BufSize BY <1>1, <1>2, PartsAre DEF AtBegin
<1>9. /\ HasTopic(c, N) /\ TopicEnd(c, N) = e + 2 + l /\ QosOf(c) = p.qos
      /\ TotalLength(c, N) = e + n
  BY <1>1, <1>2, <1>3, <1>8, FindsTopic, ReadsHeader
<1>10. p.qos > 0 <=> k = 2 BY <1>6 DEF IdLen
<1> DEFINE begin == e + 2 + l + k
<1>11. begin \in Nat /\ begin + d = e + n /\ e + n <= N
  <2>1. e + n <= N BY <1>8
  <2>2. n = 2 + l + k + d BY <1>7
  <2> QED BY <2>1, <2>2
<1>12. PublishData(c, N) =
         IF e + 2 + l >= N THEN Null(0)
         ELSE IF (p.qos > 0 /\ begin >= N) \/ e + n < begin THEN Null(N)
         ELSE Slice(begin + 1, e + n - begin)
  <2>1. TopicEnd(c, N) + (IF QosOf(c) > 0 THEN 2 ELSE 0) = begin
    BY <1>6, <1>9 DEF IdLen
  <2>2. e + n <= N BY <1>11
  <2>3. (IF e + n <= N THEN e + n ELSE N) - begin = e + n - begin BY <2>2
  <2> HIDE DEF begin
  <2>4. PICK x : x = e + n OBVIOUS
  <2>5. PICK y : y = e + 2 + l OBVIOUS
  <2> QED BY <1>9, <2>1, <2>3, <2>4, <2>5 DEF PublishData
<1>13. d = 0 <=> t = << >> BY <1>5
<1>14. CASE e + 2 + l >= N
  <2>1. d = 0 BY <1>7, <1>11, <1>14
  <2>2. CopyOf(c, Null(0)) = << >> BY DEF CopyOf, Null, Slice
  <2> QED BY <1>4, <1>12, <1>13, <1>14, <2>1, <2>2
<1>15. CASE ~ (e + 2 + l >= N) /\ p.qos > 0 /\ begin >= N
  <2>1. d = 0 /\ N = e + n BY <1>11, <1>15
  <2> QED BY <1>4, <1>8, <1>13, <1>15, <2>1
<1>16. CASE ~ (e + 2 + l >= N) /\ ~ (p.qos > 0 /\ begin >= N)
  <2>1. ~ (e + n < begin) /\ e + n - begin = d
    <3>1. n = 2 + l + k + d BY <1>7
    <3> QED BY <3>1
  <2>2. PublishData(c, N) = Slice(begin + 1, d)
    <3> HIDE DEF begin
    <3> QED BY <1>12, <1>16, <2>1
  <2>3. CASE d = 0
    <3>1. CopyOf(c, Slice(begin + 1, d)) = << >> BY <2>3 DEF CopyOf, Slice
    <3> QED BY <1>4, <1>13, <2>2, <2>3, <3>1
  <2>4. CASE d # 0
    <3>1. HasBytes(c, begin, t)
      <4>1. begin + Len(t) <= BufSize BY <1>5, <1>8, <1>11, BufAssumption
      <4>2. ASSUME NEW i \in 1..Len(t) PROVE c[begin + i] = t[i]
        <5>1. \A j \in 1..n : c[e + j] = Body(p)[j] BY <1>1, <1>2, PartsAre
        <5>2. PICK j \in 1..n : j = 2 + l + k + i BY <1>5, <1>7
        <5>3. c[e + j] = Body(p)[j] BY <5>1
        <5>4. Body(p)[DataAt(p) + i] = p.data[i] BY <1>4, PublishIs
        <5>5. e + j = begin + i
          <6>1. i \in Nat BY <1>5
          <6> QED BY <5>2, <6>1
        <5> QED BY <1>4, <1>7, <5>2, <5>3, <5>4, <5>5
      <4> HIDE DEF begin
      <4> QED BY <4>1, <4>2 DEF HasBytes
    <3> HIDE DEF begin
    <3>2. CopyOf(c, Slice(begin + 1, Len(t))) = t BY <1>11, <1>13, <2>4, <3>1, CopyIs
    <3> QED BY <1>4, <1>5, <2>2, <3>2
  <2> QED BY <2>3, <2>4
<1> QED BY <1>14, <1>15, <1>16

-----------------------------------------------------------------------------
(* Answers. *)

\* Two sequences of one element.
LEMMA PairIs ==
  ASSUME NEW h \in Nat, NEW l \in Nat
  PROVE  <<h>> \o <<l>> = <<h, l>>
<1> DEFINE u == <<h>>
           v == <<l>>
           w == <<h, l>>
           t == u \o v
<1>1. u \in Seq(Nat) /\ v \in Seq(Nat) /\ w \in Seq(Nat) OBVIOUS
<1>2. Len(u) = 1 /\ Len(v) = 1 /\ Len(w) = 2 OBVIOUS
<1>3. u[1] = h /\ v[1] = l  /\ w[1] = h /\ w[2] = l OBVIOUS
<1> HIDE DEF u, v, w
<1>4. t \in Seq(Nat) /\ Len(t) = 2 /\ t[1] = u[1] /\ t[2] = v[1]
  <2>1. IsJoined(t, u, v) BY <1>1, Joined
  <2>2. 1 \in 1..1 /\ 1 + 1 = 2 OBVIOUS
  <2> HIDE DEF t
  <2> QED BY <1>2, <2>1, <2>2 DEF IsJoined
<1> HIDE DEF t
<1>5. t = w
  <2>1. \A i \in 1..2 : i = 1 \/ i = 2 OBVIOUS
  <2>2. Len(t) = Len(w) /\ \A i \in 1..Len(t) : t[i] = w[i] BY <1>2, <1>3, <1>4, <2>1
  <2> QED BY <1>1, <1>4, <2>2, SameSeq
<1> QED BY <1>5 DEF t, u, v, w

\* An acknowledgement repeats the identifier it is given.
LEMMA AckIs ==
  ASSUME NEW type \in Nat, NEW qos \in Nat, NEW given \in Nat, given # 0,
         NEW h \in Nat, h = 16 * type + 2 * qos
  PROVE  Ack(type, qos, given, messageId) = <<h, 2>> \o Bytes2(given)
<1>1. PICK v \in Seq(Nat) : v = Bytes2(given) /\ Len(v) = 2 BY TwoBytes
<1>2. Fits(v) BY <1>1, BufAssumption DEF Fits, MaxHeader
<1>3. Message(type, qos, v) = <<h>> \o <<2>> \o v BY <1>1, <1>2 DEF Message, Finish
<1>4. AckId(given, messageId) = given BY DEF AckId
<1>5. <<h>> \o <<2>> = <<h, 2>> BY PairIs
<1> QED BY <1>1, <1>3, <1>4, <1>5 DEF Ack

\* The four of them.
LEMMA AcksAre ==
  ASSUME NEW id \in Nat, id # 0
  PROVE  /\ Ack(PUBACK, 0, id, messageId) = <<64, 2>> \o Bytes2(id)
         /\ Ack(PUBREC, 0, id, messageId) = <<80, 2>> \o Bytes2(id)
         /\ Ack(PUBREL, 1, id, messageId) = <<98, 2>> \o Bytes2(id)
         /\ Ack(PUBCOMP, 0, id, messageId) = <<112, 2>> \o Bytes2(id)
<1>1. /\ PUBACK \in Nat /\ 64 = 16 * PUBACK + 2 * 0
      /\ PUBREC \in Nat /\ 80 = 16 * PUBREC + 2 * 0
      /\ PUBREL \in Nat /\ 98 = 16 * PUBREL + 2 * 1
      /\ PUBCOMP \in Nat /\ 112 = 16 * PUBCOMP + 2 * 0
  BY DEF PUBACK, PUBREC, PUBREL, PUBCOMP
<1>2. Ack(PUBACK, 0, id, messageId) = <<64, 2>> \o Bytes2(id) BY <1>1, AckIs
<1>3. Ack(PUBREC, 0, id, messageId) = <<80, 2>> \o Bytes2(id) BY <1>1, AckIs
<1>4. Ack(PUBREL, 1, id, messageId) = <<98, 2>> \o Bytes2(id) BY <1>1, AckIs
<1>5. Ack(PUBCOMP, 0, id, messageId) = <<112, 2>> \o Bytes2(id) BY <1>1, AckIs
<1> QED BY <1>2, <1>3, <1>4, <1>5

\* Two bytes are enough for the answer to a PINGREQ.
LEMMA PingRespIs == PingResp = <<208, 0>>
<1>1. Fits(<< >>) BY BufAssumption DEF Fits, MaxHeader
<1>2. Message(13, 0, << >>) = <<208>> \o <<0>> \o << >>
  BY <1>1 DEF Message, Finish
<1> QED BY <1>2 DEF PingResp, PINGRESP

\* A packet at the beginning of in_buffer is answered as the standard says.
LEMMA AnswersRight ==
  ASSUME NEW p \in Incoming, AtBegin(in', p)
  PROVE  Answers(p.type, p.qos) = Expected(p)
<1>1. p.qos \in 0..2 /\ p.id \in Nat BY PacketIs
<1>2. CASE p.type = PUBLISH
  <2>1. CASE p.qos > 0
    <3>1. InId = p.id /\ p.id # 0 BY <1>2, <2>1, ReadsPublishId, PacketIs DEF InId
    <3>2. Ack(PUBACK, 0, InId, messageId) = <<64, 2>> \o Bytes2(p.id) BY <1>1, <3>1, AcksAre
    <3>3. Ack(PUBREC, 0, InId, messageId) = <<80, 2>> \o Bytes2(p.id) BY <1>1, <3>1, AcksAre
    <3>4. CASE p.qos = 1
      <4>1. Answers(PUBLISH, 1) = <<Ack(PUBACK, 0, InId, messageId)>>
        BY DEF Answers, PUBLISH, PUBREC, PUBREL, PINGREQ
      <4>2. Expected(p) = <<<<64, 2>> \o Bytes2(p.id)>>
        BY <1>2, <3>4 DEF Expected, PUBLISH, PUBREC, PUBREL, PINGREQ
      <4> QED BY <1>2, <3>2, <3>4, <4>1, <4>2
    <3>5. CASE p.qos = 2
      <4>1. Answers(PUBLISH, 2) = <<Ack(PUBREC, 0, InId, messageId)>>
        BY DEF Answers, PUBLISH, PUBREC, PUBREL, PINGREQ
      <4>2. Expected(p) = <<<<80, 2>> \o Bytes2(p.id)>>
        BY <1>2, <3>5 DEF Expected, PUBLISH, PUBREC, PUBREL, PINGREQ
      <4> QED BY <1>2, <3>3, <3>5, <4>1, <4>2
    <3> QED BY <1>1, <2>1, <3>4, <3>5
  <2>2. CASE ~ (p.qos > 0)
    <3>1. p.qos # 1 /\ p.qos # 2 BY <1>1, <2>2
    <3> QED BY <1>2, <3>1 DEF Answers, Expected, PUBLISH, PUBREC, PUBREL, PINGREQ
  <2> QED BY <2>1, <2>2
<1>3. CASE p.type \in {PUBREC, PUBREL}
  <2>1. InId = p.id /\ p.id # 0 BY <1>3, ReadsOnlyId, PacketIs DEF InId
  <2>2. Ack(PUBREL, 1, InId, messageId) = <<98, 2>> \o Bytes2(p.id) BY <1>1, <2>1, AcksAre
  <2>3. Ack(PUBCOMP, 0, InId, messageId) = <<112, 2>> \o Bytes2(p.id) BY <1>1, <2>1, AcksAre
  <2>4. CASE p.type = PUBREC
    <3>1. Answers(PUBREC, p.qos) = <<Ack(PUBREL, 1, InId, messageId)>>
      BY DEF Answers, PUBLISH, PUBREC, PUBREL, PINGREQ
    <3>2. Expected(p) = <<<<98, 2>> \o Bytes2(p.id)>>
      BY <2>4 DEF Expected, PUBLISH, PUBREC, PUBREL, PINGREQ
    <3> QED BY <2>2, <2>4, <3>1, <3>2
  <2>5. CASE p.type = PUBREL
    <3>1. Answers(PUBREL, p.qos) = <<Ack(PUBCOMP, 0, InId, messageId)>>
      BY DEF Answers, PUBLISH, PUBREC, PUBREL, PINGREQ
    <3>2. Expected(p) = <<<<112, 2>> \o Bytes2(p.id)>>
      BY <2>5 DEF Expected, PUBLISH, PUBREC, PUBREL, PINGREQ
    <3> QED BY <2>3, <2>5, <3>1, <3>2
  <2> QED BY <1>3, <2>4, <2>5
<1>4. CASE p.type = PINGREQ
  BY <1>4, PingRespIs DEF Answers, Expected, PUBLISH, PUBREC, PUBREL, PINGREQ
<1>5. CASE p.type \notin {PUBLISH, PUBREC, PUBREL, PINGREQ}
  BY <1>5 DEF Answers, Expected
<1> QED BY <1>2, <1>3, <1>4, <1>5

\* What a packet is answered with are packets.
LEMMA ExpectedType ==
  ASSUME NEW p \in Incoming
  PROVE  Expected(p) \in Seq(Seq(Nat))
<1>1. PICK v \in Seq(Nat) : v = Bytes2(p.id) BY PacketIs, TwoBytes
<1>2. /\ <<64, 2>> \o v \in Seq(Nat) /\ <<80, 2>> \o v \in Seq(Nat)
      /\ <<98, 2>> \o v \in Seq(Nat) /\ <<112, 2>> \o v \in Seq(Nat)
      /\ <<208, 0>> \in Seq(Nat)
  OBVIOUS
<1> DEFINE S == Seq(Nat)
<1>3. \A x \in S : <<x>> \in Seq(S) OBVIOUS
<1>4. << >> \in Seq(S) OBVIOUS
<1> HIDE DEF S
<1>5. Expected(p) \in {<<<<64, 2>> \o v>>, <<<<80, 2>> \o v>>, <<<<98, 2>> \o v>>,
                       <<<<112, 2>> \o v>>, <<<<208, 0>>>>, << >>}
  BY <1>1 DEF Expected
<1>6. /\ <<64, 2>> \o v \in S /\ <<80, 2>> \o v \in S /\ <<98, 2>> \o v \in S
      /\ <<112, 2>> \o v \in S /\ <<208, 0>> \in S
  BY <1>2 DEF S
<1>7. Expected(p) \in Seq(S) BY <1>3, <1>4, <1>5, <1>6, Zenon
<1> QED BY <1>7 DEF S

-----------------------------------------------------------------------------
(* Segments of whole packets. *)

\* The wires of packets and the answers to them, and those of the first k, joined.
Wires(ps) == [i \in DOMAIN ps |-> Wire(ps[i])]
Replies(ps) == [i \in DOMAIN ps |-> Expected(ps[i])]
WiresTo(ps) == CHOOSE f : Joins(f, Wires(ps), Nat)
RepliesTo(ps) == CHOOSE f : Joins(f, Replies(ps), Seq(Nat))

\* They are what their definitions say.
LEMMA WiresAre ==
  ASSUME NEW ps \in Seq(Incoming)
  PROVE  /\ Wires(ps) \in Seq(Seq(Nat)) /\ Len(Wires(ps)) = Len(ps)
         /\ Joins(WiresTo(ps), Wires(ps), Nat)
<1>1. PICK n \in Nat : n = Len(ps) /\ DOMAIN ps = 1..n OBVIOUS
<1>2. \A i \in 1..n : ps[i] \in Incoming BY <1>1
<1>3. ASSUME NEW i \in 1..n PROVE Wire(ps[i]) \in Seq(Nat)
  <2>1. PICK p \in Incoming : p = ps[i] BY <1>2
  <2>2. PICK h \in Nat : h = First(p) BY FirstIs
  <2>3. PICK b \in Seq(Nat) : b = Body(p) BY WireIs
  <2>4. Wire(p) = Framed(h, b) BY <2>2, <2>3, WireIs
  <2>5. IsFramed(Framed(h, b), h, b) BY FramedIs
  <2> QED BY <2>1, <2>4, <2>5 DEF IsFramed
<1> DEFINE S == Seq(Nat)
<1>4. \A i \in 1..n : Wire(ps[i]) \in S BY <1>3
<1>5. Wires(ps) = [i \in 1..n |-> Wire(ps[i])] BY <1>1 DEF Wires
<1> HIDE DEF S
<1>6. Wires(ps) \in Seq(S) /\ Len(Wires(ps)) = n BY <1>4, <1>5
<1>7. Wires(ps) \in Seq(Seq(Nat)) BY <1>6 DEF S
<1>8. \E f : Joins(f, Wires(ps), Nat) BY <1>7, JoinsExist, Zenon
<1> QED BY <1>1, <1>6, <1>7, <1>8, Zenon DEF WiresTo

\* So are the answers.
LEMMA RepliesAre ==
  ASSUME NEW ps \in Seq(Incoming)
  PROVE  /\ Replies(ps) \in Seq(Seq(Seq(Nat))) /\ Len(Replies(ps)) = Len(ps)
         /\ Joins(RepliesTo(ps), Replies(ps), Seq(Nat))
<1>1. PICK n \in Nat : n = Len(ps) /\ DOMAIN ps = 1..n OBVIOUS
<1>2. \A i \in 1..n : ps[i] \in Incoming BY <1>1
<1> DEFINE S == Seq(Seq(Nat))
<1>3. \A i \in 1..n : Expected(ps[i]) \in S BY <1>2, ExpectedType
<1>4. Replies(ps) = [i \in 1..n |-> Expected(ps[i])] BY <1>1 DEF Replies
<1> HIDE DEF S
<1>5. Replies(ps) \in Seq(S) /\ Len(Replies(ps)) = n BY <1>3, <1>4
<1>6. Replies(ps) \in Seq(Seq(Seq(Nat))) BY <1>5 DEF S
<1>7. \E f : Joins(f, Replies(ps), Seq(Nat)) BY <1>6, JoinsExist, Zenon
<1> QED BY <1>1, <1>5, <1>6, <1>7, Zenon DEF RepliesTo

\* How long the first k packets are, all of them if k is not given less.
LenTo(ps, k) == Len(WiresTo(ps)[k])

\* Where the next packet is in a segment.
LEMMA NextWire ==
  ASSUME NEW ps \in Seq(Incoming), NEW j \in 0..(Len(ps) - 1)
  PROVE  /\ LenTo(ps, j) \in Nat /\ LenTo(ps, Len(ps)) \in Nat
         /\ Len(Wire(ps[j + 1])) \in Nat /\ Len(Wire(ps[j + 1])) >= 2
         /\ LenTo(ps, j + 1) = LenTo(ps, j) + Len(Wire(ps[j + 1]))
         /\ LenTo(ps, j + 1) <= LenTo(ps, Len(ps))
         /\ \A i \in 1..Len(Wire(ps[j + 1])) :
              WiresTo(ps)[Len(ps)][LenTo(ps, j) + i] = Wire(ps[j + 1])[i]
<1>1. PICK n \in Nat : n = Len(ps) OBVIOUS
<1>2. PICK p \in Incoming : p = ps[j + 1]
  <2>1. j + 1 \in 1..Len(ps) BY <1>1
  <2> QED BY <2>1
<1> DEFINE e == Wires(ps)
           f == WiresTo(ps)
<1>3. /\ e \in Seq(Seq(Nat)) /\ Len(e) = n /\ Joins(f, e, Nat)
  BY <1>1, WiresAre
<1>4. e[j + 1] = Wire(p)
  <2>1. j + 1 \in DOMAIN ps BY <1>1
  <2> QED BY <1>2, <2>1 DEF Wires
<1>5. Wire(p) \in Seq(Nat) /\ Len(Wire(p)) >= 2
  <2>1. PICK h \in Nat : h = First(p) BY FirstIs
  <2>2. PICK b \in Seq(Nat) : b = Body(p) BY WireIs
  <2>3. Wire(p) = Framed(h, b) BY <2>1, <2>2, WireIs
  <2>4. IsFramed(Framed(h, b), h, b) BY FramedIs
  <2>5. HeaderLen(Len(b)) >= 2 BY DEF HeaderLen
  <2>6. PICK k \in Nat : k = HeaderLen(Len(b)) BY DEF HeaderLen
  <2> QED BY <2>3, <2>4, <2>5, <2>6 DEF IsFramed
<1> HIDE DEF e, f
<1>6. j \in 0..Len(e) /\ j + 1 \in 0..Len(e) /\ j + 1 \in 1..Len(e) /\ (j + 1) - 1 = j
  BY <1>1, <1>3
<1>7. f[j] \in Seq(Nat) /\ f[j + 1] \in Seq(Nat) /\ f[j + 1] = f[j] \o e[j + 1]
  BY <1>3, <1>6 DEF Joins
<1>8. PICK u \in Seq(Nat) : u = f[j] BY <1>7
<1>9. PICK v \in Seq(Nat) : v = Wire(p) /\ Len(v) >= 2 BY <1>5
<1>10. PICK t \in Seq(Nat) : t = f[j + 1] BY <1>7
<1>11. IsJoined(t, u, v) BY <1>4, <1>7, <1>8, <1>9, <1>10, Joined
<1>12. Len(t) = Len(u) + Len(v) /\ \A i \in 1..Len(v) : t[Len(u) + i] = v[i]
  BY <1>11 DEF IsJoined
<1>13. /\ Len(f[n]) \in Nat /\ Len(t) <= Len(f[n])
       /\ \A i \in 1..Len(t) : f[n][i] = t[i]
  BY <1>3, <1>6, <1>10, JoinsGrow
<1>14. ASSUME NEW i \in 1..Len(v) PROVE f[n][Len(u) + i] = v[i]
  <2>1. Len(u) + i \in 1..Len(t) BY <1>12
  <2> QED BY <1>12, <1>13, <2>1
<1>15. LenTo(ps, j) = Len(u) /\ LenTo(ps, j + 1) = Len(t) /\ LenTo(ps, Len(ps)) = Len(f[n])
  BY <1>1, <1>8, <1>10 DEF f, LenTo
<1>16. Wire(ps[j + 1]) = v BY <1>2, <1>9
<1>17. Len(u) \in Nat /\ Len(v) \in Nat OBVIOUS
<1>18. \A i \in 1..Len(v) : WiresTo(ps)[Len(ps)][Len(u) + i] = v[i] BY <1>1, <1>14 DEF f
<1> QED BY <1>9, <1>12, <1>13, <1>15, <1>16, <1>17, <1>18

\* How long a segment is.
LEMMA LengthIs ==
  ASSUME NEW ps \in Seq(Incoming)
  PROVE  Len(FlattenSeq([i \in DOMAIN ps |-> Wire(ps[i])])) = LenTo(ps, Len(ps))
<1> DEFINE e == Wires(ps)
<1>1. e \in Seq(Seq(Nat)) /\ Len(e) = Len(ps) /\ Joins(WiresTo(ps), e, Nat) BY WiresAre
<1>2. StartsWith(e, e)
  <2> HIDE DEF e
  <2> QED BY <1>1 DEF StartsWith
<1>3. FlattenSeq(e) = WiresTo(ps)[Len(e)]
  <2> HIDE DEF e
  <2> QED BY <1>1, <1>2, FlattenIs
<1>4. FlattenSeq([i \in DOMAIN ps |-> Wire(ps[i])]) = WiresTo(ps)[Len(ps)]
  BY <1>1, <1>3 DEF e, Wires
<1> QED BY <1>4 DEF LenTo

\* Looked, of any packets.
LookedAt(ps) ==
  LET others == {i \in DOMAIN ps : ps[i].type # PUBLISH}
      upTo   == IF others = {} THEN Len(ps) ELSE Min(others)
      length == Len(FlattenSeq([i \in DOMAIN ps |-> Wire(ps[i])]))
  IN IF length < BufSize THEN SubSeq(ps, 1, upTo) ELSE << >>

\* The m-th is the last that is looked at.
IsLast(ps, m) ==
  /\ m \in 1..Len(ps) /\ \A i \in 1..(m - 1) : ps[i].type = PUBLISH
  /\ ps[m].type = PUBLISH => m = Len(ps)

\* What is looked at, of a segment of a length the client takes.
LEMMA LookedIs ==
  ASSUME NEW ps \in Seq(Incoming), NEW m, IsLast(ps, m), LenTo(ps, Len(ps)) < BufSize
  PROVE  LookedAt(ps) = SubSeq(ps, 1, m)
<1> DEFINE others == {i \in DOMAIN ps : ps[i].type # PUBLISH}
           upTo == IF others = {} THEN Len(ps) ELSE Min(others)
<1>1. PICK n \in Nat : n = Len(ps) /\ DOMAIN ps = 1..n OBVIOUS
<1>2. /\ m \in 1..n /\ \A i \in 1..(m - 1) : ps[i].type = PUBLISH
      /\ ps[m].type = PUBLISH => m = n
  BY <1>1 DEF IsLast
<1>3. upTo = m
  <2>1. CASE ps[m].type = PUBLISH
    <3>1. others = {}
      <4>1. \A i \in 1..n : i = m \/ i \in 1..(m - 1) BY <1>2, <2>1
      <4> QED BY <1>1, <1>2, <2>1, <4>1
    <3> QED BY <1>1, <1>2, <2>1, <3>1
  <2>2. CASE ps[m].type # PUBLISH
    <3>1. m \in others BY <1>1, <1>2, <2>2
    <3>2. \A i \in others : m <= i
      <4> SUFFICES ASSUME NEW i \in others, ~ (m <= i) PROVE FALSE OBVIOUS
      <4>1. i \in 1..n /\ ps[i].type # PUBLISH BY <1>1
      <4>2. i \in 1..(m - 1) BY <1>2, <4>1
      <4> QED BY <1>2, <4>1, <4>2
    <3>3. others \subseteq Nat BY <1>1
    <3> HIDE DEF others
    <3>4. \A i \in others : (\A k \in others : i <= k) => i = m
      <4> SUFFICES ASSUME NEW i \in others, i <= m PROVE i = m BY <3>1
      <4> QED BY <1>2, <3>2, <3>3
    <3>5. Min(others) = CHOOSE i \in others : \A k \in others : i <= k BY DEF Min
    <3>6. Min(others) = m BY <3>1, <3>2, <3>4, <3>5
    <3> QED BY <3>1, <3>6
  <2> QED BY <2>1, <2>2
<1>4. Len(FlattenSeq([i \in DOMAIN ps |-> Wire(ps[i])])) < BufSize BY LengthIs
<1>5. LookedAt(ps) = SubSeq(ps, 1, upTo) BY <1>4 DEF LookedAt
<1> HIDE DEF upTo
<1> QED BY <1>3, <1>5

\* Nothing, of a longer one.
LEMMA LookedNot ==
  ASSUME NEW ps \in Seq(Incoming), ~ (LenTo(ps, Len(ps)) < BufSize)
  PROVE  LookedAt(ps) = << >>
<1>1. ~ (Len(FlattenSeq([i \in DOMAIN ps |-> Wire(ps[i])])) < BufSize) BY LengthIs
<1> QED BY <1>1 DEF LookedAt

\* The answers to the first m.
LEMMA RepliesToFirst ==
  ASSUME NEW ps \in Seq(Incoming), NEW m \in 0..Len(ps)
  PROVE  FlattenSeq([i \in DOMAIN SubSeq(ps, 1, m) |-> Expected(SubSeq(ps, 1, m)[i])])
           = RepliesTo(ps)[m]
<1> DEFINE S == Seq(Nat)
           e == Replies(ps)
           q == SubSeq(ps, 1, m)
           t == [i \in DOMAIN q |-> Expected(q[i])]
<1>1. PICK n \in Nat : n = Len(ps) /\ DOMAIN ps = 1..n OBVIOUS
<1>2. m \in Nat /\ m <= n BY <1>1
<1>3. DOMAIN q = 1..m /\ \A i \in 1..m : q[i] = ps[i] BY <1>1, <1>2
<1>4. \A i \in 1..m : ps[i] \in Incoming /\ i \in 1..n BY <1>1, <1>2
<1>5. /\ e \in Seq(Seq(S)) /\ Len(e) = n /\ Joins(RepliesTo(ps), e, S)
  BY <1>1, RepliesAre
<1>6. \A i \in 1..m : e[i] = Expected(ps[i]) BY <1>1, <1>4 DEF Replies
<1>7. t = [i \in 1..m |-> Expected(ps[i])] BY <1>3
<1>8. \A i \in 1..m : Expected(ps[i]) \in Seq(S) BY <1>4, ExpectedType
<1> HIDE DEF S, e, q, t
<1>9. t \in Seq(Seq(S)) /\ Len(t) = m
  <2> DEFINE W == Seq(S)
  <2>1. \A i \in 1..m : Expected(ps[i]) \in W BY <1>8
  <2> HIDE DEF W
  <2>2. t \in Seq(W) /\ Len(t) = m BY <1>2, <1>7, <2>1
  <2> QED BY <2>2 DEF W
<1>10. StartsWith(e, t) BY <1>2, <1>5, <1>6, <1>7, <1>9 DEF StartsWith
<1>11. FlattenSeq(t) = RepliesTo(ps)[Len(t)] BY <1>5, <1>9, <1>10, FlattenIs
<1> QED BY <1>9, <1>11 DEF t, q

-----------------------------------------------------------------------------
(* Reading a segment. *)

\* The first k packets are delivered.
DeliveredFirst(k) ==
  /\ delivered = [i \in 1..k |-> delivered[i]]
  /\ \A i \in 1..k :
       /\ packets[i].type = PUBLISH /\ delivered[i].topic = packets[i].topic
       /\ delivered[i].data = packets[i].data \/ NoData(i)

\* What is left of the segment is what is behind the first j packets.
Reading(j) ==
  /\ j \in 0..(Len(packets) - 1)
  /\ seg \in Seq(Nat) /\ Len(seg) = LenTo(packets, Len(packets)) - LenTo(packets, j)
  /\ \A i \in 1..Len(seg) : seg[i] = WiresTo(packets)[Len(packets)][LenTo(packets, j) + i]
  /\ out = RepliesTo(packets)[j] /\ DeliveredFirst(j)
  /\ j > 0 => LenTo(packets, Len(packets)) < BufSize

\* The inductive invariant.
SessionInv ==
  /\ messageId \in 0..Max16 /\ packets \in Seq(Incoming)
  /\ \/ pc = "idle"
     \/ pc = "read" /\ request = NoRequest /\ (packets # << >> => \E j \in Nat : Reading(j))
  /\ DeliveredInOrder /\ AnswersMatch /\ SentAsAsked

\* The next packet is copied to the beginning of in_buffer (os_memcpy, READPACKET).
LEMMA AtSegment ==
  ASSUME packets \in Seq(Incoming), NEW j, Reading(j), Len(seg) < BufSize
  PROVE  /\ IsBuffer(Copied) /\ AtBegin(Copied, packets[j + 1])
         /\ Len(Wire(packets[j + 1])) <= Len(seg) /\ packets[j + 1] \in Incoming
<1>1. j \in 0..(Len(packets) - 1) BY DEF Reading
<1>2. PICK a \in Nat : a = LenTo(packets, j) BY <1>1, NextWire
<1>3. PICK l \in Nat : l = LenTo(packets, Len(packets)) BY <1>1, NextWire
<1>4. PICK n \in Nat : n = Len(Wire(packets[j + 1])) /\ a + n <= l BY <1>1, <1>2, <1>3, NextWire
<1>5. PICK p \in Incoming : p = packets[j + 1]
  <2>1. j + 1 \in 1..Len(packets) BY <1>1
  <2> QED BY <2>1
<1>6. /\ seg \in Seq(Nat) /\ Len(seg) = l - a
      /\ \A i \in 1..(l - a) : seg[i] = WiresTo(packets)[Len(packets)][a + i]
  BY <1>2, <1>3 DEF Reading
<1>7. \A i \in 1..n : WiresTo(packets)[Len(packets)][a + i] = Wire(p)[i]
  BY <1>1, <1>2, <1>4, <1>5, NextWire
<1>8. n <= l - a /\ l - a < BufSize /\ BufSize \in Nat BY <1>4, <1>6, BufAssumption
<1>9. PICK c : c = Copied OBVIOUS
<1>10. c = [i \in 1..BufSize |-> IF i <= l - a THEN seg[i] ELSE in[i]]
  BY <1>6, <1>9 DEF Copied
<1>11. IsBuffer(c)
  <2>1. c = [i \in 1..BufSize |-> c[i]] BY <1>10
  <2> QED BY <2>1 DEF IsBuffer
<1>12. ASSUME NEW i \in 1..n PROVE c[i] = Wire(p)[i]
  <2>1. i \in 1..BufSize /\ i \in 1..(l - a) /\ i <= l - a BY <1>8
  <2>2. c[i] = seg[i] BY <1>10, <2>1
  <2> QED BY <1>6, <1>7, <2>1, <2>2
<1>13. AtBegin(c, p) BY <1>4, <1>5, <1>8, <1>12 DEF AtBegin, Begins
<1> QED BY <1>4, <1>5, <1>6, <1>8, <1>9, <1>11, <1>13

\* Nothing is behind the next packet only if it is the last.
LEMMA NothingBehind ==
  ASSUME packets \in Seq(Incoming), NEW j, Reading(j)
  PROVE  ~ (Len(Wire(packets[j + 1])) < Len(seg)) <=> j + 1 = Len(packets)
<1>1. j \in 0..(Len(packets) - 1) BY DEF Reading
<1>2. PICK a \in Nat : a = LenTo(packets, j) BY <1>1, NextWire
<1>3. PICK l \in Nat : l = LenTo(packets, Len(packets)) BY <1>1, NextWire
<1>4. PICK n \in Nat : n = Len(Wire(packets[j + 1])) BY <1>1, NextWire
<1>5. Len(seg) = l - a BY <1>2, <1>3 DEF Reading
<1>6. LenTo(packets, j + 1) = a + n BY <1>1, <1>2, <1>4, NextWire
<1>7. CASE j + 1 = Len(packets)
  <2>1. l = a + n BY <1>3, <1>6, <1>7
  <2> QED BY <1>4, <1>5, <1>7, <2>1
<1>8. CASE j + 1 # Len(packets)
  <2>1. j + 1 \in 0..(Len(packets) - 1) BY <1>1, <1>8
  <2>2. PICK b \in Nat : b = Len(Wire(packets[(j + 1) + 1])) /\ b >= 2 BY <2>1, NextWire
  <2>3. LenTo(packets, (j + 1) + 1) = a + n + b BY <1>6, <2>1, <2>2, NextWire
  <2>4. LenTo(packets, (j + 1) + 1) <= l BY <1>3, <2>1, NextWire
  <2> QED BY <1>4, <1>5, <1>8, <2>2, <2>3, <2>4
<1> QED BY <1>7, <1>8

\* One more element.
LEMMA Appended ==
  ASSUME NEW d, NEW j \in Nat, d = [i \in 1..j |-> d[i]], NEW x
  PROVE  Append(d, x) = [i \in 1..(j + 1) |-> IF i <= j THEN d[i] ELSE x]
<1> DEFINE V == {d[i] : i \in 1..j} \union {x}
<1>1. \A i \in 1..j : d[i] \in V OBVIOUS
<1>2. x \in V OBVIOUS
<1> HIDE DEF V
<1>3. d \in Seq(V) /\ Len(d) = j
  <2>1. PICK e \in [1..j -> V] : e = d BY <1>1
  <2> QED BY <2>1
<1>4. PICK e \in Seq(V) : e = d BY <1>3
<1>5. /\ Append(e, x) \in Seq(V) /\ Len(Append(e, x)) = Len(e) + 1
      /\ \A i \in 1..(Len(e) + 1) : Append(e, x)[i] = IF i <= Len(e) THEN e[i] ELSE x
  BY <1>2
<1>6. Append(e, x) = [i \in 1..(j + 1) |-> IF i <= j THEN e[i] ELSE x] BY <1>3, <1>4, <1>5
<1> QED BY <1>4, <1>6

\* One turn of the loop answers the next packet, and delivers it if it is a PUBLISH.
LEMMA ReadsOne ==
  ASSUME packets \in Seq(Incoming), NEW j, Reading(j), ReadPacket
  PROVE  /\ LenTo(packets, Len(packets)) < BufSize
         /\ out' = RepliesTo(packets)[j + 1]
         /\ packets[j + 1].type = PUBLISH => DeliveredFirst(j + 1)'
         /\ packets[j + 1].type # PUBLISH => DeliveredFirst(j)'
         /\ TypeOf(in') = packets[j + 1].type
         /\ TotalLength(in', Len(seg)) = Len(Wire(packets[j + 1]))
<1>1. /\ j \in 0..(Len(packets) - 1) /\ j \in Nat /\ j + 1 \in 1..Len(packets)
      /\ out = RepliesTo(packets)[j] /\ DeliveredFirst(j)
  BY DEF Reading
<1>2. PICK c : c = in' OBVIOUS
<1>3. PICK p \in Incoming : p = packets[j + 1] BY <1>1
<1>4. /\ Len(seg) \in 1..(BufSize - 1) /\ c = Copied
      /\ out' = out \o Answers(TypeOf(in'), QosOf(in'))
      /\ IF TypeOf(in') = PUBLISH THEN delivered' = Append(delivered, Deliver(Len(seg)))
         ELSE delivered' = delivered
      /\ packets' = packets
  BY <1>2 DEF ReadPacket, ghosts
<1>5. PICK N \in Nat : N = Len(seg) /\ N < BufSize BY <1>4, BufAssumption
<1>6. IsBuffer(c) /\ AtBegin(c, p) /\ Len(Wire(p)) <= N
  BY <1>3, <1>4, <1>5, AtSegment
<1>7. TypeOf(c) = p.type /\ QosOf(c) = p.qos /\ TotalLength(c, N) = Len(Wire(p))
  BY <1>6, ReadsHeader
<1>8. LenTo(packets, Len(packets)) < BufSize
  <2>1. CASE j = 0
    <3>1. LenTo(packets, 0) = 0
      <4>1. WiresTo(packets)[0] = << >> BY WiresAre DEF Joins
      <4> QED BY <4>1 DEF LenTo
    <3>2. LenTo(packets, Len(packets)) \in Nat BY <1>1, NextWire
    <3> QED BY <1>5, <2>1, <3>1, <3>2 DEF Reading
  <2>2. CASE j # 0
    <3>1. j > 0 BY <1>1, <2>2
    <3> QED BY <3>1 DEF Reading
  <2> QED BY <2>1, <2>2
<1>9. out' = RepliesTo(packets)[j + 1]
  <2>1. AtBegin(in', p) BY <1>2, <1>6
  <2>2. Answers(p.type, p.qos) = Expected(p) BY <2>1, AnswersRight
  <2>3. out' = RepliesTo(packets)[j] \o Expected(p) BY <1>1, <1>2, <1>4, <1>7, <2>2
  <2>4. Replies(packets)[j + 1] = Expected(p)
    <3>1. j + 1 \in DOMAIN packets BY <1>1
    <3> QED BY <1>3, <3>1 DEF Replies
  <2>5. j + 1 \in 1..Len(Replies(packets)) /\ (j + 1) - 1 = j BY <1>1, RepliesAre
  <2>6. RepliesTo(packets)[j + 1] = RepliesTo(packets)[j] \o Replies(packets)[j + 1]
    <3>1. Joins(RepliesTo(packets), Replies(packets), Seq(Nat)) BY RepliesAre
    <3> QED BY <2>5, <3>1 DEF Joins
  <2> QED BY <2>3, <2>4, <2>6
<1>10. CASE p.type = PUBLISH
  <2>1. PICK x : x = Deliver(N) OBVIOUS
  <2>2. \A s : Copy(s) = CopyOf(c, s) BY <1>2 DEF Copy, CopyOf
  <2>3. x.topic = p.topic
    <3>1. CopyOf(c, PublishTopic(c, N)) = p.topic BY <1>6, <1>10, CopiesTopic
    <3> QED BY <1>2, <2>1, <2>2, <3>1 DEF Deliver
  <2>4. x.data = p.data \/ (p.qos > 0 /\ p.data = << >> /\ N = Len(Wire(p)))
    <3>1. \/ CopyOf(c, PublishData(c, N)) = p.data
          \/ p.qos > 0 /\ p.data = << >> /\ N = Len(Wire(p))
      BY <1>6, <1>10, CopiesData
    <3>2. x.data = CopyOf(c, PublishData(c, N)) BY <1>2, <2>1, <2>2 DEF Deliver
    <3> QED BY <3>1, <3>2
  <2>5. N = Len(Wire(p)) => j + 1 = Len(packets)
    <3>1. Len(Wire(p)) <= Len(seg) BY <1>5, <1>6
    <3> QED BY <1>3, <1>5, <3>1, NothingBehind
  <2>6. x.data = packets[j + 1].data \/ NoData(j + 1) BY <1>3, <2>4, <2>5 DEF NoData
  <2>7. /\ delivered = [i \in 1..j |-> delivered[i]]
        /\ \A i \in 1..j :
             /\ packets[i].type = PUBLISH /\ delivered[i].topic = packets[i].topic
             /\ delivered[i].data = packets[i].data \/ NoData(i)
    BY <1>1 DEF DeliveredFirst
  <2>8. delivered' = [i \in 1..(j + 1) |-> IF i <= j THEN delivered[i] ELSE x]
    <3>1. delivered' = Append(delivered, x) BY <1>2, <1>4, <1>5, <1>7, <1>10, <2>1
    <3> QED BY <1>1, <2>7, <3>1, Appended
  <2>9. delivered' = [i \in 1..(j + 1) |-> delivered'[i]] BY <2>8
  <2>10. ASSUME NEW i \in 1..(j + 1)
         PROVE  /\ packets[i].type = PUBLISH /\ delivered'[i].topic = packets[i].topic
                /\ delivered'[i].data = packets[i].data \/ NoData(i)
    <3>1. CASE i \in 1..j
      <4>1. delivered'[i] = delivered[i] BY <2>8, <3>1
      <4> QED BY <2>7, <3>1, <4>1
    <3>2. CASE i \notin 1..j
      <4>1. i = j + 1 /\ ~ (i <= j) BY <1>1, <3>2
      <4>2. delivered'[i] = x BY <2>8, <4>1
      <4> QED BY <1>3, <1>10, <2>3, <2>6, <4>1, <4>2
    <3> QED BY <3>1, <3>2
  <2>11. \A i : NoData(i)' = NoData(i) BY <1>4 DEF NoData
  <2>12. DeliveredFirst(j + 1)' BY <1>4, <2>9, <2>10, <2>11 DEF DeliveredFirst
  <2> QED BY <1>2, <1>3, <1>5, <1>7, <1>8, <1>9, <1>10, <2>12
<1>11. CASE p.type # PUBLISH
  <2>1. delivered' = delivered BY <1>2, <1>4, <1>7, <1>11
  <2>2. DeliveredFirst(j)' BY <1>1, <1>4, <2>1 DEF DeliveredFirst, NoData
  <2> QED BY <1>2, <1>3, <1>5, <1>7, <1>8, <1>9, <1>11, <2>2
<1> QED BY <1>10, <1>11

\* Looked is LookedAt.
LEMMA LookedAtPackets == Looked = LookedAt(packets)
  BY DEF Looked, LookedAt

\* The segment was looked at up to its m-th packet.
LookedUpTo(m) ==
  /\ packets \in Seq(Incoming) /\ IsLast(packets, m)
  /\ LenTo(packets, Len(packets)) < BufSize /\ out = RepliesTo(packets)[m]
  /\ packets[m].type = PUBLISH => DeliveredFirst(m)
  /\ packets[m].type # PUBLISH => DeliveredFirst(m - 1)

\* Then it was answered and delivered.
LEMMA Finished == \A m : LookedUpTo(m) => DeliveredInOrder /\ AnswersMatch
<1> SUFFICES ASSUME NEW m, LookedUpTo(m) PROVE DeliveredInOrder /\ AnswersMatch OBVIOUS
<1>0. /\ packets \in Seq(Incoming) /\ IsLast(packets, m)
      /\ LenTo(packets, Len(packets)) < BufSize /\ out = RepliesTo(packets)[m]
      /\ packets[m].type = PUBLISH => DeliveredFirst(m)
      /\ packets[m].type # PUBLISH => DeliveredFirst(m - 1)
  BY DEF LookedUpTo
<1>1. PICK n \in Nat : n = Len(packets) /\ DOMAIN packets = 1..n BY <1>0
<1>2. m \in 1..n /\ m \in 0..n /\ \A i \in 1..(m - 1) : packets[i].type = PUBLISH
  BY <1>0, <1>1 DEF IsLast
<1>3. PICK q : q = SubSeq(packets, 1, m) OBVIOUS
<1>4. Looked = q BY <1>0, <1>3, LookedAtPackets, LookedIs
<1>5. DOMAIN q = 1..m /\ \A i \in 1..m : q[i] = packets[i] BY <1>0, <1>1, <1>2, <1>3
<1>6. AnswersMatch
  <2>1. FlattenSeq([i \in DOMAIN q |-> Expected(q[i])]) = RepliesTo(packets)[m]
    BY <1>0, <1>1, <1>2, <1>3, RepliesToFirst
  <2> QED BY <1>0, <1>4, <2>1 DEF AnswersMatch
<1>7. DeliveredInOrder
  <2> DEFINE published == {i \in DOMAIN q : q[i].type = PUBLISH}
  <2>1. PICK k : k = IF packets[m].type = PUBLISH THEN m ELSE m - 1 OBVIOUS
  <2>2. DeliveredFirst(k) BY <1>0, <2>1
  <2>3. published = 1..k
    <3>1. CASE packets[m].type = PUBLISH
      <4>1. \A i \in 1..m : i = m \/ i \in 1..(m - 1) BY <1>2
      <4>2. \A i \in 1..m : q[i].type = PUBLISH BY <1>2, <1>5, <3>1, <4>1
      <4> QED BY <1>5, <2>1, <3>1, <4>2
    <3>2. CASE packets[m].type # PUBLISH
      <4>1. k = m - 1 BY <2>1, <3>2
      <4>2. \A i \in 1..m : i \in 1..(m - 1) <=> i # m BY <1>2
      <4>3. \A i \in 1..(m - 1) : i \in 1..m BY <1>2
      <4>4. \A i \in 1..m : i \in published <=> i \in 1..(m - 1) BY <1>2, <1>5, <3>2, <4>2
      <4> QED BY <1>5, <4>1, <4>3, <4>4
    <3> QED BY <3>1, <3>2
  <2>4. \A i \in 1..k : i \in 1..m BY <1>2, <2>1
  <2>5. /\ delivered = [i \in 1..k |-> delivered[i]]
        /\ \A i \in 1..k : /\ delivered[i].topic = packets[i].topic
                           /\ delivered[i].data = packets[i].data \/ NoData(i)
    BY <2>2 DEF DeliveredFirst
  <2>6. DOMAIN delivered = published BY <2>3, <2>5
  <2>7. \A i \in published : /\ delivered[i].topic = q[i].topic
                             /\ delivered[i].data = q[i].data \/ NoData(i)
    BY <1>5, <2>3, <2>4, <2>5
  <2> QED BY <1>4, <2>6, <2>7 DEF DeliveredInOrder
<1> QED BY <1>6, <1>7

\* While a segment is read, and when nothing was asked for, nothing is claimed.
LEMMA NothingAsked ==
  ASSUME request = NoRequest
  PROVE  SentAsAsked
  BY DEF NoRequest, SentAsAsked

\* Nor of a segment that is not made of whole packets.
LEMMA StillReading ==
  ASSUME pc = "read" \/ packets = << >>
  PROVE  DeliveredInOrder /\ AnswersMatch
  BY DEF DeliveredInOrder, AnswersMatch

\* One turn of the loop leaves the rest of the packets to be read, or was the last.
LEMMA ReadPacketStep == SessionInv /\ ReadPacket => SessionInv'
<1> SUFFICES ASSUME SessionInv, ReadPacket PROVE SessionInv' OBVIOUS
<1>1. /\ pc = "read" /\ packets' = packets /\ request' = request
      /\ messageId' \in {messageId, NextId(messageId)} /\ pc' \in {"read", "idle"}
  BY DEF ReadPacket, ghosts
<1>2. /\ request = NoRequest /\ messageId \in 0..Max16 /\ packets \in Seq(Incoming)
      /\ packets # << >> => \E j \in Nat : Reading(j)
  BY <1>1 DEF SessionInv
<1>3. messageId' \in 0..Max16 BY <1>1, <1>2, NextIdIs
<1>4. SentAsAsked'
  <2>1. request' = NoRequest' BY <1>1, <1>2 DEF NoRequest
  <2> QED BY <2>1, NothingAsked DEF NoRequest, SentAsAsked
<1>5. CASE packets = << >>
  BY <1>1, <1>2, <1>3, <1>4, <1>5 DEF SessionInv, DeliveredInOrder, AnswersMatch, NoRequest
<1>6. CASE packets # << >>
  <2>1. PICK j \in Nat : Reading(j) BY <1>2, <1>6
  <2>2. PICK p \in Incoming : p = packets[j + 1]
    <3>1. j + 1 \in 1..Len(packets) BY <2>1 DEF Reading
    <3> QED BY <1>2, <3>1
  <2>3. /\ LenTo(packets, Len(packets)) < BufSize /\ out' = RepliesTo(packets)[j + 1]
        /\ p.type = PUBLISH => DeliveredFirst(j + 1)'
        /\ p.type # PUBLISH => DeliveredFirst(j)'
        /\ TypeOf(in') = p.type /\ TotalLength(in', Len(seg)) = Len(Wire(p))
    BY <1>2, <2>1, <2>2, ReadsOne
  <2>4. CASE p.type = PUBLISH /\ Len(Wire(p)) < Len(seg)
    <3>1. pc' = "read" /\ seg' = SubSeq(seg, Len(Wire(p)) + 1, Len(seg))
      BY <2>3, <2>4 DEF ReadPacket
    <3>2. j + 1 # Len(packets) BY <1>2, <2>1, <2>2, <2>4, NothingBehind
    <3>3. Reading(j + 1)'
      <4>1. PICK n \in Nat : n = Len(packets) BY <1>2
      <4>2. j \in 0..(n - 1) /\ j + 1 \in 0..(n - 1) BY <2>1, <3>2, <4>1 DEF Reading
      <4>3. PICK a \in Nat : a = LenTo(packets, j) BY <1>2, <4>1, <4>2, NextWire
      <4>4. PICK l \in Nat : l = LenTo(packets, n) BY <1>2, <4>1, <4>2, NextWire
      <4>5. PICK w \in Nat : w = Len(Wire(p)) BY <1>2, <2>2, <4>1, <4>2, NextWire
      <4>6. LenTo(packets, j + 1) = a + w BY <1>2, <2>2, <4>1, <4>2, <4>3, <4>5, NextWire
      <4>7. PICK s \in Seq(Nat) :
              /\ s = seg /\ Len(s) = l - a
              /\ \A i \in 1..(l - a) : s[i] = WiresTo(packets)[n][a + i]
        BY <2>1, <4>1, <4>3, <4>4 DEF Reading
      <4>8. PICK t \in Seq(Nat) : t = SubSeq(s, w + 1, l - a)
        <5>1. \A i \in (w + 1)..(l - a) : s[i] \in Nat BY <4>7
        <5>2. SubSeq(s, w + 1, l - a) \in Seq(Nat) BY <4>7, <5>1
        <5> QED BY <5>2
      <4>9. w < l - a BY <2>4, <4>5, <4>7
      <4>10. Len(t) = l - (a + w) /\ \A i \in 1..(l - (a + w)) : t[i] = s[w + i]
        <5>1. Len(t) = (l - a) - w /\ \A i \in 1..((l - a) - w) : t[i] = s[w + i]
          BY <4>7, <4>8, <4>9
        <5>2. (l - a) - w = l - (a + w) OBVIOUS
        <5> QED BY <5>1, <5>2
      <4>11. ASSUME NEW i \in 1..(l - (a + w))
             PROVE  t[i] = WiresTo(packets)[n][(a + w) + i]
        <5>1. w + i \in 1..(l - a) BY <4>9
        <5>2. s[w + i] = WiresTo(packets)[n][a + (w + i)] BY <4>7, <5>1
        <5>3. a + (w + i) = (a + w) + i OBVIOUS
        <5> QED BY <4>10, <5>2, <5>3
      <4>12. seg' = t BY <3>1, <4>5, <4>7, <4>8
      <4>13. DeliveredFirst(j + 1)' BY <2>3, <2>4
      <4> QED BY <1>1, <2>3, <4>1, <4>2, <4>4, <4>6, <4>10, <4>11, <4>12, <4>13 DEF Reading
    <3>4. j + 1 \in Nat OBVIOUS
    <3>5. DeliveredInOrder' /\ AnswersMatch' BY <3>1 DEF DeliveredInOrder, AnswersMatch
    <3> QED BY <1>1, <1>2, <1>3, <1>4, <3>1, <3>3, <3>4, <3>5 DEF SessionInv, NoRequest
  <2>5. CASE ~ (p.type = PUBLISH /\ Len(Wire(p)) < Len(seg))
    <3>1. pc' = "idle" BY <2>3, <2>5 DEF ReadPacket
    <3>2. IsLast(packets, j + 1)
      <4>1. j + 1 \in 1..Len(packets) /\ (j + 1) - 1 = j BY <2>1 DEF Reading
      <4>2. \A i \in 1..j : packets[i].type = PUBLISH BY <2>1 DEF Reading, DeliveredFirst
      <4>3. p.type = PUBLISH => j + 1 = Len(packets)
        BY <1>2, <2>1, <2>2, <2>5, NothingBehind
      <4> QED BY <2>2, <4>1, <4>2, <4>3 DEF IsLast
    <3>3. packets' \in Seq(Incoming) /\ IsLast(packets', j + 1)
          /\ LenTo(packets', Len(packets')) < BufSize /\ out' = RepliesTo(packets')[j + 1]
      BY <1>1, <1>2, <2>3, <3>2
    <3>4. /\ packets'[j + 1].type = PUBLISH => DeliveredFirst(j + 1)'
          /\ packets'[j + 1].type # PUBLISH => DeliveredFirst((j + 1) - 1)'
      <4>1. (j + 1) - 1 = j OBVIOUS
      <4> QED BY <1>1, <2>2, <2>3, <4>1
    <3>5. DeliveredInOrder' /\ AnswersMatch'
      <4>1. (\A m : LookedUpTo(m) => DeliveredInOrder /\ AnswersMatch)' BY Finished, PTL
      <4>2. LookedUpTo(j + 1)' BY <3>3, <3>4 DEF LookedUpTo
      <4> QED BY <4>1, <4>2
    <3> QED BY <1>1, <1>2, <1>3, <1>4, <3>1, <3>5 DEF SessionInv
  <2> QED BY <2>4, <2>5
<1> QED BY <1>5, <1>6

\* A segment that is too long is dropped as a whole: nothing of it is answered or delivered.
LEMMA ReadNothingStep == SessionInv /\ ReadNothing => SessionInv'
<1> SUFFICES ASSUME SessionInv, ReadNothing PROVE SessionInv' OBVIOUS
<1>1. /\ pc = "read" /\ pc' = "idle" /\ Len(seg) \notin 1..(BufSize - 1) /\ packets' = packets
      /\ request' = request /\ messageId' = messageId /\ out' = out /\ delivered' = delivered
  BY DEF ReadNothing, ghosts
<1>2. /\ request = NoRequest /\ messageId \in 0..Max16 /\ packets \in Seq(Incoming)
      /\ packets # << >> => \E j \in Nat : Reading(j)
  BY <1>1 DEF SessionInv
<1>3. SentAsAsked' BY <1>1, <1>2 DEF NoRequest, SentAsAsked
<1>4. CASE packets = << >>
  <2>1. DeliveredInOrder' /\ AnswersMatch' BY <1>1, <1>4 DEF DeliveredInOrder, AnswersMatch
  <2> QED BY <1>1, <1>2, <1>3, <2>1 DEF SessionInv
<1>5. CASE packets # << >>
  <2>1. PICK j \in Nat : Reading(j) BY <1>2, <1>5
  <2>0. j \in 0..(Len(packets) - 1) BY <2>1 DEF Reading
  <2>2. PICK l \in Nat : l = LenTo(packets, Len(packets)) BY <1>2, <2>0, NextWire
  <2>3. PICK a \in Nat : a = LenTo(packets, j) BY <1>2, <2>0, NextWire
  <2>4. PICK n \in Nat :
          n = Len(Wire(packets[j + 1])) /\ n >= 2 /\ LenTo(packets, j + 1) = a + n /\ a + n <= l
    BY <1>2, <2>0, <2>2, <2>3, NextWire
  <2>5. Len(seg) = l - a /\ l - a \in 1..(l - a) BY <2>1, <2>2, <2>3, <2>4 DEF Reading
  <2>6. ~ (l < BufSize)
    <3>1. ~ (l - a < BufSize) BY <1>1, <2>4, <2>5, BufAssumption
    <3> QED BY <3>1, BufAssumption
  <2>7. j = 0 BY <2>1, <2>2, <2>6 DEF Reading
  <2>8. LookedAt(packets) = << >> BY <1>2, <2>2, <2>6, LookedNot
  <2>9. Looked' = << >>
    <3>1. Looked' = LookedAt(packets') BY DEF Looked, LookedAt
    <3> QED BY <1>1, <2>8, <3>1
  <2>10. DOMAIN delivered' = {}
    <3>1. delivered = [i \in 1..0 |-> delivered[i]] BY <2>1, <2>7 DEF Reading, DeliveredFirst
    <3> QED BY <1>1, <3>1
  <2>11. DeliveredInOrder' BY <2>9, <2>10 DEF DeliveredInOrder
  <2>12. AnswersMatch'
    <3>1. out' = RepliesTo(packets)[0] BY <1>1, <2>1, <2>7 DEF Reading
    <3>2. RepliesTo(packets)[0] = << >> BY <1>2, RepliesAre DEF Joins
    <3>3. [i \in DOMAIN Looked' |-> Expected(Looked'[i])] = << >> BY <2>9
    <3>4. FlattenSeq(<< >>) = << >> BY DEF FlattenSeq
    <3> QED BY <3>1, <3>2, <3>3, <3>4 DEF AnswersMatch
  <2> QED BY <1>1, <1>2, <1>3, <2>11, <2>12 DEF SessionInv
<1> QED BY <1>4, <1>5

\* A new segment begins with its first packet.
LEMMA RecvWholeStep == SessionInv /\ RecvWhole => SessionInv'
<1> SUFFICES ASSUME SessionInv, RecvWhole PROVE SessionInv' OBVIOUS
<1>1. PICK k \in 1..MaxPackets : \E qs \in [1..k -> Incoming] :
        Begin(FlattenSeq([i \in DOMAIN qs |-> Wire(qs[i])]), qs)
  BY DEF RecvWhole
<1>2. PICK ps \in [1..k -> Incoming] : Begin(FlattenSeq([i \in DOMAIN ps |-> Wire(ps[i])]), ps)
  BY <1>1
<1>3. k \in Nat /\ k # 0 BY SessionAssumption
<1>4. ps \in Seq(Incoming) /\ Len(ps) = k BY <1>3
<1>5. /\ pc' = "read" /\ packets' = ps /\ out' = << >> /\ delivered' = << >>
      /\ seg' = FlattenSeq([i \in DOMAIN ps |-> Wire(ps[i])])
      /\ request' = NoRequest /\ messageId' = messageId
  BY <1>2 DEF Begin
<1>6. Reading(0)'
  <2>1. PICK f \in [0..k -> Seq(Nat)] : f = WiresTo(ps) /\ f[0] = << >>
    BY <1>4, WiresAre DEF Joins
  <2>2. FlattenSeq(Wires(ps)) = f[k]
    <3>1. StartsWith(Wires(ps), Wires(ps)) BY <1>4, WiresAre DEF StartsWith
    <3> QED BY <1>4, <2>1, <3>1, WiresAre, FlattenIs
  <2>3. PICK s \in Seq(Nat) : s = f[k]
    <3>1. k \in 0..k BY <1>3
    <3> QED BY <2>1, <3>1
  <2>4. seg' = s BY <1>5, <2>2, <2>3 DEF Wires
  <2>5. LenTo(ps, 0) = 0 /\ LenTo(ps, k) = Len(s) BY <2>1, <2>3 DEF LenTo
  <2>6. RepliesTo(ps)[0] = << >> BY <1>4, RepliesAre DEF Joins
  <2>7. DeliveredFirst(0)' BY <1>5 DEF DeliveredFirst
  <2>8. Len(s) = Len(s) - 0 /\ \A i \in 1..Len(s) : 0 + i = i OBVIOUS
  <2>9. 0 \in 0..(Len(ps) - 1) BY <1>3, <1>4
  <2>10. Len(s) = LenTo(ps, Len(ps)) - LenTo(ps, 0) BY <1>4, <2>5, <2>8
  <2>11. \A i \in 1..Len(s) : s[i] = WiresTo(ps)[Len(ps)][LenTo(ps, 0) + i]
    BY <1>4, <2>1, <2>3, <2>5, <2>8
  <2>12. /\ 0 \in 0..(Len(packets') - 1) /\ seg' \in Seq(Nat)
         /\ Len(seg') = LenTo(packets', Len(packets')) - LenTo(packets', 0)
         /\ out' = RepliesTo(packets')[0]
    BY <1>5, <2>4, <2>6, <2>9, <2>10
  <2>13. \A i \in 1..Len(seg') :
           seg'[i] = WiresTo(packets')[Len(packets')][LenTo(packets', 0) + i]
    BY <1>5, <2>4, <2>11
  <2>14. ~ (0 > 0) OBVIOUS
  <2> QED BY <2>7, <2>12, <2>13, <2>14 DEF Reading
<1>7. messageId' \in 0..Max16 BY <1>5 DEF SessionInv
<1>8. SentAsAsked' BY <1>5 DEF NoRequest, SentAsAsked
<1>9. DeliveredInOrder' /\ AnswersMatch' BY <1>5 DEF DeliveredInOrder, AnswersMatch
<1> QED BY <1>4, <1>5, <1>6, <1>7, <1>8, <1>9 DEF SessionInv, NoRequest

\* Of a part of a packet nothing is claimed.
LEMMA RecvPartStep == SessionInv /\ RecvPart => SessionInv'
<1> SUFFICES ASSUME SessionInv, RecvPart PROVE SessionInv' OBVIOUS
<1>1. pc' = "read" /\ packets' = << >> /\ request' = NoRequest /\ messageId' = messageId
  BY DEF RecvPart, Begin
<1>2. messageId' \in 0..Max16 /\ packets' \in Seq(Incoming) BY <1>1 DEF SessionInv
<1>3. SentAsAsked' BY <1>1 DEF NoRequest, SentAsAsked
<1>4. DeliveredInOrder' /\ AnswersMatch' BY <1>1 DEF DeliveredInOrder, AnswersMatch
<1> QED BY <1>1, <1>2, <1>3, <1>4 DEF SessionInv, NoRequest

\* At first nothing was received or sent.
LEMMA SessionInvInit == Init => SessionInv
<1> SUFFICES ASSUME Init PROVE SessionInv OBVIOUS
<1>1. pc = "idle" /\ packets = << >> /\ request = NoRequest /\ messageId \in FirstId BY DEF Init
<1>2. messageId \in 0..Max16 BY <1>1, SessionAssumption
<1>3. DeliveredInOrder /\ AnswersMatch /\ SentAsAsked
  BY <1>1 DEF DeliveredInOrder, AnswersMatch, SentAsAsked, NoRequest
<1> QED BY <1>1, <1>2, <1>3 DEF SessionInv

\* Steps of others change nothing.
LEMMA StutterStep == SessionInv /\ UNCHANGED vars => SessionInv'
<1> SUFFICES ASSUME SessionInv, UNCHANGED vars PROVE SessionInv' OBVIOUS
<1>1. /\ seg' = seg /\ messageId' = messageId /\ out' = out /\ delivered' = delivered
      /\ pc' = pc /\ packets' = packets /\ request' = request
  BY DEF vars, ghosts
<1>2. \A i : NoData(i)' = NoData(i) BY <1>1 DEF NoData
<1>3. Looked' = Looked BY <1>1 DEF Looked
<1>4. DeliveredInOrder' /\ AnswersMatch' /\ SentAsAsked'
  BY <1>1, <1>2, <1>3 DEF SessionInv, DeliveredInOrder, AnswersMatch, SentAsAsked
<1>5. \A k : DeliveredFirst(k) => DeliveredFirst(k)' BY <1>1, <1>2 DEF DeliveredFirst
<1>6. \A j : Reading(j) => Reading(j)' BY <1>1, <1>5 DEF Reading
<1> QED BY <1>1, <1>4, <1>6 DEF SessionInv, NoRequest

-----------------------------------------------------------------------------
(* What the client sends by itself. *)

\* What is finished is framed.
LEMMA FinishIs ==
  ASSUME NEW type \in Nat, NEW qos \in Nat, NEW body \in Seq(Nat)
  PROVE  Finish(type, qos, body) = Framed(16 * type + 2 * qos, body)
<1>1. PICK n \in Nat : n = Len(body) OBVIOUS
<1>2. (IF n > 127 THEN <<128 + (n % 128), n \div 128>> ELSE <<n>>) = Lengths(n)
  <2>1. n > 127 <=> ~ (n < 128) OBVIOUS
  <2> QED BY <2>1 DEF Lengths
<1> QED BY <1>1, <1>2 DEF Finish, Framed

\* MQTT_Publish sends what it was asked to, with an identifier that is not 0, or nothing.
LEMMA PublishStep == SessionInv /\ Publish => SessionInv'
<1> SUFFICES ASSUME SessionInv, Publish PROVE SessionInv' OBVIOUS
<1>1. PICK t \in Topics, d \in Datas, q \in 0..2 :
        LET message == PublishMessage(t, d, q, messageId) IN
        /\ Ask([kind |-> "publish", topic |-> t, data |-> d, qos |-> q],
               IF message = Failed THEN << >> ELSE <<message>>)
        /\ messageId' = IF PublishTakesId(t, q) THEN NextId(messageId) ELSE messageId
  BY DEF Publish
<1>2. t \in Seq(Nat) /\ d \in Seq(Nat) BY BytesAre, RequestAssumption
<1>3. PICK m : m = PublishMessage(t, d, q, messageId) OBVIOUS
<1>4. /\ pc' = "idle" /\ packets' = << >>
      /\ out' = IF m = Failed THEN << >> ELSE <<m>>
      /\ request' = [kind |-> "publish", topic |-> t, data |-> d, qos |-> q]
      /\ messageId' = IF PublishTakesId(t, q) THEN NextId(messageId) ELSE messageId
  BY <1>1, <1>3 DEF Ask
<1>5. /\ messageId \in 0..Max16 /\ messageId' \in 0..Max16
      /\ NextId(messageId) \in 0..Max16 /\ NextId(messageId) # 0
  BY <1>4, NextIdIs DEF SessionInv
<1>6. DeliveredInOrder' /\ AnswersMatch' BY <1>4 DEF DeliveredInOrder, AnswersMatch
<1>7. CASE m = Failed
  <2>1. SentAsAsked' BY <1>4, <1>7 DEF SentAsAsked
  <2> QED BY <1>4, <1>5, <1>6, <2>1 DEF SessionInv
<1>8. CASE m # Failed
  <2>1. PICK i \in Nat : i = NextId(messageId) /\ i # 0 BY <1>5, SomeIds
  <2>2. PICK v \in Seq(Nat) : v = IF q > 0 THEN Bytes2(i) ELSE << >>
    <3>1. Bytes2(i) \in Seq(Nat) BY TwoBytes
    <3>2. << >> \in Seq(Nat) OBVIOUS
    <3> QED BY <3>1, <3>2
  <2>3. PICK s \in Seq(Nat) : s = String(t) BY <1>2, StringIs
  <2>4. PICK b \in Seq(Nat) : b = s \o v \o d
    <3>1. s \o v \in Seq(Nat) BY Joined DEF IsJoined
    <3>2. (s \o v) \o d \in Seq(Nat) BY <1>2, <3>1, Joined DEF IsJoined
    <3> QED BY <3>2
  <2>5. Len(s) <= Len(b)
    <3>1. PICK x \in Seq(Nat) : x = s \o v
      <4>1. s \o v \in Seq(Nat) BY Joined DEF IsJoined
      <4> QED BY <4>1
    <3>2. IsJoined(x, s, v) BY <3>1, Joined
    <3>3. IsJoined(b, x, d) BY <1>2, <2>4, <3>1, Joined
    <3>4. Len(x) = Len(s) + Len(v) BY <3>2 DEF IsJoined
    <3>5. Len(b) = Len(x) + Len(d) BY <3>3 DEF IsJoined
    <3>6. Len(v) \in Nat /\ Len(d) \in Nat /\ Len(s) \in Nat BY <1>2
    <3> QED BY <3>4, <3>5, <3>6
  <2>6. t # << >> /\ m = Message(PUBLISH, q, b)
    <3>1. s \o (IF q > 0 THEN Bytes2(NextId(messageId)) ELSE << >>) \o d = b
      BY <2>1, <2>2, <2>4
    <3>2. m = IF t = << >> THEN Failed ELSE Message(PUBLISH, q, b)
      BY <1>3, <2>3, <3>1 DEF PublishMessage
    <3> QED BY <1>8, <3>2
  <2>7. Fits(b) /\ m = Finish(PUBLISH, q, b) BY <1>8, <2>6 DEF Message
  <2>8. Fits(String(t))
    <3>1. MaxHeader + Len(b) <= BufSize /\ BufSize \in Nat BY <2>7, BufAssumption DEF Fits
    <3>2. Len(s) \in Nat /\ Len(b) \in Nat OBVIOUS
    <3>3. MaxHeader + Len(s) <= BufSize BY <2>5, <3>1, <3>2 DEF MaxHeader
    <3> QED BY <2>3, <3>3 DEF Fits
  <2>9. messageId' = IF q > 0 THEN i ELSE messageId
    BY <1>4, <2>1, <2>6, <2>8 DEF PublishTakesId
  <2>10. m = Framed(16 * PUBLISH + 2 * q, b)
    <3>1. PUBLISH \in Nat /\ q \in Nat BY DEF PUBLISH
    <3> QED BY <2>7, <3>1, FinishIs
  <2>11. PICK p : p = Packet(PUBLISH, q, IF q > 0 THEN i ELSE 0, t, d) OBVIOUS
  <2>12. /\ p.type = PUBLISH /\ p.qos = q /\ p.topic = t /\ p.data = d
         /\ p.id = IF q > 0 THEN i ELSE 0
    BY <2>11 DEF Packet
  <2>13. Body(p) = b
    <3>1. p.id # 0 <=> q > 0 BY <2>1, <2>12
    <3> QED BY <2>2, <2>3, <2>4, <2>12, <3>1 DEF Body
  <2>14. Wire(p) = m BY <2>10, <2>12, <2>13, AnyWireIs DEF First
  <2>15. /\ out' = <<Wire(Packet(PUBLISH, q, IF q > 0 THEN messageId' ELSE 0, t, d))>>
         /\ q > 0 => messageId' # 0
    BY <1>4, <1>8, <2>1, <2>9, <2>11, <2>14
  <2>16. SentAsAsked' BY <1>4, <2>15 DEF SentAsAsked
  <2> QED BY <1>4, <1>5, <1>6, <2>16 DEF SessionInv
<1> QED BY <1>7, <1>8

\* So does MQTT_Subscribe.
LEMMA SubscribeStep == SessionInv /\ Subscribe => SessionInv'
<1> SUFFICES ASSUME SessionInv, Subscribe PROVE SessionInv' OBVIOUS
<1>1. PICK t \in Topics :
        /\ Ask([kind |-> "subscribe", topic |-> t], <<SubscribeMessage(t, 0, messageId)>>)
        /\ messageId' = IF t # << >> THEN NextId(messageId) ELSE messageId
  BY DEF Subscribe
<1>2. t \in Seq(Nat) BY BytesAre, RequestAssumption
<1>3. PICK m : m = SubscribeMessage(t, 0, messageId) OBVIOUS
<1>4. /\ pc' = "idle" /\ packets' = << >> /\ out' = <<m>>
      /\ request' = [kind |-> "subscribe", topic |-> t]
      /\ messageId' = IF t # << >> THEN NextId(messageId) ELSE messageId
  BY <1>1, <1>3 DEF Ask
<1>5. /\ messageId \in 0..Max16 /\ messageId' \in 0..Max16
      /\ NextId(messageId) \in 0..Max16 /\ NextId(messageId) # 0
  BY <1>4, NextIdIs DEF SessionInv
<1>6. DeliveredInOrder' /\ AnswersMatch' BY <1>4 DEF DeliveredInOrder, AnswersMatch
<1>7. CASE m = Failed
  <2>1. SentAsAsked' BY <1>4, <1>7 DEF SentAsAsked
  <2> QED BY <1>4, <1>5, <1>6, <2>1 DEF SessionInv
<1>8. CASE m # Failed
  <2>1. PICK i \in Nat : i = NextId(messageId) /\ i # 0 BY <1>5, SomeIds
  <2>2. PICK v \in Seq(Nat) : v = Bytes2(i) BY TwoBytes
  <2>3. PICK s \in Seq(Nat) : s = String(t) BY <1>2, StringIs
  <2>4. PICK z \in Seq(Nat) : z = <<0>>
    <3>1. <<0>> \in Seq(Nat) OBVIOUS
    <3> QED BY <3>1
  <2>5. PICK b \in Seq(Nat) : b = v \o s \o z
    <3>1. v \o s \in Seq(Nat) BY Joined DEF IsJoined
    <3>2. (v \o s) \o z \in Seq(Nat) BY <3>1, Joined DEF IsJoined
    <3> QED BY <3>2
  <2>6. t # << >> /\ m = Message(SUBSCRIBE, 1, b)
    <3>1. m = IF t = << >> THEN Failed ELSE Message(SUBSCRIBE, 1, b)
      BY <1>3, <2>1, <2>2, <2>3, <2>4, <2>5 DEF SubscribeMessage
    <3> QED BY <1>8, <3>1
  <2>7. m = Finish(SUBSCRIBE, 1, b) BY <1>8, <2>6 DEF Message
  <2>8. messageId' = i BY <1>4, <2>1, <2>6
  <2>9. m = Framed(16 * SUBSCRIBE + 2 * 1, b)
    <3>1. SUBSCRIBE \in Nat /\ 1 \in Nat BY DEF SUBSCRIBE
    <3> QED BY <2>7, <3>1, FinishIs
  <2>10. PICK p : p = Packet(SUBSCRIBE, 1, i, << >>, s \o z) OBVIOUS
  <2>11. p.type = SUBSCRIBE /\ p.qos = 1 /\ p.data = s \o z /\ p.id = i
    BY <2>10 DEF Packet
  <2>12. Body(p) = b
    <3>1. Body(p) = << >> \o v \o (s \o z)
      BY <2>1, <2>2, <2>11 DEF Body, PUBLISH, SUBSCRIBE
    <3>2. << >> \o v = v BY JoinNothing
    <3>3. (v \o s) \o z = v \o (s \o z) BY Associative
    <3> QED BY <2>5, <3>1, <3>2, <3>3
  <2>13. Wire(p) = m BY <2>9, <2>11, <2>12, AnyWireIs DEF First
  <2>14. /\ out' = <<Wire(Packet(SUBSCRIBE, 1, messageId', << >>, String(t) \o <<0>>))>>
         /\ messageId' # 0
    BY <1>4, <2>1, <2>3, <2>4, <2>8, <2>10, <2>13
  <2>15. SentAsAsked' BY <1>4, <2>14 DEF SentAsAsked
  <2> QED BY <1>4, <1>5, <1>6, <2>15 DEF SessionInv
<1> QED BY <1>7, <1>8

\* s is in b behind place a.
At(b, a, s) == a + Len(s) <= Len(b) /\ \A i \in 1..Len(s) : b[a + i] = s[i]

\* What is in a part is in the whole.
LEMMA AtWithin ==
  ASSUME NEW c \in Seq(Nat), NEW e \in Nat, NEW b \in Seq(Nat), At(c, e, b),
         NEW a \in Nat, NEW s \in Seq(Nat), At(b, a, s)
  PROVE  At(c, e + a, s)
<1>1. Len(c) \in Nat /\ Len(b) \in Nat /\ Len(s) \in Nat OBVIOUS
<1>2. e + Len(b) <= Len(c) /\ \A i \in 1..Len(b) : c[e + i] = b[i] BY DEF At
<1>3. a + Len(s) <= Len(b) /\ \A i \in 1..Len(s) : b[a + i] = s[i] BY DEF At
<1>4. (e + a) + Len(s) <= Len(c) BY <1>1, <1>2, <1>3
<1>5. ASSUME NEW i \in 1..Len(s) PROVE c[(e + a) + i] = s[i]
  <2>1. a + i \in 1..Len(b) BY <1>1, <1>3
  <2>2. c[e + (a + i)] = b[a + i] BY <1>2, <2>1
  <2>3. e + (a + i) = (e + a) + i OBVIOUS
  <2> QED BY <1>3, <2>2, <2>3
<1> QED BY <1>4, <1>5 DEF At

\* Both of two sequences are in what is joined of them.
LEMMA AtBoth ==
  ASSUME NEW u \in Seq(Nat), NEW v \in Seq(Nat)
  PROVE  /\ u \o v \in Seq(Nat) /\ Len(u \o v) = Len(u) + Len(v)
         /\ At(u \o v, 0, u) /\ At(u \o v, Len(u), v)
<1>1. IsJoined(u \o v, u, v) BY Joined
<1>2. PICK t : t = u \o v OBVIOUS
<1>3. /\ t \in Seq(Nat) /\ Len(t) = Len(u) + Len(v) /\ Len(u) \in Nat /\ Len(v) \in Nat
      /\ \A i \in 1..Len(u) : t[i] = u[i]
      /\ \A i \in 1..Len(v) : t[Len(u) + i] = v[i]
  BY <1>1, <1>2 DEF IsJoined
<1>4. \A i \in 1..Len(u) : 0 + i = i OBVIOUS
<1>5. At(t, 0, u) BY <1>3, <1>4 DEF At
<1>6. At(t, Len(u), v) BY <1>3 DEF At
<1> QED BY <1>2, <1>3, <1>5, <1>6

\* A string in a packet is read (StringAt), and where it ends is found.
LEMMA StringRead ==
  ASSUME NEW b \in Seq(Nat), NEW a \in Nat, NEW s \in Seq(Nat), At(b, a, String(s))
  PROVE  StringAt(b, a + 1) = s /\ Behind(b, a + 1) = a + Len(String(s)) + 1
<1>1. PICK l \in Nat : l = Len(s) OBVIOUS
<1>2. PICK t \in Seq(Nat) :
        /\ t = String(s) /\ Len(t) = l + 2 /\ Number(t[1], t[2]) = l
        /\ \A i \in 1..l : t[2 + i] = s[i]
  BY <1>1, StringIs
<1>3. a + (l + 2) <= Len(b) /\ \A i \in 1..(l + 2) : b[a + i] = t[i]
  BY <1>2 DEF At
<1>4. b[a + 1] = t[1] /\ b[(a + 1) + 1] = t[2]
  <2>1. 1 \in 1..(l + 2) /\ 2 \in 1..(l + 2) /\ (a + 1) + 1 = a + 2 OBVIOUS
  <2> QED BY <1>3, <2>1
<1>5. Number(b[a + 1], b[(a + 1) + 1]) = l BY <1>2, <1>4
<1>6. Behind(b, a + 1) = a + (l + 2) + 1
  <2>1. Behind(b, a + 1) = (a + 1) + 2 + l BY <1>5 DEF Behind
  <2> QED BY <2>1
<1>7. SubSeq(b, a + 3, a + 2 + l) = s
  <2>1. PICK n \in Nat : n = Len(b) OBVIOUS
  <2>2. a + 2 + l <= n BY <1>3, <2>1
  <2>3. PICK r : r = SubSeq(b, a + 3, a + 2 + l) OBVIOUS
  <2>4. r = [i \in 1..l |-> b[i + (a + 3) - 1]]
    <3>1. (a + 2 + l) - (a + 3) + 1 = l OBVIOUS
    <3> QED BY <2>1, <2>2, <2>3, <3>1
  <2>5. ASSUME NEW i \in 1..l PROVE r[i] = s[i]
    <3>1. i + (a + 3) - 1 = a + (2 + i) /\ 2 + i \in 1..(l + 2) OBVIOUS
    <3>2. r[i] = b[a + (2 + i)] BY <2>4, <3>1
    <3> QED BY <1>2, <1>3, <3>1, <3>2
  <2>6. s = [i \in 1..l |-> s[i]] BY <1>1
  <2> QED BY <2>3, <2>4, <2>5, <2>6
<1>8. StringAt(b, a + 1) = s
  <2>1. (a + 1) + 2 = a + 3 /\ (a + 1) + 1 + l = a + 2 + l OBVIOUS
  <2> QED BY <1>5, <1>7, <2>1 DEF StringAt
<1> QED BY <1>2, <1>6, <1>8

\* The flags of a CONNECT.
Flags(info) == 2 * info.clean + Flag(info.user, 128) + Flag(info.password, 64)
               + Flag(info.willTopic, 4 + 8 * info.willQos + 32 * info.willRetain)

\* Each of them can be told from the byte.
LEMMA FlagsAre ==
  ASSUME NEW info \in Infos
  PROVE  /\ Flags(info) \in Nat
         /\ Bit(Flags(info), 4) <=> info.willTopic # << >>
         /\ Bit(Flags(info), 128) <=> info.user # << >>
         /\ Bit(Flags(info), 64) <=> info.password # << >>
         /\ Bit(Flags(info), 2) <=> info.clean = 1
         /\ Bit(Flags(info), 4) => /\ (Flags(info) \div 8) % 4 = info.willQos
                                   /\ Bit(Flags(info), 32) <=> info.willRetain = 1
<1>1. PICK c \in 0..1, q \in 0..2, r \in 0..1 :
        c = info.clean /\ q = info.willQos /\ r = info.willRetain
  BY RequestAssumption
<1>2. PICK u \in {0, 1} : u = IF info.user # << >> THEN 1 ELSE 0 OBVIOUS
<1>3. PICK p \in {0, 1} : p = IF info.password # << >> THEN 1 ELSE 0 OBVIOUS
<1>4. PICK w \in {0, 1} : w = IF info.willTopic # << >> THEN 1 ELSE 0 OBVIOUS
<1>5. PICK x \in Nat : x = IF w = 1 THEN 1 + 2 * q + 8 * r ELSE 0
  <2>1. 1 + 2 * q + 8 * r \in Nat OBVIOUS
  <2> QED BY <2>1
<1>6. x \in 0..15 /\ x % 2 = w /\ (w = 1 => (x \div 2) % 4 = q /\ (x \div 8) % 2 = r)
  BY <1>5
<1>7. PICK f \in Nat : f = 2 * c + 128 * u + 64 * p + 4 * x BY <1>6
<1>8. Flags(info) = f
  <2>1. Flag(info.user, 128) = 128 * u /\ Flag(info.password, 64) = 64 * p
    BY <1>2, <1>3 DEF Flag
  <2>2. Flag(info.willTopic, 4 + 8 * q + 32 * r) = 4 * x BY <1>4, <1>5 DEF Flag
  <2> QED BY <1>1, <1>7, <2>1, <2>2 DEF Flags
<1>9. f \div 2 = c + 64 * u + 32 * p + 2 * x BY <1>6, <1>7
<1>10. f \div 4 = 32 * u + 16 * p + x BY <1>6, <1>7
<1>11. f \div 64 = 2 * u + p BY <1>6, <1>7
<1>12. f \div 128 = u BY <1>6, <1>7
<1>13. f \div 8 = 16 * u + 8 * p + (x \div 2) /\ f \div 32 = 4 * u + 2 * p + (x \div 8)
  BY <1>6, <1>7
<1>14. (f \div 2) % 2 = c BY <1>6, <1>9
<1>15. (f \div 4) % 2 = w BY <1>6, <1>10
<1>16. (f \div 64) % 2 = p BY <1>11
<1>17. (f \div 128) % 2 = u BY <1>12
<1>18. w = 1 => (f \div 8) % 4 = q /\ (f \div 32) % 2 = r BY <1>6, <1>13
<1>19. /\ Bit(f, 2) <=> c = 1
       /\ Bit(f, 4) <=> w = 1
       /\ Bit(f, 64) <=> p = 1
       /\ Bit(f, 128) <=> u = 1
       /\ Bit(f, 32) <=> (f \div 32) % 2 = 1
  BY <1>14, <1>15, <1>16, <1>17 DEF Bit
<1> QED BY <1>1, <1>2, <1>3, <1>4, <1>7, <1>8, <1>18, <1>19

\* t is u and v, one after the other, where u takes l places.
IsBoth(t, u, v, l) == t \in Seq(Nat) /\ Len(t) = l + Len(v) /\ At(t, 0, u) /\ At(t, l, v)

\* That is what joining them gives.
LEMMA BothIs ==
  ASSUME NEW u \in Seq(Nat), NEW v \in Seq(Nat), NEW l, l = Len(u)
  PROVE  IsBoth(u \o v, u, v, l)
  BY AtBoth DEF IsBoth

\* The parts of the body of a CONNECT.
IsConnect(b, m, f, k, c, w, u, p) ==
  /\ b \in Seq(Nat) /\ Len(b) = 12 + Len(c) + Len(w) + Len(u) + Len(p)
  /\ At(b, 0, m) /\ At(b, 8, f) /\ At(b, 10, k) /\ At(b, 12, c)
  /\ At(b, 12 + Len(c), w) /\ At(b, 12 + Len(c) + Len(w), u)
  /\ At(b, 12 + Len(c) + Len(w) + Len(u), p)

\* They follow each other.
LEMMA ConnectIs ==
  ASSUME NEW m \in Seq(Nat), Len(m) = 8, NEW f \in Seq(Nat), Len(f) = 2,
         NEW k \in Seq(Nat), Len(k) = 2, NEW c \in Seq(Nat), NEW w \in Seq(Nat),
         NEW u \in Seq(Nat), NEW p \in Seq(Nat)
  PROVE  IsConnect(m \o f \o k \o c \o w \o u \o p, m, f, k, c, w, u, p)
<1>1. PICK lc \in Nat : lc = Len(c) OBVIOUS
<1>2. PICK lw \in Nat : lw = Len(w) OBVIOUS
<1>3. PICK lu \in Nat : lu = Len(u) OBVIOUS
<1>4. PICK lp \in Nat : lp = Len(p) OBVIOUS
<1>5. PICK x0 : x0 = m \o f OBVIOUS
<1>6. x0 \in Seq(Nat) /\ Len(x0) = 10 /\ At(x0, 0, m) /\ At(x0, 8, f)
  <2>1. IsBoth(x0, m, f, 8) BY <1>5, BothIs
  <2> QED BY <2>1 DEF IsBoth
<1>7. PICK x1 : x1 = x0 \o k OBVIOUS
<1>8. x1 \in Seq(Nat) /\ Len(x1) = 12 /\ At(x1, 0, x0) /\ At(x1, 10, k)
  <2>1. IsBoth(x1, x0, k, 10) BY <1>6, <1>7, BothIs
  <2> QED BY <2>1 DEF IsBoth
<1>9. PICK x2 : x2 = x1 \o c OBVIOUS
<1>10. x2 \in Seq(Nat) /\ Len(x2) = 12 + lc /\ At(x2, 0, x1) /\ At(x2, 12, c)
  <2>1. IsBoth(x2, x1, c, 12) BY <1>8, <1>9, BothIs
  <2> QED BY <1>1, <2>1 DEF IsBoth
<1>11. PICK x3 : x3 = x2 \o w OBVIOUS
<1>12. x3 \in Seq(Nat) /\ Len(x3) = 12 + lc + lw /\ At(x3, 0, x2) /\ At(x3, 12 + lc, w)
  <2>1. IsBoth(x3, x2, w, 12 + lc) BY <1>10, <1>11, BothIs
  <2> QED BY <1>2, <2>1 DEF IsBoth
<1>13. PICK x4 : x4 = x3 \o u OBVIOUS
<1>14. /\ x4 \in Seq(Nat) /\ Len(x4) = 12 + lc + lw + lu
       /\ At(x4, 0, x3) /\ At(x4, 12 + lc + lw, u)
  <2>1. IsBoth(x4, x3, u, 12 + lc + lw) BY <1>12, <1>13, BothIs
  <2> QED BY <1>3, <2>1 DEF IsBoth
<1>15. PICK b : b = x4 \o p OBVIOUS
<1>16. /\ b \in Seq(Nat) /\ Len(b) = 12 + lc + lw + lu + lp
       /\ At(b, 0, x4) /\ At(b, 12 + lc + lw + lu, p)
  <2>1. IsBoth(b, x4, p, 12 + lc + lw + lu) BY <1>14, <1>15, BothIs
  <2> QED BY <1>4, <2>1 DEF IsBoth
<1>17. \A a \in Nat : 0 + a = a OBVIOUS
<1>18. ASSUME NEW x \in Seq(Nat), At(b, 0, x), NEW a \in Nat, NEW s \in Seq(Nat), At(x, a, s)
       PROVE  At(b, a, s)
  <2>1. At(b, 0 + a, s) BY <1>16, <1>18, AtWithin
  <2> QED BY <2>1
<1>19. At(b, 0, x3) BY <1>12, <1>14, <1>16, <1>18
<1>20. At(b, 0, x2) BY <1>10, <1>12, <1>18, <1>19
<1>21. At(b, 0, x1) BY <1>8, <1>10, <1>18, <1>20
<1>22. At(b, 0, x0) BY <1>6, <1>8, <1>18, <1>21
<1>23. At(b, 0, m) /\ At(b, 8, f) BY <1>6, <1>18, <1>22
<1>24. At(b, 10, k) /\ At(b, 12, c) BY <1>8, <1>10, <1>18, <1>20, <1>21
<1>25. At(b, 12 + lc, w) /\ At(b, 12 + lc + lw, u)
  <2>1. 12 + lc \in Nat /\ 12 + lc + lw \in Nat OBVIOUS
  <2> QED BY <1>12, <1>14, <1>16, <1>18, <1>19, <2>1
<1>26. IsConnect(b, m, f, k, c, w, u, p)
  BY <1>1, <1>2, <1>3, <1>4, <1>16, <1>23, <1>24, <1>25 DEF IsConnect
<1> QED BY <1>5, <1>7, <1>9, <1>11, <1>13, <1>15, <1>26

\* A string that may be missing.
LEMMA OptionalIs ==
  ASSUME NEW s \in Seq(Nat), NEW t \in Seq(Nat)
  PROVE  Optional(s, t) \in Seq(Nat) /\ (s = << >> => Len(Optional(s, t)) = 0)
<1>1. << >> \in Seq(Nat) /\ Len(<< >>) = 0 OBVIOUS
<1> QED BY <1>1 DEF Optional

\* The strings of a CONNECT are sequences of numbers.
LEMMA InfoIs ==
  ASSUME NEW info \in Infos
  PROVE  /\ info.client \in Seq(Nat) /\ info.willTopic \in Seq(Nat)
         /\ info.willMessage \in Seq(Nat) /\ info.user \in Seq(Nat)
         /\ info.password \in Seq(Nat) /\ info.keepalive \in Nat
<1>1. /\ info.client \in Seq(Byte) /\ info.willTopic \in Seq(Byte)
      /\ info.willMessage \in Seq(Byte) /\ info.user \in Seq(Byte)
      /\ info.password \in Seq(Byte) /\ info.keepalive \in 0..Max16
  BY RequestAssumption
<1> QED BY <1>1, BytesAre, SomeIds

\* What the body of a CONNECT consists of.
WillOf(info) == Optional(info.willTopic, String(info.willTopic) \o String(info.willMessage))
UserOf(info) == Optional(info.user, String(info.user))
PasswordOf(info) == Optional(info.password, String(info.password))
IsBodyOf(body, info) ==
  IsConnect(body, String(MQIsdp), <<3, Flags(info)>>, Bytes2(info.keepalive),
            String(info.client), WillOf(info), UserOf(info), PasswordOf(info))

\* They are sequences of numbers.
LEMMA PartsOfInfo ==
  ASSUME NEW info \in Infos
  PROVE  /\ String(MQIsdp) \in Seq(Nat) /\ Len(String(MQIsdp)) = 8 /\ MQIsdp \in Seq(Nat)
         /\ <<3, Flags(info)>> \in Seq(Nat) /\ Len(<<3, Flags(info)>>) = 2
         /\ Bytes2(info.keepalive) \in Seq(Nat) /\ Len(Bytes2(info.keepalive)) = 2
         /\ String(info.client) \in Seq(Nat) /\ WillOf(info) \in Seq(Nat)
         /\ UserOf(info) \in Seq(Nat) /\ PasswordOf(info) \in Seq(Nat)
<1>1. MQIsdp \in Seq(Nat) /\ Len(MQIsdp) = 6 BY DEF MQIsdp
<1>2. String(MQIsdp) \in Seq(Nat) /\ Len(String(MQIsdp)) = 8
  <2>1. PICK m \in Seq(Nat) : m = MQIsdp /\ Len(m) = 6 BY <1>1
  <2>2. String(m) \in Seq(Nat) /\ Len(String(m)) = Len(m) + 2 BY StringIs
  <2> QED BY <2>1, <2>2
<1>3. PICK f \in Nat : f = Flags(info) BY FlagsAre
<1>4. <<3, f>> \in Seq(Nat) /\ Len(<<3, f>>) = 2 OBVIOUS
<1>5. Bytes2(info.keepalive) \in Seq(Nat) /\ Len(Bytes2(info.keepalive)) = 2
  BY InfoIs, TwoBytes
<1>6. String(info.client) \in Seq(Nat) BY InfoIs, StringIs
<1>7. WillOf(info) \in Seq(Nat)
  <2>1. String(info.willTopic) \in Seq(Nat) /\ String(info.willMessage) \in Seq(Nat)
    BY InfoIs, StringIs
  <2>2. String(info.willTopic) \o String(info.willMessage) \in Seq(Nat) BY <2>1, AtBoth
  <2> QED BY <2>2, InfoIs, OptionalIs DEF WillOf
<1>8. UserOf(info) \in Seq(Nat) /\ PasswordOf(info) \in Seq(Nat)
  <2>1. String(info.user) \in Seq(Nat) /\ String(info.password) \in Seq(Nat)
    BY InfoIs, StringIs
  <2> QED BY <2>1, InfoIs, OptionalIs DEF UserOf, PasswordOf
<1> QED BY <1>1, <1>2, <1>3, <1>4, <1>5, <1>6, <1>7, <1>8

\* The bytes of a part of two.
LEMMA TwoAt ==
  ASSUME NEW b \in Seq(Nat), NEW a \in Nat, NEW s \in Seq(Nat), Len(s) = 2, At(b, a, s)
  PROVE  b[a + 1] = s[1] /\ b[a + 2] = s[2]
<1>1. \A i \in 1..2 : b[a + i] = s[i] BY DEF At
<1> QED BY <1>1

\* The broker reads a CONNECT as it was meant.
LEMMA ConnectReads ==
  ASSUME NEW info \in Infos, NEW body \in Seq(Nat), IsBodyOf(body, info), Fits(body)
  PROVE  ReadsAs(Framed(16, body), info)
<1>1. PICK n \in Nat : n = Len(body) OBVIOUS
<1>2. PICK e \in {2, 3} : e = HeaderLen(n) BY DEF HeaderLen
<1>3. n < 128 * 128
  <2>1. MaxHeader + n <= BufSize BY <1>1 DEF Fits
  <2> QED BY <2>1, BufAssumption DEF MaxHeader
<1>4. PICK b : b = Framed(16, body) OBVIOUS
<1>5. /\ b \in Seq(Nat) /\ Len(b) = e + n /\ b[1] = 16
      /\ \A i \in 1..n : b[e + i] = body[i]
      /\ IF n < 128 THEN b[2] = n ELSE b[2] = 128 + (n % 128)
  <2>1. IsFramed(b, 16, body) BY <1>4, FramedIs
  <2> QED BY <1>1, <1>2, <2>1 DEF IsFramed
<1>6. TotalLength(b, Len(b)) = Len(b)
  <2>1. Begins(b, Framed(16, body)) BY <1>4 DEF Begins
  <2>2. Len(b) \in Nat /\ HeaderLen(Len(body)) <= Len(b) BY <1>1, <1>2, <1>5
  <2> QED BY <1>1, <1>3, <1>4, <2>1, <2>2, TotalLengthIs
<1>7. At(b, e, body) BY <1>1, <1>5 DEF At
<1> DEFINE start    == IF b[2] < 128 THEN 3 ELSE 4
           flags    == b[start + 9]
           will     == Behind(b, start + 12)
           message  == Behind(b, will)
           user     == IF Bit(flags, 4) THEN Behind(b, message) ELSE will
           password == IF Bit(flags, 128) THEN Behind(b, user) ELSE user
           end      == IF Bit(flags, 64) THEN Behind(b, password) ELSE password
<1>8. start = e + 1
  <2>1. b[2] < 128 <=> n < 128
    <3>1. n % 128 \in Nat OBVIOUS
    <3>2. IF n < 128 THEN b[2] = n ELSE b[2] = 128 + (n % 128) BY <1>5
    <3> QED BY <3>1, <3>2
  <2> QED BY <1>2, <2>1 DEF HeaderLen
<1> DEFINE c == String(info.client)
           w == WillOf(info)
           u == UserOf(info)
           p == PasswordOf(info)
           sm == String(MQIsdp)
           sf == <<3, Flags(info)>>
           sk == Bytes2(info.keepalive)
<1>9. /\ sm \in Seq(Nat) /\ sf \in Seq(Nat) /\ Len(sf) = 2 /\ sk \in Seq(Nat) /\ Len(sk) = 2
      /\ c \in Seq(Nat) /\ w \in Seq(Nat) /\ u \in Seq(Nat) /\ p \in Seq(Nat)
  BY PartsOfInfo
<1>10. sf[1] = 3 /\ sf[2] = Flags(info) OBVIOUS
<1>11. Number(sk[1], sk[2]) = info.keepalive BY InfoIs, TwoBytes
<1>12. IsConnect(body, sm, sf, sk, c, w, u, p) BY DEF IsBodyOf
<1>13. /\ c = String(info.client) /\ sm = String(MQIsdp)
       /\ w = Optional(info.willTopic, String(info.willTopic) \o String(info.willMessage))
       /\ u = Optional(info.user, String(info.user))
       /\ p = Optional(info.password, String(info.password))
  BY DEF WillOf, UserOf, PasswordOf
<1> HIDE DEF c, w, u, p, sm, sf, sk
<1>14. PICK lc \in Nat : lc = Len(c) BY <1>9
<1>15. PICK lw \in Nat : lw = Len(w) BY <1>9
<1>16. PICK lu \in Nat : lu = Len(u) BY <1>9
<1>17. PICK lp \in Nat : lp = Len(p) BY <1>9
<1>18. /\ n = 12 + lc + lw + lu + lp
       /\ At(body, 0, sm) /\ At(body, 8, sf) /\ At(body, 10, sk) /\ At(body, 12, c)
       /\ At(body, 12 + lc, w) /\ At(body, 12 + lc + lw, u) /\ At(body, 12 + lc + lw + lu, p)
  BY <1>1, <1>12, <1>14, <1>15, <1>16, <1>17 DEF IsConnect
<1>19. ASSUME NEW a \in Nat, NEW s \in Seq(Nat), At(body, a, s)
       PROVE  At(b, e + a, s)
  BY <1>2, <1>5, <1>7, <1>19, AtWithin
<1> DEFINE Reads(a, x, l) == StringAt(b, a + 1) = x /\ Behind(b, a + 1) = a + l + 1
<1>191. ASSUME NEW a \in Nat, NEW x \in Seq(Nat), NEW s, s = String(x), NEW l, l = Len(s),
               At(b, a, s)
        PROVE  Reads(a, x, l)
  BY <1>5, <1>191, StringRead
<1> HIDE DEF Reads
<1>20. StringAt(b, start) = MQIsdp
  <2>1. At(b, e + 0, sm) BY <1>9, <1>18, <1>19
  <2>2. e + 0 = e /\ e \in Nat BY <1>2
  <2>3. StringAt(b, e + 1) = MQIsdp BY <1>5, <1>13, <2>1, <2>2, PartsOfInfo, StringRead
  <2> HIDE DEF start
  <2> QED BY <1>8, <2>3
<1>21. b[start + 8] = 3 /\ flags = Flags(info)
  <2>1. At(b, e + 8, sf) BY <1>9, <1>18, <1>19
  <2>2. b[(e + 8) + 1] = 3 /\ b[(e + 8) + 2] = Flags(info)
    <3>1. PICK x \in Nat : x = e + 8 BY <1>2
    <3>2. b \in Seq(Nat) /\ At(b, x, sf) /\ sf \in Seq(Nat) /\ Len(sf) = 2
      BY <1>5, <1>9, <2>1, <3>1
    <3>3. b[x + 1] = sf[1] /\ b[x + 2] = sf[2] BY <3>1, <3>2, TwoAt
    <3> QED BY <1>10, <3>1, <3>3
  <2> HIDE DEF start
  <2>3. start + 8 = (e + 8) + 1 /\ start + 9 = (e + 8) + 2 BY <1>2, <1>8
  <2> QED BY <2>2, <2>3
<1>22. Number(b[start + 10], b[start + 11]) = info.keepalive
  <2>1. At(b, e + 10, sk) BY <1>9, <1>18, <1>19
  <2>2. b[(e + 10) + 1] = sk[1] /\ b[(e + 10) + 2] = sk[2]
    <3>1. e + 10 \in Nat BY <1>2
    <3> QED BY <1>5, <1>9, <2>1, <3>1, TwoAt
  <2> HIDE DEF start
  <2>3. start + 10 = (e + 10) + 1 /\ start + 11 = (e + 10) + 2 BY <1>2, <1>8
  <2> QED BY <1>11, <2>2, <2>3
<1>23. StringAt(b, start + 12) = info.client /\ will = (e + (12 + lc)) + 1
  <2>1. At(b, e + 12, c) BY <1>9, <1>18, <1>19
  <2>2. e + 12 \in Nat BY <1>2
  <2>3. /\ StringAt(b, (e + 12) + 1) = info.client
        /\ Behind(b, (e + 12) + 1) = (e + 12) + lc + 1
    BY <1>5, <1>13, <1>14, <2>1, <2>2, InfoIs, StringRead
  <2> HIDE DEF start
  <2>4. start + 12 = (e + 12) + 1 /\ (e + 12) + lc + 1 = (e + (12 + lc)) + 1 BY <1>2, <1>8
  <2> QED BY <2>3, <2>4
<1>24. /\ Bit(flags, 4) <=> info.willTopic # << >>
       /\ Bit(flags, 128) <=> info.user # << >>
       /\ Bit(flags, 64) <=> info.password # << >>
       /\ Bit(flags, 2) <=> info.clean = 1
       /\ Bit(flags, 4) => /\ (flags \div 8) % 4 = info.willQos
                           /\ Bit(flags, 32) <=> info.willRetain = 1
  <2> HIDE DEF flags
  <2> QED BY <1>21, FlagsAre
<1> HIDE DEF start, flags, will
<1>25. /\ Bit(flags, 4) => /\ StringAt(b, will) = info.willTopic
                           /\ StringAt(b, message) = info.willMessage
       /\ user = (e + (12 + lc + lw)) + 1
  <2>1. CASE ~ Bit(flags, 4)
    <3>1. lw = 0 BY <1>9, <1>13, <1>15, <1>24, <2>1 DEF Optional
    <3> QED BY <1>2, <1>23, <2>1, <3>1
  <2>2. CASE Bit(flags, 4)
    <3>1. PICK s \in Seq(Nat) : s = String(info.willTopic) BY InfoIs, StringIs
    <3>2. PICK t \in Seq(Nat) : t = String(info.willMessage) BY InfoIs, StringIs
    <3>3. PICK ls \in Nat : ls = Len(s) OBVIOUS
    <3>4. w = s \o t BY <1>13, <1>24, <2>2, <3>1, <3>2 DEF Optional
    <3>5. lw = ls + Len(t) /\ At(w, 0, s) /\ At(w, ls, t) BY <1>15, <3>3, <3>4, AtBoth
    <3>6. At(b, e + (12 + lc), w)
      <4>1. 12 + lc \in Nat OBVIOUS
      <4> QED BY <1>9, <1>18, <1>19, <4>1
    <3>7. e + (12 + lc) \in Nat BY <1>2
    <3>8. At(b, (e + (12 + lc)) + 0, s) /\ At(b, (e + (12 + lc)) + ls, t)
      BY <1>5, <1>9, <3>5, <3>6, <3>7, AtWithin
    <3>9. (e + (12 + lc)) + 0 = e + (12 + lc) /\ (e + (12 + lc)) + ls \in Nat BY <3>7
    <3>10. /\ StringAt(b, (e + (12 + lc)) + 1) = info.willTopic
           /\ Behind(b, (e + (12 + lc)) + 1) = (e + (12 + lc)) + ls + 1
      <4>1. PICK x \in Nat : x = e + (12 + lc) BY <3>7
      <4>2. At(b, x, s) BY <3>8, <3>9, <4>1
      <4>3. Reads(x, info.willTopic, ls) BY <1>191, <3>1, <3>3, <4>2, InfoIs
      <4> QED BY <4>1, <4>3 DEF Reads
    <3>11. /\ StringAt(b, ((e + (12 + lc)) + ls) + 1) = info.willMessage
           /\ Behind(b, ((e + (12 + lc)) + ls) + 1) = ((e + (12 + lc)) + ls) + Len(t) + 1
      <4>1. PICK x \in Nat : x = (e + (12 + lc)) + ls BY <3>9
      <4>2. At(b, x, t) BY <3>8, <4>1
      <4>3. Reads(x, info.willMessage, Len(t)) BY <1>191, <3>2, <4>2, InfoIs
      <4> QED BY <4>1, <4>3 DEF Reads
    <3>12. message = ((e + (12 + lc)) + ls) + 1 BY <1>23, <3>10
    <3>13. ((e + (12 + lc)) + ls) + Len(t) + 1 = (e + (12 + lc + lw)) + 1 BY <1>2, <3>5
    <3> QED BY <1>23, <2>2, <3>10, <3>11, <3>12, <3>13
  <2> QED BY <2>1, <2>2
<1> HIDE DEF message, user
<1>26. /\ Bit(flags, 128) => StringAt(b, user) = info.user
       /\ password = (e + (12 + lc + lw + lu)) + 1
  <2>1. CASE ~ Bit(flags, 128)
    <3>1. lu = 0 BY <1>9, <1>13, <1>16, <1>24, <2>1 DEF Optional
    <3> QED BY <1>2, <1>25, <2>1, <3>1
  <2>2. CASE Bit(flags, 128)
    <3>1. u = String(info.user) BY <1>13, <1>24, <2>2 DEF Optional
    <3>2. At(b, e + (12 + lc + lw), u)
      <4>1. 12 + lc + lw \in Nat OBVIOUS
      <4> QED BY <1>9, <1>18, <1>19, <4>1
    <3>3. e + (12 + lc + lw) \in Nat BY <1>2
    <3>4. /\ StringAt(b, (e + (12 + lc + lw)) + 1) = info.user
          /\ Behind(b, (e + (12 + lc + lw)) + 1) = (e + (12 + lc + lw)) + lu + 1
      <4>1. PICK x \in Nat : x = e + (12 + lc + lw) BY <3>3
      <4>2. At(b, x, u) BY <3>2, <4>1
      <4>3. Reads(x, info.user, lu) BY <1>16, <1>191, <3>1, <4>2, InfoIs
      <4> QED BY <4>1, <4>3 DEF Reads
    <3>5. (e + (12 + lc + lw)) + lu + 1 = (e + (12 + lc + lw + lu)) + 1 BY <1>2
    <3> QED BY <1>25, <2>2, <3>4, <3>5
  <2> QED BY <2>1, <2>2
<1> HIDE DEF password
<1>27. /\ Bit(flags, 64) => StringAt(b, password) = info.password
       /\ end = Len(b) + 1
  <2>0. Len(b) = e + (12 + lc + lw + lu + lp) BY <1>5, <1>18
  <2>1. CASE ~ Bit(flags, 64)
    <3>1. lp = 0 BY <1>9, <1>13, <1>17, <1>24, <2>1 DEF Optional
    <3> QED BY <1>2, <1>26, <2>0, <2>1, <3>1
  <2>2. CASE Bit(flags, 64)
    <3>1. p = String(info.password) BY <1>13, <1>24, <2>2 DEF Optional
    <3>2. At(b, e + (12 + lc + lw + lu), p)
      <4>1. 12 + lc + lw + lu \in Nat OBVIOUS
      <4> QED BY <1>9, <1>18, <1>19, <4>1
    <3>3. e + (12 + lc + lw + lu) \in Nat BY <1>2
    <3>4. /\ StringAt(b, (e + (12 + lc + lw + lu)) + 1) = info.password
          /\ Behind(b, (e + (12 + lc + lw + lu)) + 1) = (e + (12 + lc + lw + lu)) + lp + 1
      <4>1. PICK x \in Nat : x = e + (12 + lc + lw + lu) BY <3>3
      <4>2. At(b, x, p) BY <3>2, <4>1
      <4>3. Reads(x, info.password, lp) BY <1>17, <1>191, <3>1, <4>2, InfoIs
      <4> QED BY <4>1, <4>3 DEF Reads
    <3>5. (e + (12 + lc + lw + lu)) + lp + 1 = (e + (12 + lc + lw + lu + lp)) + 1 BY <1>2
    <3> QED BY <1>26, <2>0, <2>2, <3>4, <3>5
  <2> QED BY <2>1, <2>2
<1> HIDE DEF end
<1>28. ReadsAs(b, info)
  BY <1>5, <1>6, <1>20, <1>21, <1>22, <1>23, <1>24, <1>25, <1>26, <1>27
     DEF ReadsAs, start, flags, will, message, user, password, end
<1> QED BY <1>4, <1>28

\* So does the CONNECT of mqtt_tcpclient_connect_cb.
LEMMA ConnectStep == SessionInv /\ Connect => SessionInv'
<1> SUFFICES ASSUME SessionInv, Connect PROVE SessionInv' OBVIOUS
<1>1. PICK info \in Infos :
        /\ Ask([kind |-> "connect", info |-> info], <<ConnectMessage(info)>>)
        /\ messageId' = messageId
  BY DEF Connect
<1>2. PICK m : m = ConnectMessage(info) OBVIOUS
<1>3. /\ pc' = "idle" /\ packets' = << >> /\ out' = <<m>>
      /\ request' = [kind |-> "connect", info |-> info] /\ messageId' = messageId
  BY <1>1, <1>2 DEF Ask
<1>4. messageId' \in 0..Max16 BY <1>3 DEF SessionInv
<1>5. DeliveredInOrder' /\ AnswersMatch' BY <1>3 DEF DeliveredInOrder, AnswersMatch
<1>6. CASE m = Failed
  <2>1. SentAsAsked' BY <1>3, <1>6 DEF SentAsAsked
  <2> QED BY <1>3, <1>4, <1>5, <2>1 DEF SessionInv
<1>7. CASE m # Failed
  <2> DEFINE body == String(MQIsdp) \o <<3, Flags(info)>> \o Bytes2(info.keepalive)
                     \o String(info.client) \o WillOf(info) \o UserOf(info) \o PasswordOf(info)
  <2>1. m = IF info.client = << >> THEN Failed ELSE Message(CONNECT, 0, body)
    BY <1>2 DEF ConnectMessage, Flags, WillOf, UserOf, PasswordOf
  <2>2. IsBodyOf(body, info) BY PartsOfInfo, ConnectIs DEF IsBodyOf
  <2> HIDE DEF body
  <2>3. Fits(body) /\ m = Finish(CONNECT, 0, body) BY <1>7, <2>1 DEF Message
  <2>4. body \in Seq(Nat) BY <2>2 DEF IsBodyOf, IsConnect
  <2>5. m = Framed(16, body)
    <3>1. 1 \in Nat /\ 0 \in Nat /\ 16 * 1 + 2 * 0 = 16 OBVIOUS
    <3>2. Finish(1, 0, body) = Framed(16 * 1 + 2 * 0, body) BY <2>4, <3>1, FinishIs
    <3> QED BY <2>3, <3>1, <3>2 DEF CONNECT
  <2>6. ReadsAs(m, info) BY <2>2, <2>3, <2>4, <2>5, ConnectReads
  <2>7. ReadsAs(out'[1], request'.info) BY <1>3, <2>6
  <2>8. SentAsAsked' BY <1>3, <2>7 DEF SentAsAsked
  <2> QED BY <1>3, <1>4, <1>5, <2>8 DEF SessionInv
<1> QED BY <1>6, <1>7

-----------------------------------------------------------------------------
(* The theorems. *)

\* Every step keeps the inductive invariant.
LEMMA SessionInvStep == SessionInv /\ [Next]_vars => SessionInv'
<1> SUFFICES ASSUME SessionInv, [Next]_vars PROVE SessionInv' OBVIOUS
<1>1. CASE RecvWhole BY <1>1, RecvWholeStep
<1>2. CASE RecvPart BY <1>2, RecvPartStep
<1>3. CASE ReadPacket BY <1>3, ReadPacketStep
<1>4. CASE ReadNothing BY <1>4, ReadNothingStep
<1>5. CASE Publish BY <1>5, PublishStep
<1>6. CASE Subscribe BY <1>6, SubscribeStep
<1>7. CASE Connect BY <1>7, ConnectStep
<1>8. CASE UNCHANGED vars BY <1>8, StutterStep
<1> QED BY <1>1, <1>2, <1>3, <1>4, <1>5, <1>6, <1>7, <1>8 DEF Next

\* The inductive invariant holds, after any segments and requests.
THEOREM SessionInvariant == Spec => []SessionInv
<1>1. Init => SessionInv BY SessionInvInit
<1>2. SessionInv /\ [Next]_vars => SessionInv' BY SessionInvStep
<1> QED BY <1>1, <1>2, PTL DEF Spec

\* Every PUBLISH that is looked at is delivered, in order, with its own topic and data
\* (mqtt_tcpclient_recv, deliver_publish): for segments of any number of packets.
THEOREM SessionDelivers == Spec => []DeliveredInOrder
<1>1. SessionInv => DeliveredInOrder BY DEF SessionInv
<1> QED BY <1>1, SessionInvariant, PTL

\* Every packet that is looked at is answered as the standard says, with its own identifier
\* (mqtt_tcpclient_recv), although mqtt_get_id reads to the end of in_buffer.
THEOREM SessionAnswers == Spec => []AnswersMatch
<1>1. SessionInv => AnswersMatch BY DEF SessionInv
<1> QED BY <1>1, SessionInvariant, PTL

\* What MQTT_Publish, MQTT_Subscribe and the CONNECT put into the queue reads as what was
\* asked for, for any strings, or nothing is sent (mqtt_msg_publish, mqtt_msg_subscribe,
\* mqtt_msg_connect).
THEOREM SessionSends == Spec => []SentAsAsked
<1>1. SessionInv => SentAsAsked BY DEF SessionInv
<1> QED BY <1>1, SessionInvariant, PTL

=============================================================================
