------------------------ MODULE SmtpDialogueProofs ------------------------
(* What a client that awaits each reply and the server know of one another,*)
(* proved about SmtpConversation for every address, command and line set   *)
(* and every bound: at most one reply is under way, and the message handed *)
(* over is the one the client composed, or that without its last line where*)
(* the client shut down in the middle of it.                               *)
(* The argument is one inductive invariant, Dialogue. Its heart is Carries:*)
(* the fragments between the two ends, in the buffer or reader of the      *)
(* server and on the wire behind it, are the first fragments of the lines  *)
(* the client has sent and the server has not taken. Between two commands  *)
(* that is the one command sent; inside AUTH one token; inside DATA the    *)
(* lines typed and not yet read, with their dots stuffed, and the final dot*)
(* (Awaited). Whatever the receive cuts off the stream, the line taken is  *)
(* then the next line sent.                                                *)
EXTENDS SmtpConversationProofs

-----------------------------------------------------------------------------
(* Streams of fragments and the lines they carry                           *)

(* The fragments s are the first of those that the lines L cross the socket*)
(* as: two for each line, in order, the last lines perhaps not yet sent or *)
(* received.                                                               *)
Carries(s, L) ==
  /\ Len(s) <= 2 * Len(L)
  /\ \A i \in DOMAIN L :
       /\ 2 * i - 1 <= Len(s) => s[2 * i - 1] = [line |-> L[i], end |-> FALSE]
       /\ 2 * i <= Len(s) => s[2 * i] = [line |-> L[i], end |-> TRUE]

(* One sequence after another.                                             *)
LEMMA Concat ==
  ASSUME NEW s \in Seq(Fragment), NEW w \in Seq(Fragment)
  PROVE  /\ s \o w \in Seq(Fragment) /\ Len(s \o w) = Len(s) + Len(w)
         /\ \A i \in 1..Len(s) + Len(w) :
              (s \o w)[i] = IF i <= Len(s) THEN s[i] ELSE w[i - Len(s)]
  BY ConcatProperties

(* What has arrived of a stream carries the beginning of the same lines.   *)
LEMMA ArrivedCarries ==
  ASSUME NEW s \in Seq(Fragment), NEW w \in Seq(Fragment), NEW L \in Seq(Line),
         Carries(s \o w, L)
  PROVE  Carries(s, L)
  <1>1. Len(s \o w) = Len(s) + Len(w) /\ Len(s) \in Nat /\ Len(w) \in Nat /\ Len(L) \in Nat
    OBVIOUS
  <1>2. \A i \in 1..Len(s) : (s \o w)[i] = s[i]
    OBVIOUS
  <1>3. Len(s) <= 2 * Len(L)
    BY <1>1 DEF Carries
  <1>4. ASSUME NEW i \in DOMAIN L
        PROVE  /\ 2 * i - 1 <= Len(s) => s[2 * i - 1] = [line |-> L[i], end |-> FALSE]
               /\ 2 * i <= Len(s) => s[2 * i] = [line |-> L[i], end |-> TRUE]
    <2> DEFINE n == Len(s \o w)
    <2>1. i \in 1..Len(L)
      OBVIOUS
    <2>2. n \in Nat /\ Len(s) <= n
      BY <1>1
    <2>3. /\ 2 * i - 1 <= Len(s) => 2 * i - 1 \in 1..Len(s) /\ 2 * i - 1 <= n
          /\ 2 * i <= Len(s) => 2 * i \in 1..Len(s) /\ 2 * i <= n
      <3> HIDE DEF n
      <3>1. i \in Nat /\ i >= 1
        BY <1>1, <2>1
      <3>2. QED BY <1>1, <2>2, <3>1
    <2>4. /\ 2 * i - 1 <= Len(s) => 2 * i - 1 \in 1..Len(s) /\ 2 * i - 1 <= Len(s \o w)
          /\ 2 * i <= Len(s) => 2 * i \in 1..Len(s) /\ 2 * i <= Len(s \o w)
      BY <2>3
    <2>5. /\ 2 * i - 1 <= Len(s \o w) => (s \o w)[2 * i - 1] = [line |-> L[i], end |-> FALSE]
          /\ 2 * i <= Len(s \o w) => (s \o w)[2 * i] = [line |-> L[i], end |-> TRUE]
      BY DEF Carries
    <2>6. QED BY <1>2, <2>4, <2>5
  <1>5. QED BY <1>3, <1>4 DEF Carries

(* Of any lines, nothing may have arrived.                                 *)
LEMMA NothingCarries ==
  ASSUME NEW L \in Seq(Line)
  PROVE  Carries(<<>>, L)
  BY DEF Carries

(* Where no line is under way, no fragment is.                             *)
LEMMA CarriesNothing ==
  ASSUME NEW s \in Seq(Fragment), Carries(s, <<>>)
  PROVE  s = <<>>
  <1>1. Len(s) = 0
    BY DEF Carries
  <1>2. QED BY <1>1

(* The fragments of one more line follow those of all lines before it.     *)
LEMMA CarriesMore ==
  ASSUME NEW s \in Seq(Fragment), NEW L \in Seq(Line), NEW l \in Line,
         Carries(s, L), Len(s) = 2 * Len(L)
  PROVE  /\ Carries(s \o Fragments(l), Append(L, l))
         /\ Len(s \o Fragments(l)) = 2 * Len(Append(L, l))
  <1> DEFINE f == Fragments(l)
             t == s \o f
             M == Append(L, l)
  <1>1. /\ Len(L) \in Nat /\ Len(M) = Len(L) + 1 /\ DOMAIN M = 1..Len(M)
        /\ \A i \in 1..Len(L) : M[i] = L[i]
        /\ M[Len(L) + 1] = l
    OBVIOUS
  <1>2. /\ f \in Seq(Fragment) /\ Len(f) = 2
        /\ f[1] = [line |-> l, end |-> FALSE] /\ f[2] = [line |-> l, end |-> TRUE]
    BY FragmentsType DEF Fragments
  <1> HIDE DEF f, M
  <1>6. /\ Len(s) \in Nat /\ Len(t) = Len(s) + Len(f)
        /\ \A i \in 1..Len(s) + Len(f) : t[i] = IF i <= Len(s) THEN s[i] ELSE f[i - Len(s)]
    <2>1. f \in Seq(Fragment) /\ s \in Seq(Fragment)
      BY <1>2
    <2>2. /\ Len(t) = Len(s) + Len(f)
          /\ \A i \in 1..Len(s) + Len(f) : t[i] = IF i <= Len(s) THEN s[i] ELSE f[i - Len(s)]
      BY <2>1, ConcatProperties, Zenon
    <2>3. QED BY <2>2
  <1> HIDE DEF t
  <1>3. Len(t) = 2 * Len(M)
    BY <1>1, <1>2, <1>6
  <1>4. ASSUME NEW i \in 1..Len(M)
        PROVE  /\ t[2 * i - 1] = [line |-> M[i], end |-> FALSE]
               /\ t[2 * i] = [line |-> M[i], end |-> TRUE]
    <2>1. CASE i <= Len(L)
      <3>1. /\ i \in DOMAIN L /\ i \in 1..Len(L)
            /\ 2 * i - 1 <= Len(s) /\ 2 * i <= Len(s)
            /\ 2 * i - 1 \in 1..Len(s) + Len(f) /\ 2 * i \in 1..Len(s) + Len(f)
        BY <1>1, <1>2, <1>6, <2>1
      <3>2. M[i] = L[i] /\ t[2 * i - 1] = s[2 * i - 1] /\ t[2 * i] = s[2 * i]
        BY <1>1, <1>6, <3>1
      <3>3. QED BY <3>1, <3>2 DEF Carries
    <2>2. CASE i = Len(L) + 1
      <3>1. 2 * i - 1 - Len(s) = 1 /\ 2 * i - Len(s) = 2 
            /\ ~(2 * i - 1 <= Len(s)) /\ ~(2 * i <= Len(s))
            /\ 2 * i - 1 \in 1..Len(s) + Len(f) /\ 2 * i \in 1..Len(s) + Len(f)
        BY <1>1, <1>2, <1>6, <2>2
      <3>2. t[2 * i - 1] = f[1] /\ t[2 * i] = f[2]
        BY <1>6, <3>1
      <3>3. QED BY <3>2, <2>2, <1>1, <1>2
    <2>3. QED BY <2>1, <2>2, <1>1
  <1>5. Carries(t, M)
    <2>1. \A i \in DOMAIN M : t[2 * i - 1] = [line |-> M[i], end |-> FALSE]
                              /\ t[2 * i] = [line |-> M[i], end |-> TRUE]
      BY <1>1, <1>4
    <2>2. Len(t) <= 2 * Len(M)
      BY <1>1, <1>3
    <2>3. QED BY <2>1, <2>2 DEF Carries
  <1>7. QED BY <1>3, <1>5 DEF t, M, f

(* A line that is dropped on the way leaves the earlier ones as they are.  *)
LEMMA CarriesLonger ==
  ASSUME NEW s \in Seq(Fragment), NEW L \in Seq(Line), NEW l \in Line, Carries(s, L)
  PROVE  Carries(s, Append(L, l))
  <1>1. Len(L) \in Nat /\ Len(Append(L, l)) = Len(L) + 1
    OBVIOUS
  <1>2. \A i \in 1..Len(L) : Append(L, l)[i] = L[i]
    OBVIOUS
  <1>3. Len(s) \in Nat /\ Len(s) <= 2 * Len(L)
    BY DEF Carries
  <1>4. QED BY <1>1, <1>2, <1>3 DEF Carries

(* A single line, just sent.                                               *)
LEMMA OneLineCarried ==
  ASSUME NEW l \in Line
  PROVE  Carries(<<>> \o Fragments(l), <<l>>)
  <1>1. <<>> \in Seq(Fragment) /\ <<>> \in Seq(Line) /\ Len(<<>>) = 2 * Len(<<>>)
    OBVIOUS
  <1>2. Carries(<<>>, <<>>)
    BY <1>1, NothingCarries
  <1>3. Carries(<<>> \o Fragments(l), Append(<<>>, l))
    BY <1>1, <1>2, CarriesMore
  <1>4. Append(<<>>, l) = <<l>>
    OBVIOUS
  <1>5. QED BY <1>3, <1>4

(* It does not matter where the sequences are joined first.                *)
LEMMA ConcatAssoc ==
  ASSUME NEW s \in Seq(Fragment), NEW a \in Seq(Fragment), NEW b \in Seq(Fragment)
  PROVE  (s \o a) \o b = s \o (a \o b)
  <1> DEFINE u == s \o a
             v == a \o b
             x == u \o b
             y == s \o v
  <1>1. /\ s \in Seq(Fragment) /\ a \in Seq(Fragment) /\ b \in Seq(Fragment)
        /\ Len(s) \in Nat /\ Len(a) \in Nat /\ Len(b) \in Nat
    OBVIOUS
  <1>2. /\ u \in Seq(Fragment) /\ Len(u) = Len(s) + Len(a)
        /\ \A i \in 1..Len(s) + Len(a) : u[i] = IF i <= Len(s) THEN s[i] ELSE a[i - Len(s)]
    BY Concat
  <1>3. /\ v \in Seq(Fragment) /\ Len(v) = Len(a) + Len(b)
        /\ \A i \in 1..Len(a) + Len(b) : v[i] = IF i <= Len(a) THEN a[i] ELSE b[i - Len(a)]
    BY Concat
  <1> HIDE DEF u, v
  <1>4. /\ x \in Seq(Fragment) /\ Len(x) = Len(u) + Len(b)
        /\ \A i \in 1..Len(u) + Len(b) : x[i] = IF i <= Len(u) THEN u[i] ELSE b[i - Len(u)]
    BY <1>1, <1>2, Concat
  <1>5. /\ y \in Seq(Fragment) /\ Len(y) = Len(s) + Len(v)
        /\ \A i \in 1..Len(s) + Len(v) : y[i] = IF i <= Len(s) THEN s[i] ELSE v[i - Len(s)]
    BY <1>1, <1>3, Concat
  <1> HIDE DEF x, y
  <1>6. ASSUME NEW i \in 1..Len(x)
        PROVE  x[i] = y[i]
    <2>1. CASE i <= Len(s)
      <3>1. /\ i \in 1..Len(u) + Len(b) /\ i \in 1..Len(s) + Len(v) /\ i \in 1..Len(s) + Len(a)
            /\ i <= Len(u)
        BY <2>1, <1>1, <1>2, <1>3, <1>4
      <3>2. x[i] = u[i] /\ u[i] = s[i]
        BY <2>1, <3>1, <1>2, <1>4
      <3>3. y[i] = s[i]
        BY <2>1, <3>1, <1>5
      <3>4. QED BY <3>2, <3>3
    <2>2. CASE Len(s) < i /\ i <= Len(u)
      <3>1. /\ i \in 1..Len(u) + Len(b) /\ i \in 1..Len(s) + Len(v) /\ i \in 1..Len(s) + Len(a)
            /\ ~(i <= Len(s)) /\ i - Len(s) \in 1..Len(a) + Len(b) /\ i - Len(s) <= Len(a)
        BY <2>2, <1>1, <1>2, <1>3, <1>4
      <3>2. x[i] = u[i] /\ y[i] = v[i - Len(s)]
        BY <2>2, <3>1, <1>4, <1>5
      <3>3. u[i] = a[i - Len(s)] /\ v[i - Len(s)] = a[i - Len(s)]
        BY <3>1, <1>2, <1>3
      <3>4. QED BY <3>2, <3>3
    <2>3. CASE Len(u) < i
      <3>1. /\ i \in 1..Len(u) + Len(b) /\ i \in 1..Len(s) + Len(v)
            /\ ~(i <= Len(u)) /\ ~(i <= Len(s))
            /\ i - Len(s) \in 1..Len(a) + Len(b) /\ ~(i - Len(s) <= Len(a))
            /\ (i - Len(s)) - Len(a) = i - Len(u)
        BY <2>3, <1>1, <1>2, <1>3, <1>4
      <3>2. x[i] = b[i - Len(u)] /\ y[i] = v[i - Len(s)]
        BY <3>1, <1>4, <1>5
      <3>3. v[i - Len(s)] = b[(i - Len(s)) - Len(a)]
        BY <3>1, <1>3
      <3>4. QED BY <3>1, <3>2, <3>3
    <2>4. QED BY <2>1, <2>2, <2>3, <1>1, <1>2, <1>4
  <1>7. x = y
    <2>1. Len(x) = Len(y)
      BY <1>1, <1>2, <1>3, <1>4, <1>5
    <2>2. x \in Seq(Fragment) /\ y \in Seq(Fragment)
      BY <1>4, <1>5
    <2>3. QED BY <2>1, <2>2, <1>6, SeqEqual
  <1>8. QED BY <1>7 DEF x, y, u, v

(* Split where the socket may, the stream is the same.                     *)
LEMMA Resplit ==
  ASSUME NEW s \in Seq(Fragment), NEW w \in Seq(Fragment), NEW k \in 1..Len(w)
  PROVE  (s \o SubSeq(w, 1, k)) \o SubSeq(w, k + 1, Len(w)) = s \o w
  <1> DEFINE a == SubSeq(w, 1, k)
             b == SubSeq(w, k + 1, Len(w))
  <1>1. a \in Seq(Fragment) /\ b \in Seq(Fragment) /\ a \o b = w
    OBVIOUS
  <1> HIDE DEF a, b
  <1>2. (s \o a) \o b = s \o (a \o b)
    BY <1>1, ConcatAssoc
  <1>3. QED BY <1>1, <1>2 DEF a, b

(* Cut anywhere, the parts of a stream make it up.                         *)
LEMMA Split ==
  ASSUME NEW w \in Seq(Fragment), NEW k \in 0..Len(w)
  PROVE  /\ SubSeq(w, 1, k) \in Seq(Fragment) /\ SubSeq(w, k + 1, Len(w)) \in Seq(Fragment)
         /\ Len(SubSeq(w, 1, k)) = k
         /\ SubSeq(w, 1, k) \o SubSeq(w, k + 1, Len(w)) = w
  <1> DEFINE a == SubSeq(w, 1, k)
             b == SubSeq(w, k + 1, Len(w))
  <1>1. /\ a \in Seq(Fragment) /\ Len(a) = k /\ \A i \in 1..k : a[i] = w[i]
        /\ b \in Seq(Fragment) /\ Len(b) = Len(w) - k
        /\ \A i \in 1..(Len(w) - k) : b[i] = w[k + i]
    OBVIOUS
  <1> HIDE DEF a, b
  <1>2. /\ a \o b \in Seq(Fragment) /\ Len(a \o b) = Len(a) + Len(b)
        /\ \A i \in 1..Len(a) + Len(b) :
             (a \o b)[i] = IF i <= Len(a) THEN a[i] ELSE b[i - Len(a)]
    BY <1>1, Concat
  <1>3. Len(w) \in Nat /\ k \in Nat /\ k <= Len(w) /\ Len(a \o b) = Len(w)
    BY <1>1, <1>2
  <1>4. ASSUME NEW i \in 1..Len(w)
        PROVE  (a \o b)[i] = w[i]
    <2>1. i \in 1..Len(a) + Len(b)
      BY <1>1, <1>3
    <2>2. CASE i <= k
      BY <1>1, <1>2, <1>3, <2>1, <2>2
    <2>3. CASE k < i
      <3>1. i - k \in 1..(Len(w) - k) /\ k + (i - k) = i /\ ~(i <= Len(a))
        BY <1>1, <1>3, <2>3
      <3>2. b[i - k] = w[k + (i - k)]
        BY <1>1, <3>1
      <3>3. (a \o b)[i] = b[i - Len(a)]
        BY <1>2, <2>1, <3>1
      <3>4. QED BY <1>1, <3>1, <3>2, <3>3
    <2>4. QED BY <1>3, <2>2, <2>3
  <1>5. a \o b = w
    BY <1>2, <1>3, <1>4, SeqEqual
  <1>6. QED BY <1>1, <1>5 DEF a, b

(* Either part of an empty stream is empty.                                *)
LEMMA ConcatEmpty ==
  ASSUME NEW s \in Seq(Fragment), NEW w \in Seq(Fragment)
  PROVE  /\ s \o w = <<>> <=> s = <<>> /\ w = <<>>
         /\ s \o <<>> = s
         /\ <<>> \o w = w
  OBVIOUS

(* The first line taken off a stream is the first of those it carries,     *)
(* whole, and the rest carries the others.                                 *)
LEMMA LineCarried ==
  ASSUME NEW s \in Seq(Fragment), NEW w \in Seq(Fragment), NEW L \in Seq(Line),
         Carries(s \o w, L), HasLine(s)
  PROVE  /\ L # <<>>
         /\ FirstLine(s) = L[1]
         /\ AfterLine(s) \in Seq(Fragment)
         /\ Carries(AfterLine(s) \o w, Tail(L))
         /\ Len(AfterLine(s) \o w) = Len(s \o w) - 2
  <1>1. Carries(s, L)
    BY ArrivedCarries
  <1>2. LineEnd(s) \in 1..Len(s) /\ s[LineEnd(s)].end
        /\ \A j \in 1..(LineEnd(s) - 1) : ~s[j].end
    BY LineEndIsFirst
  <1>3. Len(L) \in Nat /\ Len(s) \in Nat /\ Len(s) <= 2 * Len(L)
    BY <1>1 DEF Carries
  <1>4. Len(s) >= 1 /\ Len(L) >= 1 /\ 1 \in DOMAIN L
    BY <1>2, <1>3
  <1>5. s[1] = [line |-> L[1], end |-> FALSE]
    <2>1. 2 * 1 - 1 <= Len(s) => s[2 * 1 - 1] = [line |-> L[1], end |-> FALSE]
      BY <1>1, <1>4 DEF Carries
    <2>2. QED BY <2>1, <1>4, <1>3
  <1>6. LineEnd(s) # 1
    BY <1>2, <1>5
  <1>7. Len(s) >= 2
    BY <1>2, <1>3, <1>6
  <1>8. s[2] = [line |-> L[1], end |-> TRUE]
    <2>1. 2 * 1 <= Len(s) => s[2 * 1] = [line |-> L[1], end |-> TRUE]
      BY <1>1, <1>4 DEF Carries
    <2>2. QED BY <2>1, <1>7, <1>3
  <1>9. LineEnd(s) = 2
    <2>1. ASSUME LineEnd(s) > 2 PROVE FALSE
      <3>1. 2 \in 1..(LineEnd(s) - 1)
        BY <1>2, <2>1
      <3>2. QED BY <3>1, <1>2, <1>8
    <2>2. QED BY <2>1, <1>2, <1>6
  <1>10. L # <<>> /\ FirstLine(s) = L[1]
    BY <1>4, <1>5, <1>8, <1>9 DEF FirstLine
  <1>11. AfterLine(s) = SubSeq(s, 3, Len(s)) /\ AfterLine(s) \in Seq(Fragment)
    BY <1>9, <1>7 DEF AfterLine
  <1> DEFINE t == AfterLine(s) \o w
             T == Tail(L)
  <1>12. Len(t) = Len(s \o w) - 2 /\ Len(s \o w) \in Nat
    BY <1>7, <1>11
  <1>13. \A i \in 1..Len(t) : t[i] = (s \o w)[i + 2]
    BY <1>7, <1>11, <1>12
  <1>14. Len(T) = Len(L) - 1 /\ \A i \in 1..Len(T) : T[i] = L[i + 1] 
    BY <1>4
  <1>15. DOMAIN T = 1..Len(T) /\ Len(t) <= 2 * Len(T)
    <2>1. Len(s \o w) <= 2 * Len(L)
      BY DEF Carries
    <2>2. T \in Seq(Line)
      BY <1>10
    <2>3. QED BY <2>1, <2>2, <1>12, <1>14
  <1>16. ASSUME NEW i \in DOMAIN T
         PROVE  /\ 2 * i - 1 <= Len(t) => t[2 * i - 1] = [line |-> T[i], end |-> FALSE]
                /\ 2 * i <= Len(t) => t[2 * i] = [line |-> T[i], end |-> TRUE]
    <2>1. i + 1 \in DOMAIN L /\ T[i] = L[i + 1] /\ i \in Nat /\ i >= 1
      BY <1>14, <1>15, <1>3
    <2>2. /\ 2 * (i + 1) - 1 <= Len(s \o w) =>
               (s \o w)[2 * (i + 1) - 1] = [line |-> L[i + 1], end |-> FALSE]
          /\ 2 * (i + 1) <= Len(s \o w) =>
               (s \o w)[2 * (i + 1)] = [line |-> L[i + 1], end |-> TRUE]
      BY <2>1 DEF Carries
    <2>3. 2 * i - 1 <= Len(t) => t[2 * i - 1] = (s \o w)[2 * (i + 1) - 1]
      <3>1. 2 * i - 1 <= Len(t) => 2 * i - 1 \in 1..Len(t)
        <4> HIDE DEF t
        <4> QED BY <1>12, <2>1
      <3>2. (2 * i - 1) + 2 = 2 * (i + 1) - 1
        BY <2>1
      <3> HIDE DEF t
      <3>3. QED BY <1>13, <3>1, <3>2
    <2>4. 2 * i <= Len(t) => t[2 * i] = (s \o w)[2 * (i + 1)]
      <3>1. 2 * i <= Len(t) => 2 * i \in 1..Len(t)
        <4> HIDE DEF t
        <4> QED BY <1>12, <2>1
      <3>2. 2 * i + 2 = 2 * (i + 1)
        BY <2>1
      <3> HIDE DEF t
      <3>3. QED BY <1>13, <3>1, <3>2
    <2>5. /\ 2 * i - 1 <= Len(t) => 2 * (i + 1) - 1 <= Len(s \o w)
          /\ 2 * i <= Len(t) => 2 * (i + 1) <= Len(s \o w)
      <3> HIDE DEF t
      <3> QED BY <1>12, <2>1
    <2>6. QED
      <3> HIDE DEF t, T
      <3> QED BY <2>1, <2>2, <2>3, <2>4, <2>5
  <1>17. Carries(t, T)
    <2> HIDE DEF t, T
    <2> QED BY <1>15, <1>16 DEF Carries
  <1>18. QED BY <1>10, <1>11, <1>12, <1>17

(* Undoing the stuffing of dots gives back the line that was typed.        *)
LEMMA StuffingUndone ==
  ASSUME NEW l \in Line
  PROVE  Unstuffed(Stuffed(l)) = l /\ Stuffed(l) # Dot
  <1>1. l.dots \in Nat /\ l = [dots |-> l.dots, text |-> l.text]
    BY DEF Line
  <1>2. CASE l.dots > 0
    <2>1. Stuffed(l) = [dots |-> l.dots + 1, text |-> l.text]
      BY <1>1, <1>2 DEF Stuffed
    <2>2. Stuffed(l) # Dot
      BY <1>1, <1>2, <2>1 DEF Dot
    <2>3. Unstuffed(Stuffed(l)) = [dots |-> l.dots, text |-> l.text]
      BY <1>1, <1>2, <2>1, <2>2 DEF Unstuffed
    <2>4. QED BY <1>1, <2>2, <2>3
  <1>3. CASE l.dots = 0
    BY <1>3 DEF Stuffed, Unstuffed, Dot
  <1>4. QED BY <1>1, <1>2, <1>3

(* A line of which the reader may take the beginning for the final dot is  *)
(* that dot or begins with one.                                            *)
LEMMA DotBegins ==
  ASSUME NEW l \in Line, Dot \in Beginnings(l), l # Dot
  PROVE  l.dots > 0
  <1>1. l.dots \in Nat
    BY DEF Line
  <1>2. ASSUME NEW t, Dot = [l EXCEPT !.text = Garbled.text] PROVE FALSE
    BY <1>2 DEF Dot, Blank, Garbled, Line
  <1>3. PICK d \in 1..l.dots : Dot = [dots |-> d, text |-> Blank]
    BY <1>2 DEF Beginnings
  <1>4. QED BY <1>1, <1>3

-----------------------------------------------------------------------------
(* The lines a client has sent of a message typed, of which the server has *)
(* taken n; the last one is the dot once the client has ended it.          *)
Awaited(lines, n, ended) ==
  [i \in 1..(Len(lines) - n + (IF ended THEN 1 ELSE 0)) |->
     IF n + i <= Len(lines) THEN Stuffed(lines[n + i]) ELSE Dot]

(* They are lines, as many as are typed and not read, and the dot.         *)
LEMMA AwaitedType ==
  ASSUME NEW lines \in Seq(Line), NEW n \in 0..Len(lines), NEW ended \in BOOLEAN
  PROVE  /\ Awaited(lines, n, ended) \in Seq(Line)
         /\ Len(Awaited(lines, n, ended)) = Len(lines) - n + (IF ended THEN 1 ELSE 0)
  <1> DEFINE k == Len(lines) - n + (IF ended THEN 1 ELSE 0)
  <1>1. k \in Nat /\ Len(lines) \in Nat
    OBVIOUS
  <1>2. ASSUME NEW i \in 1..k
        PROVE  (IF n + i <= Len(lines) THEN Stuffed(lines[n + i]) ELSE Dot) \in Line
    <2>1. CASE n + i <= Len(lines)
      <3>1. lines[n + i] \in Line
        BY <2>1, <1>1
      <3>2. QED BY <2>1, <3>1, StuffingTypes
    <2>2. CASE ~(n + i <= Len(lines))
      BY <2>2, LineConstants
    <2>3. QED BY <2>1, <2>2
  <1>3. QED
    <2> HIDE DEF k
    <2>1. Awaited(lines, n, ended) =
            [i \in 1..k |-> IF n + i <= Len(lines) THEN Stuffed(lines[n + i]) ELSE Dot]
      BY DEF Awaited, k
    <2>2. Awaited(lines, n, ended) \in [1..k -> Line]
      BY <1>2, <2>1
    <2>3. QED BY <1>1, <2>2 DEF k

(* The next line of a message that is not the dot is the next line typed.  *)
LEMMA AwaitedLine ==
  ASSUME NEW lines \in Seq(Line), NEW n \in 0..Len(lines), NEW ended \in BOOLEAN,
         Awaited(lines, n, ended) # <<>>, Awaited(lines, n, ended)[1] # Dot
  PROVE  /\ n < Len(lines)
         /\ Awaited(lines, n, ended)[1] = Stuffed(lines[n + 1])
         /\ Tail(Awaited(lines, n, ended)) = Awaited(lines, n + 1, ended)
  <1> DEFINE A == Awaited(lines, n, ended)
             B == Awaited(lines, n + 1, ended)
  <1>1. A \in Seq(Line) /\ Len(A) = Len(lines) - n + (IF ended THEN 1 ELSE 0) /\ Len(lines) \in Nat
    BY AwaitedType
  <1>2. \A i \in 1..Len(A) : A[i] = IF n + i <= Len(lines) THEN Stuffed(lines[n + i]) ELSE Dot
    BY <1>1 DEF Awaited
  <1>3. A # <<>> /\ A[1] # Dot
    OBVIOUS
  <1> HIDE DEF A
  <1>4. Len(A) >= 1
    BY <1>1, <1>3
  <1>5. n < Len(lines) /\ A[1] = Stuffed(lines[n + 1])
    BY <1>1, <1>2, <1>3, <1>4
  <1>6. B \in Seq(Line) /\ Len(B) = Len(A) - 1
    <2>1. n + 1 \in 0..Len(lines)
      BY <1>1, <1>5
    <2>2. B \in Seq(Line) /\ Len(B) = Len(lines) - (n + 1) + (IF ended THEN 1 ELSE 0)
      BY <2>1, AwaitedType
    <2>3. QED BY <2>2, <1>1
  <1>7. \A i \in 1..Len(B) : B[i] = IF n + 1 + i <= Len(lines) THEN Stuffed(lines[n + 1 + i]) ELSE Dot
    <2>1. Len(B) = Len(lines) - (n + 1) + (IF ended THEN 1 ELSE 0)
      BY <1>1, <1>6
    <2>2. QED BY <2>1 DEF Awaited
  <1> HIDE DEF B
  <1>8. /\ Tail(A) \in Seq(Line) /\ Len(Tail(A)) = Len(A) - 1
        /\ \A i \in 1..Len(Tail(A)) : Tail(A)[i] = A[i + 1]
    BY <1>1, <1>4
  <1>9. ASSUME NEW i \in 1..Len(B)
        PROVE  Tail(A)[i] = B[i]
    <2>1. i \in 1..Len(Tail(A)) /\ i + 1 \in 1..Len(A) /\ n + (i + 1) = n + 1 + i
      BY <1>1, <1>6, <1>8
    <2>2. Tail(A)[i] = A[i + 1]
      BY <1>8, <2>1
    <2>3. A[i + 1] = IF n + (i + 1) <= Len(lines) THEN Stuffed(lines[n + (i + 1)]) ELSE Dot
      BY <1>2, <2>1
    <2>4. B[i] = IF n + 1 + i <= Len(lines) THEN Stuffed(lines[n + 1 + i]) ELSE Dot
      BY <1>7
    <2>5. QED BY <2>1, <2>2, <2>3, <2>4
  <1>10. Tail(A) = B
    <2> DEFINE T == Tail(A)
    <2>1. T \in Seq(Line) /\ Len(T) = Len(B) /\ \A i \in 1..Len(T) : T[i] = B[i]
      BY <1>6, <1>8, <1>9
    <2> HIDE DEF T
    <2>2. T = B
      BY <1>6, <2>1, SeqEqual
    <2>3. QED BY <2>2 DEF T
  <1>11. QED BY <1>5, <1>10 DEF A, B

(* The dot comes last, behind every line typed.                            *)
LEMMA AwaitedDot ==
  ASSUME NEW lines \in Seq(Line), NEW n \in 0..Len(lines), NEW ended \in BOOLEAN,
         Awaited(lines, n, ended) # <<>>, Awaited(lines, n, ended)[1] = Dot
  PROVE  n = Len(lines) /\ ended /\ Tail(Awaited(lines, n, ended)) = <<>>
  <1> DEFINE A == Awaited(lines, n, ended)
  <1>1. A \in Seq(Line) /\ Len(A) = Len(lines) - n + (IF ended THEN 1 ELSE 0) /\ Len(lines) \in Nat
    BY AwaitedType
  <1>2. \A i \in 1..Len(A) : A[i] = IF n + i <= Len(lines) THEN Stuffed(lines[n + i]) ELSE Dot
    BY <1>1 DEF Awaited
  <1>3. A # <<>> /\ A[1] = Dot
    OBVIOUS
  <1> HIDE DEF A
  <1>4. Len(A) >= 1
    BY <1>1, <1>3
  <1>5. n = Len(lines)
    <2>1. ASSUME n < Len(lines) PROVE FALSE
      <3>1. A[1] = Stuffed(lines[n + 1]) /\ lines[n + 1] \in Line
        BY <1>1, <1>2, <1>4, <2>1
      <3>2. QED BY <1>3, <3>1, StuffingUndone
    <2>2. QED BY <2>1, <1>1
  <1>6. ended /\ Len(A) = 1
    BY <1>1, <1>4, <1>5
  <1>7. Tail(A) = <<>>
    <2> DEFINE T == Tail(A)
    <2>1. T \in Seq(Line) /\ Len(T) = 0
      BY <1>1, <1>3, <1>6
    <2> HIDE DEF T
    <2>2. T = <<>>
      BY <2>1
    <2>3. QED BY <2>2 DEF T
  <1>8. QED BY <1>5, <1>6, <1>7 DEF A

(* A line more typed is a line more to come, and so is the dot.            *)
LEMMA AwaitedGrows ==
  ASSUME NEW lines \in Seq(Line), NEW n \in 0..Len(lines), NEW l \in Line
  PROVE  /\ Awaited(Append(lines, l), n, FALSE) = Append(Awaited(lines, n, FALSE), Stuffed(l))
         /\ Awaited(lines, n, TRUE) = Append(Awaited(lines, n, FALSE), Dot)
  <1> DEFINE more == Append(lines, l)
             A == Awaited(lines, n, FALSE)
             B == Awaited(more, n, FALSE)
             C == Awaited(lines, n, TRUE)
             k == Len(lines) - n
  <1>1. /\ more \in Seq(Line) /\ Len(more) = Len(lines) + 1 /\ Len(lines) \in Nat
        /\ more[Len(lines) + 1] = l /\ \A i \in 1..Len(lines) : more[i] = lines[i]
    OBVIOUS
  <1> HIDE DEF more
  <1>2. /\ A \in Seq(Line) /\ Len(A) = k /\ k \in Nat
        /\ \A i \in 1..k : A[i] = IF n + i <= Len(lines) THEN Stuffed(lines[n + i]) ELSE Dot
    <2>1. A \in Seq(Line) /\ Len(A) = Len(lines) - n + (IF FALSE THEN 1 ELSE 0)
      BY AwaitedType
    <2>2. k \in Nat /\ Len(lines) - n + (IF FALSE THEN 1 ELSE 0) = k
      BY <1>1
    <2>3. \A i \in 1..k : A[i] = IF n + i <= Len(lines) THEN Stuffed(lines[n + i]) ELSE Dot
      BY <2>2 DEF Awaited
    <2>4. QED BY <2>1, <2>2, <2>3
  <1>3. /\ B \in Seq(Line) /\ Len(B) = k + 1
    <2>1. n \in 0..Len(more)
      BY <1>1
    <2>2. B \in Seq(Line) /\ Len(B) = Len(more) - n + (IF FALSE THEN 1 ELSE 0)
      BY <1>1, <2>1, AwaitedType
    <2>3. n \in Nat /\ Len(more) - n + (IF FALSE THEN 1 ELSE 0) = k + 1
      BY <1>1
    <2> HIDE DEF k, B
    <2>4. QED BY <2>2, <2>3
  <1>4. \A i \in 1..k + 1 : B[i] = IF n + i <= Len(more) THEN Stuffed(more[n + i]) ELSE Dot
    BY <1>1, <1>3 DEF Awaited
  <1>5. /\ C \in Seq(Line) /\ Len(C) = k + 1
    BY AwaitedType
  <1>6. \A i \in 1..k + 1 : C[i] = IF n + i <= Len(lines) THEN Stuffed(lines[n + i]) ELSE Dot
    BY <1>5 DEF Awaited
  <1>7. Stuffed(l) \in Line /\ Dot \in Line
    BY StuffingTypes, LineConstants
  <1> HIDE DEF A, B, C
  <1>8. B = Append(A, Stuffed(l))
    <2> DEFINE z == Stuffed(l)
               R == Append(A, z)
    <2>0. B[k + 1] = z
      BY <1>1, <1>2, <1>4
    <2>1. z \in Line
      BY <1>7
    <2> HIDE DEF z
    <2>2. R \in Seq(Line) /\ Len(R) = k + 1 /\ R[k + 1] = z /\ \A i \in 1..k : R[i] = A[i]
      BY <1>2, <2>1
    <2> HIDE DEF R
    <2>3. ASSUME NEW i \in 1..k + 1 PROVE B[i] = R[i]
      <3>1. CASE i \in 1..k
        BY <3>1, <1>1, <1>2, <1>4, <2>2
      <3>2. CASE i = k + 1
        BY <3>2, <2>0, <2>2
      <3>3. QED BY <3>1, <3>2, <1>2
    <2>4. B = R
      BY <1>3, <2>2, <2>3, SeqEqual
    <2>5. QED BY <2>4 DEF R, z
  <1>9. C = Append(A, Dot)
    <2> DEFINE R == Append(A, Dot)
    <2>2. R \in Seq(Line) /\ Len(R) = k + 1 /\ R[k + 1] = Dot /\ \A i \in 1..k : R[i] = A[i]
      BY <1>2, <1>7
    <2> HIDE DEF R
    <2>3. ASSUME NEW i \in 1..k + 1 PROVE C[i] = R[i]
      <3>1. CASE i \in 1..k
        BY <3>1, <1>1, <1>2, <1>6, <2>2
      <3>2. CASE i = k + 1
        BY <3>2, <1>1, <1>2, <1>6, <2>2
      <3>3. QED BY <3>1, <3>2, <1>2
    <2>4. C = R
      BY <1>5, <2>2, <2>3, SeqEqual
    <2>5. QED BY <2>4 DEF R
  <1>10. QED BY <1>8, <1>9 DEF A, B, C, more

-----------------------------------------------------------------------------
(* The dialogue                                                            *)

(* What is on the wire and may still be read: nothing, once the connection *)
(* is closed.                                                              *)
Wired == IF connected THEN wire ELSE <<>>

(* The connection as both ends see it: what is sent is received.           *)
Live == connected /\ peer = "open"

(* The line of the command the client sent last, and that of a token.      *)
Command == [dots |-> 0, text |-> sent]
Token(c) == [dots |-> 0, text |-> [verb |-> "TOKEN", arg |-> c]]

(* At most one reply is under way, and only while the client waits; before *)
(* the constructor has greeted the client there is nothing at all.         *)
Turn ==
  /\ Len(replies) <= 1
  /\ replies # <<>> => mode = "waiting"
  /\ ~begun => /\ mode = "waiting" /\ replies = <<>> /\ wire = <<>> /\ buffer = <<>>
               /\ rx \in {"armed", "deaf", "done"}

(* Between two commands, the stream holds at most the command sent last;   *)
(* while any of it is there the client waits and no reply is under way.    *)
(* Prompts for a body or a token are under way elsewhere.                  *)
Between ==
  /\ reader = <<>>
  /\ Carries(buffer \o Wired, <<Command>>)
  /\ buffer \o Wired # <<>> => mode = "waiting" /\ replies = <<>>
  /\ Live => mode \in {"waiting", "ready"} /\ (replies # <<>> => replies[1] \notin {334, 354})

(* Inside AUTH, the stream holds at most one token.                        *)
ReadingToken ==
  /\ buffer = <<>>
  /\ \E c \in Credential : Carries(reader \o Wired, <<Token(c)>>)
  /\ reader \o Wired # <<>> => mode = "waiting" /\ replies = <<>>
  /\ mode \in {"waiting", "token"} /\ replies \in {<<>>, <<334>>}

(* The lines sent and not read.                                            *)
Outstanding == Awaited(typed, Len(linesRead), mode = "waiting")

(* As long as the connection stands, nothing of them is lost, but for the  *)
(* end of the line that was cut.                                           *)
Entire ==
  /\ connected /\ peer # "reset"
  /\ reader \o Wired # <<>> \/ (mode = "body" /\ peer = "open")
  => Len(reader \o Wired) = 2 * Len(Outstanding) - (IF cut THEN 1 ELSE 0)

(* Inside DATA, the lines read are the first of those typed, and the stream*)
(* holds the next ones.                                                    *)
AsTyped ==
  /\ Len(linesRead) <= Len(typed)
  /\ \A i \in DOMAIN linesRead : linesRead[i] = typed[i]
  /\ replies # <<>> => linesRead = <<>>
  /\ Carries(reader \o Wired, Outstanding)
  /\ Entire

(* Inside DATA, a body that has not been cut off is read as it was typed.  *)
ReadingBody ==
  /\ buffer = <<>> /\ sent.verb = "DATA"
  /\ reader \o Wired # <<>> => replies = <<>>
  /\ mode \in {"waiting", "body"} /\ replies \in {<<>>, <<354>>}
  /\ CutOff \/ AsTyped

(* Of a line that was cut off behind its first dot, nothing was read.      *)
CutShort ==
  /\ cut /\ peer # "open" /\ replies = <<>>
  /\ typed # <<>> /\ typed[Len(typed)].dots > 0
  /\ linesRead = SubSeq(typed, 1, Len(typed) - 1)

(* During the hand-over the lines read are all those typed, or all but the *)
(* last.                                                                   *)
Handing ==
  /\ buffer = <<>>
  /\ (linesRead = typed /\ mode \in {"waiting", "ready"}) \/ CutShort
  /\ replies # <<>> => replies = <<250>> /\ sent.verb = "DATA"

(* What the client takes the envelope to be once it has read a reply.      *)
FromAfter(code) ==
  IF code = 250 /\ sent.verb \in {"MAIL", "MAIL8BIT"} THEN sent.arg
  ELSE IF code = 250 /\ sent.verb = "RSET" THEN NULL ELSE ownFrom

ToAfter(code) ==
  IF code = 250 /\ sent.verb \in {"MAIL", "MAIL8BIT", "RSET"} THEN <<>>
  ELSE IF code = 250 /\ sent.verb = "RCPT" THEN Append(ownTo, sent.arg) ELSE ownTo

EncodingAfter(code) ==
  IF code = 250 /\ sent.verb = "MAIL" THEN "ASCII"
  ELSE IF code = 250 /\ sent.verb = "MAIL8BIT" THEN "UTF8" ELSE ownEncoding

(* The session of the server is what the client will believe with this     *)
(* reply,                                                                  *)
AgreedOn(code) ==
  mailFrom = FromAfter(code) /\ recipients = ToAfter(code) /\ encoding = EncodingAfter(code)

(* or believes already.                                                    *)
Alike == mailFrom = ownFrom /\ recipients = ownTo /\ encoding = ownEncoding

Agreed == IF replies = <<>> THEN Alike ELSE AgreedOn(replies[1])

(* The exception: the reply to a command was dropped, or there was none,   *)
(* and the client waits for it for ever; nothing it sent is left to be     *)
(* read.                                                                   *)
Unanswered ==
  begun /\ rx \in {"armed", "lines"} /\ mode = "waiting" /\ replies = <<>> /\ buffer \o Wired = <<>>

(* Only a client that has gone has cut a line.                             *)
CutIsGone == cut => peer # "open"

(* The place of the receive callback says what the stream holds, and at    *)
(* every place but the last two the ends agree on the envelope.            *)
Dialogue ==
  /\ Turn
  /\ rx \in {"armed", "lines", "handing"} => Between
  /\ rx \in {"plain", "user", "pass"} => ReadingToken
  /\ rx = "body" => ReadingBody
  /\ rx = "handing" => Handing
  /\ rx \notin {"deaf", "done"} => Agreed \/ Unanswered

(* What the lemmas about streams and lines need to know of the state.      *)
LEMMA Streams ==
  ASSUME TypeOK
  PROVE  /\ Wired \in Seq(Fragment) /\ wire \in Seq(Fragment)
         /\ buffer \in Seq(Fragment) /\ reader \in Seq(Fragment)
         /\ Command \in Line /\ <<Command>> \in Seq(Line)
         /\ \A c \in Credential : Token(c) \in Line /\ <<Token(c)>> \in Seq(Line)
  <1>1. wire \in Seq(Fragment) /\ buffer \in Seq(Fragment) /\ reader \in Seq(Fragment)
    BY DEF TypeOK, QueuesTyped
  <1>2. Wired \in Seq(Fragment)
    BY <1>1, Empty DEF Wired
  <1>3. sent \in Text
    BY DEF TypeOK, ClientTyped
  <1>4. Command \in Line
    BY <1>3, LineConstants DEF Command
  <1>5. \A c \in Credential : Token(c) \in Line
    BY LineConstants DEF Token
  <1>6. \A l \in Line : <<l>> \in Seq(Line)
    OBVIOUS
  <1>7. QED BY <1>1, <1>2, <1>4, <1>5, <1>6

(* Behind a sequence of fragments, no more is on the wire than there was.  *)
FewerBehind(s) ==
  /\ s \o Wired' # <<>> => s \o Wired # <<>>
  /\ \A L \in Seq(Line) : Carries(s \o Wired, L) => Carries(s \o Wired', L)

LEMMA WireKept ==
  ASSUME TypeOK, NEW s \in Seq(Fragment), Wired' \in {Wired, <<>>}
  PROVE  FewerBehind(s)
  <1>1. Wired \in Seq(Fragment)
    BY Streams
  <1>2. CASE Wired' = Wired
    BY <1>2 DEF FewerBehind
  <1>3. CASE Wired' = <<>>
    <2>1. s \o Wired' = s
      BY <1>3, ConcatEmpty
    <2>2. QED BY <2>1, <1>1, ConcatEmpty, ArrivedCarries DEF FewerBehind
  <1>4. QED BY <1>2, <1>3

(* The end of the stream is cut off.                                       *)
LEMMA WireCut ==
  ASSUME TypeOK, NEW s \in Seq(Fragment), Wired # <<>>,
         Wired' = SubSeq(Wired, 1, Len(Wired) - 1)
  PROVE  FewerBehind(s) /\ Len(s \o Wired') = Len(s \o Wired) - 1
  <1> DEFINE a == SubSeq(Wired, 1, Len(Wired) - 1)
             b == SubSeq(Wired, Len(Wired), Len(Wired))
  <1>1. Wired \in Seq(Fragment)
    BY Streams
  <1>2. /\ a \in Seq(Fragment) /\ b \in Seq(Fragment) /\ a \o b = Wired
        /\ Len(a) = Len(Wired) - 1 /\ Len(Wired) \in Nat /\ Len(Wired) >= 1
    <2> DEFINE k == Len(Wired) - 1
    <2>1. Len(Wired) \in Nat /\ Len(Wired) >= 1 /\ k \in 0..Len(Wired) /\ k + 1 = Len(Wired)
      BY <1>1
    <2> HIDE DEF k
    <2>3. /\ SubSeq(Wired, 1, k) \in Seq(Fragment) /\ SubSeq(Wired, k + 1, Len(Wired)) \in Seq(Fragment)
          /\ Len(SubSeq(Wired, 1, k)) = k
          /\ SubSeq(Wired, 1, k) \o SubSeq(Wired, k + 1, Len(Wired)) = Wired
      BY <1>1, <2>1, Split
    <2>4. QED BY <2>1, <2>3 DEF k
  <1> HIDE DEF a, b
  <1>3. (s \o a) \o b = s \o Wired
    BY <1>2, ConcatAssoc
  <1>4. s \o a \in Seq(Fragment)
    BY <1>2, Concat
  <1>5. \A L \in Seq(Line) : Carries(s \o Wired, L) => Carries(s \o a, L)
    BY <1>2, <1>3, <1>4, ArrivedCarries
  <1>6. s \o Wired # <<>>
    BY <1>1, ConcatEmpty
  <1>7. Len(s \o a) = Len(s \o Wired) - 1
    <2>1. Len(s \o a) = Len(s) + Len(a) /\ Len(s \o Wired) = Len(s) + Len(Wired)
      BY <1>1, <1>2, Concat
    <2>2. Len(s) \in Nat
      OBVIOUS
    <2>3. QED BY <2>1, <2>2, <1>2
  <1>8. Wired' = a
    BY DEF a
  <1>9. QED BY <1>5, <1>6, <1>7, <1>8 DEF FewerBehind

(* A step that at most takes something off the line, or ends the service   *)
(* to this client, keeps the dialogue in order.                            *)
LEMMA Weaker ==
  ASSUME TypeOK, Dialogue,
         UNCHANGED <<begun, rx, buffer, reader, linesRead, replies, mode, sent, typed,
                     mailFrom, recipients, encoding, ownFrom, ownTo, ownEncoding>>,
         \A t \in Seq(Fragment) : FewerBehind(t), wire = <<>> => wire' = <<>>,
         Live' => Live, AsTyped => Entire', cut => cut',
         peer # "open" => peer' # "open"
  PROVE  Dialogue'
  <1>1. Wired \in Seq(Fragment) /\ buffer \in Seq(Fragment) /\ reader \in Seq(Fragment)
        /\ <<Command>> \in Seq(Line) /\ \A c \in Credential : <<Token(c)>> \in Seq(Line)
    BY Streams
  <1>2. ASSUME NEW s \in Seq(Fragment)
        PROVE  /\ s \o Wired' # <<>> => s \o Wired # <<>>
               /\ \A L \in Seq(Line) : Carries(s \o Wired, L) => Carries(s \o Wired', L)
    BY <1>1 DEF FewerBehind
  <1>3. Turn'
    BY DEF Dialogue, Turn
  <1>4. Command' = Command
    BY DEF Command
  <1>5. ASSUME rx \in {"armed", "lines", "handing"} PROVE Between'
    <2>1. Between
      BY <1>5 DEF Dialogue
    <2>2. /\ Carries(buffer \o Wired', <<Command>>)
          /\ buffer \o Wired' # <<>> => buffer \o Wired # <<>>
      BY <2>1, <1>1, <1>2 DEF Between
    <2>3. QED BY <2>1, <2>2, <1>4 DEF Between
  <1>6. ASSUME rx \in {"plain", "user", "pass"} PROVE ReadingToken'
    <2>1. ReadingToken
      BY <1>6 DEF Dialogue
    <2>2. PICK c \in Credential : Carries(reader \o Wired, <<Token(c)>>)
      BY <2>1 DEF ReadingToken
    <2>3. Carries(reader \o Wired', <<Token(c)>>)
      BY <2>2, <1>1, <1>2
    <2>4. QED BY <2>1, <2>3, <1>1, <1>2 DEF ReadingToken
  <1>7. ASSUME rx = "body" PROVE ReadingBody'
    <2>1. ReadingBody
      BY <1>7 DEF Dialogue
    <2>2. CutOff => CutOff'
      BY DEF CutOff
    <2>3. ASSUME AsTyped PROVE AsTyped'
      <3>1. Outstanding' = Outstanding
        BY DEF Outstanding
      <3>2. Outstanding \in Seq(Line)
        <4>1. typed \in Seq(Line) /\ Len(linesRead) \in 0..Len(typed)
          BY <2>3 DEF TypeOK, QueuesTyped, ClientTyped, AsTyped
        <4>2. QED BY <4>1, AwaitedType DEF Outstanding
      <3>3. QED BY <2>3, <3>1, <3>2, <1>1, <1>2 DEF AsTyped
    <2>4. QED BY <2>1, <2>2, <2>3, <1>1, <1>2 DEF ReadingBody
  <1>8. rx = "handing" => Handing'
    BY DEF Dialogue, Handing, CutShort
  <1>9. Agreed => Agreed'
    BY DEF Agreed, Alike, AgreedOn, FromAfter, ToAfter, EncodingAfter
  <1>10. Unanswered => Unanswered'
    BY <1>1, <1>2 DEF Unanswered
  <1>11. QED BY <1>3, <1>5, <1>6, <1>7, <1>8, <1>9, <1>10 DEF Dialogue

(* When the callback has ended, only the turn is left to keep.             *)
LEMMA Ended ==
  ASSUME Turn', rx' \in {"deaf", "done"}
  PROVE  Dialogue'
  BY DEF Dialogue

(* A step that neither sends, reads nor begins keeps the turn.             *)
LEMMA TurnKept ==
  ASSUME Turn, UNCHANGED <<begun, replies, mode>>,
         begun \/ (UNCHANGED <<wire, buffer>> /\ rx' \in {"armed", "deaf", "done"})
  PROVE  Turn'
  BY DEF Turn

(* A reply that the client waits for.                                      *)
LEMMA TurnAnswered ==
  ASSUME begun, begun', mode = "waiting", mode' = mode, replies = <<>>, NEW code, Send(code)
  PROVE  /\ Turn'
         /\ replies' = IF Live THEN <<code>> ELSE <<>>
  <1>1. replies' = IF Live THEN <<code>> ELSE <<>>
    BY DEF Send, Live
  <1>2. Len(replies') <= 1
    BY <1>1
  <1>3. QED BY <1>1, <1>2 DEF Turn

-----------------------------------------------------------------------------
(* Receiving                                                               *)

(* What is received was on its way already.                                *)
LEMMA ReceiveKeeps ==
  ASSUME TypeOK, Dialogue, Receive
  PROVE  Dialogue'
  <1>1. Wired \in Seq(Fragment) /\ wire \in Seq(Fragment) /\ buffer \in Seq(Fragment)
    BY Streams
  <1>2. PICK k \in 1..Len(wire) : /\ buffer' = buffer \o SubSeq(wire, 1, k)
                                  /\ wire' = SubSeq(wire, k + 1, Len(wire))
    BY DEF Receive
  <1>3. begun
    <2>1. wire # <<>>
      BY <1>1, <1>2
    <2>2. QED BY <2>1 DEF Dialogue, Turn
  <1>4. buffer' \o Wired' = buffer \o Wired
    <2>1. Wired = wire /\ Wired' = wire'
      BY DEF Wired, Receive, connVars
    <2>2. QED BY <2>1, <1>1, <1>2, Resplit
  <1>5. /\ rx = "armed" /\ rx' = "lines" /\ Command' = Command /\ Live' = Live
        /\ UNCHANGED <<begun, reader, mode, replies>>
    BY DEF Receive, connVars, readVars, client, Command, Live
  <1>6. Turn'
    BY <1>3, <1>5, TurnKept DEF Dialogue
  <1>7. Between'
    BY <1>4, <1>5 DEF Dialogue, Between
  <1>8. Agreed' \/ Unanswered'
    <2>1. CASE Agreed
      BY <2>1 DEF Receive, connVars, session, client, Agreed, Alike, AgreedOn, FromAfter, ToAfter,
        EncodingAfter
    <2>2. CASE Unanswered
      BY <2>2, <1>4, <1>5 DEF Unanswered
    <2>3. QED BY <2>1, <2>2, <1>5 DEF Dialogue
  <1>9. QED BY <1>5, <1>6, <1>7, <1>8 DEF Dialogue

(* The session and the client's view of it, where neither is touched.      *)
LEMMA AgreedKept ==
  ASSUME Agreed,
         UNCHANGED <<replies, mailFrom, recipients, encoding, ownFrom, ownTo, ownEncoding,
                     sent>>
  PROVE  Agreed'
  BY DEF Agreed, Alike, AgreedOn, FromAfter, ToAfter, EncodingAfter

(* The next receive finds the stream as the splitter left it.              *)
LEMMA ReceiveAgainKeeps ==
  ASSUME TypeOK, Dialogue, ReceiveAgain
  PROVE  Dialogue'
  <1>1. /\ rx = "lines" /\ rx' \in {"armed", "deaf", "done"}
        /\ UNCHANGED <<connected, begun, encoding, mailFrom, recipients, buffer, reader,
                       wire, peer,
                       replies, mode, sent, ownFrom, ownTo, ownEncoding>>
    BY DEF ReceiveAgain, connVars, session, readVars, netVars, client
  <1>2. Turn'
    <2>1. begun
      BY <1>1 DEF Dialogue, Turn
    <2>2. QED BY <2>1, <1>1, TurnKept DEF Dialogue
  <1>3. CASE rx' = "armed"
    <2>1. Wired' = Wired /\ Live' = Live /\ Command' = Command
      BY <1>1 DEF Wired, Live, Command
    <2>2. Between'
      BY <1>1, <2>1 DEF Dialogue, Between
    <2>3. Agreed' \/ Unanswered'
      BY <1>1, <1>3, <2>1, AgreedKept DEF Dialogue, Unanswered
    <2>4. QED BY <1>2, <1>3, <2>2, <2>3 DEF Dialogue
  <1>4. QED BY <1>1, <1>2, <1>3, Ended

(* The callback ends: nothing was read, or something threw.                *)
LEMMA CallbackEnds ==
  ASSUME Dialogue, ReceiveEnd \/ ReceiveFails \/ ReceiveCancelled \/ NoContext \/ SendFails
  PROVE  Dialogue'
  <1>1. rx' \in {"deaf", "done"} /\ UNCHANGED <<begun, replies, mode, wire>>
    BY DEF ReceiveEnd, ReceiveFails, ReceiveCancelled, NoContext, SendFails, connVars, netVars, client
  <1>2. begun \/ UNCHANGED buffer
    <2>1. CASE ReceiveEnd \/ ReceiveFails \/ ReceiveCancelled
      BY <2>1 DEF ReceiveEnd, ReceiveFails, ReceiveCancelled
    <2>2. CASE NoContext \/ SendFails
      BY <2>2 DEF NoContext, SendFails, Dialogue, Turn
    <2>3. QED BY <2>1, <2>2
  <1>3. Turn'
    BY <1>1, <1>2, TurnKept DEF Dialogue
  <1>4. QED BY <1>1, <1>3, Ended

-----------------------------------------------------------------------------
(* Commands                                                                *)

(* The line the dispatch takes is the command the client sent last; it is  *)
(* alone, and the client waits for its reply.                              *)
LEMMA CommandTaken ==
  ASSUME TypeOK, Dialogue, rx = "lines", HasLine(buffer)
  PROVE  /\ begun /\ Current = Command
         /\ AfterLine(buffer) = <<>> /\ Wired = <<>> /\ reader = <<>>
         /\ mode = "waiting" /\ replies = <<>> /\ Alike
  <1>1. /\ Wired \in Seq(Fragment) /\ buffer \in Seq(Fragment) /\ <<Command>> \in Seq(Line)
    BY Streams
  <1>2. Between /\ Turn /\ begun
    BY DEF Dialogue, Turn
  <1>3. buffer # <<>>
    BY DEF HasLine
  <1>4. buffer \o Wired # <<>>
    BY <1>1, <1>3, ConcatEmpty
  <1>5. mode = "waiting" /\ replies = <<>> /\ reader = <<>>
    BY <1>2, <1>4 DEF Between
  <1>6. Alike
    BY <1>4, <1>5 DEF Dialogue, Unanswered, Agreed
  <1>7. Carries(buffer \o Wired, <<Command>>)
    BY <1>2 DEF Between
  <1>8. /\ FirstLine(buffer) = <<Command>>[1]
        /\ AfterLine(buffer) \in Seq(Fragment)
        /\ Carries(AfterLine(buffer) \o Wired, Tail(<<Command>>))
    BY <1>1, <1>7, LineCarried
  <1>9. Tail(<<Command>>) = <<>> /\ <<Command>>[1] = Command
    OBVIOUS
  <1>10. AfterLine(buffer) \o Wired = <<>>
    <2>1. AfterLine(buffer) \o Wired \in Seq(Fragment)
      BY <1>1, <1>8, Concat
    <2>2. QED BY <2>1, <1>8, <1>9, CarriesNothing
  <1>11. AfterLine(buffer) = <<>> /\ Wired = <<>>
    BY <1>1, <1>8, <1>10, ConcatEmpty
  <1>12. QED BY <1>2, <1>5, <1>6, <1>8, <1>9, <1>11 DEF Current

(* With nothing on the way between the two, the places between messages.   *)
LEMMA Idle ==
  ASSUME Turn', rx' \in {"armed", "lines"}, TypeOK,
         reader' = <<>>, buffer' = <<>>, Wired' = <<>>, UNCHANGED sent,
         Live' => /\ mode' \in {"waiting", "ready"}
                  /\ replies' # <<>> => replies'[1] \notin {334, 354},
         Agreed' \/ Unanswered'
  PROVE  Dialogue'
  <1>1. buffer' \o Wired' = <<>>
    BY Empty, ConcatEmpty
  <1>2. Command' = Command
    BY DEF Command
  <1>3. Carries(buffer' \o Wired', <<Command>>)
    <2>1. <<Command>> \in Seq(Line)
      BY Streams
    <2>2. QED BY <1>1, <2>1, NothingCarries
  <1>4. Between'
    BY <1>1, <1>2, <1>3 DEF Between
  <1>5. QED BY <1>4 DEF Dialogue

(* A command that is answered, and leaves the session as a client that     *)
(* gets that answer believes it to be.                                     *)
LEMMA Answer ==
  ASSUME TypeOK, Dialogue, rx = "lines", HasLine(buffer), NEW code, code \notin {334, 354},
         Send(code), buffer' = AfterLine(buffer), UNCHANGED <<begun, reader, wire, peer,
                                                              client>>,
         rx' \in {"lines", "deaf"}, connected' => connected, AgreedOn(code)'
  PROVE  Dialogue'
  <1>1. /\ begun /\ AfterLine(buffer) = <<>> /\ Wired = <<>> /\ reader = <<>>
        /\ mode = "waiting" /\ replies = <<>>
    BY CommandTaken
  <1>2. UNCHANGED <<mode, sent>>
    BY DEF client
  <1>3. Turn' /\ replies' = IF Live THEN <<code>> ELSE <<>>
    BY <1>1, <1>2, TurnAnswered
  <1>4. CASE rx' = "deaf"
    BY <1>3, <1>4, Ended
  <1>5. CASE rx' = "lines"
    <2>1. reader' = <<>> /\ buffer' = <<>> /\ Wired' = <<>>
      BY <1>1 DEF Wired
    <2>2. Agreed' \/ Unanswered'
      <3>1. CASE replies' = <<code>>
        BY <3>1 DEF Agreed, AgreedOn, FromAfter, ToAfter, EncodingAfter
      <3>2. CASE replies' = <<>>
        <4>1. buffer' \o Wired' = <<>>
          BY <2>1, Empty, ConcatEmpty
        <4>2. QED BY <3>2, <4>1, <1>1, <1>2, <1>5 DEF Unanswered
      <3>3. QED BY <3>1, <3>2, <1>3
    <2>3. mode' = "waiting" /\ (replies' # <<>> => replies'[1] \notin {334, 354})
      BY <1>1, <1>2, <1>3
    <2>4. QED BY <1>2, <1>3, <1>5, <2>1, <2>2, <2>3, Idle
  <1>6. QED BY <1>4, <1>5

(* A line that gets no answer.                                             *)
LEMMA NoAnswer ==
  ASSUME TypeOK, Dialogue, rx = "lines", HasLine(buffer), buffer' = AfterLine(buffer),
         UNCHANGED <<connected, begun, reader, wire, peer, replies, client>>,
                     rx' \in {"lines", "deaf"}
  PROVE  Dialogue'
  <1>1. /\ begun /\ AfterLine(buffer) = <<>> /\ Wired = <<>> /\ reader = <<>>
        /\ mode = "waiting" /\ replies = <<>>
    BY CommandTaken
  <1>2. UNCHANGED <<mode, sent>>
    BY DEF client
  <1>3. Turn'
    BY <1>1, <1>2, TurnKept DEF Dialogue
  <1>4. CASE rx' = "deaf"
    BY <1>3, <1>4, Ended
  <1>5. CASE rx' = "lines"
    <2>1. reader' = <<>> /\ buffer' = <<>> /\ Wired' = <<>>
      BY <1>1 DEF Wired
    <2>2. buffer' \o Wired' = <<>>
      BY <2>1, Empty, ConcatEmpty
    <2>3. Unanswered'
      BY <2>2, <1>1, <1>2, <1>5 DEF Unanswered
    <2>4. QED BY <1>1, <1>2, <1>3, <1>5, <2>1, <2>3, Idle
  <1>6. QED BY <1>4, <1>5

(* What every command of the dispatch has in common.                       *)
LEMMA Dispatched ==
  ASSUME TypeOK, Dialogue, NEW verbs, Dispatch(verbs)
  PROVE  /\ rx = "lines" /\ HasLine(buffer) /\ buffer' = AfterLine(buffer)
         /\ Current.text = sent /\ sent.verb \in verbs /\ Alike
         /\ UNCHANGED <<begun, reader, wire, peer, client, ownFrom, ownTo, ownEncoding, sent,
                        mode, typed>>
  <1>1. rx = "lines" /\ HasLine(buffer) /\ Current.text.verb \in verbs
    BY DEF Dispatch
  <1>2. Current = Command /\ Alike
    BY <1>1, CommandTaken
  <1>3. QED BY <1>1, <1>2 DEF Dispatch, Command, netVars, client

(* 530 and 500 change nothing in the session, and the client knows it.     *)
LEMMA RefusalKeeps ==
  ASSUME TypeOK, Dialogue, AuthenticationRequired \/ Unrecognised
  PROVE  Dialogue'
  <1>1. /\ rx = "lines" /\ HasLine(buffer) /\ buffer' = AfterLine(buffer)
        /\ UNCHANGED <<begun, connected, encoding, mailFrom, recipients, rx, reader, wire,
                       peer, client>>
        /\ Send(530) \/ Send(500)
    BY DEF AuthenticationRequired, Unrecognised, Dispatch, connVars, session, readVars, netVars
  <1>2. Alike
    BY <1>1, CommandTaken
  <1>3. AgreedOn(530)' /\ AgreedOn(500)'
    BY <1>1, <1>2 DEF Alike, AgreedOn, FromAfter, ToAfter, EncodingAfter, client
  <1>4. QED BY <1>1, <1>3, Answer

(* An empty line is dropped, and its sender waits in vain.                 *)
LEMMA BlankLineKeeps ==
  ASSUME TypeOK, Dialogue, BlankLine
  PROVE  Dialogue'
  BY NoAnswer DEF BlankLine, connVars, readVars, netVars

(* HELO, RSET, NOOP and its kin, and QUIT.                                 *)
LEMMA SimpleCommandKeeps ==
  ASSUME TypeOK, Dialogue, Helo \/ Rset \/ NoopOrNotImplemented \/ Quit
  PROVE  Dialogue'
  <1>1. CASE Helo
    <2>1. Dispatch({"HELO"}) /\ Send(250) /\ UNCHANGED <<connected, rx, encoding, mailFrom,
                                                         recipients>>
      BY <1>1 DEF Helo, Execute
    <2>2. AgreedOn(250)'
      BY <2>1, Dispatched DEF Alike, AgreedOn, FromAfter, ToAfter, EncodingAfter
    <2>3. QED BY <2>1, <2>2, Dispatched, Answer
  <1>2. CASE Rset
    <2>1. Dispatch({"RSET"}) /\ Send(250) /\ UNCHANGED <<connected, rx, encoding>>
          /\ mailFrom' = NULL /\ recipients' = <<>>
      BY <1>2 DEF Rset, Execute, Reset
    <2>2. AgreedOn(250)'
      BY <2>1, Dispatched DEF Alike, AgreedOn, FromAfter, ToAfter, EncodingAfter
    <2>3. QED BY <2>1, <2>2, Dispatched, Answer
  <1>3. CASE NoopOrNotImplemented
    <2>1. Send(250) \/ Send(502)
      BY <1>3 DEF NoopOrNotImplemented, Execute
    <2>2. Dispatch({"NOOP", "VRFY"}) /\ UNCHANGED <<connected, rx, encoding, mailFrom,
                                                    recipients>>
      BY <1>3 DEF NoopOrNotImplemented, Execute, session
    <2>3. AgreedOn(250)' /\ AgreedOn(502)'
      BY <2>2, Dispatched DEF Alike, AgreedOn, FromAfter, ToAfter, EncodingAfter
    <2>4. QED BY <2>1, <2>2, <2>3, Dispatched, Answer
  <1>4. CASE Quit
    <2>1. Dispatch({"QUIT"}) /\ Send(221) /\ ~connected'
          /\ UNCHANGED <<rx, encoding, mailFrom, recipients>>
      BY <1>4 DEF Quit, Execute, session
    <2>2. AgreedOn(221)'
      BY <2>1, Dispatched DEF Alike, AgreedOn, FromAfter, ToAfter, EncodingAfter
    <2>3. QED BY <2>1, <2>2, Dispatched, Answer
  <1>5. QED BY <1>1, <1>2, <1>3, <1>4

(* MAIL sets the sender the client remembers on 250, or nothing, or throws.*)
LEMMA MailKeeps ==
  ASSUME TypeOK, Dialogue, Mail
  PROVE  Dialogue'
  <1>1. Dispatch({"MAIL", "MAIL8BIT"}) /\ UNCHANGED connected
    BY DEF Mail, Execute
  <1>2. Current.text = sent /\ sent.verb \in {"MAIL", "MAIL8BIT"} /\ Alike
        /\ UNCHANGED <<sent, ownFrom, ownTo, ownEncoding>>
    BY <1>1, Dispatched
  <1>3. \/ /\ Send(504) \/ Send(503)
           /\ UNCHANGED <<encoding, mailFrom, recipients, rx>>
        \/ rx' = "deaf" /\ UNCHANGED replies
        \/ /\ mailFrom' = sent.arg /\ recipients' = <<>>
           /\ encoding' = IF sent.verb = "MAIL8BIT" THEN "UTF8" ELSE "ASCII"
           /\ Send(250) /\ UNCHANGED rx
    BY <1>2 DEF Mail
  <1>4. CASE /\ Send(504) \/ Send(503)
             /\ UNCHANGED <<encoding, mailFrom, recipients, rx>>
    <2>1. AgreedOn(504)' /\ AgreedOn(503)'
      BY <1>2, <1>4 DEF Alike, AgreedOn, FromAfter, ToAfter, EncodingAfter
    <2>2. QED BY <1>1, <1>4, <2>1, Dispatched, Answer
  <1>5. CASE rx' = "deaf" /\ UNCHANGED replies
    BY <1>1, <1>5, Dispatched, NoAnswer
  <1>6. CASE /\ mailFrom' = sent.arg /\ recipients' = <<>>
             /\ encoding' = IF sent.verb = "MAIL8BIT" THEN "UTF8" ELSE "ASCII"
             /\ Send(250) /\ UNCHANGED rx
    <2>1. AgreedOn(250)'
      BY <1>2, <1>6 DEF AgreedOn, FromAfter, ToAfter, EncodingAfter
    <2>2. QED BY <1>1, <1>6, <2>1, Dispatched, Answer
  <1>7. QED BY <1>3, <1>4, <1>5, <1>6

(* RCPT appends the recipient the client remembers on 250, or nothing.     *)
LEMMA RcptKeeps ==
  ASSUME TypeOK, Dialogue, Rcpt
  PROVE  Dialogue'
  <1>1. Dispatch({"RCPT"}) /\ UNCHANGED <<connected, encoding, mailFrom>>
    BY DEF Rcpt, Execute
  <1>2. Current.text = sent /\ sent.verb = "RCPT" /\ Alike
        /\ UNCHANGED <<sent, ownFrom, ownTo, ownEncoding>>
    BY <1>1, Dispatched
  <1>3. \/ (Send(504) \/ Send(503)) /\ UNCHANGED <<recipients, rx>>
        \/ rx' = "deaf" /\ UNCHANGED replies
        \/ recipients' = Append(recipients, sent.arg) /\ Send(250) /\ UNCHANGED rx
    BY <1>2 DEF Rcpt
  <1>4. CASE (Send(504) \/ Send(503)) /\ UNCHANGED <<recipients, rx>>
    <2>1. AgreedOn(504)' /\ AgreedOn(503)'
      BY <1>1, <1>2, <1>4 DEF Alike, AgreedOn, FromAfter, ToAfter, EncodingAfter
    <2>2. QED BY <1>1, <1>4, <2>1, Dispatched, Answer
  <1>5. CASE rx' = "deaf" /\ UNCHANGED replies
    BY <1>1, <1>5, Dispatched, NoAnswer
  <1>6. CASE recipients' = Append(recipients, sent.arg) /\ Send(250) /\ UNCHANGED rx
    <2>1. AgreedOn(250)'
      BY <1>1, <1>2, <1>6 DEF Alike, AgreedOn, FromAfter, ToAfter, EncodingAfter
    <2>2. QED BY <1>1, <1>6, <2>1, Dispatched, Answer
  <1>7. QED BY <1>3, <1>4, <1>5, <1>6

(* DATA is refused, or finds the socket closed, or begins to read a body   *)
(* of which nothing has been read and nothing typed.                       *)
LEMMA DataKeeps ==
  ASSUME TypeOK, Dialogue, Data
  PROVE  Dialogue'
  <1>1. Dispatch({"DATA"}) /\ UNCHANGED <<encoding, mailFrom, recipients>>
    BY DEF Data, Execute, session
  <1>2. sent.verb = "DATA" /\ Alike
        /\ UNCHANGED <<sent, ownFrom, ownTo, ownEncoding, mode, typed, begun, wire, reader>>
        /\ rx = "lines" /\ HasLine(buffer) /\ buffer' = AfterLine(buffer)
    BY <1>1, Dispatched
  <1>3. \/ Send(503) /\ UNCHANGED <<connected, rx>>
        \/ UNCHANGED <<connected, rx, replies>>
        \/ Send(354) /\ linesRead' = <<>> /\ rx' = "body" /\ UNCHANGED connected
    BY DEF Data
  <1>4. CASE Send(503) /\ UNCHANGED <<connected, rx>>
    <2>1. AgreedOn(503)'
      BY <1>1, <1>2, <1>4 DEF Alike, AgreedOn, FromAfter, ToAfter, EncodingAfter
    <2>2. QED BY <1>1, <1>4, <2>1, Dispatched, Answer
  <1>5. CASE UNCHANGED <<connected, rx, replies>>
    BY <1>1, <1>5, Dispatched, NoAnswer
  <1>6. CASE Send(354) /\ linesRead' = <<>> /\ rx' = "body" /\ UNCHANGED connected
    <2>1. begun /\ AfterLine(buffer) = <<>> /\ Wired = <<>> /\ reader = <<>>
          /\ mode = "waiting" /\ replies = <<>>
      BY <1>2, CommandTaken
    <2>2. Turn' /\ replies' = IF Live THEN <<354>> ELSE <<>>
      BY <1>2, <1>6, <2>1, TurnAnswered
    <2>3. reader' \o Wired' = <<>>
      <3>1. reader' = <<>> /\ Wired' = <<>>
        BY <1>2, <1>6, <2>1 DEF Wired
      <3>2. QED BY <3>1, Empty, ConcatEmpty
    <2>4. AsTyped'
      <3>1. typed' \in Seq(Line)
        BY <1>2 DEF TypeOK, ClientTyped
      <3>2. Outstanding' = Awaited(typed', 0, TRUE)
        BY <1>2, <1>6, <2>1 DEF Outstanding
      <3>3. Outstanding' \in Seq(Line)
        <4>1. 0 \in 0..Len(typed')
          BY <3>1
        <4>2. QED BY <3>1, <3>2, <4>1, AwaitedType
      <3>4. Carries(reader' \o Wired', Outstanding')
        BY <2>3, <3>3, NothingCarries
      <3>5. Len(linesRead') <= Len(typed')
        BY <1>6, <3>1
      <3>6. mode' # "body"
        BY <1>2, <2>1
      <3>7. Entire'
        BY <2>3, <3>6 DEF Entire
      <3>8. QED BY <1>6, <3>4, <3>5, <3>7 DEF AsTyped
    <2>5. ReadingBody'
      BY <1>2, <2>1, <2>2, <2>3, <2>4 DEF ReadingBody
    <2>6. Agreed'
      BY <1>1, <1>2, <2>2 DEF Agreed, Alike, AgreedOn, FromAfter, ToAfter, EncodingAfter
    <2>7. QED BY <1>6, <2>2, <2>5, <2>6 DEF Dialogue
  <1>7. QED BY <1>3, <1>4, <1>5, <1>6

-----------------------------------------------------------------------------
(* AUTH                                                                    *)

(* With no token on the way, the reader of tokens starts, or goes on.      *)
LEMMA TokenAwaited ==
  ASSUME TypeOK, Alike, begun, mode = "waiting", replies = <<>>, Send(334),
         rx' \in {"plain", "user", "pass"}, buffer' = <<>>, reader' = <<>>, Wired' = <<>>,
         UNCHANGED <<begun, mode, sent, mailFrom, recipients, encoding, ownFrom, ownTo,
                     ownEncoding>>
  PROVE  Dialogue'
  <1>1. Turn' /\ replies' = IF Live THEN <<334>> ELSE <<>>
    BY TurnAnswered
  <1>2. reader' \o Wired' = <<>>
    BY Empty, ConcatEmpty
  <1>3. "good" \in Credential
    BY DEF Credential
  <1>4. Carries(reader' \o Wired', <<Token("good")>>)
    BY <1>2, <1>3, Streams, NothingCarries
  <1>5. ReadingToken'
    BY <1>1, <1>2, <1>3, <1>4 DEF ReadingToken
  <1>6. Agreed'
    BY <1>1 DEF Agreed, Alike, AgreedOn, FromAfter, ToAfter, EncodingAfter
  <1>7. QED BY <1>1, <1>5, <1>6 DEF Dialogue

(* AUTH answers at once, throws, or asks for a token.                      *)
LEMMA AuthKeeps ==
  ASSUME TypeOK, Dialogue, Auth
  PROVE  Dialogue'
  <1>1. Dispatch({"AUTH"}) /\ UNCHANGED <<connected, encoding, mailFrom, recipients>>
    BY DEF Auth, Execute
  <1>2. /\ Alike /\ rx = "lines" /\ HasLine(buffer) /\ buffer' = AfterLine(buffer)
        /\ UNCHANGED <<sent, ownFrom, ownTo, ownEncoding, mode, begun, wire, reader>>
    BY <1>1, Dispatched
  <1>3. \/ (Send(501) \/ Send(504)) /\ UNCHANGED rx
        \/ (Send(235) \/ Send(535)) /\ rx' \in {"lines", "deaf"}
        \/ rx' = "deaf" /\ UNCHANGED replies
        \/ Send(334) /\ rx' \in {"plain", "user"}
    BY DEF Auth, Authenticate
  <1>4. AgreedOn(501)' /\ AgreedOn(504)' /\ AgreedOn(235)' /\ AgreedOn(535)'
    BY <1>1, <1>2 DEF Alike, AgreedOn, FromAfter, ToAfter, EncodingAfter
  <1>5. CASE (Send(501) \/ Send(504)) /\ UNCHANGED rx
    BY <1>1, <1>2, <1>4, <1>5, Dispatched, Answer
  <1>6. CASE (Send(235) \/ Send(535)) /\ rx' \in {"lines", "deaf"}
    BY <1>1, <1>2, <1>4, <1>6, Dispatched, Answer
  <1>7. CASE rx' = "deaf" /\ UNCHANGED replies
    BY <1>1, <1>7, Dispatched, NoAnswer
  <1>8. CASE Send(334) /\ rx' \in {"plain", "user"}
    <2>1. begun /\ AfterLine(buffer) = <<>> /\ Wired = <<>> /\ reader = <<>>
          /\ mode = "waiting" /\ replies = <<>>
      BY <1>2, CommandTaken
    <2>2. Wired' = <<>>
      BY <1>1, <1>2, <2>1 DEF Wired
    <2>3. QED BY <1>1, <1>2, <1>8, <2>1, <2>2, TokenAwaited
  <1>9. QED BY <1>3, <1>5, <1>6, <1>7, <1>8

(* The token the reader takes is alone, and the client waits.              *)
LEMMA TokenTaken ==
  ASSUME TypeOK, Dialogue, rx \in {"plain", "user", "pass"}, HasLine(reader)
  PROVE  /\ begun /\ buffer = <<>> /\ AfterLine(reader) = <<>> /\ Wired = <<>>
         /\ mode = "waiting" /\ replies = <<>> /\ Alike
  <1>1. Wired \in Seq(Fragment) /\ reader \in Seq(Fragment)
    BY Streams
  <1>2. ReadingToken /\ begun
    BY DEF Dialogue, Turn
  <1>3. reader # <<>>
    BY DEF HasLine
  <1>4. mode = "waiting" /\ replies = <<>> /\ buffer = <<>>
    BY <1>1, <1>2, <1>3, ConcatEmpty DEF ReadingToken
  <1>5. Alike
    BY <1>4 DEF Dialogue, Unanswered, Agreed
  <1>6. PICK c \in Credential : Carries(reader \o Wired, <<Token(c)>>)
    BY <1>2 DEF ReadingToken
  <1>7. /\ AfterLine(reader) \in Seq(Fragment)
        /\ Carries(AfterLine(reader) \o Wired, Tail(<<Token(c)>>))
    BY <1>1, <1>6, Streams, LineCarried
  <1>8. AfterLine(reader) \o Wired = <<>>
    <2>1. AfterLine(reader) \o Wired \in Seq(Fragment) /\ Tail(<<Token(c)>>) = <<>>
      BY <1>1, <1>7, Concat
    <2>2. QED BY <2>1, <1>7, CarriesNothing
  <1>9. QED BY <1>1, <1>2, <1>4, <1>5, <1>7, <1>8, ConcatEmpty

(* The token that ends AUTH is answered 235 or 535, in an idle connection. *)
LEMMA TokenKeeps ==
  ASSUME TypeOK, Dialogue, AuthPlainToken \/ AuthLoginPassword
  PROVE  Dialogue'
  <1>1. /\ rx \in {"plain", "user", "pass"} /\ HasLine(reader) /\ reader' = <<>>
        /\ Send(235) \/ Send(535)
        /\ rx' \in {"lines", "deaf"}
        /\ UNCHANGED <<connected, begun, encoding, mailFrom, recipients, buffer, wire, peer,
                       mode, sent,
                       ownFrom, ownTo, ownEncoding>>
    BY DEF AuthPlainToken, AuthLoginPassword, Authenticate, connVars, netVars, client
  <1>2. begun /\ buffer = <<>> /\ Wired = <<>> /\ mode = "waiting" /\ replies = <<>> /\ Alike
    BY <1>1, TokenTaken
  <1>3. Turn' /\ (replies' = <<>> \/ replies' = <<235>> \/ replies' = <<535>>)
    BY <1>1, <1>2, TurnAnswered
  <1>4. CASE rx' = "deaf"
    BY <1>3, <1>4, Ended
  <1>5. CASE rx' = "lines"
    <2>1. reader' = <<>> /\ buffer' = <<>> /\ Wired' = <<>>
      BY <1>1, <1>2 DEF Wired
    <2>2. Agreed'
      BY <1>1, <1>2, <1>3 DEF Agreed, Alike, AgreedOn, FromAfter, ToAfter, EncodingAfter
    <2>3. QED BY <1>1, <1>2, <1>3, <1>5, <2>1, <2>2, Idle
  <1>6. QED BY <1>1, <1>4, <1>5

(* The user name of LOGIN is answered with the prompt for the password.    *)
LEMMA UserKeeps ==
  ASSUME TypeOK, Dialogue, AuthLoginUser
  PROVE  Dialogue'
  <1>1. /\ rx \in {"plain", "user", "pass"} /\ HasLine(reader) /\ reader' = AfterLine(reader)
        /\ Send(334) /\ rx' = "pass"
        /\ UNCHANGED <<connected, begun, encoding, mailFrom, recipients, buffer, wire, peer,
                       mode, sent,
                       ownFrom, ownTo, ownEncoding>>
    BY DEF AuthLoginUser, connVars, session, netVars, client
  <1>2. begun /\ buffer = <<>> /\ AfterLine(reader) = <<>> /\ Wired = <<>>
        /\ mode = "waiting" /\ replies = <<>> /\ Alike
    BY <1>1, TokenTaken
  <1>3. Wired' = <<>>
    BY <1>1, <1>2 DEF Wired
  <1>4. QED BY <1>1, <1>2, <1>3, TokenAwaited

(* The stream ends, or the socket is gone: the 535 reaches nobody.         *)
LEMMA AuthReadFailsKeeps ==
  ASSUME TypeOK, Dialogue, AuthReadFails
  PROVE  Dialogue'
  <1>1. /\ rx \in {"plain", "user", "pass"} /\ reader' = <<>>
        /\ UNCHANGED <<connected, begun, encoding, mailFrom, recipients, buffer, wire, peer,
                       mode, sent,
                       ownFrom, ownTo, ownEncoding>>
    BY DEF AuthReadFails, connVars, netVars, client
  <1>2. /\ UNCHANGED replies
        /\ \/ connected /\ peer = "closed" /\ wire = <<>> /\ rx' \in {"lines", "deaf"}
           \/ rx' = "deaf"
    BY DEF AuthReadFails, Authenticate, Send
  <1>3. begun /\ ReadingToken /\ Agreed
    BY <1>1 DEF Dialogue, Turn, Unanswered
  <1>4. Turn'
    BY <1>1, <1>2, <1>3, TurnKept DEF Dialogue
  <1>5. CASE rx' = "deaf"
    BY <1>4, <1>5, Ended
  <1>6. CASE peer = "closed" /\ wire = <<>> /\ rx' = "lines"
    <2>1. buffer' = <<>> /\ Wired' = <<>> /\ ~Live'
      BY <1>1, <1>3, <1>6 DEF Wired, Live, ReadingToken
    <2>2. Agreed'
      BY <1>1, <1>2, <1>3, AgreedKept
    <2>3. QED BY <1>1, <1>4, <1>6, <2>1, <2>2, Idle
  <1>7. QED BY <1>2, <1>5, <1>6

(* A token that was cut off is a token: the user name is followed by the   *)
(* prompt for the password, the others by an answer, and all reach nobody. *)
LEMMA AuthUnfinishedKeeps ==
  ASSUME TypeOK, Dialogue, AuthUnfinished
  PROVE  Dialogue'
  <1>1. /\ rx \in {"plain", "user", "pass"} /\ reader # <<>> /\ reader' = <<>>
        /\ connected /\ peer = "closed" /\ wire = <<>>
        /\ UNCHANGED <<connected, begun, encoding, mailFrom, recipients, buffer, wire, peer,
                       mode, sent,
                       ownFrom, ownTo, ownEncoding>>
    BY DEF AuthUnfinished, LineUnfinished, connVars, netVars, client
  <1>2. \/ rx' \in {"lines", "deaf"}
        \/ Send(334) /\ rx' = "pass"
    BY DEF AuthUnfinished, Authenticate
  <1>3. UNCHANGED replies
    BY <1>1 DEF AuthUnfinished, Authenticate, Send
  <1>4. begun /\ ReadingToken /\ Agreed
    BY <1>1 DEF Dialogue, Turn, Unanswered
  <1>5. buffer' = <<>> /\ Wired' = <<>> /\ ~Live'
    BY <1>1, <1>4 DEF Wired, Live, ReadingToken
  <1>6. reader \o Wired # <<>>
    BY <1>1, Streams, ConcatEmpty
  <1>7. mode = "waiting" /\ replies = <<>> /\ Alike
    BY <1>4, <1>6 DEF ReadingToken, Agreed
  <1>8. Turn'
    BY <1>1, <1>3, <1>4, TurnKept DEF Dialogue
  <1>9. CASE rx' = "deaf"
    BY <1>8, <1>9, Ended
  <1>10. CASE rx' = "lines"
    <2>1. Agreed'
      BY <1>1, <1>3, <1>4, AgreedKept
    <2>2. QED BY <1>1, <1>5, <1>8, <1>10, <2>1, Idle
  <1>11. CASE Send(334) /\ rx' = "pass"
    BY <1>1, <1>4, <1>5, <1>7, <1>11, TokenAwaited
  <1>12. QED BY <1>2, <1>9, <1>10, <1>11

-----------------------------------------------------------------------------
(* The body of DATA                                                        *)

(* What is awaited of a message is a sequence of lines.                    *)
LEMMA OutstandingType ==
  ASSUME TypeOK, AsTyped
  PROVE  /\ Outstanding \in Seq(Line) /\ typed \in Seq(Line)
         /\ linesRead \in Seq(Line \union {NULL}) /\ Len(linesRead) \in 0..Len(typed)
         /\ (mode = "waiting") \in BOOLEAN
  <1>1. typed \in Seq(Line) /\ linesRead \in Seq(Line \union {NULL})
    BY DEF TypeOK, QueuesTyped, ClientTyped
  <1>2. Len(linesRead) \in 0..Len(typed)
    BY <1>1 DEF AsTyped
  <1>3. QED BY <1>1, <1>2, AwaitedType DEF Outstanding

(* What the reader takes was on its way already; a stream that has ended   *)
(* gives it nothing.                                                       *)
LEMMA FillKeeps ==
  ASSUME TypeOK, Dialogue, ReaderFill
  PROVE  Dialogue'
  <1>1. Wired \in Seq(Fragment) /\ wire \in Seq(Fragment) /\ reader \in Seq(Fragment)
    BY Streams
  <1>2. PICK k \in 1..Len(wire) : /\ reader' = reader \o SubSeq(wire, 1, k)
                                  /\ wire' = SubSeq(wire, k + 1, Len(wire))
    BY DEF ReaderFill
  <1>3. reader' \o Wired' = reader \o Wired
    <2>1. Wired = wire /\ Wired' = wire'
      BY DEF Wired, ReaderFill, connVars
    <2>2. QED BY <2>1, <1>1, <1>2, Resplit
  <1>4. /\ rx \in {"body", "plain", "user", "pass"} /\ begun
        /\ UNCHANGED <<connected, begun, encoding, mailFrom, recipients, rx, buffer,
                       linesRead, replies,
                       peer, mode, sent, typed, ownFrom, ownTo, ownEncoding>>
    BY DEF ReaderFill, connVars, session, client, Dialogue, Turn
  <1>5. Turn'
    BY <1>4, TurnKept DEF Dialogue
  <1>6. Agreed'
    BY <1>4, AgreedKept DEF Dialogue, Unanswered
  <1>7. rx # "body" => ReadingToken'
    BY <1>3, <1>4 DEF Dialogue, ReadingToken
  <1>8. rx = "body" => ReadingBody'
    <2>1. ~CutOff
      BY <1>1, <1>2 DEF CutOff
    <2>2. cut' = cut /\ Outstanding' = Outstanding
      BY <1>4 DEF ReaderFill, Outstanding
    <2>3. AsTyped => AsTyped'
      BY <1>3, <1>4, <2>2 DEF AsTyped, Entire
    <2>4. QED BY <1>3, <1>4, <2>1, <2>3 DEF Dialogue, ReadingBody
  <1>9. QED BY <1>4, <1>5, <1>6, <1>7, <1>8 DEF Dialogue

(* The next line of the reader is the next line the client sent.           *)
LEMMA LineTaken ==
  ASSUME TypeOK, Dialogue, rx = "body", HasLine(reader)
  PROVE  /\ begun /\ ReadingBody /\ AsTyped /\ Agreed /\ replies = <<>>
         /\ Outstanding # <<>> /\ FirstLine(reader) = Outstanding[1]
         /\ AfterLine(reader) \in Seq(Fragment)
         /\ Carries(AfterLine(reader) \o Wired, Tail(Outstanding))
         /\ Len(AfterLine(reader) \o Wired) = Len(reader \o Wired) - 2
  <1>1. Wired \in Seq(Fragment) /\ reader \in Seq(Fragment)
    BY Streams
  <1>3. reader # <<>>
    BY DEF HasLine
  <1>2. begun /\ ReadingBody /\ AsTyped /\ Agreed
    BY <1>3 DEF Dialogue, Turn, ReadingBody, CutOff, Unanswered
  <1>4. replies = <<>>
    BY <1>1, <1>2, <1>3, ConcatEmpty DEF ReadingBody
  <1>5. Outstanding \in Seq(Line) /\ Carries(reader \o Wired, Outstanding)
    BY <1>2, OutstandingType DEF AsTyped
  <1>6. QED BY <1>1, <1>2, <1>4, <1>5, LineCarried

(* A line of the body that is not the dot is the next line typed, with its *)
(* dot restored.                                                           *)
LEMMA BodyLineKeeps ==
  ASSUME TypeOK, Dialogue, BodyLine
  PROVE  Dialogue'
  <1> DEFINE n == Len(linesRead)
             l == typed[n + 1]
             ended == mode = "waiting"
  <1>1. /\ rx = "body" /\ HasLine(reader) /\ FirstLine(reader) # Dot
        /\ linesRead' = Append(linesRead, Unstuffed(FirstLine(reader))) /\ reader' = AfterLine(reader)
        /\ UNCHANGED <<connected, begun, encoding, mailFrom, recipients, rx, buffer, wire,
                       replies,
                       peer, mode, sent, typed, ownFrom, ownTo, ownEncoding>>
    BY DEF BodyLine, connVars, session, netVars, client
  <1>2. /\ begun /\ ReadingBody /\ AsTyped /\ Agreed /\ replies = <<>>
        /\ Outstanding # <<>> /\ FirstLine(reader) = Outstanding[1]
        /\ AfterLine(reader) \in Seq(Fragment)
        /\ Carries(AfterLine(reader) \o Wired, Tail(Outstanding))
        /\ Len(AfterLine(reader) \o Wired) = Len(reader \o Wired) - 2
    BY <1>1, LineTaken
  <1>3. /\ Outstanding \in Seq(Line) /\ typed \in Seq(Line)
        /\ linesRead \in Seq(Line \union {NULL}) /\ n \in 0..Len(typed) /\ ended \in BOOLEAN
    BY <1>2, OutstandingType
  <1>4. n < Len(typed) /\ Outstanding[1] = Stuffed(l) /\ Tail(Outstanding) = Awaited(typed, n + 1, ended)
    <2>1. Outstanding = Awaited(typed, n, ended)
      BY DEF Outstanding
    <2> HIDE DEF n, ended
    <2>2. Awaited(typed, n, ended) # <<>> /\ Awaited(typed, n, ended)[1] # Dot
      BY <1>1, <1>2, <2>1
    <2>3. QED BY <1>3, <2>1, <2>2, AwaitedLine
  <1>5. l \in Line
    BY <1>3, <1>4
  <1>6. linesRead' = Append(linesRead, l) /\ Len(linesRead') = n + 1
    <2>1. Unstuffed(FirstLine(reader)) = l
      BY <1>2, <1>4, <1>5, StuffingUndone
    <2>2. QED BY <1>1, <1>3, <2>1
  <1>7. Wired' = Wired /\ Live' = Live
    BY <1>1 DEF Wired, Live
  <1>8. Outstanding' = Tail(Outstanding)
    BY <1>1, <1>4, <1>6 DEF Outstanding
  <1>9. AsTyped'
    <2>1. Len(linesRead') <= Len(typed')
      BY <1>1, <1>3, <1>4, <1>6
    <2>2. \A i \in DOMAIN linesRead' : linesRead'[i] = typed'[i]
      BY <1>1, <1>2, <1>3, <1>6 DEF AsTyped
    <2>3. Carries(reader' \o Wired', Outstanding')
      BY <1>1, <1>2, <1>7, <1>8
    <2>4. Entire'
      <3>1. Len(Outstanding') = Len(Outstanding) - 1 /\ Len(Outstanding) \in Nat
        BY <1>2, <1>3, <1>8
      <3>2. connected /\ peer # "reset" =>
              Len(reader \o Wired) = 2 * Len(Outstanding) - (IF cut THEN 1 ELSE 0)
        <4>1. reader # <<>>
          BY <1>1 DEF HasLine
        <4>2. reader \o Wired # <<>>
          BY <4>1, Streams, ConcatEmpty
        <4>3. QED BY <1>2, <4>2 DEF AsTyped, Entire
      <3>3. Len(reader' \o Wired') = Len(reader \o Wired) - 2
        BY <1>1, <1>2, <1>7
      <3>4. cut' = cut
        BY DEF BodyLine, netVars
      <3>5. QED BY <1>1, <3>1, <3>2, <3>3, <3>4 DEF Entire
    <2>5. QED BY <1>1, <1>2, <2>1, <2>2, <2>3, <2>4 DEF AsTyped
  <1>10. ReadingBody'
    BY <1>1, <1>2, <1>9 DEF ReadingBody
  <1>11. Turn'
    BY <1>1, <1>2, TurnKept DEF Dialogue
  <1>12. Agreed'
    BY <1>1, <1>2, AgreedKept
  <1>13. QED BY <1>1, <1>10, <1>11, <1>12 DEF Dialogue

(* The dot ends the message when every line typed has been read.           *)
LEMMA BodyEndKeeps ==
  ASSUME TypeOK, Dialogue, BodyEnd
  PROVE  Dialogue'
  <1>1. /\ rx = "body" /\ HasLine(reader) /\ FirstLine(reader) = Dot
        /\ reader' = <<>> /\ Send(250) /\ rx' = "handing"
        /\ UNCHANGED <<connected, begun, encoding, mailFrom, recipients, buffer, linesRead,
                       wire,
                       peer, mode, sent, typed, ownFrom, ownTo, ownEncoding>>
    BY DEF BodyEnd, connVars, session, netVars, client
  <1>2. /\ begun /\ ReadingBody /\ AsTyped /\ Agreed /\ replies = <<>>
        /\ Outstanding # <<>> /\ FirstLine(reader) = Outstanding[1]
        /\ AfterLine(reader) \in Seq(Fragment)
        /\ Carries(AfterLine(reader) \o Wired, Tail(Outstanding))
    BY <1>1, LineTaken
  <1>3. /\ Outstanding \in Seq(Line) /\ typed \in Seq(Line)
        /\ linesRead \in Seq(Line \union {NULL}) /\ Len(linesRead) \in 0..Len(typed)
        /\ (mode = "waiting") \in BOOLEAN
    BY <1>2, OutstandingType
  <1>4. Len(linesRead) = Len(typed) /\ mode = "waiting" /\ Tail(Outstanding) = <<>>
    <2>1. Awaited(typed, Len(linesRead), mode = "waiting") # <<>>
          /\ Awaited(typed, Len(linesRead), mode = "waiting")[1] = Dot
      BY <1>1, <1>2 DEF Outstanding
    <2>2. QED BY <1>3, <2>1, AwaitedDot DEF Outstanding
  <1>5. linesRead = typed
    <2>1. typed \in Seq(Line \union {NULL})
      BY <1>3
    <2>2. \A i \in 1..Len(linesRead) : linesRead[i] = typed[i]
      BY <1>2, <1>3 DEF AsTyped
    <2>3. QED BY <1>3, <1>4, <2>1, <2>2, SeqEqual
  <1>6. Wired = <<>> /\ buffer = <<>>
    <2>1. Wired \in Seq(Fragment)
      BY Streams
    <2>2. AfterLine(reader) \o Wired \in Seq(Fragment)
      BY <1>2, <2>1, Concat
    <2>3. AfterLine(reader) \o Wired = <<>>
      BY <1>2, <1>4, <2>2, CarriesNothing
    <2>4. QED BY <1>2, <2>1, <2>3, ConcatEmpty DEF ReadingBody
  <1>7. Turn' /\ replies' = IF Live THEN <<250>> ELSE <<>>
    BY <1>1, <1>2, <1>4, TurnAnswered
  <1>8. buffer' \o Wired' = <<>>
    <2>1. buffer' = <<>> /\ Wired' = <<>>
      BY <1>1, <1>6 DEF Wired
    <2>2. QED BY <2>1, Empty, ConcatEmpty
  <1>9. Between'
    <2>1. Command' = Command
      BY <1>1 DEF Command
    <2>2. Carries(buffer' \o Wired', <<Command>>)
      BY <1>8, Streams, NothingCarries
    <2>3. QED BY <1>1, <1>4, <1>7, <1>8, <2>1, <2>2 DEF Between
  <1>10. Handing'
    BY <1>1, <1>2, <1>4, <1>5, <1>6, <1>7 DEF Handing, ReadingBody
  <1>11. Agreed'
    BY <1>1, <1>2, <1>7 DEF Agreed, Alike, AgreedOn, FromAfter, ToAfter, EncodingAfter, ReadingBody
  <1>12. QED BY <1>1, <1>7, <1>9, <1>10, <1>11 DEF Dialogue

(* Of a stream that has ended, a fragment without a line break is left: the*)
(* beginning of the line that was cut, and no line is behind it.           *)
LEMMA UnfinishedTaken ==
  ASSUME TypeOK, Dialogue, rx = "body", LineUnfinished
  PROVE  /\ begun /\ ReadingBody /\ AsTyped /\ Agreed /\ replies = <<>> /\ cut
         /\ Wired = <<>> /\ Outstanding \in Seq(Line) /\ Len(Outstanding) = 1
         /\ Rest(reader) = Beginnings(Outstanding[1])
  <1>1. /\ reader \in Seq(Fragment) /\ reader # <<>> /\ ~HasLine(reader) /\ Wired = <<>>
        /\ connected /\ peer = "closed"
    BY Streams DEF LineUnfinished, Wired
  <1>2. begun /\ ReadingBody /\ AsTyped /\ Agreed
    BY <1>1 DEF Dialogue, Turn, ReadingBody, CutOff, Unanswered
  <1>3. reader \o Wired = reader
    BY <1>1, ConcatEmpty
  <1>4. replies = <<>>
    BY <1>1, <1>2, <1>3 DEF ReadingBody
  <1>5. Outstanding \in Seq(Line) /\ Carries(reader, Outstanding)
    BY <1>2, <1>3, OutstandingType DEF AsTyped
  <1>6. Len(Outstanding) \in Nat /\ Len(reader) \in Nat /\ Len(reader) >= 1
        /\ Len(reader) <= 2 * Len(Outstanding)
    BY <1>1, <1>5 DEF Carries
  <1>7. Len(Outstanding) >= 1 /\ 1 \in DOMAIN Outstanding
    BY <1>5, <1>6
  <1>8. /\ 2 * 1 - 1 <= Len(reader) =>
             reader[2 * 1 - 1] = [line |-> Outstanding[1], end |-> FALSE]
        /\ 2 * 1 <= Len(reader) => reader[2 * 1] = [line |-> Outstanding[1], end |-> TRUE]
    BY <1>5, <1>7 DEF Carries
  <1>9. Len(reader) = 1
    <2>1. ASSUME 2 <= Len(reader) PROVE FALSE
      <3>1. reader[2].end /\ 2 \in DOMAIN reader
        BY <1>1, <1>6, <1>8, <2>1
      <3>2. QED BY <1>1, <3>1 DEF HasLine
    <2>2. QED BY <1>6, <2>1
  <1>10. reader[1].line = Outstanding[1]
    BY <1>6, <1>8
  <1>11. Len(reader) = 2 * Len(Outstanding) - (IF cut THEN 1 ELSE 0)
    BY <1>1, <1>2, <1>3 DEF AsTyped, Entire
  <1>12. cut /\ Len(Outstanding) = 1
    <2>1. CASE cut
      <3>1. 1 = 2 * Len(Outstanding) - 1
        BY <1>9, <1>11, <2>1
      <3>2. \A k \in Nat : 1 = 2 * k - 1 => k = 1
        OBVIOUS
      <3>3. Len(Outstanding) = 1
        BY <1>6, <3>1, <3>2, Zenon
      <3>4. QED BY <2>1, <3>3
    <2>2. CASE ~cut
      <3>1. 2 * Len(Outstanding) >= 2
        BY <1>6, <1>7
      <3>2. QED BY <1>9, <1>11, <2>2, <3>1
    <2>3. QED BY <2>1, <2>2
  <1>13. Rest(reader) = Beginnings(Outstanding[1])
    BY <1>9, <1>10 DEF Rest
  <1>14. QED BY <1>1, <1>2, <1>4, <1>5, <1>12, <1>13

(* The beginning of the final dot ends the message that was typed; the dot *)
(* a typed line begins with ends it one line early; and of any other line  *)
(* the stream ends behind what was read.                                   *)
LEMMA BodyUnfinishedKeeps ==
  ASSUME TypeOK, Dialogue, BodyUnfinished
  PROVE  Dialogue'
  <1> DEFINE n == Len(linesRead)
             ended == mode = "waiting"
  <1>1. /\ rx = "body" /\ LineUnfinished /\ reader' = <<>>
        /\ UNCHANGED <<connected, begun, encoding, mailFrom, recipients, buffer, wire, peer,
                       cut, mode, sent, typed, ownFrom, ownTo, ownEncoding>>
    BY DEF BodyUnfinished, connVars, session, netVars, client
  <1>2. /\ begun /\ ReadingBody /\ AsTyped /\ Agreed /\ replies = <<>> /\ cut
        /\ Wired = <<>> /\ Outstanding \in Seq(Line) /\ Len(Outstanding) = 1
        /\ Rest(reader) = Beginnings(Outstanding[1])
    BY <1>1, UnfinishedTaken
  <1>3. wire = <<>> /\ peer = "closed"
    BY <1>1 DEF LineUnfinished
  <1>4. replies' = <<>>
    BY <1>2, <1>3 DEF BodyUnfinished, Send
  <1>5. Turn'
    BY <1>1, <1>2, <1>4, TurnKept DEF Dialogue
  <1>6. Agreed'
    BY <1>1, <1>2, <1>4, AgreedKept
  <1>7. buffer' \o Wired' = <<>> /\ reader' \o Wired' = <<>>
    <2>1. buffer' = <<>> /\ Wired' = <<>> /\ reader' = <<>>
      BY <1>1, <1>2 DEF Wired, ReadingBody
    <2>2. QED BY <2>1, Empty, ConcatEmpty
  <1>8. CASE rx' = "body"
    <2>1. CutOff'
      BY <1>1, <1>3 DEF CutOff
    <2>2. ReadingBody'
      BY <1>1, <1>2, <1>4, <1>7, <2>1 DEF ReadingBody
    <2>3. QED BY <1>5, <1>6, <1>8, <2>2 DEF Dialogue
  <1>9. CASE rx' = "handing" /\ UNCHANGED linesRead /\ Dot \in Rest(reader)
    <2>1. /\ typed \in Seq(Line) /\ linesRead \in Seq(Line \union {NULL})
          /\ n \in 0..Len(typed) /\ ended \in BOOLEAN
      BY <1>2, OutstandingType
    <2>2. Outstanding = Awaited(typed, n, ended) /\ Outstanding # <<>>
      BY <1>2 DEF Outstanding
    <2>3. \A i \in 1..n : linesRead[i] = typed[i]
      BY <1>2, <2>1 DEF AsTyped
    <2>4. Outstanding[1] \in Line
      BY <1>2
    <2>5. ASSUME Outstanding[1] = Dot
          PROVE  linesRead' = typed' /\ mode' \in {"waiting", "ready"}
      <3>1. n = Len(typed) /\ ended
        <4> HIDE DEF n, ended
        <4> QED BY <2>1, <2>2, <2>5, AwaitedDot
      <3>2. linesRead = typed
        <4>1. typed \in Seq(Line \union {NULL})
          BY <2>1
        <4>2. QED BY <2>1, <2>3, <3>1, <4>1, SeqEqual
      <3>3. QED BY <1>1, <1>9, <3>1, <3>2
    <2>6. ASSUME Outstanding[1] # Dot
          PROVE  CutShort'
      <3>1. n < Len(typed) /\ Outstanding[1] = Stuffed(typed[n + 1])
        <4> HIDE DEF n, ended
        <4> QED BY <2>1, <2>2, <2>6, AwaitedLine
      <3>2. Len(Outstanding) = Len(typed) - n + (IF ended THEN 1 ELSE 0)
        <4> HIDE DEF n, ended
        <4> QED BY <2>1, <2>2, AwaitedType
      <3>3. n = Len(typed) - 1 /\ Len(typed) \in Nat
        <4> HIDE DEF n, ended
        <4>4. 1 = Len(typed) - n + (IF ended THEN 1 ELSE 0)
          BY <1>2, <3>2, Zenon
        <4>1. Len(typed) \in Nat /\ n \in Nat /\ n < Len(typed)
              /\ 1 = Len(typed) - n + (IF ended THEN 1 ELSE 0)
          BY <2>1, <3>1, <4>4
        <4>2. n = Len(typed) - 1
          <5>1. CASE ended
            BY <4>1, <5>1
          <5>2. CASE ~ended
            BY <4>1, <5>2
          <5>3. QED BY <5>1, <5>2
        <4>3. QED BY <4>1, <4>2 DEF n
      <3>4. typed[n + 1].dots > 0
        <4>1. typed[n + 1] \in Line
          BY <2>1, <3>1
        <4>2. Stuffed(typed[n + 1]).dots > 0
          BY <1>2, <1>9, <2>4, <2>6, <3>1, DotBegins
        <4>3. QED BY <4>1, <4>2 DEF Stuffed, Line
      <3>5. linesRead = SubSeq(typed, 1, Len(typed) - 1)
        <4> DEFINE t == SubSeq(typed, 1, n)
        <4>1. t \in Seq(Line \union {NULL}) /\ Len(t) = n /\ \A i \in 1..n : t[i] = typed[i]
          BY <2>1
        <4> HIDE DEF t
        <4>2. linesRead = t
          BY <2>1, <2>3, <4>1, SeqEqual
        <4>3. QED BY <3>3, <4>2 DEF t
      <3>6. typed # <<>> /\ typed[Len(typed)].dots > 0
        BY <2>1, <3>3, <3>4
      <3>7. QED BY <1>1, <1>2, <1>3, <1>4, <1>9, <3>5, <3>6 DEF CutShort
    <2>7. (linesRead' = typed' /\ mode' \in {"waiting", "ready"}) \/ CutShort'
      BY <2>5, <2>6
    <2>8. Handing'
      BY <1>1, <1>2, <1>4, <2>7 DEF Handing, ReadingBody
    <2>9. Between'
      <3>1. Command' = Command /\ ~Live'
        BY <1>1, <1>3 DEF Command, Live
      <3>2. Carries(buffer' \o Wired', <<Command>>)
        BY <1>7, Streams, NothingCarries
      <3>3. QED BY <1>1, <1>7, <3>1, <3>2 DEF Between
    <2>10. QED BY <1>5, <1>6, <1>9, <2>8, <2>9 DEF Dialogue
  <1>10. QED BY <1>1, <1>8, <1>9 DEF BodyUnfinished

(* A body that breaks off is never finished: null lines gather, or the     *)
(* socket is closed and the place is between commands again.               *)
LEMMA BodyBreaksKeeps ==
  ASSUME TypeOK, Dialogue, BodyNull \/ BodyReadFails
  PROVE  Dialogue'
  <1>1. /\ rx = "body" /\ begun /\ ReadingBody /\ Agreed
        /\ UNCHANGED <<begun, encoding, mailFrom, recipients, buffer, wire, replies,
                       peer, mode, sent, typed, ownFrom, ownTo, ownEncoding>>
    BY DEF BodyNull, BodyReadFails, connVars, session, netVars, client, Dialogue, Turn, Unanswered
  <1>2. Turn'
    BY <1>1, TurnKept DEF Dialogue
  <1>3. Agreed'
    BY <1>1, AgreedKept
  <1>4. CASE rx' = "body" /\ BodyNull
    <2>1. UNCHANGED <<connected, reader>> /\ CutOff
      BY <1>4 DEF BodyNull, connVars, CutOff
    <2>2. CutOff' /\ Wired' = Wired
      BY <1>1, <2>1 DEF CutOff, Wired
    <2>3. ReadingBody'
      BY <1>1, <2>1, <2>2 DEF ReadingBody
    <2>4. QED BY <1>2, <1>3, <1>4, <2>3 DEF Dialogue
  <1>5. CASE rx' = "deaf"
    BY <1>2, <1>5, Ended
  <1>6. CASE BodyReadFails
    <2>1. reader' = <<>> /\ buffer' = <<>> /\ Wired' = <<>> /\ ~Live' /\ rx' = "lines"
      BY <1>1, <1>6 DEF BodyReadFails, Wired, Live, ReadingBody
    <2>2. QED BY <1>1, <1>2, <1>3, <2>1, Idle
  <1>7. rx' \in {"body", "deaf"} \/ BodyReadFails
    BY <1>1 DEF BodyNull
  <1>8. QED BY <1>4, <1>5, <1>6, <1>7 DEF BodyReadFails

(* After the hand-over the connection is between two commands, or closed.  *)
LEMMA HandleReceivedKeeps ==
  ASSUME TypeOK, Dialogue, HandleReceived
  PROVE  Dialogue'
  <1>1. /\ rx = "handing" /\ rx' \in {"lines", "deaf"} /\ begun /\ Between /\ Agreed
        /\ UNCHANGED <<begun, encoding, mailFrom, recipients, buffer, reader, wire, replies,
                       peer, mode, sent, ownFrom, ownTo, ownEncoding>>
        /\ connected' => connected
    BY DEF HandleReceived, connVars, session, netVars, client, Dialogue, Turn, Unanswered
  <1>2. Turn'
    BY <1>1, TurnKept DEF Dialogue
  <1>3. Agreed'
    BY <1>1, AgreedKept
  <1>4. Wired' \in {Wired, <<>>} /\ (Live' => Live) /\ Command' = Command
    BY <1>1 DEF Wired, Live, Command
  <1>5. Between'
    <2>1. buffer \in Seq(Fragment) /\ <<Command>> \in Seq(Line)
      BY Streams
    <2>2. FewerBehind(buffer)
      BY <1>4, <2>1, WireKept
    <2>3. QED BY <1>1, <1>4, <2>1, <2>2 DEF Between, FewerBehind
  <1>6. QED BY <1>1, <1>2, <1>3, <1>5 DEF Dialogue

-----------------------------------------------------------------------------
(* The constructor, the clock, and the threads that close the connection   *)

(* The greeting is the reply to no command: the client awaits it before it *)
(* sends anything.                                                         *)
LEMMA BeginKeeps ==
  ASSUME TypeOK, Dialogue, Begin
  PROVE  Dialogue'
  <1>1. /\ ~begun /\ begun'
        /\ Send(220) \/ (peer = "reset" /\ UNCHANGED replies)
        /\ UNCHANGED <<connected, encoding, mailFrom, recipients, rx, buffer, reader, wire,
                       peer, mode, sent,
                       ownFrom, ownTo, ownEncoding>>
    BY DEF Begin, session, readVars, netVars, client
  <1>2. /\ mode = "waiting" /\ replies = <<>> /\ wire = <<>> /\ buffer = <<>>
        /\ rx \in {"armed", "deaf", "done"}
    BY <1>1 DEF Dialogue, Turn
  <1>3. replies' = IF Live THEN <<220>> ELSE <<>>
    BY <1>1, <1>2 DEF Send, Live
  <1>4. Turn'
    <2>1. Len(replies') <= 1
      BY <1>3
    <2>2. QED BY <1>1, <1>2, <2>1 DEF Turn
  <1>5. CASE rx = "armed"
    <2>1. reader' = <<>> /\ buffer' = <<>> /\ Wired' = <<>>
      BY <1>1, <1>2, <1>5 DEF Dialogue, Between, Wired
    <2>2. Alike
      BY <1>1, <1>2, <1>5 DEF Dialogue, Unanswered, Agreed
    <2>3. Agreed'
      BY <1>1, <1>3, <2>2 DEF Agreed, Alike, AgreedOn, FromAfter, ToAfter, EncodingAfter
    <2>4. QED BY <1>1, <1>2, <1>3, <1>4, <1>5, <2>1, <2>3, Idle
  <1>6. QED BY <1>1, <1>2, <1>4, <1>5, Ended

(* A connection another thread closes gets nothing more from its client.   *)
LEMMA CloserKeeps ==
  ASSUME TypeOK, Dialogue, TimePasses \/ IdleClose \/ CloseAll
  PROVE  Dialogue'
  <1>1. /\ UNCHANGED <<begun, rx, buffer, reader, linesRead, replies, mode, sent, typed,
                       mailFrom, recipients, encoding, ownFrom, ownTo, ownEncoding, wire, peer,
                       cut>>
        /\ connected' => connected
    BY DEF TimePasses, IdleClose, CloseAll, connVars, session, readVars, netVars, client
  <1>2. Wired' \in {Wired, <<>>} /\ (Live' => Live) /\ (connected' => Wired' = Wired)
    BY <1>1 DEF Wired, Live
  <1>3. \A t \in Seq(Fragment) : FewerBehind(t)
    BY <1>2, WireKept
  <1>4. AsTyped => Entire'
    BY <1>1, <1>2 DEF AsTyped, Entire, Outstanding
  <1>5. QED BY <1>1, <1>2, <1>3, <1>4, Weaker

(* A stuttering step.                                                      *)
LEMMA UnchangedKeeps ==
  ASSUME TypeOK, Dialogue, UNCHANGED vars
  PROVE  Dialogue'
  <1>1. Wired' = Wired /\ Live' = Live
    BY DEF vars, Wired, Live
  <1>2. \A t \in Seq(Fragment) : FewerBehind(t)
    BY <1>1, WireKept
  <1>3. AsTyped => Entire'
    BY <1>1 DEF vars, AsTyped, Entire, Outstanding
  <1>4. QED BY <1>1, <1>2, <1>3, Weaker DEF vars

-----------------------------------------------------------------------------
(* The client                                                              *)

(* A client that has gone sends nothing more, and may leave a line that    *)
(* lacks its end.                                                          *)
LEMMA LeaveKeeps ==
  ASSUME TypeOK, CutIsGone, Dialogue, ClientCloses \/ ClientResets
  PROVE  Dialogue'
  <1>1. /\ UNCHANGED <<begun, rx, buffer, reader, linesRead, replies, mode, sent, typed,
                       connected,
                       mailFrom, recipients, encoding, ownFrom, ownTo, ownEncoding>>
        /\ peer' # "open" /\ (cut => cut')
    BY DEF ClientCloses, ClientResets, clientRest, connVars, session, readVars, client
  <1>2. ~Live' /\ Outstanding' = Outstanding
    BY <1>1 DEF Live, Outstanding
  <1>3. CASE ClientResets
    <2>1. Wired' \in {Wired, <<>>} /\ wire' = <<>> /\ peer' = "reset"
      BY <1>1, <1>3 DEF ClientResets, Wired
    <2>2. \A t \in Seq(Fragment) : FewerBehind(t)
      BY <2>1, WireKept
    <2>3. AsTyped => Entire'
      BY <2>1 DEF Entire
    <2>4. QED BY <1>1, <1>2, <2>1, <2>2, <2>3, Weaker
  <1>4. CASE ClientCloses /\ UNCHANGED <<wire, cut>>
    <2>1. Wired' = Wired /\ wire' = wire /\ peer = "open"
      BY <1>1, <1>4 DEF ClientCloses, Wired
    <2>2. \A t \in Seq(Fragment) : FewerBehind(t)
      BY <2>1, WireKept
    <2>3. AsTyped => Entire'
      BY <1>1, <1>2, <1>4, <2>1 DEF AsTyped, Entire
    <2>4. QED BY <1>1, <1>2, <2>1, <2>2, <2>3, Weaker
  <1>5. CASE /\ ClientCloses /\ wire # <<>> /\ cut'
             /\ wire' = SubSeq(wire, 1, Len(wire) - 1)
    <2>1. peer = "open" /\ ~cut
      BY <1>5 DEF ClientCloses, CutIsGone
    <2>2. ASSUME NEW t \in Seq(Fragment), connected
          PROVE  FewerBehind(t) /\ Len(t \o Wired') = Len(t \o Wired) - 1
      <3>1. Wired # <<>> /\ Wired' = SubSeq(Wired, 1, Len(Wired) - 1)
        BY <1>1, <1>5, <2>2 DEF Wired
      <3>2. QED BY <3>1, WireCut
    <2>3. ASSUME NEW t \in Seq(Fragment), ~connected
          PROVE  FewerBehind(t)
      <3>1. Wired' \in {Wired, <<>>}
        BY <1>1, <2>3 DEF Wired
      <3>2. QED BY <3>1, WireKept
    <2>4. AsTyped => Entire'
      <3> SUFFICES ASSUME AsTyped, connected, reader \o Wired' # <<>>
                   PROVE  Len(reader \o Wired') = 2 * Len(Outstanding) - 1
        BY <1>1, <1>2, <1>5 DEF Entire
      <3>1. reader \in Seq(Fragment) /\ Outstanding \in Seq(Line)
        BY Streams, OutstandingType
      <3>2. reader \o Wired # <<>> /\ Len(reader \o Wired') = Len(reader \o Wired) - 1
        BY <2>2, <3>1 DEF FewerBehind
      <3>3. Len(reader \o Wired) = 2 * Len(Outstanding) - 0
        BY <2>1, <3>2 DEF AsTyped, Entire
      <3>4. Len(Outstanding) \in Nat
        BY <3>1
      <3>5. QED BY <3>2, <3>3, <3>4
    <2>5. \A t \in Seq(Fragment) : FewerBehind(t)
      BY <2>2, <2>3
    <2>6. QED BY <1>1, <1>2, <1>5, <2>4, <2>5, Weaker
  <1>6. QED BY <1>3, <1>4, <1>5 DEF ClientCloses

(* A client sends only into a live connection; a closed one drops it.      *)
LEMMA Transmitted ==
  ASSUME TypeOK, NEW l \in Line, Transmit(l), UNCHANGED connected, peer = "open", UNCHANGED peer
  PROVE  /\ Wired' = IF Live THEN Wired \o Fragments(l) ELSE <<>>
         /\ Live' = Live
  BY DEF Transmit, Wired, Live

(* What the client leaves alone, whatever it sends.                        *)
ServerSame ==
  UNCHANGED <<connected, begun, encoding, mailFrom, recipients, rx, buffer, reader, linesRead>>

(* No step of the client touches them.                                    *)
LEMMA ClientServerSame == Client => ServerSame
  BY ClientLeavesServer DEF ServerSame, clientRest, connVars, session, readVars

(* A client that sends when it is its turn finds the stream empty where    *)
(* commands are read.                                                      *)
LEMMA TurnToSend ==
  ASSUME TypeOK, Dialogue, mode # "waiting"
  PROVE  /\ begun /\ replies = <<>>
         /\ rx \in {"armed", "lines", "handing"} => buffer = <<>> /\ Wired = <<>>
         /\ rx \in {"plain", "user", "pass"} => reader = <<>> /\ Wired = <<>>
         /\ rx \notin {"deaf", "done"} => Alike
  <1>1. begun /\ replies = <<>>
    BY DEF Dialogue, Turn
  <1>2. Wired \in Seq(Fragment) /\ buffer \in Seq(Fragment) /\ reader \in Seq(Fragment)
    BY Streams
  <1>3. ASSUME rx \in {"armed", "lines", "handing"} PROVE buffer \o Wired = <<>>
    BY <1>3 DEF Dialogue, Between
  <1>4. ASSUME rx \in {"plain", "user", "pass"} PROVE reader \o Wired = <<>>
    BY <1>4 DEF Dialogue, ReadingToken
  <1>5. rx \notin {"deaf", "done"} => Alike
    BY <1>1 DEF Dialogue, Unanswered, Agreed
  <1>6. QED BY <1>1, <1>2, <1>3, <1>4, <1>5, ConcatEmpty

(* Sending when no reply is under way keeps the turn.                      *)
LEMMA SendsKeepTurn ==
  ASSUME Turn, begun, begun', replies = <<>>, UNCHANGED replies
  PROVE  Turn'
  BY DEF Turn

(* A new command is the only line on its way.                              *)
LEMMA ClientCommandKeeps ==
  ASSUME TypeOK, Dialogue, ClientCommand
  PROVE  Dialogue'
  <1>1. PICK t \in Commands : Transmit([dots |-> 0, text |-> t]) /\ sent' = t
    BY DEF ClientCommand
  <1>2. /\ mode = "ready" /\ mode' = "waiting" /\ ServerSame
        /\ UNCHANGED <<replies, peer, ownFrom, ownTo, ownEncoding, typed>> /\ peer = "open"
    BY ClientServerSame DEF ClientCommand, ownView, Client
  <1>3. /\ begun /\ replies = <<>>
        /\ rx \in {"armed", "lines", "handing"} => buffer = <<>> /\ Wired = <<>>
        /\ rx \notin {"deaf", "done"} => Alike
    BY <1>2, TurnToSend
  <1>4. Command' = [dots |-> 0, text |-> t] /\ Command' \in Line
    <2>1. t \in Text
      BY <1>1, ConversationAssumption
    <2>2. QED BY <1>1, <2>1, LineConstants DEF Command
  <1>5. Wired' = (IF Live THEN Wired \o Fragments(Command') ELSE <<>>) /\ Live' = Live
    BY <1>1, <1>2, <1>4, Transmitted DEF ServerSame
  <1>6. Turn'
    BY <1>2, <1>3, SendsKeepTurn DEF Dialogue, ServerSame
  <1>7. ASSUME rx \in {"armed", "lines", "handing"} PROVE Between'
    <2>1. buffer' = <<>> /\ Wired = <<>>
      BY <1>2, <1>3, <1>7 DEF ServerSame
    <2>2. Carries(buffer' \o Wired', <<Command'>>)
      <3>1. CASE Live
        <4>1. Fragments(Command') \in Seq(Fragment)
          BY <1>4, FragmentsType
        <4>2. buffer' \o Wired' = <<>> \o Fragments(Command')
          BY <1>5, <2>1, <3>1, <4>1, ConcatEmpty, Empty
        <4>3. QED BY <1>4, <4>2, OneLineCarried
      <3>2. CASE ~Live
        <4>1. buffer' \o Wired' = <<>>
          BY <1>5, <2>1, <3>2, ConcatEmpty, Empty
        <4>2. <<Command'>> \in Seq(Line)
          BY <1>4
        <4>3. QED BY <4>1, <4>2, NothingCarries
      <3>3. QED BY <3>1, <3>2
    <2>3. reader' = <<>>
      BY <1>2, <1>7 DEF Dialogue, Between, ServerSame
    <2>4. QED BY <1>2, <1>3, <2>2, <2>3 DEF Between
  <1>8. rx \notin {"plain", "user", "pass", "body"}
    BY <1>2 DEF Dialogue, ReadingToken, ReadingBody
  <1>9. rx = "handing" => Handing'
    BY <1>2, <1>3 DEF Dialogue, Handing, CutShort, ServerSame
  <1>10. rx \notin {"deaf", "done"} => Agreed'
    BY <1>2, <1>3 DEF Agreed, Alike, ServerSame
  <1>11. QED BY <1>2, <1>6, <1>7, <1>8, <1>9, <1>10 DEF Dialogue, ServerSame

(* A line of the body, or its end, sent into a connection that reads it,   *)
(* or into one the server has closed.                                      *)
LEMMA BodySendKeeps ==
  ASSUME TypeOK, CutIsGone, CutIsGone', Dialogue, NEW l \in Line, Transmit(l), mode = "body", peer = "open",
         ServerSame, UNCHANGED <<replies, peer, sent, ownFrom, ownTo, ownEncoding>>,
         mode' \in {"body", "waiting"},
         AsTyped => /\ Outstanding' = Append(Outstanding, l)
                    /\ Len(linesRead) <= Len(typed')
                    /\ \A i \in DOMAIN linesRead : linesRead[i] = typed'[i]
  PROVE  Dialogue'
  <1>1. Wired' = (IF Live THEN Wired \o Fragments(l) ELSE <<>>) /\ Live' = Live
    BY Transmitted DEF ServerSame
  <1>2. /\ begun /\ replies = <<>>
        /\ rx \in {"armed", "lines", "handing"} => buffer = <<>> /\ Wired = <<>>
        /\ rx \notin {"deaf", "done"} => Alike
    BY TurnToSend
  <1>3. Turn'
    BY <1>2, SendsKeepTurn DEF Dialogue, ServerSame
  <1>4. rx \notin {"deaf", "done"} => Agreed'
    BY <1>2 DEF Agreed, Alike, ServerSame
  <1>5. CASE rx \in {"armed", "lines"}
    <2>1. reader' = <<>> /\ buffer' = <<>> /\ ~Live
      BY <1>2, <1>5 DEF Dialogue, Between, ServerSame
    <2>2. QED BY <1>1, <1>3, <1>4, <1>5, <2>1, Idle DEF ServerSame
  <1>6. rx # "handing" /\ rx \notin {"plain", "user", "pass"}
    BY DEF Dialogue, Handing, CutShort, ReadingToken
  <1>7. CASE rx = "body"
    <2>1. ReadingBody /\ AsTyped
      BY <1>7 DEF Dialogue, ReadingBody, CutOff
    <2>2. Wired \in Seq(Fragment) /\ reader \in Seq(Fragment) /\ Fragments(l) \in Seq(Fragment)
      BY Streams, FragmentsType
    <2>3. Outstanding \in Seq(Line) /\ Outstanding' = Append(Outstanding, l)
      BY <2>1, OutstandingType
    <2>4. Carries(reader \o Wired, Outstanding)
      BY <2>1 DEF AsTyped
    <2>5. CASE Live
      <3>1. reader' \o Wired' = (reader \o Wired) \o Fragments(l)
        BY <1>1, <2>2, <2>5, ConcatAssoc DEF ServerSame
      <3>2. reader \o Wired \in Seq(Fragment) /\ Len(reader \o Wired) = 2 * Len(Outstanding)
        <4>1. Len(reader \o Wired) = 2 * Len(Outstanding) - 0
          BY <2>1, <2>5 DEF AsTyped, Entire, Live, CutIsGone
        <4>2. Len(Outstanding) \in Nat
          BY <2>3
        <4>3. QED BY <2>2, <4>1, <4>2, Concat
      <3>3. /\ Carries(reader' \o Wired', Outstanding')
            /\ Len(reader' \o Wired') = 2 * Len(Outstanding')
        BY <2>3, <2>4, <3>1, <3>2, CarriesMore
      <3>4. AsTyped'
        <4>1. ~cut' /\ Len(Outstanding') \in Nat
          BY <2>3 DEF CutIsGone
        <4>2. Entire'
          BY <3>3, <4>1 DEF Entire
        <4>3. QED BY <1>2, <2>1, <3>3, <4>2 DEF AsTyped, ServerSame
      <3>5. ReadingBody'
        BY <1>2, <2>1, <3>4 DEF ReadingBody, ServerSame
      <3>6. QED BY <1>3, <1>4, <1>7, <3>5 DEF Dialogue, ServerSame
    <2>6. CASE ~Live
      <3>1. reader' \o Wired' = reader
        BY <1>1, <2>2, <2>6, ConcatEmpty DEF ServerSame
      <3>2. Carries(reader, Outstanding)
        BY <2>2, <2>3, <2>4, ArrivedCarries
      <3>3. Carries(reader' \o Wired', Outstanding')
        BY <2>2, <2>3, <3>1, <3>2, CarriesLonger
      <3>4. AsTyped'
        <4>1. Entire'
          BY <2>6 DEF Entire, Live, ServerSame
        <4>2. QED BY <1>1, <1>2, <2>1, <3>3, <4>1 DEF AsTyped, ServerSame
      <3>5. ReadingBody'
        BY <1>2, <2>1, <3>4 DEF ReadingBody, ServerSame
      <3>6. QED BY <1>3, <1>4, <1>7, <3>5 DEF Dialogue, ServerSame
    <2>7. QED BY <2>5, <2>6
  <1>8. CASE rx \in {"deaf", "done"}
    BY <1>3, <1>8, Ended DEF ServerSame
  <1>9. QED BY <1>5, <1>6, <1>7, <1>8 DEF TypeOK, ConnectionTyped

(* A line typed, or the dot, is one line more that the server has to read. *)
LEMMA ClientBodyKeeps ==
  ASSUME TypeOK, CutIsGone, CutIsGone', Dialogue, ClientBodyLine \/ ClientBodyEnd
  PROVE  Dialogue'
  <1>1. /\ mode = "body" /\ peer = "open" /\ ServerSame
        /\ UNCHANGED <<replies, peer, sent, ownFrom, ownTo, ownEncoding>>
    BY ClientServerSame DEF Client, ClientBodyLine, ClientBodyEnd, ownView
  <1>2. typed \in Seq(Line)
    BY DEF TypeOK, ClientTyped
  <1>3. CASE ClientBodyLine
    <2>1. PICK l \in BodyLines : Transmit(Stuffed(l)) /\ typed' = Append(typed, l)
      BY <1>3 DEF ClientBodyLine
    <2>2. l \in Line /\ Stuffed(l) \in Line /\ mode' = mode
      BY <1>3, <2>1, LineConstants, StuffingTypes DEF ClientBodyLine
    <2>3. ASSUME AsTyped
          PROVE  /\ Outstanding' = Append(Outstanding, Stuffed(l))
                 /\ Len(linesRead) <= Len(typed')
                 /\ \A i \in DOMAIN linesRead : linesRead[i] = typed'[i]
      <3>1. Len(linesRead) \in 0..Len(typed) /\ linesRead \in Seq(Line \union {NULL})
        BY <2>3, OutstandingType
      <3>2. /\ Outstanding = Awaited(typed, Len(linesRead), FALSE)
            /\ Outstanding' = Awaited(Append(typed, l), Len(linesRead), FALSE)
        BY <1>1, <2>1, <2>2 DEF Outstanding, ServerSame
      <3>3. Outstanding' = Append(Outstanding, Stuffed(l))
        BY <1>2, <2>2, <3>1, <3>2, AwaitedGrows
      <3>4. Len(linesRead) <= Len(typed')
        BY <1>2, <2>1, <2>2, <3>1
      <3>5. \A i \in DOMAIN linesRead : linesRead[i] = typed'[i]
        <4>1. \A i \in DOMAIN linesRead : i \in 1..Len(typed)
          BY <1>2, <3>1
        <4>2. \A i \in 1..Len(typed) : typed'[i] = typed[i]
          BY <1>2, <2>1, <2>2
        <4>3. QED BY <2>3, <4>1, <4>2 DEF AsTyped
      <3>6. QED BY <3>3, <3>4, <3>5
    <2>4. QED BY <1>1, <2>1, <2>2, <2>3, BodySendKeeps
  <1>4. CASE ClientBodyEnd
    <2>1. Transmit(Dot) /\ UNCHANGED typed /\ mode' = "waiting" /\ Dot \in Line
      BY <1>4, LineConstants DEF ClientBodyEnd
    <2>2. ASSUME AsTyped
          PROVE  /\ Outstanding' = Append(Outstanding, Dot)
                 /\ Len(linesRead) <= Len(typed')
                 /\ \A i \in DOMAIN linesRead : linesRead[i] = typed'[i]
      <3>1. Len(linesRead) \in 0..Len(typed)
        BY <2>2, OutstandingType
      <3>2. /\ Outstanding = Awaited(typed, Len(linesRead), FALSE)
            /\ Outstanding' = Awaited(typed, Len(linesRead), TRUE)
        BY <1>1, <2>1 DEF Outstanding, ServerSame
      <3>3. Outstanding' = Append(Outstanding, Dot)
        BY <1>2, <2>1, <3>1, <3>2, AwaitedGrows
      <3>4. QED BY <2>1, <2>2, <3>3 DEF AsTyped
    <2>3. QED BY <1>1, <2>1, <2>2, BodySendKeeps
  <1>5. QED BY <1>3, <1>4

(* A token is the only line on its way.                                    *)
LEMMA ClientTokenKeeps ==
  ASSUME TypeOK, Dialogue, ClientToken
  PROVE  Dialogue'
  <1>1. PICK c \in Credential : Transmit(Token(c))
    BY DEF ClientToken, Token
  <1>2. /\ mode = "token" /\ mode' = "waiting" /\ ServerSame
        /\ UNCHANGED <<replies, peer, sent, ownFrom, ownTo, ownEncoding,
                       typed>> /\ peer = "open"
    BY ClientServerSame DEF ClientToken, ownView, Client
  <1>3. /\ begun /\ replies = <<>>
        /\ rx \in {"armed", "lines", "handing"} => buffer = <<>> /\ Wired = <<>>
        /\ rx \in {"plain", "user", "pass"} => reader = <<>> /\ Wired = <<>>
        /\ rx \notin {"deaf", "done"} => Alike
    BY <1>2, TurnToSend
  <1>4. Token(c) \in Line /\ <<Token(c)>> \in Seq(Line)
    BY Streams
  <1>5. Wired' = (IF Live THEN Wired \o Fragments(Token(c)) ELSE <<>>) /\ Live' = Live
    BY <1>1, <1>2, <1>4, Transmitted DEF ServerSame
  <1>6. Turn'
    BY <1>2, <1>3, SendsKeepTurn DEF Dialogue, ServerSame
  <1>7. rx \notin {"deaf", "done"} => Agreed'
    BY <1>2, <1>3 DEF Agreed, Alike, ServerSame
  <1>8. CASE rx \in {"armed", "lines"}
    <2>1. reader' = <<>> /\ buffer' = <<>> /\ ~Live
      BY <1>2, <1>3, <1>8 DEF Dialogue, Between, ServerSame
    <2>2. QED BY <1>2, <1>5, <1>6, <1>7, <1>8, <2>1, Idle DEF ServerSame
  <1>9. rx # "handing" /\ rx # "body"
    BY <1>2 DEF Dialogue, Handing, CutShort, ReadingBody
  <1>10. CASE rx \in {"plain", "user", "pass"}
    <2>1. reader' = <<>> /\ Wired = <<>>
      BY <1>2, <1>3, <1>10 DEF ServerSame
    <2>2. Carries(reader' \o Wired', <<Token(c)>>)
      <3>1. CASE Live
        <4>1. Fragments(Token(c)) \in Seq(Fragment)
          BY <1>4, FragmentsType
        <4>2. reader' \o Wired' = <<>> \o Fragments(Token(c))
          BY <1>5, <2>1, <3>1, <4>1, ConcatEmpty, Empty
        <4>3. QED BY <1>4, <4>2, OneLineCarried
      <3>2. CASE ~Live
        <4>1. reader' \o Wired' = <<>>
          BY <1>5, <2>1, <3>2, ConcatEmpty, Empty
        <4>2. QED BY <1>4, <4>1, NothingCarries
      <3>3. QED BY <3>1, <3>2
    <2>3. ReadingToken'
      BY <1>2, <1>3, <1>10, <2>2 DEF Dialogue, ReadingToken, ServerSame
    <2>4. QED BY <1>2, <1>6, <1>7, <1>10, <2>3 DEF Dialogue, ServerSame
  <1>11. CASE rx \in {"deaf", "done"}
    BY <1>2, <1>6, <1>11, Ended DEF ServerSame
  <1>12. QED BY <1>8, <1>9, <1>10, <1>11 DEF TypeOK, ConnectionTyped

(* The client reads the one reply there is, and draws its conclusions.     *)
LEMMA ClientReadKeeps ==
  ASSUME LockStep, TypeOK, CutIsGone, Dialogue, ClientRead
  PROVE  Dialogue'
  <1> DEFINE code == replies[1]
  <1>1. /\ replies # <<>> /\ replies' = Tail(replies) /\ ServerSame
        /\ UNCHANGED <<wire, peer, sent>>
        /\ Prompted(code) \/ Answered(code)
    BY ClientServerSame DEF ClientRead, Client, Prompted, Answered, netVars
  <1>2. replies' = <<>> /\ replies = <<code>>
    <2>1. replies \in Seq(Nat) /\ Len(replies) <= 1 /\ replies # <<>>
      BY <1>1 DEF TypeOK, QueuesTyped, Dialogue, Turn
    <2>2. Len(replies) = 1 /\ Len(Tail(replies)) = 0 /\ Tail(replies) \in Seq(Nat)
      <3>1. Tail(replies) \in Seq(Nat) /\ Len(Tail(replies)) = Len(replies) - 1
        BY <2>1, HeadTailProperties
      <3>2. Len(replies) \in Nat /\ Len(replies) # 0 /\ Len(replies) <= 1
        BY <2>1
      <3>3. \A n \in Nat : n # 0 /\ n <= 1 => n = 1
        OBVIOUS
      <3>4. Len(replies) = 1
        BY <3>2, <3>3, Zenon
      <3>5. QED BY <3>1, <3>4
    <2>3. replies' = <<>>
      <3>1. replies' \in Seq(Nat) /\ Len(replies') = 0
        BY <1>1, <2>2
      <3>2. QED BY <3>1
    <2>4. replies = <<code>>
      BY <2>1, <2>2
    <2>5. QED BY <2>3, <2>4
  <1> HIDE DEF code
  <1>3. begun /\ mode = "waiting"
    BY <1>1 DEF Dialogue, Turn
  <1>4. Turn'
    BY <1>1, <1>2, <1>3 DEF Turn, ServerSame
  <1>5. Wired' = Wired /\ Live' = Live /\ Command' = Command
    BY <1>1 DEF ServerSame, Wired, Live, Command
  <1>6. ASSUME rx \notin {"deaf", "done"} PROVE Agreed'
    <2>1. AgreedOn(code)
      BY <1>1, <1>2, <1>6 DEF Dialogue, Unanswered, Agreed, code
    <2>2. CASE Prompted(code)
      BY <1>1, <1>2, <2>1, <2>2 DEF Prompted, ownView, Agreed, Alike, AgreedOn, FromAfter, ToAfter,
        EncodingAfter, ServerSame
    <2>3. CASE Answered(code)
      <3>1. Alike'
        <4>1. ownFrom' = FromAfter(code)
          BY <2>3 DEF Answered, ownView, FromAfter
        <4>2. ownTo' = ToAfter(code)
          BY <2>3 DEF Answered, ownView, ToAfter
        <4>3. ownEncoding' = EncodingAfter(code)
          BY <2>3 DEF Answered, ownView, EncodingAfter
        <4>4. QED BY <1>1, <2>1, <4>1, <4>2, <4>3 DEF AgreedOn, Alike, ServerSame
      <3>2. QED BY <1>2, <3>1 DEF Agreed
    <2>4. QED BY <1>1, <2>2, <2>3
  <1>7. ASSUME rx \in {"armed", "lines", "handing"} PROVE Between'
    <2>1. Between
      BY <1>7 DEF Dialogue
    <2>2. buffer' \o Wired' = buffer \o Wired /\ buffer \o Wired = <<>>
      BY <1>1, <1>5, <2>1 DEF Between, ServerSame
    <2>3. Live' => mode' = "ready"
      BY <1>1, <1>5, <2>1 DEF Between, Prompted, Answered, code
    <2>4. QED BY <1>1, <1>2, <1>5, <2>1, <2>2, <2>3 DEF Between, ServerSame
  <1>8. ASSUME rx \in {"plain", "user", "pass"} PROVE ReadingToken'
    <2>1. ReadingToken
      BY <1>8 DEF Dialogue
    <2>2. reader' \o Wired' = reader \o Wired /\ reader \o Wired = <<>>
      BY <1>1, <1>5, <2>1 DEF ReadingToken, ServerSame
    <2>3. code = 334
      BY <1>1, <2>1 DEF ReadingToken, code
    <2>4. mode' = "token"
      BY <1>1, <2>3 DEF Prompted, Answered
    <2>5. QED BY <1>1, <1>2, <2>1, <2>2, <2>4 DEF ReadingToken, ServerSame
  <1>9. ASSUME rx = "body" PROVE ReadingBody'
    <2>1. ReadingBody
      BY <1>9 DEF Dialogue
    <2>2. reader' \o Wired' = <<>> /\ reader \o Wired = <<>>
      BY <1>1, <1>5, <2>1 DEF ReadingBody, ServerSame
    <2>3. code = 354
      BY <1>1, <2>1 DEF ReadingBody, code
    <2>4. mode' = "body" /\ typed' = <<>>
      BY <1>1, <2>3 DEF Prompted, Answered
    <2>5. CutOff => CutOff'
      BY <1>1 DEF CutOff, ServerSame
    <2>6. ASSUME AsTyped PROVE AsTyped'
      <3>1. linesRead' = <<>>
        BY <1>1, <2>6 DEF AsTyped, ServerSame
      <3>2. Outstanding' = Awaited(<<>>, 0, FALSE)
        BY <2>4, <3>1 DEF Outstanding
      <3>3. Outstanding' = <<>>
        <4>1. <<>> \in Seq(Line) /\ 0 \in 0..Len(<<>>)
          OBVIOUS
        <4>2. Awaited(<<>>, 0, FALSE) \in Seq(Line)
              /\ Len(Awaited(<<>>, 0, FALSE)) = Len(<<>>) - 0 + (IF FALSE THEN 1 ELSE 0)
          BY <4>1, AwaitedType
        <4>3. Len(<<>>) - 0 + (IF FALSE THEN 1 ELSE 0) = 0
          OBVIOUS
        <4>4. Outstanding' \in Seq(Line) /\ Len(Outstanding') = 0
          BY <3>2, <4>2, <4>3, Zenon
        <4>5. QED BY <4>4
      <3>4. Carries(reader' \o Wired', Outstanding')
        BY <2>2, <3>3, NothingCarries, Empty
      <3>5. Len(reader' \o Wired') = 2 * Len(Outstanding') /\ Len(linesRead') <= Len(typed')
        BY <2>2, <2>4, <3>1, <3>3
      <3>6. cut' = cut /\ peer' = peer
        BY <1>1 DEF ClientRead, netVars
      <3>7. Entire'
        <4>1. Len(Outstanding') = 0
          BY <3>3
        <4>2. reader' \o Wired' = <<>> /\ Len(reader' \o Wired') = 0
          BY <2>2
        <4>3. peer' = "open" => ~cut'
          BY <3>6 DEF CutIsGone
        <4>4. CASE mode' = "body" /\ peer' = "open"
          <5>1. ~cut'
            BY <4>3, <4>4
          <5>2. 0 = 2 * 0 - 0
            OBVIOUS
          <5>3. Len(reader' \o Wired') = 2 * Len(Outstanding') - (IF cut' THEN 1 ELSE 0)
            BY <4>1, <4>2, <5>1, <5>2
          <5>4. QED BY <5>3 DEF Entire
        <4>5. CASE ~(mode' = "body" /\ peer' = "open")
          BY <4>2, <4>5 DEF Entire
        <4>6. QED BY <4>4, <4>5
      <3>8. QED BY <1>2, <3>1, <3>4, <3>5, <3>7 DEF AsTyped
    <2>7. QED BY <1>1, <1>2, <2>1, <2>4, <2>5, <2>6 DEF ReadingBody, ServerSame
  <1>10. ASSUME rx = "handing" PROVE Handing'
    <2>1. Handing /\ code = 250 /\ ~CutShort
      BY <1>1, <1>10 DEF Dialogue, Handing, CutShort, code
    <2>2. mode' = "ready" /\ typed' = typed
      BY <1>1, <2>1 DEF Prompted, Answered
    <2>3. QED BY <1>1, <1>2, <2>1, <2>2 DEF Handing, ServerSame
  <1>11. QED BY <1>1, <1>4, <1>6, <1>7, <1>8, <1>9, <1>10 DEF Dialogue, ServerSame

-----------------------------------------------------------------------------
(* Both ends together                                                      *)

(* Every step of either end keeps the dialogue in order.                   *)
LEMMA DialogueStep ==
  ASSUME LockStep, TypeOK, CutIsGone, CutIsGone', Dialogue, [Next]_vars
  PROVE  Dialogue'
  <1>1. CASE Begin
    BY <1>1, BeginKeeps
  <1>2. CASE \/ Receive \/ ReceiveEnd \/ ReceiveFails \/ ReceiveCancelled \/ ReceiveAgain
             \/ NoContext \/ SendFails
    BY <1>2, ReceiveKeeps, ReceiveAgainKeeps, CallbackEnds
  <1>3. CASE \/ AuthenticationRequired \/ BlankLine \/ Unrecognised \/ Helo \/ Mail \/ Rcpt \/ Data
             \/ Rset \/ NoopOrNotImplemented \/ Quit
    BY <1>3, RefusalKeeps, BlankLineKeeps, SimpleCommandKeeps, MailKeeps, RcptKeeps, DataKeeps
  <1>4. CASE \/ Auth \/ AuthPlainToken \/ AuthLoginUser \/ AuthLoginPassword
             \/ AuthUnfinished \/ AuthReadFails
    BY <1>4, AuthKeeps, TokenKeeps, UserKeeps, AuthUnfinishedKeeps, AuthReadFailsKeeps
  <1>5. CASE \/ ReaderFill \/ BodyLine \/ BodyEnd \/ BodyUnfinished \/ BodyNull
             \/ BodyReadFails \/ HandleReceived
    BY <1>5, FillKeeps, BodyLineKeeps, BodyEndKeeps, BodyUnfinishedKeeps, BodyBreaksKeeps,
      HandleReceivedKeeps
  <1>6. CASE TimePasses \/ IdleClose \/ CloseAll
    BY <1>6, CloserKeeps
  <1>7. CASE ClientCommand \/ ClientBodyLine \/ ClientBodyEnd \/ ClientToken \/ ClientRead
    BY <1>7, ClientCommandKeeps, ClientBodyKeeps, ClientTokenKeeps, ClientReadKeeps
  <1>8. CASE ClientCloses \/ ClientResets
    BY <1>8, LeaveKeeps
  <1>9. ~ClientSendsAhead
    BY DEF ClientSendsAhead
  <1>10. CASE UNCHANGED vars
    BY <1>10, UnchangedKeeps
  <1>11. QED
    BY <1>1, <1>2, <1>3, <1>4, <1>5, <1>6, <1>7, <1>8, <1>9, <1>10 DEF Next, Callback, Client

(* A connection just accepted has nothing under way.                       *)
LEMMA DialogueBegins ==
  ASSUME Init
  PROVE  Dialogue
  <1>1. TypeOK
    BY InitTyped
  <1>2. Wired = <<>> /\ buffer \o Wired = <<>>
    <2>1. Wired = <<>> /\ buffer = <<>>
      BY DEF Init, Wired
    <2>2. QED BY <2>1, Empty, ConcatEmpty
  <1>3. Carries(buffer \o Wired, <<Command>>)
    BY <1>1, <1>2, Streams, NothingCarries
  <1>4. Turn
    BY DEF Init, Turn
  <1>5. Between
    BY <1>2, <1>3 DEF Init, Between
  <1>6. Agreed
    BY DEF Init, Agreed, Alike
  <1>7. rx = "armed"
    BY DEF Init
  <1>8. QED BY <1>4, <1>5, <1>6, <1>7 DEF Dialogue

(* A line is cut by the step with which the client goes.                   *)
LEMMA CutKept == Spec => []CutIsGone
  <1>1. Init => CutIsGone
    BY DEF Init, CutIsGone
  <1>2. CutIsGone /\ [Next]_vars => CutIsGone'
    <2> SUFFICES ASSUME CutIsGone, [Next]_vars PROVE CutIsGone'
      OBVIOUS
    <2>1. CASE ClientCloses \/ ClientResets
      BY <2>1 DEF ClientCloses, ClientResets, CutIsGone
    <2>2. CASE Next /\ ~(ClientCloses \/ ClientResets)
      <3>1. UNCHANGED <<peer, cut>>
        BY <2>2 DEF Next, Callback, Client, Begin, Receive, ReceiveEnd, ReceiveFails,
          ReceiveCancelled, ReceiveAgain, NoContext, SendFails, AuthenticationRequired,
          BlankLine, Unrecognised, Helo, Mail, Rcpt, Data, Rset, NoopOrNotImplemented, Quit,
          Auth, AuthPlainToken, AuthLoginUser, AuthLoginPassword, AuthUnfinished,
          AuthReadFails, ReaderFill, BodyLine, BodyEnd, BodyUnfinished, BodyNull,
          BodyReadFails, HandleReceived, TimePasses, IdleClose, CloseAll, Execute, Dispatch,
          ClientCommand, ClientBodyLine, ClientBodyEnd, ClientToken, ClientRead,
          ClientSendsAhead, netVars
      <3>2. QED BY <3>1 DEF CutIsGone
    <2>3. CASE UNCHANGED vars
      BY <2>3 DEF vars, CutIsGone
    <2>4. QED BY <2>1, <2>2, <2>3
  <1>3. QED BY <1>1, <1>2, PTL DEF Spec

(* The inductive invariant, for a client that awaits each reply.           *)
LEMMA DialogueKept == Spec => [](LockStep => Dialogue)
  <1>1. Init => (LockStep => Dialogue)
    BY DialogueBegins
  <1>2. TypeOK /\ CutIsGone /\ CutIsGone' /\ (LockStep => Dialogue) /\ [Next]_vars
          => (LockStep => Dialogue)'
    BY DialogueStep
  <1>3. QED BY <1>1, <1>2, Typing, CutKept, PTL DEF Spec

(* Between a lock-step client and the server there is at most one reply,   *)
(* and it is on its way only while the client waits for it: no command is  *)
(* answered twice, and none out of turn.                                   *)
THEOREM CommandsAnsweredOnce == Spec => []OneReplyPerCommand
  <1>1. (LockStep => Dialogue) => OneReplyPerCommand
    BY DEF Dialogue, Turn, OneReplyPerCommand
  <1>2. QED BY <1>1, DialogueKept, PTL

(* The message handed over is the one the client composed: the envelope it *)
(* was given 250 for, and every line it typed, once and in order, however  *)
(* the socket split them and whoever closed the connection meanwhile; only *)
(* a last line that begins with a dot, and that the client cut off when it *)
(* went, may be missing.                                                   *)
THEOREM MessageAsComposed == Spec => []HandedAsComposed
  <1>1. (LockStep => Dialogue) => HandedAsComposed
    <2> SUFFICES ASSUME Dialogue, rx = "handing"
                 PROVE  /\ mailFrom = ownFrom /\ recipients = ownTo /\ encoding = ownEncoding
                        /\ (linesRead = typed /\ mode # "body") \/ CutShort
      BY DEF HandedAsComposed, CutShort
    <2>1. Handing /\ Agreed
      BY DEF Dialogue, Unanswered
    <2>2. Alike
      BY <2>1 DEF Handing, CutShort, Agreed, Alike, AgreedOn, FromAfter, ToAfter, EncodingAfter
    <2>3. QED BY <2>1, <2>2 DEF Handing, Alike
  <1>2. QED BY <1>1, DialogueKept, PTL
=============================================================================
