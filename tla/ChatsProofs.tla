----------------------------- MODULE ChatsProofs -----------------------------
(***************************************************************************)
(* Theorems about the chats of the users (module Chats).                   *)
(*                                                                         *)
(* The inductive invariant says of every client what it holds in terms of  *)
(* the table of the server: what waits in its queue, what the answers that *)
(* it has not handled yet contain, and what it shows.                      *)
(***************************************************************************)
EXTENDS Chats, SequenceTheorems, FiniteSetTheorems, TLAPS

-----------------------------------------------------------------------------
(* Loops: a recursive function of the number of turns.                     *)

\* A set of numbers that holds 0 and with each of its members below n the next
\* one holds every number up to n.
LEMMA Stepping ==
  ASSUME NEW n \in Nat, NEW S, 0 \in S,
         \A i \in 0..(n-1) : i \in S => i + 1 \in S
  PROVE  \A i \in 0..n : i \in S
<1> SUFFICES ASSUME NEW z \in 0..n, z \notin S PROVE FALSE
  OBVIOUS
<1> DEFINE T == (0..n) \ S
<1> DEFINE Less == {p \in Nat \X Nat : p[1] < p[2]}
<1>1. IsWellFoundedOn(Less, Nat)
  BY NatLessThanWellFounded DEF OpToRel
<1>2. T \subseteq Nat /\ T # {}
  OBVIOUS
<1> HIDE DEF T, Less
<1>3. PICK m \in T : \A y \in T : <<y, m>> \notin Less
  BY <1>1, <1>2, WFMin
<1>4. m # 0 /\ m \in 0..n /\ m \notin S /\ m - 1 \in 0..(n-1)
  BY <1>3 DEF T
<1>5. m - 1 \in S
  <2>1. <<m - 1, m>> \in Less
    BY <1>4 DEF Less
  <2>2. m - 1 \notin T
    BY <1>3, <2>1
  <2>3. m - 1 \in 0..n
    BY <1>4
  <2> QED BY <2>2, <2>3 DEF T
<1> QED BY <1>4, <1>5

\* What n turns of a loop make of a, turn i being step[i][what there is].
Turns(f, a, step, n) ==
  f[0] = a /\ \A i \in 1..n : f[i] = step[i][f[i-1]]

\* There is a function that the turns give.
LEMMA LoopExists ==
  ASSUME NEW A, NEW n \in Nat, NEW a \in A, NEW step \in [1..n -> [A -> A]]
  PROVE  \E f \in [0..n -> A] : Turns(f, a, step, n)
<1> DEFINE S == {k \in 0..n : \E f \in [0..k -> A] : Turns(f, a, step, k)}
<1>1. 0 \in S
  <2>1. [k \in 0..0 |-> a] \in [0..0 -> A]
    OBVIOUS
  <2>2. Turns([k \in 0..0 |-> a], a, step, 0)
    BY DEF Turns
  <2> QED BY <2>1, <2>2
<1>2. ASSUME NEW i \in 0..(n-1), i \in S PROVE i + 1 \in S
  <2>1. PICK f \in [0..i -> A] : Turns(f, a, step, i)
    BY <1>2
  <2> DEFINE g == [k \in 0..(i+1) |-> IF k <= i THEN f[k] ELSE step[i+1][f[i]]]
  <2>2. step[i+1][f[i]] \in A
    <3>1. i + 1 \in 1..n /\ f[i] \in A
      OBVIOUS
    <3> QED BY <3>1
  <2>3. g \in [0..(i+1) -> A]
    BY <2>2
  <2>4. Turns(g, a, step, i + 1)
    <3>1. g[0] = a
      BY <2>1 DEF Turns
    <3>2. ASSUME NEW k \in 1..(i+1) PROVE g[k] = step[k][g[k-1]]
      <4>1. k - 1 \in 0..i /\ g[k-1] = f[k-1]
        OBVIOUS
      <4>2. CASE k <= i
        <5>1. k \in 1..i /\ g[k] = f[k]
          BY <4>2
        <5> HIDE DEF g
        <5> QED BY <2>1, <4>1, <5>1 DEF Turns
      <4>3. CASE k = i + 1
        <5>1. g[k] = step[i+1][f[i]] /\ k - 1 = i
          BY <4>3
        <5> HIDE DEF g
        <5> QED BY <4>1, <4>3, <5>1
      <4> QED BY <4>2, <4>3
    <3> HIDE DEF g
    <3> QED BY <3>1, <3>2 DEF Turns
  <2>5. i + 1 \in 0..n
    OBVIOUS
  <2> HIDE DEF g
  <2> QED BY <2>3, <2>4, <2>5
<1> HIDE DEF S
<1>3. n \in S
  <2>1. n \in 0..n
    OBVIOUS
  <2> QED BY <1>1, <1>2, <2>1, Stepping
<1> QED BY <1>3 DEF S

-----------------------------------------------------------------------------
(* The wire.                                                               *)

\* Two tokens and one.
LEMMA ThreeInARow ==
  ASSUME NEW S, NEW a \in S, NEW b \in S, NEW d \in S
  PROVE  <<a, b>> \o <<d>> = <<a, b, d>>
<1> DEFINE x == <<a, b>>
           y == <<d>>
           z == <<a, b, d>>
<1>1. /\ x \in Seq(S) /\ y \in Seq(S) /\ z \in Seq(S)
      /\ Len(x) = 2 /\ Len(y) = 1 /\ Len(z) = 3
      /\ x[1] = a /\ x[2] = b /\ y[1] = d /\ z[1] = a /\ z[2] = b /\ z[3] = d
  OBVIOUS
<1> HIDE DEF x, y, z
<1>2. /\ x \o y \in Seq(S) /\ Len(x \o y) = Len(x) + Len(y)
      /\ \A i \in 1 .. Len(x) + Len(y) : (x \o y)[i] =
                     IF i <= Len(x) THEN x[i] ELSE y[i - Len(x)]
  BY <1>1, ConcatProperties
<1> DEFINE v == x \o y
<1> HIDE DEF v
<1>3. Len(v) = 3 /\ v[1] = x[1] /\ v[2] = x[2] /\ v[3] = y[1]
  BY <1>1, <1>2 DEF v
<1>4. v = z
  <2>1. v \in Seq(S)
    BY <1>2 DEF v
  <2>2. \A i \in 1..3 : v[i] = z[i]
    <3>1. \A i \in 1..3 : i \in {1, 2, 3}
      OBVIOUS
    <3> QED BY <1>1, <1>3, <3>1
  <2> QED BY <1>1, <1>3, <2>1, <2>2, SeqEqual
<1>5. v = <<a, b>> \o <<d>> /\ z = <<a, b, d>>
  BY DEF v, x, y, z
<1> QED BY <1>4, <1>5

Tokens == ({"number"} \X Nat) \cup ({"fields"} \X Chat) \cup ({"mark"} \X Nat) \cup {Delim}

\* A text is a sequence of tokens.
LEMMA TextTokens ==
  ASSUME NEW c \in Chat
  PROVE  c.text \in Seq(Tokens)
<1>1. <<>> \in Seq(Tokens)
  OBVIOUS
<1>2. ASSUME NEW n \in 1..MaxSent PROVE Message(n) \in Seq(Tokens)
  <2>1. Mark(n) \in Tokens /\ Delim \in Tokens
    BY ChatBoundsAssumption DEF Tokens, Mark, Delim
  <2> QED BY <2>1 DEF Message
<1> QED BY <1>1, <1>2 DEF Chat, Texts

FieldsOf(c) == Fields([c EXCEPT !.text = <<>>])

\* The framed chat: the size of its fields is one token.
LEMMA FramedIs ==
  ASSUME NEW c \in Chat
  PROVE  /\ Framed(c) = <<Number(1), Delim, FieldsOf(c)>> \o c.text
         /\ Framed(c) \in Seq(Tokens)
         /\ Len(Framed(c)) = Len(c.text) + 3 /\ Len(c.text) \in Nat
<1>1. c.text \in Seq(Tokens) /\ Len(c.text) \in Nat
  BY TextTokens
<1>2. FieldsOf(c) \in Tokens /\ Number(1) \in Tokens /\ Delim \in Tokens
  <2>1. [c EXCEPT !.text = <<>>] \in Chat
    BY DEF Chat
  <2> QED BY <2>1 DEF FieldsOf, Fields, Number, Tokens
<1>3. to_string(c) = <<FieldsOf(c)>> \o c.text
  BY DEF to_string, FieldsOf
<1>4. to_string(c) \in Seq(Tokens) /\ Len(to_string(c)) = 1 + Len(c.text)
  BY <1>1, <1>2, <1>3, ConcatProperties
<1>5. Len(to_string(c)) - Len(c.text) = 1
  BY <1>1, <1>4
<1>6. Framed(c) = <<Number(1), Delim>> \o to_string(c)
  BY <1>5 DEF Framed
<1>7. <<Number(1), Delim>> \o (<<FieldsOf(c)>> \o c.text)
        = (<<Number(1), Delim>> \o <<FieldsOf(c)>>) \o c.text
  BY <1>1, <1>2, ConcatAssociative
<1>8. <<Number(1), Delim>> \o <<FieldsOf(c)>> = <<Number(1), Delim, FieldsOf(c)>>
  BY <1>2, ThreeInARow
<1>9. Framed(c) = <<Number(1), Delim, FieldsOf(c)>> \o c.text
  BY <1>3, <1>6, <1>7, <1>8
<1>10. <<Number(1), Delim, FieldsOf(c)>> \in Seq(Tokens)
  BY <1>2
<1>11. Len(<<Number(1), Delim, FieldsOf(c)>>) = 3
  OBVIOUS
<1> DEFINE h == <<Number(1), Delim, FieldsOf(c)>>
<1>12. h \o c.text \in Seq(Tokens) /\ Len(h \o c.text) = 3 + Len(c.text)
  <2>1. h \in Seq(Tokens) /\ Len(h) = 3
    BY <1>10, <1>11
  <2> HIDE DEF h
  <2>2. h \o c.text \in Seq(Tokens) /\ Len(h \o c.text) = Len(h) + Len(c.text)
    BY <1>1, <2>1, ConcatProperties
  <2> QED BY <2>1, <2>2
<1> QED BY <1>1, <1>9, <1>12

\* from_string reads the chat back, although its text may hold delimiters.
LEMMA ReadBack ==
  ASSUME NEW c \in Chat
  PROVE  from_string(Framed(c)) = c
<1> DEFINE s == Framed(c)
           D == {i \in DOMAIN s : s[i] = Delim}
           h == <<Number(1), Delim, FieldsOf(c)>>
<1>1. c.text \in Seq(Tokens) /\ Len(c.text) \in Nat
  BY TextTokens
<1>2. h \in Seq(Tokens) /\ Len(h) = 3
  <2>1. [c EXCEPT !.text = <<>>] \in Chat
    BY DEF Chat
  <2>2. FieldsOf(c) \in Tokens /\ Number(1) \in Tokens /\ Delim \in Tokens
    BY <2>1 DEF FieldsOf, Fields, Number, Tokens
  <2> QED BY <2>2
<1>3. s = h \o c.text /\ s \in Seq(Tokens) /\ Len(s) = Len(c.text) + 3
  BY FramedIs
<1>4. s[1] = Number(1) /\ s[2] = Delim /\ s[3] = FieldsOf(c)
      /\ \A i \in 1..Len(c.text) : s[3 + i] = c.text[i]
  <2>1. \A i \in 1..(3 + Len(c.text)) : s[i] = IF i <= 3 THEN h[i] ELSE c.text[i - 3]
    BY <1>1, <1>2, <1>3, ConcatProperties
  <2>2. h[1] = Number(1) /\ h[2] = Delim /\ h[3] = FieldsOf(c)
    OBVIOUS
  <2> HIDE DEF s, h
  <2>3. s[1] = h[1] /\ s[2] = h[2] /\ s[3] = h[3]
    BY <1>1, <2>1
  <2>4. ASSUME NEW i \in 1..Len(c.text) PROVE s[3 + i] = c.text[i]
    <3>1. 3 + i \in 1..(3 + Len(c.text)) /\ ~ (3 + i <= 3) /\ (3 + i) - 3 = i
      BY <1>1
    <3> QED BY <2>1, <3>1
  <2> QED BY <2>2, <2>3, <2>4
<1> HIDE DEF s, h
<1>5. DOMAIN s = 1..Len(s)
  BY <1>3
<1>6. Number(1) # Delim
  BY DEF Number, Delim
<1>7. 2 \in D /\ \A j \in D : 2 <= j
  BY <1>1, <1>3, <1>4, <1>5, <1>6
<1>8. \A i \in D : (\A j \in D : i <= j) => i = 2
  <2>1. \A i \in D : i \in Int
    BY <1>5
  <2> QED BY <1>7, <2>1
<1> DEFINE first == CHOOSE i \in D : \A j \in D : i <= j
<1>9. first = 2
  <2> HIDE DEF D
  <2> QED BY <1>7, <1>8
<1>10. split_first(s) = <<SubSeq(s, 1, 1), SubSeq(s, 3, Len(s))>>
  <2>1. D # {}
    BY <1>7
  <2>2. split_first(s) = IF D = {} THEN <<s, <<>>>>
          ELSE <<SubSeq(s, 1, first - 1), SubSeq(s, first + 1, Len(s))>>
    BY DEF split_first
  <2> HIDE DEF D, first
  <2> QED BY <1>9, <2>1, <2>2
<1> DEFINE rest == SubSeq(s, 3, Len(s))
<1>11. SubSeq(s, 1, 1)[1] = s[1]
  BY <1>1, <1>3, <1>5
<1>12. rest \in Seq(Tokens) /\ Len(rest) = Len(c.text) + 1 /\ rest[1] = FieldsOf(c)
       /\ \A i \in 1..Len(c.text) : rest[1 + i] = c.text[i]
  <2>1. \A i \in 3..Len(s) : s[i] \in Tokens
    BY <1>3, <1>5
  <2>2. /\ rest \in Seq(Tokens) /\ Len(rest) = IF 3 <= Len(s) THEN Len(s) - 3 + 1 ELSE 0
        /\ \A i \in 1..(Len(s) - 3 + 1) : rest[i] = s[3 + i - 1]
    BY <1>1, <1>3, <2>1, SubSeqProperties
  <2> HIDE DEF rest
  <2>3. rest[1] = s[3]
    BY <1>1, <1>3, <2>2
  <2>4. ASSUME NEW i \in 1..Len(c.text) PROVE rest[1 + i] = c.text[i]
    <3>1. 1 + i \in 1..(Len(s) - 3 + 1) /\ 3 + (1 + i) - 1 = 3 + i
      BY <1>1, <1>3
    <3> QED BY <1>4, <2>2, <3>1
  <2> QED BY <1>1, <1>3, <1>4, <2>2, <2>3, <2>4
<1> HIDE DEF rest
<1>13. SubSeq(rest, 1, 1)[1] = FieldsOf(c)
  <2>1. \A i \in 1..1 : rest[i] \in Tokens
    BY <1>1, <1>12
  <2> QED BY <1>12, <2>1, SubSeqProperties
<1>14. SubSeq(rest, 1 + 1, Len(rest)) = c.text
  <2> DEFINE x == SubSeq(rest, 1 + 1, Len(rest))
  <2>1. \A i \in (1 + 1)..Len(rest) : rest[i] \in Tokens
    BY <1>12
  <2>2. /\ x \in Seq(Tokens) /\ Len(x) = IF 1 + 1 <= Len(rest) THEN Len(rest) - (1 + 1) + 1 ELSE 0
        /\ \A i \in 1..(Len(rest) - (1 + 1) + 1) : x[i] = rest[(1 + 1) + i - 1]
    BY <1>1, <1>12, <2>1, SubSeqProperties
  <2> HIDE DEF x
  <2>3. Len(x) = Len(c.text)
    BY <1>1, <1>12, <2>2
  <2>4. ASSUME NEW i \in 1..Len(x) PROVE x[i] = c.text[i]
    <3>1. i \in 1..(Len(rest) - (1 + 1) + 1) /\ (1 + 1) + i - 1 = 1 + i /\ i \in 1..Len(c.text)
      BY <1>1, <1>12, <2>3
    <3> QED BY <1>12, <2>2, <3>1
  <2>5. x = c.text
    BY <1>1, <2>2, <2>3, <2>4, SeqEqual
  <2> QED BY <2>5 DEF x
<1>15. split_first(s)[1][1][2] = 1 /\ split_first(s)[2] = rest
  BY <1>4, <1>10, <1>11 DEF Number, rest
<1>16. from_string(s) = [cut(rest, 1)[1][1][2] EXCEPT !.text = cut(rest, 1)[2]]
  BY <1>15 DEF from_string
<1>17. cut(rest, 1)[1][1] = FieldsOf(c) /\ cut(rest, 1)[2] = c.text
  BY <1>13, <1>14 DEF cut
<1>18. FieldsOf(c)[2] = [c EXCEPT !.text = <<>>]
  BY DEF FieldsOf, Fields
<1>19. from_string(s) = [[c EXCEPT !.text = <<>>] EXCEPT !.text = c.text]
  BY <1>16, <1>17, <1>18
<1>20. [[c EXCEPT !.text = <<>>] EXCEPT !.text = c.text] = c
  BY DEF Chat
<1> QED BY <1>19, <1>20 DEF s

Partial == [header : Seq(Nat), content : Seq(Tokens)]

\* A turn of build_response.
WithChat(b, c) ==
  [header  |-> Append(b.header, Len(b.content \o Framed(c))),
   content |-> b.content \o Framed(c)]

\* A turn of build_response keeps to sequences of numbers and of tokens.
LEMMA WithChatType ==
  ASSUME NEW b \in Partial, NEW c \in Chat
  PROVE  WithChat(b, c) \in Partial
<1>1. b.header \in Seq(Nat) /\ b.content \in Seq(Tokens) /\ Framed(c) \in Seq(Tokens)
  BY FramedIs DEF Partial
<1>2. b.content \o Framed(c) \in Seq(Tokens) /\ Len(b.content \o Framed(c)) \in Nat
  BY <1>1, ConcatProperties, LenProperties
<1>3. Append(b.header, Len(b.content \o Framed(c))) \in Seq(Nat)
  BY <1>1, <1>2, AppendProperties
<1> QED BY <1>2, <1>3 DEF WithChat, Partial

\* The recursive function of build_response exists: it is what its turns give.
LEMMA BuiltIs ==
  ASSUME NEW s \in Seq(Chat)
  PROVE  /\ Built(s) \in [0..Len(s) -> Partial]
         /\ Built(s)[0] = [header |-> <<0>>, content |-> <<>>]
         /\ \A k \in 1..Len(s) : Built(s)[k] = WithChat(Built(s)[k-1], s[k])
<1> DEFINE n == Len(s)
           a == [header |-> <<0>>, content |-> <<>>]
           step == [k \in 1..n |-> [b \in Partial |-> WithChat(b, s[k])]]
<1>1. n \in Nat /\ \A k \in 1..n : s[k] \in Chat
  BY ElementOfSeq
<1>2. a \in Partial
  <2>1. <<0>> \in Seq(Nat) /\ <<>> \in Seq(Tokens)
    OBVIOUS
  <2> QED BY <2>1 DEF Partial
<1>3. step \in [1..n -> [Partial -> Partial]]
  <2>1. \A k \in 1..n, b \in Partial : WithChat(b, s[k]) \in Partial
    BY <1>1, WithChatType
  <2> QED BY <2>1
<1>4. PICK f \in [0..n -> Partial] : Turns(f, a, step, n)
  <2> HIDE DEF a, step, n
  <2> QED BY <1>1, <1>2, <1>3, LoopExists
<1> DEFINE Fits(g) ==
     g = [k \in 0..n |->
            IF k = 0 THEN a
            ELSE [header  |-> Append(g[k - 1].header, Len(g[k - 1].content \o Framed(s[k]))),
                  content |-> g[k - 1].content \o Framed(s[k])]]
<1>5. Built(s) = CHOOSE g : Fits(g)
  BY DEF Built
<1>6. Fits(f)
  <2> DEFINE h == [k \in 0..n |->
            IF k = 0 THEN a
            ELSE [header  |-> Append(f[k - 1].header, Len(f[k - 1].content \o Framed(s[k]))),
                  content |-> f[k - 1].content \o Framed(s[k])]]
  <2>1. ASSUME NEW k \in 0..n PROVE f[k] = h[k]
    <3>1. CASE k = 0
      BY <1>4, <3>1 DEF Turns
    <3>2. CASE k # 0
      <4>1. k \in 1..n /\ k - 1 \in 0..n
        BY <1>1, <3>2
      <4>2. f[k] = step[k][f[k-1]] /\ f[k-1] \in Partial
        <5> HIDE DEF step
        <5> QED BY <1>4, <4>1 DEF Turns
      <4>3. f[k] = WithChat(f[k-1], s[k])
        BY <4>1, <4>2
      <4> QED BY <3>2, <4>3 DEF WithChat
    <3> QED BY <3>1, <3>2
  <2>2. DOMAIN f = 0..n /\ DOMAIN h = 0..n
    OBVIOUS
  <2>3. f = [k \in 0..n |-> f[k]]
    OBVIOUS
  <2>4. h = [k \in 0..n |-> h[k]]
    OBVIOUS
  <2>5. [k \in 0..n |-> f[k]] = [k \in 0..n |-> h[k]]
    <3> HIDE DEF h
    <3> QED BY <2>1
  <2>6. f = h
    <3> HIDE DEF h
    <3> QED BY <2>3, <2>4, <2>5
  <2> QED BY <2>6
<1>7. Fits(Built(s))
  <2> HIDE DEF Fits
  <2> QED BY <1>5, <1>6
<1>8. Built(s) = [k \in 0..n |-> IF k = 0 THEN a ELSE WithChat(Built(s)[k-1], s[k])]
  BY <1>7 DEF WithChat
<1> DEFINE g == Built(s)
<1>9. g[0] = a /\ \A k \in 1..n : g[k] = WithChat(g[k-1], s[k])
  <2> HIDE DEF a, g
  <2> SUFFICES g = [k \in 0..n |-> IF k = 0 THEN a ELSE WithChat(g[k-1], s[k])]
               => g[0] = a /\ \A k \in 1..n : g[k] = WithChat(g[k-1], s[k])
    BY <1>8 DEF g
  <2> QED BY <1>1
<1>10. \A k \in 0..n : g[k] \in Partial
  <2> DEFINE S == {k \in 0..n : g[k] \in Partial}
  <2> HIDE DEF a, g, n
  <2>1. 0 \in S
    BY <1>1, <1>2, <1>9
  <2>2. ASSUME NEW i \in 0..(n-1), i \in S PROVE i + 1 \in S
    <3>1. i + 1 \in 1..n /\ (i + 1) - 1 = i /\ i + 1 \in 0..n
      BY <1>1
    <3>2. g[i+1] = WithChat(g[i], s[i+1]) /\ g[i] \in Partial /\ s[i+1] \in Chat
      BY <1>1, <1>9, <2>2, <3>1
    <3> QED BY <3>1, <3>2, WithChatType
  <2> HIDE DEF S
  <2>3. \A k \in 0..n : k \in S
    BY <1>1, <2>1, <2>2, Stepping
  <2> QED BY <2>3 DEF S
<1>11. g \in [0..n -> Partial]
  <2> HIDE DEF g, a
  <2>1. g = [k \in 0..n |-> IF k = 0 THEN a ELSE WithChat(g[k-1], s[k])]
    BY <1>8 DEF g
  <2>2. DOMAIN g = 0..n /\ g = [k \in 0..n |-> g[k]]
    BY <2>1
  <2> QED BY <1>10, <2>2
<1> QED BY <1>9, <1>11

\* The positions in the header are where the first k chats are in the content.
Divides(b, s, k) ==
  /\ Len(b.header) = k + 1 /\ b.header[k+1] = Len(b.content)
  /\ \A j \in 1..k :
       /\ b.header[j] < b.header[j+1] /\ b.header[j+1] <= Len(b.content)
       /\ SubSeq(b.content, b.header[j] + 1, b.header[j+1]) = Framed(s[j])

\* One more chat.
LEMMA DividesMore ==
  ASSUME NEW b \in Partial, NEW s \in Seq(Chat), NEW k \in Nat, k < Len(s),
         Divides(b, s, k)
  PROVE  Divides(WithChat(b, s[k+1]), s, k + 1)
<1> DEFINE F == Framed(s[k+1])
           x == b.content \o F
           h == b.header
           d == Append(h, Len(x))
<1>1. s[k+1] \in Chat
  BY ElementOfSeq
<1>2. F \in Seq(Tokens) /\ Len(F) \in Nat /\ Len(F) >= 3
  <2> DEFINE c == s[k+1]
  <2> HIDE DEF c
  <2>1. c \in Chat
    BY <1>1 DEF c
  <2>2. Framed(c) \in Seq(Tokens) /\ Len(Framed(c)) = Len(c.text) + 3 /\ Len(c.text) \in Nat
    BY <2>1, FramedIs
  <2>3. Len(Framed(c)) \in Nat /\ Len(Framed(c)) >= 3
    BY <2>2
  <2> QED BY <2>2, <2>3 DEF c
<1>3. b.content \in Seq(Tokens) /\ h \in Seq(Nat) /\ Len(b.content) \in Nat
  BY DEF Partial
<1> HIDE DEF F, h
<1>4. x \in Seq(Tokens) /\ Len(x) = Len(b.content) + Len(F) /\ Len(x) \in Nat
  <2> DEFINE y == b.content
  <2> HIDE DEF y
  <2>1. y \o F \in Seq(Tokens) /\ Len(y \o F) = Len(y) + Len(F)
    BY <1>2, <1>3, ConcatProperties DEF y
  <2> QED BY <1>2, <1>3, <2>1 DEF y
<1>5. Len(h) = k + 1 /\ h[k+1] = Len(b.content)
  BY DEF Divides, h
<1> DEFINE y == b.content
<1> HIDE DEF x, y
<1>10. x = y \o F /\ y \in Seq(Tokens) /\ Len(y) \in Nat /\ Len(y) = Len(b.content)
  BY <1>3 DEF x, y
<1>6. /\ Len(d) = k + 2 /\ d[k+2] = Len(x)
      /\ \A j \in 1..(k+1) : d[j] = h[j] /\ h[j] \in Nat
  <2>1. /\ Len(d) = Len(h) + 1 /\ d[Len(h)+1] = Len(x)
        /\ \A j \in 1..Len(h) : d[j] = h[j]
    BY <1>3, <1>4, AppendProperties
  <2> HIDE DEF d
  <2> QED BY <1>3, <1>5, <2>1, ElementOfSeq
<1> HIDE DEF d
<1>7. ASSUME NEW j \in 1..(k+1)
      PROVE  d[j] < d[j+1] /\ d[j+1] <= Len(x) /\ SubSeq(x, d[j] + 1, d[j+1]) = Framed(s[j])
  <2>1. CASE j = k + 1
    <3>1. d[j] = Len(b.content) /\ d[j+1] = Len(x)
      BY <1>5, <1>6, <2>1
    <3>2. SubSeq(x, Len(b.content) + 1, Len(x)) = SubSeq(F, 1, Len(F))
      <4> DEFINE m == Len(y) + 1
                 l == Len(x)
      <4>1. /\ m \in Len(y)+1 .. Len(y)+Len(F) /\ l \in Len(y)+1 .. Len(y)+Len(F)
            /\ m - Len(y) = 1 /\ l - Len(y) = Len(F) /\ m = Len(b.content) + 1
        BY <1>2, <1>4, <1>10
      <4> HIDE DEF m, l
      <4>2. SubSeq(y \o F, m, l) = SubSeq(F, m - Len(y), l - Len(y))
        <5>1. y \in Seq(Tokens) /\ F \in Seq(Tokens)
          BY <1>2, <1>10
        <5>2. m \in Len(y)+1 .. Len(y)+Len(F) /\ l \in Len(y)+1 .. Len(y)+Len(F)
          BY <4>1
        <5> HIDE DEF F, y
        <5> QED BY <5>1, <5>2, SubSeqOfConcat2
      <4> QED BY <1>10, <4>1, <4>2 DEF l
    <3>3. SubSeq(F, 1, Len(F)) = F
      BY <1>2, SubSeqFull
    <3>4. SubSeq(x, d[j] + 1, d[j+1]) = Framed(s[j])
      BY <2>1, <3>1, <3>2, <3>3 DEF F
    <3>5. d[j] < d[j+1] /\ d[j+1] <= Len(x)
      BY <1>2, <1>3, <1>4, <3>1
    <3> QED BY <3>4, <3>5
  <2>2. CASE j \in 1..k
    <3>1. /\ h[j] < h[j+1] /\ h[j+1] <= Len(b.content)
          /\ SubSeq(b.content, h[j] + 1, h[j+1]) = Framed(s[j])
      BY <2>2 DEF Divides, h
    <3>2. d[j] = h[j] /\ d[j+1] = h[j+1] /\ h[j] \in Nat /\ h[j+1] \in Nat
      BY <1>6, <2>2
    <3>3. SubSeq(x, h[j] + 1, h[j+1]) = SubSeq(b.content, h[j] + 1, h[j+1])
      <4> DEFINE m == h[j] + 1
                 l == h[j+1]
      <4>1. m \in 1..Len(y) /\ l \in 1..Len(y)
        BY <1>10, <3>1, <3>2, SMTT(20)
      <4> HIDE DEF m, l
      <4>2. SubSeq(y \o F, m, l) = SubSeq(y, m, l)
        BY <1>2, <1>10, <4>1, SubSeqOfConcat1
      <4> QED BY <1>10, <4>2 DEF m, l, y
    <3>4. d[j] < d[j+1] /\ d[j+1] <= Len(x)
      <4>1. d[j] < d[j+1] /\ d[j+1] <= Len(b.content)
        BY <3>1, <3>2
      <4>2. Len(b.content) <= Len(x)
        BY <1>2, <1>3, <1>4
      <4>3. d[j+1] \in Nat
        BY <3>2
      <4> QED BY <1>3, <1>4, <4>1, <4>2, <4>3
    <3>5. SubSeq(x, d[j] + 1, d[j+1]) = Framed(s[j])
      BY <3>1, <3>2, <3>3
    <3> QED BY <3>4, <3>5
  <2> QED BY <2>1, <2>2
<1>8. /\ WithChat(b, s[k+1]).header = d /\ WithChat(b, s[k+1]).content = x
  BY DEF WithChat, d, x, F, h
<1>9. (k + 1) + 1 = k + 2
  OBVIOUS
<1> QED BY <1>6, <1>7, <1>8, <1>9 DEF Divides

(* For every list of chats, what the client reads in the answer is what the *)
(* server put into it: parse_chat undoes build_response, although a text    *)
(* may contain the delimiter of the fields.                                *)
THEOREM WireIsFaithful ==
  ASSUME NEW s \in Seq(Chat)
  PROVE  parse_chat(build_response(s)) = s
<1> DEFINE n == Len(s)
           g == Built(s)
           r == g[n]
<1>1. n \in Nat /\ \A k \in 1..n : s[k] \in Chat
  BY ElementOfSeq
<1>2. /\ g \in [0..n -> Partial]
      /\ g[0] = [header |-> <<0>>, content |-> <<>>]
      /\ \A k \in 1..n : g[k] = WithChat(g[k-1], s[k])
  BY BuiltIs
<1>3. r.header \in Seq(Nat) /\ r.content \in Seq(Tokens) /\ Divides(r, s, n)
  <2> DEFINE S == {k \in 0..n : Divides(g[k], s, k)}
  <2> HIDE DEF g
  <2>1. 0 \in S
    <3>1. Divides([header |-> <<0>>, content |-> <<>>], s, 0)
      BY DEF Divides
    <3> HIDE DEF n
    <3> QED BY <1>1, <1>2, <3>1
  <2>2. ASSUME NEW i \in 0..(n-1), i \in S PROVE i + 1 \in S
    <3>1. i + 1 \in 1..n /\ (i + 1) - 1 = i /\ i + 1 \in 0..n /\ i \in Nat /\ i < Len(s) /\ i \in 0..n
      BY <1>1
    <3>2. g[i+1] = WithChat(g[i], s[i+1]) /\ g[i] \in Partial /\ Divides(g[i], s, i)
      BY <1>1, <1>2, <2>2, <3>1
    <3>3. Divides(WithChat(g[i], s[i+1]), s, i + 1)
      BY <3>1, <3>2, DividesMore
    <3> HIDE DEF n
    <3> QED BY <3>1, <3>2, <3>3
  <2> HIDE DEF S
  <2>3. \A k \in 0..n : k \in S
    BY <1>1, <2>1, <2>2, Stepping
  <2>4. n \in 0..n
    BY <1>1
  <2>5. Divides(g[n], s, n) /\ g[n] \in Partial
    BY <1>2, <2>3, <2>4 DEF S
  <2> QED BY <2>5 DEF Partial
<1>4. build_response(s) = r
  BY DEF build_response
<1> HIDE DEF g, r
<1> DEFINE strings == split_at(r.content, r.header)
<1>5. strings = [i \in 1..n |-> SubSeq(r.content, r.header[i] + 1, r.header[i+1])]
  <2>1. Len(r.header) - 1 = n
    BY <1>1, <1>3 DEF Divides
  <2> HIDE DEF n
  <2> QED BY <2>1 DEF split_at
<1>6. DOMAIN strings = 1..n /\ \A i \in 1..n : strings[i] = Framed(s[i])
  <2> HIDE DEF n, strings
  <2> QED BY <1>3, <1>5 DEF Divides
<1> HIDE DEF strings
<1>7. parse_chat(r) = [i \in DOMAIN strings |-> from_string(strings[i])]
  BY DEF parse_chat, strings
<1>8. \A i \in 1..n : from_string(strings[i]) = s[i]
  BY <1>1, <1>6, ReadBack
<1>9. parse_chat(r) = [i \in 1..n |-> s[i]]
  BY <1>6, <1>7, <1>8
<1>10. s = [i \in 1..n |-> s[i]]
  OBVIOUS
<1> QED BY <1>4, <1>9, <1>10

-----------------------------------------------------------------------------
(* load_chat.                                                              *)

\* A chat as it is in the table.
Row == {c \in Chat : c.text \in Texts}

Loaded == [lines : [Users -> Seq(Texts)], jobs : Seq(Job)]

\* A turn of load_chat.
WithRow(u, b, c) ==
  [lines |-> [b.lines EXCEPT ![Peer(u, c)] = Append(@, c.text)],
   jobs  |-> IF c.delivered THEN b.jobs
             ELSE create(b.jobs, <<NewJob("DELIVERED", NoOne, c.id)>>)]

\* The job that load_chat creates.
LEMMA MarkingJob ==
  ASSUME NEW c \in Chat
  PROVE  NewJob("DELIVERED", NoOne, c.id) \in Job
<1>1. c.id \in 1..MaxSent /\ MaxSent \in Nat
  BY ChatBoundsAssumption DEF Chat
<1>2. c.id \in 0..MaxSent
  BY <1>1
<1>3. <<>> \in Seq(Chat)
  OBVIOUS
<1> QED BY <1>2, <1>3 DEF NewJob, Job

\* The box to which load_chat appends.
LEMMA PeerType ==
  ASSUME NEW u \in Users, NEW c \in Chat
  PROVE  Peer(u, c) \in Users
BY DEF Peer, Chat

\* What a turn adds to the lines and to the jobs.
LEMMA WithRowIs ==
  ASSUME NEW u \in Users, NEW b \in Loaded, NEW c \in Row
  PROVE  LET d == WithRow(u, b, c)
             z == Peer(u, c)
         IN  /\ d \in Loaded
             /\ z \in Users
             /\ \A x \in Users \ {z} : d.lines[x] = b.lines[x]
             /\ Len(d.lines[z]) = Len(b.lines[z]) + 1
             /\ d.lines[z][Len(b.lines[z]) + 1] = c.text
             /\ \A p \in 1..Len(b.lines[z]) : d.lines[z][p] = b.lines[z][p]
             /\ c.delivered => d.jobs = b.jobs
             /\ ~ c.delivered =>
                  /\ Len(d.jobs) = Len(b.jobs) + 1
                  /\ d.jobs[Len(b.jobs) + 1] = NewJob("DELIVERED", NoOne, c.id)
                  /\ \A p \in 1..Len(b.jobs) : d.jobs[p] = b.jobs[p]
<1> DEFINE d == WithRow(u, b, c)
           z == Peer(u, c)
           old == b.lines[z]
           j == NewJob("DELIVERED", NoOne, c.id)
<1>1. c \in Chat /\ c.text \in Texts
  BY DEF Row
<1>2. z \in Users
  BY <1>1, PeerType
<1> HIDE DEF z
<1>3. b.lines \in [Users -> Seq(Texts)] /\ b.jobs \in Seq(Job) /\ old \in Seq(Texts)
  BY <1>2 DEF Loaded
<1>4. d.lines = [b.lines EXCEPT ![z] = Append(old, c.text)]
  BY DEF WithRow, z
<1>5. /\ Append(old, c.text) \in Seq(Texts)
      /\ Len(Append(old, c.text)) = Len(old) + 1
      /\ Append(old, c.text)[Len(old) + 1] = c.text
      /\ \A p \in 1..Len(old) : Append(old, c.text)[p] = old[p]
  <2> HIDE DEF old
  <2> QED BY <1>1, <1>3, AppendProperties
<1>6. d.lines[z] = Append(old, c.text) /\ d.lines \in [Users -> Seq(Texts)]
      /\ \A x \in Users \ {z} : d.lines[x] = b.lines[x]
  <2> HIDE DEF d, old
  <2> QED BY <1>2, <1>3, <1>4, <1>5
<1>7. c.delivered \in BOOLEAN
  BY <1>1 DEF Chat
<1>8. c.delivered => d.jobs = b.jobs
  BY DEF WithRow
<1>9. ~ c.delivered => d.jobs = b.jobs \o <<j>>
  BY DEF WithRow, create
<1>10. j \in Job
  BY <1>1, MarkingJob
<1> HIDE DEF d, j
<1>11. /\ b.jobs \o <<j>> \in Seq(Job)
       /\ Len(b.jobs \o <<j>>) = Len(b.jobs) + 1
       /\ (b.jobs \o <<j>>)[Len(b.jobs) + 1] = j
       /\ \A p \in 1..Len(b.jobs) : (b.jobs \o <<j>>)[p] = b.jobs[p]
  <2> DEFINE e == b.jobs
  <2> HIDE DEF e
  <2>1. e \o <<j>> = Append(e, j)
    BY <1>3, <1>10, AppendIsConcat DEF e
  <2>2. /\ Append(e, j) \in Seq(Job)
        /\ Len(Append(e, j)) = Len(e) + 1
        /\ Append(e, j)[Len(e) + 1] = j
        /\ \A p \in 1..Len(e) : Append(e, j)[p] = e[p]
    BY <1>3, <1>10, AppendProperties DEF e
  <2> QED BY <2>1, <2>2 DEF e
<1>12. d.jobs \in Seq(Job)
  BY <1>3, <1>7, <1>8, <1>9, <1>11
<1>13. d \in Loaded
  <2>1. d = [lines |-> d.lines, jobs |-> d.jobs]
    BY DEF d, WithRow
  <2> QED BY <1>6, <1>12, <2>1 DEF Loaded
<1>14. ~ c.delivered => /\ Len(d.jobs) = Len(b.jobs) + 1
                        /\ d.jobs[Len(b.jobs) + 1] = j
                        /\ \A p \in 1..Len(b.jobs) : d.jobs[p] = b.jobs[p]
  BY <1>9, <1>11, Zenon
<1> QED BY <1>2, <1>5, <1>6, <1>8, <1>13, <1>14 DEF d, j, z

\* A turn keeps to lines and jobs.
LEMMA WithRowType ==
  ASSUME NEW u \in Users, NEW b \in Loaded, NEW c \in Row
  PROVE  WithRow(u, b, c) \in Loaded
BY WithRowIs

\* The recursive function of load_chat exists: it is what its turns give.
LEMMA LoadingIs ==
  ASSUME NEW u \in Users, NEW s \in Seq(Row),
         m_contact_chat[u] \in [Users -> Seq(Texts)], m_jobQ[u] \in Seq(Job)
  PROVE  /\ Loading(u, s) \in [0..Len(s) -> Loaded]
         /\ Loading(u, s)[0] = [lines |-> m_contact_chat[u], jobs |-> m_jobQ[u]]
         /\ \A k \in 1..Len(s) : Loading(u, s)[k] = WithRow(u, Loading(u, s)[k-1], s[k])
<1> DEFINE n == Len(s)
           a == [lines |-> m_contact_chat[u], jobs |-> m_jobQ[u]]
           step == [k \in 1..n |-> [b \in Loaded |-> WithRow(u, b, s[k])]]
           turn(g, k) ==
             [lines |-> [g[k - 1].lines EXCEPT ![Peer(u, s[k])] = Append(@, s[k].text)],
              jobs  |-> IF s[k].delivered THEN g[k - 1].jobs
                        ELSE create(g[k - 1].jobs, <<NewJob("DELIVERED", NoOne, s[k].id)>>)]
<1>1. n \in Nat /\ \A k \in 1..n : s[k] \in Row
  BY ElementOfSeq
<1>2. a \in Loaded
  BY DEF Loaded
<1>3. step \in [1..n -> [Loaded -> Loaded]]
  <2>1. \A k \in 1..n, b \in Loaded : WithRow(u, b, s[k]) \in Loaded
    BY <1>1, WithRowType
  <2> QED BY <2>1
<1>4. PICK f \in [0..n -> Loaded] : Turns(f, a, step, n)
  <2> HIDE DEF a, step, n
  <2> QED BY <1>1, <1>2, <1>3, LoopExists
<1> DEFINE Fits(g) == g = [k \in 0..n |-> IF k = 0 THEN a ELSE turn(g, k)]
<1>5. Loading(u, s) = CHOOSE g : Fits(g)
  BY DEF Loading
<1>6. Fits(f)
  <2> DEFINE h == [k \in 0..n |-> IF k = 0 THEN a ELSE turn(f, k)]
  <2>1. ASSUME NEW k \in 0..n PROVE f[k] = h[k]
    <3>1. CASE k = 0
      BY <1>4, <3>1 DEF Turns
    <3>2. CASE k # 0
      <4>1. k \in 1..n /\ k - 1 \in 0..n
        BY <1>1, <3>2
      <4>2. f[k] = step[k][f[k-1]] /\ f[k-1] \in Loaded
        <5> HIDE DEF step
        <5> QED BY <1>4, <4>1 DEF Turns
      <4>3. f[k] = WithRow(u, f[k-1], s[k])
        BY <4>1, <4>2
      <4>4. f[k] = turn(f, k)
        BY <4>3, Zenon DEF WithRow
      <4>5. h[k] = turn(f, k)
        BY <3>2
      <4> QED BY <4>4, <4>5
    <3> QED BY <3>1, <3>2
  <2>2. f = [k \in 0..n |-> f[k]]
    OBVIOUS
  <2>3. h = [k \in 0..n |-> h[k]]
    OBVIOUS
  <2>4. f = h
    <3> HIDE DEF h
    <3> QED BY <2>1, <2>2, <2>3
  <2> QED BY <2>4
<1>7. Fits(Loading(u, s))
  <2> HIDE DEF Fits
  <2> QED BY <1>5, <1>6
<1> DEFINE g == Loading(u, s)
<1>8. g = [k \in 0..n |-> IF k = 0 THEN a ELSE WithRow(u, g[k-1], s[k])]
  <2>1. \A k : turn(g, k) = WithRow(u, g[k-1], s[k])
    BY DEF WithRow
  <2> HIDE DEF turn, a, n, g
  <2>2. g = [k \in 0..n |-> IF k = 0 THEN a ELSE turn(g, k)]
    BY <1>7 DEF g
  <2> QED BY <2>1, <2>2
<1> HIDE DEF a, g
<1>9. g[0] = a /\ \A k \in 1..n : g[k] = WithRow(u, g[k-1], s[k])
  <2> HIDE DEF n
  <2>1. 0 \in 0..n /\ \A k \in 1..n : k \in 0..n /\ k # 0
    BY <1>1
  <2> DEFINE W(k) == WithRow(u, g[k-1], s[k])
  <2>2. g = [k \in 0..n |-> IF k = 0 THEN a ELSE W(k)]
    BY <1>8
  <2> HIDE DEF W
  <2>3. g[0] = a /\ \A k \in 1..n : g[k] = W(k)
    BY <2>1, <2>2
  <2> QED BY <2>3 DEF W
<1>10. \A k \in 0..n : g[k] \in Loaded
  <2> DEFINE S == {k \in 0..n : g[k] \in Loaded}
  <2> HIDE DEF n
  <2>1. 0 \in S
    BY <1>1, <1>2, <1>9
  <2>2. ASSUME NEW i \in 0..(n-1), i \in S PROVE i + 1 \in S
    <3>1. i + 1 \in 1..n /\ (i + 1) - 1 = i /\ i + 1 \in 0..n
      BY <1>1
    <3>2. g[i+1] = WithRow(u, g[i], s[i+1]) /\ g[i] \in Loaded /\ s[i+1] \in Row
      BY <1>1, <1>9, <2>2, <3>1
    <3>3. WithRow(u, g[i], s[i+1]) \in Loaded
      BY <3>2, WithRowType
    <3> QED BY <3>1, <3>2, <3>3
  <2> HIDE DEF S
  <2>3. \A k \in 0..n : k \in S
    BY <1>1, <2>1, <2>2, Stepping
  <2> QED BY <2>3 DEF S
<1>11. g \in [0..n -> Loaded]
  <2>1. DOMAIN g = 0..n /\ g = [k \in 0..n |-> g[k]]
    BY <1>8
  <2> QED BY <1>10, <2>1
<1> QED BY <1>9, <1>11 DEF g, a

\* What k turns add to the lines ls, and to the jobs q.
Beyond(old, new) == (Len(old) + 1)..Len(new)
AddsLines(b, ls, s, k) ==
  \A c \in Users :
    /\ Len(ls[c]) <= Len(b[c]) /\ \A p \in 1..Len(ls[c]) : b[c][p] = ls[c][p]
    /\ \A p \in Beyond(ls[c], b[c]) : \E i \in 1..k : b[c][p] = s[i].text
    /\ \A p, r \in Beyond(ls[c], b[c]) : p < r =>
         \E i, j \in 1..k : i < j /\ b[c][p] = s[i].text /\ b[c][r] = s[j].text
AddsAll(b, ls, s, k) ==
  \A i \in 1..k : \E c \in Users : \E p \in Beyond(ls[c], b[c]) : b[c][p] = s[i].text
AddsJobs(b, q, s, k) ==
  /\ Len(q) <= Len(b) /\ \A p \in 1..Len(q) : b[p] = q[p]
  /\ \A p \in Beyond(q, b) : \E i \in 1..k : b[p] = NewJob("DELIVERED", NoOne, s[i].id)
  /\ \A i \in 1..k : ~ s[i].delivered =>
       \E p \in Beyond(q, b) : b[p] = NewJob("DELIVERED", NoOne, s[i].id)

\* One more turn appends its line at the end of one box.
LEMMA AddsMoreLines ==
  ASSUME NEW u \in Users, NEW b \in Loaded, NEW s \in Seq(Row), NEW k \in Nat, k < Len(s),
         NEW ls \in [Users -> Seq(Texts)], AddsLines(b.lines, ls, s, k), AddsAll(b.lines, ls, s, k)
  PROVE  /\ AddsLines(WithRow(u, b, s[k+1]).lines, ls, s, k + 1)
         /\ AddsAll(WithRow(u, b, s[k+1]).lines, ls, s, k + 1)
<1> DEFINE r == s[k+1]
           e == WithRow(u, b, r).lines
           z == Peer(u, r)
           o == b.lines
<1>1. r \in Row
  BY ElementOfSeq
<1> HIDE DEF r
<1>2. /\ z \in Users
      /\ \A x \in Users \ {z} : e[x] = o[x]
      /\ Len(e[z]) = Len(o[z]) + 1
      /\ e[z][Len(o[z]) + 1] = r.text
      /\ \A p \in 1..Len(o[z]) : e[z][p] = o[z][p]
  BY <1>1, WithRowIs
<1>3. \A c \in Users : Len(o[c]) \in Nat /\ Len(ls[c]) \in Nat
  <2>1. o \in [Users -> Seq(Texts)]
    BY DEF Loaded
  <2> HIDE DEF o
  <2>2. \A c \in Users : o[c] \in Seq(Texts) /\ ls[c] \in Seq(Texts)
    BY <2>1
  <2> QED BY <2>2, LenProperties
<1>4. AddsLines(o, ls, s, k) /\ AddsAll(o, ls, s, k)
  OBVIOUS
<1> HIDE DEF e, z, o
<1>5. \A i \in 1..k : i \in 1..(k+1)
  OBVIOUS
<1>6. k + 1 \in 1..(k+1) /\ s[k+1] = r
  BY DEF r
<1>7. AddsLines(e, ls, s, k + 1)
  <2> SUFFICES ASSUME NEW c \in Users
      PROVE /\ Len(ls[c]) <= Len(e[c]) /\ \A p \in 1..Len(ls[c]) : e[c][p] = ls[c][p]
            /\ \A p \in Beyond(ls[c], e[c]) : \E i \in 1..(k+1) : e[c][p] = s[i].text
            /\ \A p, t \in Beyond(ls[c], e[c]) : p < t =>
                 \E i, j \in 1..(k+1) : i < j /\ e[c][p] = s[i].text /\ e[c][t] = s[j].text
    BY DEF AddsLines
  <2>1. /\ Len(ls[c]) <= Len(o[c]) /\ \A p \in 1..Len(ls[c]) : o[c][p] = ls[c][p]
        /\ \A p \in Beyond(ls[c], o[c]) : \E i \in 1..k : o[c][p] = s[i].text
        /\ \A p, t \in Beyond(ls[c], o[c]) : p < t =>
             \E i, j \in 1..k : i < j /\ o[c][p] = s[i].text /\ o[c][t] = s[j].text
    BY <1>4 DEF AddsLines
  <2>2. CASE c # z
    <3>1. e[c] = o[c]
      BY <1>2, <2>2
    <3> QED BY <1>5, <2>1, <3>1
  <2>3. CASE c = z
    <3>1. /\ Len(e[c]) = Len(o[c]) + 1
          /\ e[c][Len(o[c]) + 1] = r.text
          /\ \A p \in 1..Len(o[c]) : e[c][p] = o[c][p]
      BY <1>2, <2>3
    <3>2. Len(ls[c]) <= Len(e[c]) /\ \A p \in 1..Len(ls[c]) : e[c][p] = ls[c][p]
      BY <1>3, <2>1, <3>1
    <3>3. \A p \in Beyond(ls[c], e[c]) :
            \/ p \in Beyond(ls[c], o[c]) /\ p \in 1..Len(o[c]) /\ e[c][p] = o[c][p]
            \/ p = Len(o[c]) + 1
      BY <1>3, <2>1, <3>1 DEF Beyond
    <3>4. ASSUME NEW p \in Beyond(ls[c], e[c]) PROVE \E i \in 1..(k+1) : e[c][p] = s[i].text
      <4>1. CASE p = Len(o[c]) + 1
        BY <1>6, <3>1, <4>1
      <4>2. CASE p # Len(o[c]) + 1
        BY <1>5, <2>1, <3>3, <4>2
      <4> QED BY <4>1, <4>2
    <3>5. ASSUME NEW p \in Beyond(ls[c], e[c]), NEW t \in Beyond(ls[c], e[c]), p < t
          PROVE  \E i, j \in 1..(k+1) : i < j /\ e[c][p] = s[i].text /\ e[c][t] = s[j].text
      <4>1. p \in Beyond(ls[c], o[c]) /\ e[c][p] = o[c][p]
        <5>1. p # Len(o[c]) + 1
          BY <1>3, <3>1, <3>5 DEF Beyond
        <5> QED BY <3>3, <5>1
      <4>2. CASE t = Len(o[c]) + 1
        <5>1. PICK i \in 1..k : o[c][p] = s[i].text
          BY <2>1, <4>1
        <5>2. i \in 1..(k+1) /\ i < k + 1
          BY <5>1
        <5> QED BY <1>6, <3>1, <4>1, <4>2, <5>1, <5>2
      <4>3. CASE t # Len(o[c]) + 1
        <5>1. t \in Beyond(ls[c], o[c]) /\ e[c][t] = o[c][t]
          BY <3>3, <4>3
        <5>2. PICK i, j \in 1..k : i < j /\ o[c][p] = s[i].text /\ o[c][t] = s[j].text
          BY <2>1, <3>5, <4>1, <5>1
        <5> QED BY <1>5, <4>1, <5>1, <5>2
      <4> QED BY <4>2, <4>3
    <3> QED BY <3>2, <3>4, <3>5
  <2> QED BY <2>2, <2>3
<1>8. AddsAll(e, ls, s, k + 1)
  <2> SUFFICES ASSUME NEW i \in 1..(k+1)
               PROVE  \E c \in Users : \E p \in Beyond(ls[c], e[c]) : e[c][p] = s[i].text
    BY DEF AddsAll
  <2>1. CASE i = k + 1
    <3>1. Len(o[z]) + 1 \in Beyond(ls[z], e[z])
      BY <1>2, <1>3, <1>4 DEF Beyond, AddsLines
    <3> QED BY <1>2, <1>6, <2>1, <3>1
  <2>2. CASE i \in 1..k
    <3>1. PICK c \in Users : \E p \in Beyond(ls[c], o[c]) : o[c][p] = s[i].text
      BY <1>4, <2>2 DEF AddsAll
    <3>2. PICK p \in Beyond(ls[c], o[c]) : o[c][p] = s[i].text
      BY <3>1
    <3>3. CASE c # z
      <4>1. e[c] = o[c]
        BY <1>2, <3>3
      <4> QED BY <3>2, <4>1
    <3>4. CASE c = z
      <4>1. p \in 1..Len(o[z]) /\ p \in Beyond(ls[z], e[z])
        BY <1>2, <1>3, <1>4, <3>2, <3>4 DEF Beyond, AddsLines
      <4> QED BY <1>2, <3>2, <3>4, <4>1
    <3> QED BY <3>3, <3>4
  <2> QED BY <2>1, <2>2
<1> QED BY <1>7, <1>8 DEF e, r

\* One more turn creates its job behind the others, when the row is not marked.
LEMMA AddsMoreJobs ==
  ASSUME NEW u \in Users, NEW b \in Loaded, NEW s \in Seq(Row), NEW k \in Nat, k < Len(s),
         NEW q \in Seq(Job), AddsJobs(b.jobs, q, s, k)
  PROVE  AddsJobs(WithRow(u, b, s[k+1]).jobs, q, s, k + 1)
<1> DEFINE r == s[k+1]
           e == WithRow(u, b, r).jobs
           o == b.jobs
           J(i) == NewJob("DELIVERED", NoOne, s[i].id)
<1>1. r \in Row
  BY ElementOfSeq
<1>2. r.delivered \in BOOLEAN
  BY <1>1 DEF Row, Chat
<1> HIDE DEF r
<1>3. /\ r.delivered => e = o
      /\ ~ r.delivered => /\ Len(e) = Len(o) + 1
                          /\ e[Len(o) + 1] = NewJob("DELIVERED", NoOne, r.id)
                          /\ \A p \in 1..Len(o) : e[p] = o[p]
  BY <1>1, WithRowIs
<1>4. Len(o) \in Nat /\ Len(q) \in Nat
  <2>1. o \in Seq(Job)
    BY DEF Loaded
  <2> QED BY <2>1, LenProperties
<1>5. /\ Len(q) <= Len(o) /\ \A p \in 1..Len(q) : o[p] = q[p]
      /\ \A p \in Beyond(q, o) : \E i \in 1..k : o[p] = J(i)
      /\ \A i \in 1..k : ~ s[i].delivered => \E p \in Beyond(q, o) : o[p] = J(i)
  BY DEF AddsJobs
<1> HIDE DEF e, o
<1>6. (\A i \in 1..k : i \in 1..(k+1)) /\ (\A i \in 1..(k+1) : i \in 1..k \/ i = k + 1) /\ k + 1 \in 1..(k+1)
  OBVIOUS
<1>7. s[k+1] = r /\ J(k+1) = NewJob("DELIVERED", NoOne, r.id)
  BY DEF r
<1> HIDE DEF J
<1>8. /\ Len(q) <= Len(e) /\ \A p \in 1..Len(q) : e[p] = q[p]
      /\ \A p \in Beyond(q, e) : \E i \in 1..(k+1) : e[p] = J(i)
      /\ \A i \in 1..(k+1) : ~ s[i].delivered => \E p \in Beyond(q, e) : e[p] = J(i)
  <2>1. CASE r.delivered
    BY <1>3, <1>5, <1>6, <1>7, <2>1
  <2>2. CASE ~ r.delivered
    <3>1. /\ Len(e) = Len(o) + 1 /\ e[Len(o) + 1] = J(k+1)
          /\ \A p \in 1..Len(o) : e[p] = o[p]
      BY <1>3, <1>7, <2>2
    <3>2. Len(q) <= Len(e) /\ \A p \in 1..Len(q) : e[p] = q[p]
      BY <1>4, <1>5, <3>1
    <3>3. /\ \A p \in Beyond(q, e) : (p \in Beyond(q, o) /\ e[p] = o[p]) \/ p = Len(o) + 1
          /\ Len(o) + 1 \in Beyond(q, e)
          /\ \A p \in Beyond(q, o) : p \in Beyond(q, e) /\ e[p] = o[p]
      BY <1>4, <1>5, <3>1 DEF Beyond
    <3>4. \A p \in Beyond(q, e) : \E i \in 1..(k+1) : e[p] = J(i)
      BY <1>5, <1>6, <3>1, <3>3
    <3>5. \A i \in 1..(k+1) : ~ s[i].delivered => \E p \in Beyond(q, e) : e[p] = J(i)
      BY <1>5, <1>6, <3>1, <3>3
    <3> QED BY <3>2, <3>4, <3>5
  <2> QED BY <1>2, <2>1, <2>2
<1> QED BY <1>8 DEF AddsJobs, J, e, r

\* What load_chat adds.
LEMMA LoadingAdds ==
  ASSUME NEW u \in Users, NEW s \in Seq(Row),
         m_contact_chat[u] \in [Users -> Seq(Texts)], m_jobQ[u] \in Seq(Job)
  PROVE  /\ Loading(u, s)[Len(s)] \in Loaded
         /\ AddsLines(Loading(u, s)[Len(s)].lines, m_contact_chat[u], s, Len(s))
         /\ AddsAll(Loading(u, s)[Len(s)].lines, m_contact_chat[u], s, Len(s))
         /\ AddsJobs(Loading(u, s)[Len(s)].jobs, m_jobQ[u], s, Len(s))
<1> DEFINE n == Len(s)
           g == Loading(u, s)
           ls == m_contact_chat[u]
           q == m_jobQ[u]
           Adds(b, k) == AddsLines(b.lines, ls, s, k) /\ AddsAll(b.lines, ls, s, k) /\ AddsJobs(b.jobs, q, s, k)
           S == {k \in 0..n : Adds(g[k], k)}
<1>1. n \in Nat
  BY LenProperties
<1>2. /\ g \in [0..n -> Loaded]
      /\ g[0] = [lines |-> ls, jobs |-> q]
      /\ \A k \in 1..n : g[k] = WithRow(u, g[k-1], s[k])
  BY LoadingIs
<1> HIDE DEF g
<1>3. 0 \in S
  <2>1. \A c \in Users : Len(ls[c]) \in Nat /\ Beyond(ls[c], ls[c]) = {}
    <3>1. \A c \in Users : Len(ls[c]) \in Nat
      BY LenProperties
    <3> QED BY <3>1 DEF Beyond
  <2>2. Len(q) \in Nat /\ Beyond(q, q) = {}
    BY LenProperties DEF Beyond
  <2>6. 1..0 = {}
    OBVIOUS
  <2>7. AddsLines(ls, ls, s, 0)
    <3> HIDE DEF ls
    <3>1. ASSUME NEW c \in Users
          PROVE  /\ Len(ls[c]) <= Len(ls[c]) /\ \A p \in 1..Len(ls[c]) : ls[c][p] = ls[c][p]
                 /\ \A p \in {} : \E i \in 1..0 : ls[c][p] = s[i].text
                 /\ \A p, r \in {} : p < r =>
                      \E i, j \in 1..0 : i < j /\ ls[c][p] = s[i].text /\ ls[c][r] = s[j].text
      BY <2>1
    <3> QED BY <2>1, <3>1 DEF AddsLines
  <2>8. AddsAll(ls, ls, s, 0)
    BY <2>6 DEF AddsAll
  <2>9. AddsJobs(q, q, s, 0)
    <3> HIDE DEF q
    <3> QED BY <2>2, <2>6 DEF AddsJobs
  <2>3. AddsLines(ls, ls, s, 0) /\ AddsAll(ls, ls, s, 0) /\ AddsJobs(q, q, s, 0)
    BY <2>7, <2>8, <2>9
  <2>4. g[0].lines = ls /\ g[0].jobs = q
    BY <1>2
  <2>5. 0 \in 0..n
    BY <1>1
  <2> HIDE DEF ls, q
  <2> QED BY <2>3, <2>4, <2>5
<1>4. ASSUME NEW i \in 0..(n-1), i \in S PROVE i + 1 \in S
  <2>1. i + 1 \in 1..n /\ (i + 1) - 1 = i /\ i + 1 \in 0..n /\ i \in Nat /\ i < Len(s) /\ i \in 0..n
    BY <1>1
  <2>2. g[i+1] = WithRow(u, g[i], s[i+1]) /\ g[i] \in Loaded /\ Adds(g[i], i)
    BY <1>2, <1>4, <2>1
  <2> DEFINE e == WithRow(u, g[i], s[i+1])
  <2>3. AddsLines(e.lines, ls, s, i + 1) /\ AddsAll(e.lines, ls, s, i + 1)
    BY <2>1, <2>2, AddsMoreLines
  <2>4. AddsJobs(e.jobs, q, s, i + 1)
    BY <2>1, <2>2, AddsMoreJobs
  <2> HIDE DEF e, n, ls, q
  <2>5. g[i+1] = e
    BY <2>2 DEF e
  <2> QED BY <2>1, <2>3, <2>4, <2>5
<1> HIDE DEF S
<1>5. \A k \in 0..n : k \in S
  BY <1>1, <1>3, <1>4, Stepping
<1>6. n \in 0..n
  BY <1>1
<1>7. Adds(g[n], n) /\ g[n] \in Loaded
  BY <1>2, <1>5, <1>6 DEF S
<1> QED BY <1>7 DEF g

-----------------------------------------------------------------------------
(* The inductive invariant.  T is the table, U the numbers of the messages *)
(* of which a row or a mark was not written, n the number of messages sent, *)
(* L what has been loaded by whom; q and r are the jobs and the responses   *)
(* of the user u, ls the lines of her chat boxes.                           *)

\* The rows of a sender are in the order in which she wrote the messages, and
\* the clock does not go back.
Rows(T, n) ==
  /\ \A i \in DOMAIN T :
       T[i].sender # T[i].recipient /\ \E m \in 1..n : T[i].text = Message(m)
  /\ \A i, j \in DOMAIN T : i < j =>
       /\ T[i].created_at <= T[j].created_at
       /\ T[i].text # T[j].text
       /\ T[i].sender = T[j].sender =>
            \A a, b \in 1..MaxSent : T[i].text = Message(a) /\ T[j].text = Message(b) => a < b

Party(T, u, i) == u \in {T[i].sender, T[i].recipient}

MarkedByParty(T, L) ==
  \A i \in DOMAIN T : T[i].delivered => \E u \in Users : Party(T, u, i) /\ <<u, i>> \in L

Table(T, U, n, L) ==
  /\ T \in Seq(Chat) /\ U \subseteq 1..MaxSent /\ n \in 0..MaxSent /\ L \subseteq Users \X (1..MaxSent)
  /\ \A i \in DOMAIN T : T[i].id = i
  /\ Rows(T, n) /\ MarkedByParty(T, L)

\* The messages that wait in q are not in the table yet, and come after those of
\* u that are.
Waiting(T, n, u, q) ==
  /\ \A k \in DOMAIN q : q[k].m_command = "SEND" =>
       /\ q[k].m_argument \in 1..n /\ q[k].m_intValue \in Users \ {u}
       /\ \A i \in DOMAIN T :
            /\ T[i].text # Message(q[k].m_argument)
            /\ T[i].sender = u => \A a \in 1..MaxSent : T[i].text = Message(a) => a < q[k].m_argument
  /\ \A k, l \in DOMAIN q : k < l /\ q[k].m_command = "SEND" /\ q[l].m_command = "SEND" =>
       q[k].m_argument < q[l].m_argument

\* No message waits with two users.
Sends(q) == {q[k].m_argument : k \in {l \in DOMAIN q : q[l].m_command = "SEND"}}
Apart(q, r) == Sends(q) \cap Sends(r) = {}

\* The chats that q asks to be marked are chats of u that she has loaded.
Marks(T, L, u, q) ==
  \A k \in DOMAIN q : q[k].m_command = "DELIVERED" =>
    q[k].m_argument \in DOMAIN T /\ Party(T, u, q[k].m_argument) /\ <<u, q[k].m_argument>> \in L

\* A list of rows of u, each once, by time, as they were when it was made.
Listed(T, u, list) ==
  /\ \A p \in DOMAIN list :
       /\ list[p].id \in DOMAIN T /\ Party(T, u, list[p].id)
       /\ list[p].text = T[list[p].id].text /\ list[p].sender = T[list[p].id].sender
       /\ list[p].delivered => T[list[p].id].delivered
  /\ \A p, s \in DOMAIN list : p < s =>
       /\ list[p].id # list[s].id
       /\ T[list[p].id].created_at <= T[list[s].id].created_at

\* The message of number m has a row of u, or none that was recorded.
Stands(T, U, u, m) ==
  m \in U \/ \E i \in DOMAIN T : T[i].text = Message(m) /\ Party(T, u, i)

\* The rows of which no write failed.
Recorded(T, U) == {i \in DOMAIN T : \A m \in U : T[i].text # Message(m)}

Answers(T, U, u, r) ==
  \A k \in DOMAIN r :
    /\ r[k].m_command \in {"CHAT", "PENDING"} => Listed(T, u, r[k].m_chats)
    /\ r[k].m_command = "SEND" =>
         /\ r[k].m_argument \in 1..MaxSent /\ r[k].m_intValue \in Users
         /\ Stands(T, U, u, r[k].m_argument)
         /\ \A i \in Recorded(T, U) : T[i].text = Message(r[k].m_argument) => T[i].sender = u
    /\ r[k].m_command # "DELIVERED"

\* The lines in the boxes.
Box(T, U, u, ls) ==
  \A c \in Users : \A p \in DOMAIN ls[c] :
    \E m \in 1..MaxSent : ls[c][p] = Message(m) /\ Stands(T, U, u, m)

\* Where u is between the start and the end of her client.
Empty(ls) == \A c \in Users : ls[c] = <<>>
Phased(ph, q, r, ls, lt) ==
  /\ ph = "off" => q = <<>> /\ r = <<>> /\ Empty(ls) /\ ~ lt
  /\ ph = "loading" =>
       /\ ~ Pending(q, "PENDING") /\ ~ Pending(r, "PENDING") /\ ~ Pending(q, "DELIVERED")
       /\ Empty(ls) /\ ~ lt
       /\ \/ Next_is(q, "CHAT") /\ r = <<>> /\ \A k \in DOMAIN q : q[k].m_command = "CHAT" => k = 1
          \/ Next_is(r, "CHAT") /\ ~ Pending(q, "CHAT") /\ \A k \in DOMAIN r : r[k].m_command = "CHAT" => k = 1
  /\ ph = "ready" => ~ Pending(q, "CHAT") /\ ~ Pending(r, "CHAT")

\* One PENDING at a time.
OneAtATime(q, r) ==
  /\ \A k, l \in DOMAIN q : q[k].m_command = "PENDING" /\ q[l].m_command = "PENDING" => k = l
  /\ \A k, l \in DOMAIN r : r[k].m_command = "PENDING" /\ r[l].m_command = "PENDING" => k = l
  /\ Pending(q, "PENDING") => ~ Pending(r, "PENDING")

\* Where a row is shown, and the responses that bring it.
ShownAt(T, ls, c, i) == {p \in DOMAIN ls[c] : ls[c][p] = T[i].text}
Shows(T, ls, i) == \E c \in Users : ShownAt(T, ls, c, i) # {}
Lists(job, i) ==
  job.m_command \in {"CHAT", "PENDING"} /\ \E p \in DOMAIN job.m_chats : job.m_chats[p].id = i
Brings(T, job, i) ==
  Lists(job, i) \/ (job.m_command = "SEND" /\ Message(job.m_argument) = T[i].text)
Has(T, r, ls, i) == Shows(T, ls, i) \/ \E k \in DOMAIN r : Brings(T, r[k], i)

\* Nothing is shown twice, now or when the responses have been handled.
Once(T, U, r, ls) ==
  \A i \in Recorded(T, U) :
    /\ \A c \in Users : \A p, s \in ShownAt(T, ls, c, i) : p = s
    /\ Shows(T, ls, i) => \A k \in DOMAIN r : ~ Brings(T, r[k], i)
    /\ \A k, l \in DOMAIN r : Brings(T, r[k], i) /\ Brings(T, r[l], i) => k = l

\* What u has got is marked before she asks again.
Marked(T, q, r, i) ==
  \/ T[i].delivered
  \/ ~ Pending(q, "PENDING") /\ \E k \in DOMAIN r : Lists(r[k], i)
  \/ \E k \in DOMAIN q :
       /\ q[k].m_command = "DELIVERED" /\ q[k].m_argument = i
       /\ \A l \in DOMAIN q : q[l].m_command = "PENDING" => k < l
Settled(T, U, u, q, r, ls) ==
  \A i \in Recorded(T, U) : Has(T, r, ls, i) /\ T[i].sender # u => Marked(T, q, r, i)

\* Of two messages of one sender the first is shown first.
Before(T, i, j) == T[i].sender = T[j].sender /\ T[i].created_at < T[j].created_at
InOrder(T, U, u, r, ls) ==
  \A i, j \in Recorded(T, U) : Before(T, i, j) =>
    /\ \A c \in Users : \A p \in ShownAt(T, ls, c, i), s \in ShownAt(T, ls, c, j) : p < s
    /\ Shows(T, ls, j) => \A k \in DOMAIN r : ~ Brings(T, r[k], i)
    /\ \A k, l \in DOMAIN r : Brings(T, r[k], i) /\ Brings(T, r[l], j) => k <= l
    /\ Has(T, r, ls, j) /\ T[i].recipient = u /\ T[j].recipient = u =>
         T[i].delivered \/ Has(T, r, ls, i)

ClientType(ph, q, r, ls, lt) ==
  /\ ph \in {"off", "loading", "ready"} /\ lt \in BOOLEAN
  /\ q \in Seq(Job) /\ r \in Seq(Job) /\ ls \in [Users -> Seq(Texts)]
Steady(T, U, u, q, r, ls) ==
  OneAtATime(q, r) /\ Once(T, U, r, ls) /\ Settled(T, U, u, q, r, ls) /\ InOrder(T, U, u, r, ls)
Client(T, U, n, L, u, ph, q, r, ls, lt) ==
  /\ ClientType(ph, q, r, ls, lt)
  /\ Waiting(T, n, u, q) /\ Marks(T, L, u, q)
  /\ Answers(T, U, u, r) /\ Box(T, U, u, ls) /\ Phased(ph, q, r, ls, lt)
  /\ ~ lt => Steady(T, U, u, q, r, ls)

-----------------------------------------------------------------------------
(* Queues and tables.                                                      *)

\* Two messages have two texts.
LEMMA MessageIs ==
  ASSUME NEW a, NEW b, Message(a) = Message(b)
  PROVE  a = b
BY DEF Message, Mark, Delim

\* The first element of a has been taken: b is the rest.
Taken1(a, b) ==
  /\ 1 \in DOMAIN a /\ DOMAIN a \subseteq Nat /\ DOMAIN b \subseteq Nat \ {0}
  /\ \A k \in DOMAIN b : k + 1 \in DOMAIN a /\ b[k] = a[k+1]
  /\ \A k \in DOMAIN a : k # 1 => k - 1 \in DOMAIN b /\ b[k-1] = a[k] /\ k > 1

\* x has been put behind the elements of a.
Put(a, x, b) ==
  /\ DOMAIN a \subseteq Nat /\ DOMAIN b \subseteq Nat
  /\ \A k \in DOMAIN a : k \in DOMAIN b /\ b[k] = a[k]
  /\ \E e \in DOMAIN b :
       /\ b[e] = x /\ e \notin DOMAIN a
       /\ \A k \in DOMAIN b : k = e \/ (k \in DOMAIN a /\ k < e)

\* Tail takes the first element.
LEMMA TailTakes ==
  ASSUME NEW S, NEW a \in Seq(S), a # <<>>
  PROVE  Taken1(a, Tail(a)) /\ Tail(a) \in Seq(S) /\ Head(a) = a[1]
<1> DEFINE b == Tail(a)
<1>1. /\ Head(a) \in S /\ b \in Seq(S) /\ Len(b) = Len(a) - 1
      /\ \A i \in 1..Len(b) : b[i] = a[i+1]
  BY HeadTailProperties
<1>2. Len(a) \in Nat /\ Len(a) > 0 /\ Head(a) = a[1]
  BY EmptySeq, LenProperties
<1>3. DOMAIN a = 1..Len(a) /\ DOMAIN b = 1..Len(b)
  BY <1>1, LenProperties
<1> HIDE DEF b
<1>4. \A k \in 1..Len(b) : k + 1 \in 1..Len(a)
  BY <1>1, <1>2
<1>5. \A k \in 1..Len(a) : k # 1 => k - 1 \in 1..Len(b) /\ k > 1 /\ (k - 1) + 1 = k
  BY <1>1, <1>2
<1>6. 1 \in 1..Len(a) /\ 1..Len(a) \subseteq Nat /\ 1..Len(b) \subseteq Nat \ {0}
  BY <1>1, <1>2
<1> QED BY <1>1, <1>2, <1>3, <1>4, <1>5, <1>6 DEF Taken1, b

\* Append puts an element behind the others.
LEMMA AppendPuts ==
  ASSUME NEW S, NEW a \in Seq(S), NEW x \in S
  PROVE  Put(a, x, Append(a, x)) /\ Append(a, x) \in Seq(S)
<1> DEFINE b == Append(a, x)
           e == Len(a) + 1
<1>1. /\ b \in Seq(S) /\ Len(b) = e /\ b[e] = x
      /\ \A i \in 1..Len(a) : b[i] = a[i]
  BY AppendProperties
<1>2. Len(a) \in Nat /\ DOMAIN a = 1..Len(a) /\ DOMAIN b = 1..Len(b)
  BY <1>1, LenProperties
<1> HIDE DEF b
<1>3. /\ \A k \in 1..Len(a) : k \in 1..e
      /\ e \in 1..e /\ e \notin 1..Len(a)
      /\ \A k \in 1..e : k = e \/ (k \in 1..Len(a) /\ k < e)
      /\ 1..Len(a) \subseteq Nat /\ 1..e \subseteq Nat
  BY <1>2
<1> HIDE DEF e
<1> QED BY <1>1, <1>2, <1>3 DEF Put, b

\* So does JobBus::create.
LEMMA CreatePuts ==
  ASSUME NEW S, NEW a \in Seq(S), NEW x \in S
  PROVE  Put(a, x, create(a, <<x>>)) /\ create(a, <<x>>) \in Seq(S)
<1>1. create(a, <<x>>) = Append(a, x)
  BY AppendIsConcat DEF create
<1> QED BY <1>1, AppendPuts

\* A later state of the server, without new rows.
Later(T, U, n, L, T2, U2, n2, L2) ==
  /\ DOMAIN T2 = DOMAIN T
  /\ \A i \in DOMAIN T :
       /\ T2[i].id = T[i].id /\ T2[i].text = T[i].text /\ T2[i].sender = T[i].sender
       /\ T2[i].recipient = T[i].recipient /\ T2[i].created_at = T[i].created_at
       /\ T[i].delivered => T2[i].delivered
  /\ U \subseteq U2 /\ L \subseteq L2
  /\ n \in Nat /\ n2 \in Nat /\ n <= n2

\* Nothing becomes recorded when no row is added.
LEMMA LaterRecorded ==
  ASSUME NEW T, NEW U, NEW n, NEW L, NEW T2, NEW U2, NEW n2, NEW L2, Later(T, U, n, L, T2, U2, n2, L2)
  PROVE  Recorded(T2, U2) \subseteq Recorded(T, U)
BY DEF Later, Recorded

\* What a client has got does not depend on the marks.
LEMMA LaterHas ==
  ASSUME NEW T, NEW U, NEW n, NEW L, NEW T2, NEW U2, NEW n2, NEW L2, Later(T, U, n, L, T2, U2, n2, L2),
         NEW i \in DOMAIN T, NEW r, NEW ls
  PROVE  /\ \A c : ShownAt(T2, ls, c, i) = ShownAt(T, ls, c, i)
         /\ Shows(T2, ls, i) <=> Shows(T, ls, i)
         /\ \A job : Brings(T2, job, i) <=> Brings(T, job, i)
         /\ Has(T2, r, ls, i) <=> Has(T, r, ls, i)
<1>1. T2[i].text = T[i].text
  BY DEF Later
<1>2. \A c : ShownAt(T2, ls, c, i) = ShownAt(T, ls, c, i)
  BY <1>1 DEF ShownAt
<1>3. \A job : Brings(T2, job, i) <=> Brings(T, job, i)
  BY <1>1 DEF Brings
<1>4. Shows(T2, ls, i) <=> Shows(T, ls, i)
  BY <1>2 DEF Shows
<1> QED BY <1>2, <1>3, <1>4 DEF Has

\* What waits, what came and what is shown agree with the later table.
LEMMA LaterQueues ==
  ASSUME NEW T, NEW U, NEW n, NEW L, NEW T2, NEW U2, NEW n2, NEW L2, Later(T, U, n, L, T2, U2, n2, L2),
         NEW u, NEW q, NEW r, NEW ls
  PROVE  /\ Waiting(T, n, u, q) => Waiting(T2, n2, u, q)
         /\ Marks(T, L, u, q) => Marks(T2, L2, u, q)
         /\ Answers(T, U, u, r) => Answers(T2, U2, u, r)
         /\ Box(T, U, u, ls) => Box(T2, U2, u, ls)
<1>1. ASSUME Waiting(T, n, u, q) PROVE Waiting(T2, n2, u, q)
  <2>1. 1..n \subseteq 1..n2
    BY DEF Later
  <2> QED BY <1>1, <2>1 DEF Waiting, Later
<1>2. \A i \in DOMAIN T : Party(T2, u, i) <=> Party(T, u, i)
  BY DEF Later, Party
<1>3. ASSUME Marks(T, L, u, q) PROVE Marks(T2, L2, u, q)
  BY <1>2, <1>3 DEF Marks, Later
<1>4. \A m : Stands(T, U, u, m) => Stands(T2, U2, u, m)
  BY <1>2 DEF Stands, Later
<1>5. \A list : Listed(T, u, list) => Listed(T2, u, list)
  BY <1>2 DEF Listed, Later
<1>6. ASSUME Answers(T, U, u, r) PROVE Answers(T2, U2, u, r)
  <2>1. \A i \in Recorded(T2, U2) : i \in Recorded(T, U) /\ T2[i].text = T[i].text /\ T2[i].sender = T[i].sender
    BY LaterRecorded DEF Later, Recorded
  <2> QED BY <1>4, <1>5, <1>6, <2>1 DEF Answers
<1>7. ASSUME Box(T, U, u, ls) PROVE Box(T2, U2, u, ls)
  BY <1>4, <1>7 DEF Box
<1> QED BY <1>1, <1>3, <1>6, <1>7

\* The order of what is shown and its marks agree with the later table.
LEMMA LaterSteady ==
  ASSUME NEW T, NEW U, NEW n, NEW L, NEW T2, NEW U2, NEW n2, NEW L2, Later(T, U, n, L, T2, U2, n2, L2),
         NEW u, NEW q, NEW r, NEW ls, Steady(T, U, u, q, r, ls)
  PROVE  Steady(T2, U2, u, q, r, ls)
<1>1. \A i \in Recorded(T2, U2) : i \in Recorded(T, U) /\ i \in DOMAIN T
  BY LaterRecorded DEF Recorded
<1>2. \A i \in DOMAIN T :
         /\ \A c : ShownAt(T2, ls, c, i) = ShownAt(T, ls, c, i)
         /\ Shows(T2, ls, i) <=> Shows(T, ls, i)
         /\ \A job : Brings(T2, job, i) <=> Brings(T, job, i)
         /\ Has(T2, r, ls, i) <=> Has(T, r, ls, i)
  BY LaterHas
<1>3. Once(T2, U2, r, ls)
  BY <1>1, <1>2 DEF Steady, Once
<1>4. Settled(T2, U2, u, q, r, ls)
  BY <1>1, <1>2 DEF Steady, Settled, Marked, Later
<1>5. InOrder(T2, U2, u, r, ls)
  <2> SUFFICES ASSUME NEW i \in Recorded(T2, U2), NEW j \in Recorded(T2, U2), Before(T2, i, j)
      PROVE /\ \A c \in Users : \A p \in ShownAt(T2, ls, c, i), s \in ShownAt(T2, ls, c, j) : p < s
            /\ Shows(T2, ls, j) => \A k \in DOMAIN r : ~ Brings(T2, r[k], i)
            /\ \A k, l \in DOMAIN r : Brings(T2, r[k], i) /\ Brings(T2, r[l], j) => k <= l
            /\ Has(T2, r, ls, j) /\ T2[i].recipient = u /\ T2[j].recipient = u =>
                 T2[i].delivered \/ Has(T2, r, ls, i)
    BY DEF InOrder
  <2>1. Before(T, i, j)
    BY <1>1 DEF Before, Later
  <2>2. /\ \A c \in Users : \A p \in ShownAt(T, ls, c, i), s \in ShownAt(T, ls, c, j) : p < s
        /\ Shows(T, ls, j) => \A k \in DOMAIN r : ~ Brings(T, r[k], i)
        /\ \A k, l \in DOMAIN r : Brings(T, r[k], i) /\ Brings(T, r[l], j) => k <= l
        /\ Has(T, r, ls, j) /\ T[i].recipient = u /\ T[j].recipient = u =>
             T[i].delivered \/ Has(T, r, ls, i)
    BY <1>1, <2>1 DEF Steady, InOrder
  <2>3. T2[i].recipient = T[i].recipient /\ T2[j].recipient = T[j].recipient /\ (T[i].delivered => T2[i].delivered)
    BY <1>1 DEF Later
  <2> QED BY <1>1, <1>2, <2>2, <2>3
<1> QED BY <1>3, <1>4, <1>5 DEF Steady

\* A client that does nothing.
LEMMA LaterClient ==
  ASSUME NEW T, NEW U, NEW n, NEW L, NEW T2, NEW U2, NEW n2, NEW L2, Later(T, U, n, L, T2, U2, n2, L2),
         NEW u, NEW ph, NEW q, NEW r, NEW ls, NEW lt, Client(T, U, n, L, u, ph, q, r, ls, lt)
  PROVE  Client(T2, U2, n2, L2, u, ph, q, r, ls, lt)
BY LaterQueues, LaterSteady DEF Client

\* T2 is T with a row x more, the message m.
Added(T, x, m, T2) ==
  /\ DOMAIN T2 = DOMAIN T \cup {x} /\ x \notin DOMAIN T
  /\ \A i \in DOMAIN T : T2[i] = T[i] /\ T[i].text # Message(m)
  /\ T2[x].text = Message(m) /\ m \in 1..MaxSent
  /\ \A i \in DOMAIN T : ~ Before(T2, x, i)

\* What waits, what came and what is shown agree with the table and its new row.
LEMMA AddedQueues ==
  ASSUME NEW T, NEW x, NEW m, NEW T2, Added(T, x, m, T2), NEW U, NEW n, NEW L, NEW u, NEW q, NEW r, NEW ls
  PROVE  /\ /\ Waiting(T, n, u, q)
            /\ \A k \in DOMAIN q : q[k].m_command = "SEND" =>
                 q[k].m_argument # m /\ (T2[x].sender = u => m < q[k].m_argument)
            => Waiting(T2, n, u, q)
         /\ Marks(T, L, u, q) => Marks(T2, L, u, q)
         /\ Answers(T, U, u, r) => Answers(T2, U, u, r)
         /\ Box(T, U, u, ls) => Box(T2, U, u, ls)
<1>1. /\ DOMAIN T2 = DOMAIN T \cup {x} /\ T2[x].text = Message(m)
      /\ \A i \in DOMAIN T : T2[i] = T[i] /\ T[i].text # Message(m)
  BY DEF Added
<1>2. \A i \in DOMAIN T : Party(T2, u, i) <=> Party(T, u, i)
  BY <1>1 DEF Party
<1>3. ASSUME Waiting(T, n, u, q),
             \A k \in DOMAIN q : q[k].m_command = "SEND" =>
               q[k].m_argument # m /\ (T2[x].sender = u => m < q[k].m_argument)
      PROVE  Waiting(T2, n, u, q)
  <2>1. ASSUME NEW k \in DOMAIN q, q[k].m_command = "SEND", NEW i \in DOMAIN T2
        PROVE  /\ T2[i].text # Message(q[k].m_argument)
               /\ T2[i].sender = u => \A a \in 1..MaxSent : T2[i].text = Message(a) => a < q[k].m_argument
    <3>1. CASE i = x
      BY <1>1, <1>3, <2>1, <3>1, MessageIs
    <3>2. CASE i \in DOMAIN T
      BY <1>1, <1>3, <2>1, <3>2 DEF Waiting
    <3> QED BY <1>1, <3>1, <3>2
  <2> QED BY <1>3, <2>1 DEF Waiting
<1>4. ASSUME Marks(T, L, u, q) PROVE Marks(T2, L, u, q)
  BY <1>1, <1>2, <1>4 DEF Marks
<1>5. \A a : Stands(T, U, u, a) => Stands(T2, U, u, a)
  BY <1>1, <1>2 DEF Stands
<1>6. \A list : Listed(T, u, list) => Listed(T2, u, list)
  BY <1>1, <1>2 DEF Listed
<1>7. ASSUME Answers(T, U, u, r) PROVE Answers(T2, U, u, r)
  <2>1. ASSUME NEW k \in DOMAIN r, r[k].m_command = "SEND", NEW i \in Recorded(T2, U),
               T2[i].text = Message(r[k].m_argument)
        PROVE  T2[i].sender = u
    <3>1. CASE i = x
      <4>1. r[k].m_argument = m
        BY <1>1, <2>1, <3>1, MessageIs
      <4>2. m \notin U
        BY <1>1, <2>1, <3>1 DEF Recorded
      <4>3. Stands(T, U, u, m)
        BY <1>7, <2>1, <4>1 DEF Answers
      <4> QED BY <1>1, <4>2, <4>3 DEF Stands
    <3>2. CASE i \in DOMAIN T
      BY <1>1, <1>7, <2>1, <3>2 DEF Answers, Recorded
    <3> QED BY <1>1, <2>1, <3>1, <3>2 DEF Recorded
  <2> QED BY <1>5, <1>6, <1>7, <2>1 DEF Answers
<1>8. ASSUME Box(T, U, u, ls) PROVE Box(T2, U, u, ls)
  BY <1>5, <1>8 DEF Box
<1> QED BY <1>3, <1>4, <1>7, <1>8

\* A row that is new has not come to anybody.
LEMMA AddedHas ==
  ASSUME NEW T, NEW x, NEW m, NEW T2, Added(T, x, m, T2), NEW U, NEW u, NEW r, NEW ls,
         Answers(T, U, u, r), Box(T, U, u, ls)
  PROVE  /\ x \in Recorded(T2, U) => ~ Has(T2, r, ls, x)
         /\ \A i \in Recorded(T2, U) : i = x \/ i \in Recorded(T, U)
         /\ \A i \in DOMAIN T :
              /\ \A c : ShownAt(T2, ls, c, i) = ShownAt(T, ls, c, i)
              /\ Shows(T2, ls, i) <=> Shows(T, ls, i)
              /\ \A job : Brings(T2, job, i) <=> Brings(T, job, i)
              /\ Has(T2, r, ls, i) <=> Has(T, r, ls, i)
<1>1. /\ DOMAIN T2 = DOMAIN T \cup {x} /\ T2[x].text = Message(m) /\ x \notin DOMAIN T
      /\ \A i \in DOMAIN T : T2[i] = T[i] /\ T[i].text # Message(m)
  BY DEF Added
<1>2. ASSUME x \in Recorded(T2, U), Has(T2, r, ls, x) PROVE FALSE
  <2>1. m \notin U
    BY <1>1, <1>2 DEF Recorded
  <2>2. ~ Stands(T, U, u, m)
    BY <1>1, <2>1 DEF Stands
  <2>3. ASSUME NEW c \in Users, NEW p \in ShownAt(T2, ls, c, x) PROVE FALSE
    <3>1. p \in DOMAIN ls[c] /\ ls[c][p] = Message(m)
      BY <1>1, <2>3 DEF ShownAt
    <3>2. PICK a \in 1..MaxSent : ls[c][p] = Message(a) /\ Stands(T, U, u, a)
      BY <3>1 DEF Box
    <3> QED BY <2>2, <3>1, <3>2, MessageIs
  <2>4. ASSUME NEW k \in DOMAIN r, Brings(T2, r[k], x) PROVE FALSE
    <3>1. CASE Lists(r[k], x)
      BY <1>1, <3>1 DEF Lists, Answers, Listed
    <3>2. CASE r[k].m_command = "SEND" /\ Message(r[k].m_argument) = T2[x].text
      <4>1. r[k].m_argument = m
        BY <1>1, <3>2, MessageIs
      <4> QED BY <2>2, <3>2, <4>1 DEF Answers
    <3> QED BY <2>4, <3>1, <3>2 DEF Brings
  <2>5. \A c \in Users : ShownAt(T2, ls, c, x) = {}
    BY <2>3
  <2> QED BY <1>2, <2>4, <2>5 DEF Has, Shows
<1>3. \A i \in Recorded(T2, U) : i = x \/ i \in Recorded(T, U)
  BY <1>1 DEF Recorded
<1>4. ASSUME NEW i \in DOMAIN T
      PROVE  /\ \A c : ShownAt(T2, ls, c, i) = ShownAt(T, ls, c, i)
             /\ Shows(T2, ls, i) <=> Shows(T, ls, i)
             /\ \A job : Brings(T2, job, i) <=> Brings(T, job, i)
             /\ Has(T2, r, ls, i) <=> Has(T, r, ls, i)
  <2>1. T2[i].text = T[i].text
    BY <1>1
  <2>2. \A c : ShownAt(T2, ls, c, i) = ShownAt(T, ls, c, i)
    BY <2>1 DEF ShownAt
  <2>3. \A job : Brings(T2, job, i) <=> Brings(T, job, i)
    BY <2>1 DEF Brings
  <2>4. Shows(T2, ls, i) <=> Shows(T, ls, i)
    BY <2>2 DEF Shows
  <2> QED BY <2>2, <2>3, <2>4 DEF Has
<1> QED BY <1>2, <1>3, <1>4

\* The new row is younger than what is shown.
LEMMA AddedSteady ==
  ASSUME NEW T, NEW x, NEW m, NEW T2, Added(T, x, m, T2), NEW U, NEW u, NEW q, NEW r, NEW ls,
         Answers(T, U, u, r), Box(T, U, u, ls), Steady(T, U, u, q, r, ls)
  PROVE  Steady(T2, U, u, q, r, ls)
<1> DEFINE R == Recorded(T2, U)
<1>1. x \in R => ~ Has(T2, r, ls, x)
  BY AddedHas
<1>2. \A i \in R : i = x \/ i \in Recorded(T, U)
  BY AddedHas
<1>3. \A i \in DOMAIN T :
        /\ \A c : ShownAt(T2, ls, c, i) = ShownAt(T, ls, c, i)
        /\ Shows(T2, ls, i) <=> Shows(T, ls, i)
        /\ \A job : Brings(T2, job, i) <=> Brings(T, job, i)
        /\ Has(T2, r, ls, i) <=> Has(T, r, ls, i)
  BY AddedHas
<1>4. \A i \in R : ~ Has(T2, r, ls, i) =>
        /\ ~ Shows(T2, ls, i) /\ \A k \in DOMAIN r : ~ Brings(T2, r[k], i)
        /\ \A c \in Users : ShownAt(T2, ls, c, i) = {}
  BY DEF Has, Shows
<1>5. \A i \in Recorded(T, U) : i \in DOMAIN T /\ T2[i] = T[i]
  BY DEF Recorded, Added
<1>6. \A i \in DOMAIN T : ~ Before(T2, x, i)
  BY DEF Added
<1>7. ~ Before(T2, x, x) \/ ~ Has(T2, r, ls, x) \/ x \notin R
  BY <1>1
<1> HIDE DEF R
<1>8. Once(T2, U, r, ls)
  <2> SUFFICES ASSUME NEW i \in R
      PROVE /\ \A c \in Users : \A p, s \in ShownAt(T2, ls, c, i) : p = s
            /\ Shows(T2, ls, i) => \A k \in DOMAIN r : ~ Brings(T2, r[k], i)
            /\ \A k, l \in DOMAIN r : Brings(T2, r[k], i) /\ Brings(T2, r[l], i) => k = l
    BY DEF Once, R
  <2>1. CASE i = x
    BY <1>1, <1>4, <2>1
  <2>2. CASE i \in Recorded(T, U)
    BY <1>3, <1>5, <2>2 DEF Steady, Once
  <2> QED BY <1>2, <2>1, <2>2
<1>9. Settled(T2, U, u, q, r, ls)
  <2> SUFFICES ASSUME NEW i \in R, Has(T2, r, ls, i), T2[i].sender # u
               PROVE  Marked(T2, q, r, i)
    BY DEF Settled, R
  <2>1. i \in Recorded(T, U)
    BY <1>1, <1>2
  <2>2. Marked(T, q, r, i)
    BY <1>3, <1>5, <2>1 DEF Steady, Settled
  <2> QED BY <1>5, <2>1, <2>2 DEF Marked
<1>10. InOrder(T2, U, u, r, ls)
  <2> SUFFICES ASSUME NEW i \in R, NEW j \in R, Before(T2, i, j)
      PROVE /\ \A c \in Users : \A p \in ShownAt(T2, ls, c, i), s \in ShownAt(T2, ls, c, j) : p < s
            /\ Shows(T2, ls, j) => \A k \in DOMAIN r : ~ Brings(T2, r[k], i)
            /\ \A k, l \in DOMAIN r : Brings(T2, r[k], i) /\ Brings(T2, r[l], j) => k <= l
            /\ Has(T2, r, ls, j) /\ T2[i].recipient = u /\ T2[j].recipient = u =>
                 T2[i].delivered \/ Has(T2, r, ls, i)
    BY DEF InOrder, R
  <2>1. CASE j = x
    BY <1>1, <1>4, <2>1
  <2>2. CASE j \in Recorded(T, U)
    <3>1. i \in Recorded(T, U)
      BY <1>2, <1>5, <1>6, <2>2
    <3>2. Before(T, i, j)
      BY <1>5, <2>2, <3>1 DEF Before
    <3>3. /\ \A c \in Users : \A p \in ShownAt(T, ls, c, i), s \in ShownAt(T, ls, c, j) : p < s
          /\ Shows(T, ls, j) => \A k \in DOMAIN r : ~ Brings(T, r[k], i)
          /\ \A k, l \in DOMAIN r : Brings(T, r[k], i) /\ Brings(T, r[l], j) => k <= l
          /\ Has(T, r, ls, j) /\ T[i].recipient = u /\ T[j].recipient = u =>
               T[i].delivered \/ Has(T, r, ls, i)
      BY <2>2, <3>1, <3>2 DEF Steady, InOrder
    <3>4. i \in DOMAIN T /\ j \in DOMAIN T /\ T2[i] = T[i] /\ T2[j] = T[j]
      BY <1>5, <2>2, <3>1
    <3> QED BY <1>3, <3>3, <3>4
  <2> QED BY <1>2, <2>1, <2>2
<1> QED BY <1>8, <1>9, <1>10 DEF Steady

\* A client other than that of the sender.
LEMMA AddedClient ==
  ASSUME NEW T, NEW x, NEW m, NEW T2, Added(T, x, m, T2), NEW U, NEW n, NEW L,
         NEW u, NEW ph, NEW q, NEW r, NEW ls, NEW lt, Client(T, U, n, L, u, ph, q, r, ls, lt),
         \A k \in DOMAIN q : q[k].m_command = "SEND" =>
           q[k].m_argument # m /\ (T2[x].sender = u => m < q[k].m_argument)
  PROVE  Client(T2, U, n, L, u, ph, q, r, ls, lt)
BY AddedQueues, AddedSteady DEF Client

-----------------------------------------------------------------------------
(* The jobs of u.                                                          *)

\* The next job is the first of the queue.
LEMMA NextIs ==
  ASSUME NEW S, NEW a \in Seq(S), NEW command
  PROVE  /\ Next_is(a, command) <=> 1 \in DOMAIN a /\ a[1].m_command = command
         /\ a = <<>> <=> DOMAIN a = {}
         /\ a # <<>> <=> 1 \in DOMAIN a
<1>1. Len(a) \in Nat /\ DOMAIN a = 1..Len(a) /\ (a = <<>> <=> Len(a) = 0)
  BY EmptySeq, LenProperties
<1>2. (1 \in 1..Len(a) <=> Len(a) # 0) /\ (1..Len(a) = {} <=> Len(a) = 0)
  BY <1>1
<1>3. a # <<>> => Head(a) = a[1]
  BY HeadTailProperties, EmptySeq
<1> QED BY <1>1, <1>2, <1>3 DEF Next_is

\* What is left when the first has been taken.
LEMMA TakenPending ==
  ASSUME NEW a, NEW b, Taken1(a, b), NEW command
  PROVE  /\ Pending(b, command) => Pending(a, command)
         /\ Pending(a, command) /\ a[1].m_command # command => Pending(b, command)
<1>1. Pending(b, command) => Pending(a, command)
  BY DEF Taken1, Pending
<1>2. ASSUME NEW k \in DOMAIN a, a[k].m_command = command, a[1].m_command # command
      PROVE  Pending(b, command)
  <2>1. k - 1 \in DOMAIN b /\ b[k-1] = a[k]
    BY <1>2 DEF Taken1
  <2> QED BY <1>2, <2>1 DEF Pending
<1> QED BY <1>1, <1>2 DEF Pending

\* What is there when one more has been put.
LEMMA PutPending ==
  ASSUME NEW a, NEW x, NEW b, Put(a, x, b), NEW command
  PROVE  Pending(b, command) <=> Pending(a, command) \/ x.m_command = command
<1>1. PICK e \in DOMAIN b : b[e] = x /\ \A k \in DOMAIN b : k = e \/ k \in DOMAIN a
  BY DEF Put
<1>2. \A k \in DOMAIN a : k \in DOMAIN b /\ b[k] = a[k]
  BY DEF Put
<1> QED BY <1>1, <1>2 DEF Pending

\* A job that is neither CHAT nor the mark of a chat that is not marked yet.
LEMMA JobTaken ==
  ASSUME NEW T, NEW U, NEW n, NEW L, NEW u, NEW ph, NEW q, NEW r, NEW ls, NEW lt,
         Client(T, U, n, L, u, ph, q, r, ls, lt),
         NEW q2 \in Seq(Job), Taken1(q, q2),
         q[1].m_command # "CHAT",
         q[1].m_command = "DELIVERED" =>
           T[q[1].m_argument].delivered \/ q[1].m_argument \notin Recorded(T, U)
  PROVE  Client(T, U, n, L, u, ph, q2, r, ls, lt)
<1>1. /\ 1 \in DOMAIN q /\ DOMAIN q \subseteq Nat /\ DOMAIN q2 \subseteq Nat
      /\ \A k \in DOMAIN q2 : k + 1 \in DOMAIN q /\ q2[k] = q[k+1]
      /\ \A k \in DOMAIN q : k # 1 => k - 1 \in DOMAIN q2 /\ q2[k-1] = q[k] /\ k > 1
  BY DEF Taken1
<1>2. q \in Seq(Job) /\ r \in Seq(Job)
  BY DEF Client, ClientType
<1>3. Waiting(T, n, u, q2)
  <2>1. Waiting(T, n, u, q)
    BY DEF Client
  <2>2. \A k, l \in DOMAIN q2 : k < l => k + 1 < l + 1
    BY <1>1
  <2> QED BY <1>1, <2>1, <2>2 DEF Waiting
<1>4. Marks(T, L, u, q2)
  BY <1>1 DEF Client, Marks
<1>5. Phased(ph, q2, r, ls, lt)
  <2>1. Phased(ph, q, r, ls, lt) /\ ph \in {"off", "loading", "ready"}
    BY DEF Client, ClientType
  <2>2. \A command : Pending(q2, command) => Pending(q, command)
    BY TakenPending
  <2>3. CASE ph = "off"
    BY <1>1, <1>2, <2>1, <2>3, NextIs DEF Phased
  <2>4. CASE ph = "loading"
    <3>1. ~ Next_is(q, "CHAT")
      BY <1>2, NextIs
    <3> QED BY <2>1, <2>2, <2>4, <3>1 DEF Phased
  <2>5. CASE ph = "ready"
    BY <2>1, <2>2, <2>5 DEF Phased
  <2> QED BY <2>1, <2>3, <2>4, <2>5
<1>6. ASSUME ~ lt PROVE Steady(T, U, u, q2, r, ls)
  <2>1. Steady(T, U, u, q, r, ls)
    BY <1>6 DEF Client
  <2>2. OneAtATime(q2, r)
    <3>1. \A k, l \in DOMAIN q2 : k + 1 = l + 1 => k = l
      BY <1>1
    <3>2. Pending(q2, "PENDING") => Pending(q, "PENDING")
      BY TakenPending
    <3> QED BY <1>1, <2>1, <3>1, <3>2 DEF Steady, OneAtATime
  <2>3. Settled(T, U, u, q2, r, ls)
    <3> SUFFICES ASSUME NEW i \in Recorded(T, U), Has(T, r, ls, i), T[i].sender # u
                 PROVE  Marked(T, q2, r, i)
      BY DEF Settled
    <3>1. Marked(T, q, r, i)
      BY <2>1 DEF Steady, Settled
    <3>2. CASE T[i].delivered
      BY <3>2 DEF Marked
    <3>3. CASE ~ Pending(q, "PENDING") /\ \E k \in DOMAIN r : Lists(r[k], i)
      BY <3>3, TakenPending DEF Marked
    <3>4. CASE \E k \in DOMAIN q :
                 /\ q[k].m_command = "DELIVERED" /\ q[k].m_argument = i
                 /\ \A l \in DOMAIN q : q[l].m_command = "PENDING" => k < l
      <4>1. PICK k \in DOMAIN q :
                 /\ q[k].m_command = "DELIVERED" /\ q[k].m_argument = i
                 /\ \A l \in DOMAIN q : q[l].m_command = "PENDING" => k < l
        BY <3>4
      <4>2. CASE k = 1
        BY <4>1, <4>2 DEF Marked
      <4>3. CASE k # 1
        <5>1. k - 1 \in DOMAIN q2 /\ q2[k-1] = q[k]
          BY <1>1, <4>3
        <5>2. ASSUME NEW l \in DOMAIN q2, q2[l].m_command = "PENDING" PROVE k - 1 < l
          <6>1. l + 1 \in DOMAIN q /\ q2[l] = q[l+1]
            BY <1>1
          <6>2. k < l + 1
            BY <4>1, <5>2, <6>1
          <6>3. k \in Nat /\ l \in Nat
            BY <1>1
          <6> QED BY <6>2, <6>3
        <5> QED BY <4>1, <5>1, <5>2 DEF Marked
      <4> QED BY <4>2, <4>3
    <3> QED BY <3>1, <3>2, <3>3, <3>4 DEF Marked
  <2> QED BY <2>1, <2>2, <2>3 DEF Steady
<1> QED BY <1>3, <1>4, <1>5, <1>6 DEF Client, ClientType

\* What is known when it is the turn of a SEND.
LEMMA SendNext ==
  ASSUME NEW T, NEW U, NEW n, NEW L, NEW u, NEW ph, NEW q, NEW r, NEW ls, NEW lt,
         Client(T, U, n, L, u, ph, q, r, ls, lt),
         NEW q2, Taken1(q, q2), q[1].m_command = "SEND"
  PROVE  /\ ph # "off" /\ (ph = "loading" => r # <<>>)
         /\ \A k \in DOMAIN q2 : q2[k].m_command = "SEND" => q[1].m_argument < q2[k].m_argument
<1>1. /\ 1 \in DOMAIN q /\ DOMAIN q \subseteq Nat /\ DOMAIN q2 \subseteq Nat
      /\ \A k \in DOMAIN q2 : k + 1 \in DOMAIN q /\ q2[k] = q[k+1]
  BY DEF Taken1
<1>2. q \in Seq(Job) /\ r \in Seq(Job)
  BY DEF Client, ClientType
<1>3. Phased(ph, q, r, ls, lt) /\ Waiting(T, n, u, q)
  BY DEF Client
<1>4. ph # "off"
  BY <1>1, <1>2, <1>3, NextIs DEF Phased
<1>5. ph = "loading" => r # <<>>
  <2>1. ~ Next_is(q, "CHAT")
    BY <1>2, NextIs
  <2> QED BY <1>3, <2>1 DEF Phased, Next_is
<1>6. ASSUME NEW k \in DOMAIN q2, q2[k].m_command = "SEND"
      PROVE  q[1].m_argument < q2[k].m_argument
  <2>1. 1 < k + 1
    <3>1. k \in Nat /\ k # 0
      BY DEF Taken1
    <3> QED BY <3>1
  <2> QED BY <1>1, <1>3, <1>6, <2>1 DEF Waiting
<1> QED BY <1>4, <1>5, <1>6

-----------------------------------------------------------------------------
(* The responses to u.                                                     *)

\* What the client has got when a response is pushed.
LEMMA PutHas ==
  ASSUME NEW T, NEW ls, NEW r, NEW x, NEW r2, Put(r, x, r2), NEW i
  PROVE  /\ Has(T, r2, ls, i) <=> Has(T, r, ls, i) \/ Brings(T, x, i)
         /\ (\E k \in DOMAIN r2 : Lists(r2[k], i)) <=> (\E k \in DOMAIN r : Lists(r[k], i)) \/ Lists(x, i)
<1>1. PICK e \in DOMAIN r2 : r2[e] = x /\ \A k \in DOMAIN r2 : k = e \/ k \in DOMAIN r
  BY DEF Put
<1>2. \A k \in DOMAIN r : k \in DOMAIN r2 /\ r2[k] = r[k]
  BY DEF Put
<1> QED BY <1>1, <1>2 DEF Has

\* Who has got a row is a party of it.
LEMMA HasParty ==
  ASSUME NEW T, NEW U, NEW n, Rows(T, n), DOMAIN T \subseteq Nat, NEW u, NEW r, NEW ls,
         Answers(T, U, u, r), Box(T, U, u, ls),
         NEW i \in Recorded(T, U), Has(T, r, ls, i)
  PROVE  Party(T, u, i)
<1>1. i \in DOMAIN T /\ \A m \in U : T[i].text # Message(m)
  BY DEF Recorded
<1>2. \A j \in DOMAIN T : T[j].text = T[i].text => j = i
  BY <1>1 DEF Rows
<1>3. \A m : T[i].text = Message(m) /\ Stands(T, U, u, m) => Party(T, u, i)
  BY <1>1, <1>2 DEF Stands
<1>4. ASSUME NEW c \in Users, NEW p \in ShownAt(T, ls, c, i) PROVE Party(T, u, i)
  <2>1. p \in DOMAIN ls[c] /\ ls[c][p] = T[i].text
    BY DEF ShownAt
  <2> QED BY <1>3, <2>1 DEF Box
<1>5. ASSUME NEW k \in DOMAIN r, Brings(T, r[k], i) PROVE Party(T, u, i)
  <2>1. CASE Lists(r[k], i)
    BY <2>1 DEF Lists, Answers, Listed
  <2>2. CASE r[k].m_command = "SEND" /\ Message(r[k].m_argument) = T[i].text
    BY <1>3, <2>2 DEF Answers
  <2> QED BY <1>5, <2>1, <2>2 DEF Brings
<1> QED BY <1>4, <1>5 DEF Has, Shows

\* A response that brings nothing twice, and nothing late.
LEMMA PutSteady ==
  ASSUME NEW T, NEW U, NEW u, NEW ls, NEW r, NEW x, NEW r2, Put(r, x, r2),
         Once(T, U, r, ls), InOrder(T, U, u, r, ls),
         \A i \in Recorded(T, U) : Brings(T, x, i) => ~ Has(T, r, ls, i),
         \A i, j \in Recorded(T, U) : Before(T, i, j) /\ Brings(T, x, i) => ~ Has(T, r, ls, j),
         \A i, j \in Recorded(T, U) :
           Before(T, i, j) /\ Brings(T, x, j) /\ T[i].recipient = u /\ T[j].recipient = u =>
             T[i].delivered \/ Has(T, r, ls, i) \/ Brings(T, x, i)
  PROVE  Once(T, U, r2, ls) /\ InOrder(T, U, u, r2, ls)
<1>1. PICK e \in DOMAIN r2 :
        /\ r2[e] = x /\ e \notin DOMAIN r
        /\ \A k \in DOMAIN r2 : k = e \/ (k \in DOMAIN r /\ k < e)
  BY DEF Put
<1>2. /\ \A k \in DOMAIN r : k \in DOMAIN r2 /\ r2[k] = r[k]
      /\ DOMAIN r \subseteq Nat /\ DOMAIN r2 \subseteq Nat
  BY DEF Put
<1>3. \A i : Shows(T, ls, i) => Has(T, r, ls, i)
  BY DEF Has
<1>4. \A i : \A k \in DOMAIN r : Brings(T, r[k], i) => Has(T, r, ls, i)
  BY DEF Has
<1>5. \A i : Has(T, r2, ls, i) <=> Has(T, r, ls, i) \/ Brings(T, x, i)
  BY PutHas
<1>6. Once(T, U, r2, ls)
  <2> SUFFICES ASSUME NEW i \in Recorded(T, U)
      PROVE /\ \A c \in Users : \A p, s \in ShownAt(T, ls, c, i) : p = s
            /\ Shows(T, ls, i) => \A k \in DOMAIN r2 : ~ Brings(T, r2[k], i)
            /\ \A k, l \in DOMAIN r2 : Brings(T, r2[k], i) /\ Brings(T, r2[l], i) => k = l
    BY DEF Once
  <2>1. /\ \A c \in Users : \A p, s \in ShownAt(T, ls, c, i) : p = s
        /\ Shows(T, ls, i) => \A k \in DOMAIN r : ~ Brings(T, r[k], i)
        /\ \A k, l \in DOMAIN r : Brings(T, r[k], i) /\ Brings(T, r[l], i) => k = l
    BY DEF Once
  <2>2. Brings(T, x, i) => ~ Shows(T, ls, i) /\ \A k \in DOMAIN r : ~ Brings(T, r[k], i)
    BY <1>3, <1>4
  <2>3. \A k \in DOMAIN r2 : (k = e /\ r2[k] = x) \/ (k \in DOMAIN r /\ r2[k] = r[k])
    BY <1>1, <1>2
  <2> QED BY <2>1, <2>2, <2>3
<1>7. InOrder(T, U, u, r2, ls)
  <2> SUFFICES ASSUME NEW i \in Recorded(T, U), NEW j \in Recorded(T, U), Before(T, i, j)
      PROVE /\ \A c \in Users : \A p \in ShownAt(T, ls, c, i), s \in ShownAt(T, ls, c, j) : p < s
            /\ Shows(T, ls, j) => \A k \in DOMAIN r2 : ~ Brings(T, r2[k], i)
            /\ \A k, l \in DOMAIN r2 : Brings(T, r2[k], i) /\ Brings(T, r2[l], j) => k <= l
            /\ Has(T, r2, ls, j) /\ T[i].recipient = u /\ T[j].recipient = u =>
                 T[i].delivered \/ Has(T, r2, ls, i)
    BY DEF InOrder
  <2>1. /\ \A c \in Users : \A p \in ShownAt(T, ls, c, i), s \in ShownAt(T, ls, c, j) : p < s
        /\ Shows(T, ls, j) => \A k \in DOMAIN r : ~ Brings(T, r[k], i)
        /\ \A k, l \in DOMAIN r : Brings(T, r[k], i) /\ Brings(T, r[l], j) => k <= l
        /\ Has(T, r, ls, j) /\ T[i].recipient = u /\ T[j].recipient = u =>
             T[i].delivered \/ Has(T, r, ls, i)
    BY DEF InOrder
  <2>2. Brings(T, x, i) => ~ Has(T, r, ls, j)
    OBVIOUS
  <2>3. \A k \in DOMAIN r2 : (k = e /\ r2[k] = x) \/ (k \in DOMAIN r /\ r2[k] = r[k] /\ k < e)
    BY <1>1, <1>2
  <2>4. Shows(T, ls, j) => \A k \in DOMAIN r2 : ~ Brings(T, r2[k], i)
    BY <1>3, <2>1, <2>2, <2>3
  <2>5. ASSUME NEW k \in DOMAIN r2, NEW l \in DOMAIN r2, Brings(T, r2[k], i), Brings(T, r2[l], j)
        PROVE  k <= l
    <3>1. k \in Nat /\ l \in Nat
      BY <1>2
    <3>2. CASE l = e
      BY <2>3, <3>1, <3>2
    <3>3. CASE l # e
      <4>1. l \in DOMAIN r /\ r2[l] = r[l] /\ Has(T, r, ls, j)
        BY <1>4, <2>3, <2>5, <3>3
      <4>2. k \in DOMAIN r /\ r2[k] = r[k]
        BY <2>2, <2>3, <2>5, <4>1
      <4> QED BY <2>1, <2>5, <4>1, <4>2
    <3> QED BY <3>2, <3>3
  <2>6. ASSUME Has(T, r2, ls, j), T[i].recipient = u, T[j].recipient = u
        PROVE  T[i].delivered \/ Has(T, r2, ls, i)
    <3>1. CASE Has(T, r, ls, j)
      BY <1>5, <2>1, <2>6, <3>1
    <3>2. CASE Brings(T, x, j)
      <4>1. T[i].delivered \/ Has(T, r, ls, i) \/ Brings(T, x, i)
        BY <2>6, <3>2
      <4> QED BY <1>5, <4>1
    <3> QED BY <1>5, <2>6, <3>1, <3>2
  <2> QED BY <2>1, <2>4, <2>5, <2>6
<1> QED BY <1>6, <1>7

\* What has come is marked as it was, and what the new response lists is under way.
LEMMA PutSettled ==
  ASSUME NEW T, NEW U, NEW u, NEW ls, NEW q, NEW r, NEW x, NEW r2, Put(r, x, r2),
         Settled(T, U, u, q, r, ls),
         \A i \in Recorded(T, U) : Brings(T, x, i) /\ T[i].sender # u => Lists(x, i) /\ ~ Pending(q, "PENDING")
  PROVE  Settled(T, U, u, q, r2, ls)
<1> SUFFICES ASSUME NEW i \in Recorded(T, U), Has(T, r2, ls, i), T[i].sender # u
             PROVE  Marked(T, q, r2, i)
  BY DEF Settled
<1>1. /\ Has(T, r, ls, i) \/ Brings(T, x, i)
      /\ (\E k \in DOMAIN r2 : Lists(r2[k], i)) <=> (\E k \in DOMAIN r : Lists(r[k], i)) \/ Lists(x, i)
  BY PutHas
<1>2. CASE Has(T, r, ls, i)
  <2>1. Marked(T, q, r, i)
    BY <1>2 DEF Settled
  <2> QED BY <1>1, <2>1 DEF Marked
<1>3. CASE Brings(T, x, i)
  BY <1>1, <1>3 DEF Marked
<1> QED BY <1>1, <1>2, <1>3

\* One more answer of the server.
LEMMA PutAnswers ==
  ASSUME NEW T, NEW U, NEW u, NEW r, NEW x, NEW r2, Put(r, x, r2), Answers(T, U, u, r),
         x.m_command \in {"CHAT", "PENDING"} => Listed(T, u, x.m_chats),
         x.m_command = "SEND" =>
           /\ x.m_argument \in 1..MaxSent /\ x.m_intValue \in Users
           /\ Stands(T, U, u, x.m_argument)
           /\ \A i \in Recorded(T, U) : T[i].text = Message(x.m_argument) => T[i].sender = u,
         x.m_command # "DELIVERED"
  PROVE  Answers(T, U, u, r2)
<1>1. \A k \in DOMAIN r2 : r2[k] = x \/ (k \in DOMAIN r /\ r2[k] = r[k])
  BY DEF Put
<1> QED BY <1>1 DEF Answers

\* The answer to SEND: the client gets its own message.
LEMMA SendAnswered ==
  ASSUME NEW T, NEW U, NEW n, NEW L, NEW u, NEW ph, NEW q, NEW r, NEW ls, NEW lt,
         Client(T, U, n, L, u, ph, q, r, ls, lt),
         ph # "off", ph = "loading" => r # <<>>,
         NEW x, NEW r2 \in Seq(Job), Put(r, x, r2),
         x.m_command = "SEND", x.m_argument \in 1..MaxSent, x.m_intValue \in Users,
         Stands(T, U, u, x.m_argument),
         \A i \in Recorded(T, U) : T[i].text = Message(x.m_argument) =>
           /\ T[i].sender = u /\ T[i].recipient # u /\ ~ Has(T, r, ls, i)
           /\ \A j \in Recorded(T, U) : ~ Before(T, i, j)
  PROVE  Client(T, U, n, L, u, ph, q, r2, ls, lt)
<1>1. \A i : Brings(T, x, i) <=> Message(x.m_argument) = T[i].text
  BY DEF Brings, Lists
<1>2. Answers(T, U, u, r2)
  <2>1. Answers(T, U, u, r)
    BY DEF Client
  <2> QED BY <2>1, PutAnswers
<1>3. r \in Seq(Job)
  BY DEF Client, ClientType
<1>4. \A command : Pending(r2, command) <=> Pending(r, command) \/ x.m_command = command
  BY PutPending
<1>5. Phased(ph, q, r2, ls, lt)
  <2>1. Phased(ph, q, r, ls, lt) /\ ph \in {"off", "loading", "ready"}
    BY DEF Client, ClientType
  <2>2. CASE ph = "loading"
    <3>1. /\ Next_is(r, "CHAT") /\ ~ Pending(q, "CHAT")
          /\ \A k \in DOMAIN r : r[k].m_command = "CHAT" => k = 1
      BY <2>1, <2>2 DEF Phased
    <3>2. 1 \in DOMAIN r2 /\ r2[1].m_command = "CHAT"
      BY <1>3, <3>1, NextIs DEF Put
    <3>3. \A k \in DOMAIN r2 : r2[k].m_command = "CHAT" => k = 1
      BY <3>1 DEF Put
    <3> QED BY <1>4, <2>1, <2>2, <3>1, <3>2, <3>3, NextIs DEF Phased
  <2>3. CASE ph = "ready"
    BY <1>4, <2>1, <2>3 DEF Phased
  <2> QED BY <2>1, <2>2, <2>3
<1>6. ASSUME ~ lt PROVE Steady(T, U, u, q, r2, ls)
  <2>1. Steady(T, U, u, q, r, ls)
    BY <1>6 DEF Client
  <2>2. OneAtATime(q, r2)
    <3>1. \A k \in DOMAIN r2 : r2[k] = x \/ (k \in DOMAIN r /\ r2[k] = r[k])
      BY DEF Put
    <3> QED BY <1>4, <2>1, <3>1 DEF Steady, OneAtATime
  <2>3. Once(T, U, r2, ls) /\ InOrder(T, U, u, r2, ls)
    BY <1>1, <2>1, PutSteady, SMTT(20) DEF Steady
  <2>4. Settled(T, U, u, q, r2, ls)
    BY <1>1, <2>1, PutSettled DEF Steady
  <2> QED BY <2>2, <2>3, <2>4 DEF Steady
<1> QED BY <1>2, <1>5, <1>6 DEF Client, ClientType

\* What is known when it is the turn of a PENDING.
LEMMA PendingNext ==
  ASSUME NEW T, NEW U, NEW n, NEW L, NEW u, NEW ph, NEW q, NEW r, NEW ls, NEW lt,
         Client(T, U, n, L, u, ph, q, r, ls, lt),
         NEW q2, Taken1(q, q2), q[1].m_command = "PENDING"
  PROVE  /\ ph = "ready"
         /\ ~ lt => /\ ~ Pending(q2, "PENDING") /\ ~ Pending(r, "PENDING")
                    /\ \A i \in Recorded(T, U) : Has(T, r, ls, i) /\ T[i].sender # u => T[i].delivered
<1>1. /\ 1 \in DOMAIN q /\ DOMAIN q2 \subseteq Nat \ {0} /\ DOMAIN q \subseteq Nat
      /\ \A k \in DOMAIN q2 : k + 1 \in DOMAIN q /\ q2[k] = q[k+1]
      /\ \A k \in DOMAIN q : k # 1 => k > 1
  BY DEF Taken1
<1>2. Pending(q, "PENDING")
  BY <1>1 DEF Pending
<1>3. ph = "ready"
  <2>1. Phased(ph, q, r, ls, lt) /\ ph \in {"off", "loading", "ready"} /\ q \in Seq(Job)
    BY DEF Client, ClientType
  <2>2. q # <<>>
    BY <1>1, <2>1, NextIs
  <2> QED BY <1>2, <2>1, <2>2 DEF Phased
<1>4. ASSUME ~ lt
      PROVE  /\ ~ Pending(q2, "PENDING") /\ ~ Pending(r, "PENDING")
             /\ \A i \in Recorded(T, U) : Has(T, r, ls, i) /\ T[i].sender # u => T[i].delivered
  <2>1. Steady(T, U, u, q, r, ls)
    BY <1>4 DEF Client
  <2>2. ~ Pending(r, "PENDING")
    BY <1>2, <2>1 DEF Steady, OneAtATime
  <2>3. ASSUME NEW k \in DOMAIN q2, q2[k].m_command = "PENDING" PROVE FALSE
    <3>1. k + 1 = 1
      BY <1>1, <2>1, <2>3 DEF Steady, OneAtATime
    <3> QED BY <1>1, <3>1
  <2>4. ASSUME NEW i \in Recorded(T, U), Has(T, r, ls, i), T[i].sender # u
        PROVE  T[i].delivered
    <3>1. Marked(T, q, r, i)
      BY <2>1, <2>4 DEF Steady, Settled
    <3>2. \A k \in DOMAIN q : ~ (k < 1)
      BY <1>1
    <3> QED BY <1>1, <1>2, <3>1, <3>2 DEF Marked
  <2> QED BY <2>2, <2>3, <2>4 DEF Pending
<1> QED BY <1>3, <1>4

\* The answer to PENDING: what is listed has not come before.
LEMMA PendingAnswered ==
  ASSUME NEW T, NEW U, NEW n, NEW L, Rows(T, n), DOMAIN T \subseteq Nat,
         NEW u, NEW ph, NEW q, NEW r, NEW ls, NEW lt,
         Client(T, U, n, L, u, ph, q, r, ls, lt),
         ph = "ready",
         ~ lt => /\ ~ Pending(q, "PENDING") /\ ~ Pending(r, "PENDING")
                 /\ \A i \in Recorded(T, U) : Has(T, r, ls, i) /\ T[i].sender # u => T[i].delivered,
         NEW x, NEW r2 \in Seq(Job), Put(r, x, r2),
         x.m_command = "PENDING", Listed(T, u, x.m_chats),
         \A i \in DOMAIN T : Lists(x, i) <=> T[i].recipient = u /\ ~ T[i].delivered
  PROVE  Client(T, U, n, L, u, ph, q, r2, ls, lt)
<1>1. \A i \in DOMAIN T : Brings(T, x, i) <=> T[i].recipient = u /\ ~ T[i].delivered
  BY DEF Brings
<1>2. Answers(T, U, u, r2)
  <2>1. Answers(T, U, u, r)
    BY DEF Client
  <2> QED BY <2>1, PutAnswers
<1>3. \A command : Pending(r2, command) <=> Pending(r, command) \/ x.m_command = command
  BY PutPending
<1>4. Phased(ph, q, r2, ls, lt)
  BY <1>3 DEF Client, Phased
<1>5. ASSUME ~ lt PROVE Steady(T, U, u, q, r2, ls)
  <2>1. Steady(T, U, u, q, r, ls)
    BY <1>5 DEF Client
  <2>2. OneAtATime(q, r2)
    <3>1. PICK e \in DOMAIN r2 : \A k \in DOMAIN r2 : k = e \/ (k \in DOMAIN r /\ r2[k] = r[k])
      BY DEF Put
    <3>2. \A k \in DOMAIN r2 : r2[k].m_command = "PENDING" => k = e
      BY <1>5, <3>1 DEF Pending
    <3> QED BY <1>5, <2>1, <3>2 DEF Steady, OneAtATime, Pending
  <2>3. \A i \in Recorded(T, U) : i \in DOMAIN T /\ T[i].sender # T[i].recipient
    BY DEF Recorded, Rows
  <2>4. \A i \in Recorded(T, U) : Brings(T, x, i) => ~ Has(T, r, ls, i)
    BY <1>1, <1>5, <2>3
  <2>5. \A i, j \in Recorded(T, U) : Before(T, i, j) /\ Brings(T, x, i) => ~ Has(T, r, ls, j)
    <3> SUFFICES ASSUME NEW i \in Recorded(T, U), NEW j \in Recorded(T, U),
                        Before(T, i, j), Brings(T, x, i), Has(T, r, ls, j)
                 PROVE  FALSE
      OBVIOUS
    <3>1. T[i].recipient = u /\ ~ T[i].delivered /\ T[i].sender # u /\ T[j].sender # u
      BY <1>1, <2>3 DEF Before
    <3>2. Party(T, u, j)
      BY HasParty DEF Client
    <3>3. T[j].recipient = u
      BY <3>1, <3>2 DEF Party
    <3>4. T[i].delivered \/ Has(T, r, ls, i)
      BY <2>1, <3>1, <3>3 DEF Steady, InOrder
    <3> QED BY <2>4, <3>1, <3>4
  <2>6. \A i, j \in Recorded(T, U) :
          Before(T, i, j) /\ Brings(T, x, j) /\ T[i].recipient = u /\ T[j].recipient = u =>
            T[i].delivered \/ Has(T, r, ls, i) \/ Brings(T, x, i)
    BY <1>1, <2>3
  <2>7. Once(T, U, r2, ls) /\ InOrder(T, U, u, r2, ls)
    BY <2>1, <2>4, <2>5, <2>6, PutSteady DEF Steady
  <2>8. Settled(T, U, u, q, r2, ls)
    <3>1. \A i \in Recorded(T, U) : Brings(T, x, i) /\ T[i].sender # u => Lists(x, i) /\ ~ Pending(q, "PENDING")
      BY <1>5 DEF Brings
    <3> QED BY <2>1, <3>1, PutSettled DEF Steady
  <2> QED BY <2>2, <2>7, <2>8 DEF Steady
<1> QED BY <1>2, <1>4, <1>5 DEF Client, ClientType

\* The answer to CHAT: all rows of u.
LEMMA ChatAnswered ==
  ASSUME NEW T, NEW U, NEW n, NEW L, NEW u, NEW ph, NEW q, NEW r, NEW ls, NEW lt,
         Client(T, U, n, L, u, ph, q, r, ls, lt),
         NEW q2 \in Seq(Job), Taken1(q, q2), q[1].m_command = "CHAT",
         NEW x, NEW r2 \in Seq(Job), Put(r, x, r2),
         x.m_command = "CHAT", Listed(T, u, x.m_chats),
         \A i \in DOMAIN T : T[i].recipient = u => Lists(x, i)
  PROVE  Client(T, U, n, L, u, ph, q2, r2, ls, lt)
<1>1. /\ 1 \in DOMAIN q /\ DOMAIN q \subseteq Nat /\ DOMAIN q2 \subseteq Nat \ {0}
      /\ \A k \in DOMAIN q2 : k + 1 \in DOMAIN q /\ q2[k] = q[k+1]
  BY DEF Taken1
<1>2. /\ q \in Seq(Job) /\ r \in Seq(Job) /\ Phased(ph, q, r, ls, lt) /\ ph \in {"off", "loading", "ready"}
      /\ Waiting(T, n, u, q) /\ Marks(T, L, u, q) /\ Answers(T, U, u, r) /\ Box(T, U, u, ls)
  BY DEF Client, ClientType
<1>3. q # <<>> /\ Pending(q, "CHAT")
  BY <1>1, <1>2, NextIs DEF Pending
<1>4. /\ ph = "loading" /\ r = <<>> /\ Empty(ls) /\ ~ lt
      /\ ~ Pending(q, "PENDING") /\ ~ Pending(q, "DELIVERED")
      /\ \A k \in DOMAIN q : q[k].m_command = "CHAT" => k = 1
  BY <1>2, <1>3 DEF Phased
<1>5. Waiting(T, n, u, q2)
  <2>1. \A k, l \in DOMAIN q2 : k < l => k + 1 < l + 1
    BY <1>1
  <2> QED BY <1>1, <1>2, <2>1 DEF Waiting
<1>6. Marks(T, L, u, q2)
  BY <1>1, <1>2 DEF Marks
<1>7. Answers(T, U, u, r2)
  BY <1>2, PutAnswers
<1>8. \A command : Pending(q2, command) => Pending(q, command)
  BY TakenPending
<1>9. \A k \in DOMAIN r2 : k = 1 /\ r2[k] = x
  BY <1>2, <1>4, NextIs DEF Put
<1>10. 1 \in DOMAIN r2 /\ r2[1] = x
  BY <1>9 DEF Put
<1>11. ~ Pending(q2, "CHAT")
  <2>1. \A k \in DOMAIN q2 : k + 1 # 1
    BY <1>1
  <2> QED BY <1>1, <1>4, <2>1 DEF Pending
<1>12. Phased(ph, q2, r2, ls, lt)
  <2>1. Next_is(r2, "CHAT")
    BY <1>10, NextIs
  <2>2. ~ Pending(r2, "PENDING")
    BY <1>9 DEF Pending
  <2>3. ~ Pending(q2, "PENDING") /\ ~ Pending(q2, "DELIVERED")
    BY <1>4, <1>8
  <2> QED BY <1>4, <1>9, <1>11, <2>1, <2>2, <2>3 DEF Phased
<1>13. \A i : ~ Has(T, r, ls, i)
  <2>1. \A k : k \notin DOMAIN r
    BY <1>2, <1>4, NextIs
  <2>2. \A c \in Users : \A i : ShownAt(T, ls, c, i) = {}
    BY <1>4 DEF Empty, ShownAt
  <2> QED BY <2>1, <2>2 DEF Has, Shows
<1>14. Steady(T, U, u, q2, r2, ls)
  <2>1. Steady(T, U, u, q, r, ls)
    BY <1>4 DEF Client
  <2>2. OneAtATime(q2, r2)
    BY <1>4, <1>8, <1>9 DEF OneAtATime, Pending
  <2>3. Once(T, U, r2, ls) /\ InOrder(T, U, u, r2, ls)
    <3>1. \A i, j \in Recorded(T, U) : Brings(T, x, j) /\ T[i].recipient = u => Brings(T, x, i)
      BY DEF Brings, Recorded
    <3> QED BY <1>13, <2>1, <3>1, PutSteady DEF Steady
  <2>4. Settled(T, U, u, q2, r2, ls)
    <3>1. Settled(T, U, u, q2, r, ls)
      BY <1>13 DEF Settled
    <3>2. ~ Pending(q2, "PENDING")
      BY <1>4, <1>8
    <3>3. \A i : Brings(T, x, i) => Lists(x, i)
      BY DEF Brings
    <3> QED BY <3>1, <3>2, <3>3, PutSettled
  <2> QED BY <2>2, <2>3, <2>4 DEF Steady
<1> QED BY <1>2, <1>5, <1>6, <1>7, <1>12, <1>14 DEF Client, ClientType

-----------------------------------------------------------------------------
(* The interface of u.                                                     *)

\* The first of the responses r has been shown: the lines ls2 are ls, and behind
\* them the rows that it brings, the elder first.
Goes(ls, ls2, c) == DOMAIN ls2[c] \ DOMAIN ls[c]
Displayed(T, U, r, ls, ls2) ==
  /\ \A c \in Users :
       /\ DOMAIN ls2[c] \subseteq Nat
       /\ \A p \in DOMAIN ls[c] : p \in DOMAIN ls2[c] /\ ls2[c][p] = ls[c][p]
       /\ \A p \in DOMAIN ls[c] : \A s \in Goes(ls, ls2, c) : p < s
  /\ \A i \in Recorded(T, U), c \in Users : \A p \in Goes(ls, ls2, c) :
       ls2[c][p] = T[i].text => Brings(T, r[1], i)
  /\ \A i \in Recorded(T, U) : Brings(T, r[1], i) => Shows(T, ls2, i)
  /\ \A i, j \in Recorded(T, U), c \in Users : \A p, s \in Goes(ls, ls2, c) :
       p < s /\ ls2[c][p] = T[i].text /\ ls2[c][s] = T[j].text => i # j /\ ~ Before(T, j, i)

\* A row is where it was, or has been brought just now.
LEMMA DisplayedAt ==
  ASSUME NEW T, NEW U, NEW r, NEW ls, NEW ls2, Displayed(T, U, r, ls, ls2), NEW i \in Recorded(T, U)
  PROVE  /\ \A c \in Users : \A p \in ShownAt(T, ls2, c, i) :
              p \in ShownAt(T, ls, c, i)
              \/ (p \in Goes(ls, ls2, c) /\ ls2[c][p] = T[i].text /\ Brings(T, r[1], i))
         /\ Shows(T, ls2, i) <=> Shows(T, ls, i) \/ Brings(T, r[1], i)
<1>1. \A c \in Users : \A p \in ShownAt(T, ls2, c, i) :
              p \in ShownAt(T, ls, c, i)
              \/ (p \in Goes(ls, ls2, c) /\ ls2[c][p] = T[i].text /\ Brings(T, r[1], i))
  <2> SUFFICES ASSUME NEW c \in Users, NEW p \in ShownAt(T, ls2, c, i)
               PROVE  p \in ShownAt(T, ls, c, i)
                      \/ (p \in Goes(ls, ls2, c) /\ ls2[c][p] = T[i].text /\ Brings(T, r[1], i))
    OBVIOUS
  <2>1. p \in DOMAIN ls2[c] /\ ls2[c][p] = T[i].text
    BY DEF ShownAt
  <2>2. CASE p \in DOMAIN ls[c]
    BY <2>1, <2>2 DEF Displayed, ShownAt
  <2>3. CASE p \notin DOMAIN ls[c]
    <3>1. p \in Goes(ls, ls2, c)
      BY <2>1, <2>3 DEF Goes
    <3> QED BY <2>1, <3>1 DEF Displayed
  <2> QED BY <2>2, <2>3
<1>2. Shows(T, ls2, i) => Shows(T, ls, i) \/ Brings(T, r[1], i)
  BY <1>1 DEF Shows
<1>3. Shows(T, ls, i) => Shows(T, ls2, i)
  <2>1. \A c \in Users : ShownAt(T, ls, c, i) \subseteq ShownAt(T, ls2, c, i)
    BY DEF Displayed, ShownAt
  <2> QED BY <2>1 DEF Shows
<1>4. Brings(T, r[1], i) => Shows(T, ls2, i)
  BY DEF Displayed
<1> QED BY <1>1, <1>2, <1>3, <1>4

\* What is shown stays in order, each message once.
LEMMA DisplayedSteady ==
  ASSUME NEW T, NEW U, NEW u, NEW r, NEW r2, Taken1(r, r2), NEW ls, NEW ls2,
         Displayed(T, U, r, ls, ls2), \A i \in DOMAIN T : ~ Before(T, i, i),
         \A i, j \in DOMAIN T : T[i].text = T[j].text => i = j,
         Once(T, U, r, ls), InOrder(T, U, u, r, ls)
  PROVE  /\ Once(T, U, r2, ls2) /\ InOrder(T, U, u, r2, ls2)
         /\ \A i \in Recorded(T, U) : Has(T, r2, ls2, i) <=> Has(T, r, ls, i)
<1>1. /\ 1 \in DOMAIN r /\ DOMAIN r \subseteq Nat /\ DOMAIN r2 \subseteq Nat \ {0}
      /\ \A k \in DOMAIN r2 : k + 1 \in DOMAIN r /\ r2[k] = r[k+1]
      /\ \A k \in DOMAIN r : k # 1 => k - 1 \in DOMAIN r2 /\ r2[k-1] = r[k] /\ k > 1
  BY DEF Taken1
<1>2. \A i \in Recorded(T, U) :
         /\ \A c \in Users : \A p \in ShownAt(T, ls2, c, i) :
              p \in ShownAt(T, ls, c, i)
              \/ (p \in Goes(ls, ls2, c) /\ ls2[c][p] = T[i].text /\ Brings(T, r[1], i))
         /\ Shows(T, ls2, i) <=> Shows(T, ls, i) \/ Brings(T, r[1], i)
  BY DisplayedAt
<1>3. \A k \in DOMAIN r2 : k + 1 # 1 /\ k + 1 \in DOMAIN r /\ r2[k] = r[k+1]
  BY <1>1
<1>4. \A c \in Users : DOMAIN ls2[c] \subseteq Nat
  BY DEF Displayed
<1>5. \A c \in Users : \A i : ShownAt(T, ls2, c, i) \subseteq Nat
  BY <1>4 DEF ShownAt
<1>6. ASSUME NEW i \in Recorded(T, U) PROVE Has(T, r2, ls2, i) <=> Has(T, r, ls, i)
  <2>1. Has(T, r2, ls2, i) => Has(T, r, ls, i)
    BY <1>1, <1>2 DEF Has
  <2>2. ASSUME NEW k \in DOMAIN r, Brings(T, r[k], i) PROVE Has(T, r2, ls2, i)
    BY <1>1, <1>2, <2>2 DEF Has
  <2>3. Shows(T, ls, i) => Has(T, r2, ls2, i)
    BY <1>2 DEF Has
  <2> QED BY <2>1, <2>2, <2>3 DEF Has
<1>7. Once(T, U, r2, ls2)
  <2> SUFFICES ASSUME NEW i \in Recorded(T, U)
      PROVE /\ \A c \in Users : \A p, s \in ShownAt(T, ls2, c, i) : p = s
            /\ Shows(T, ls2, i) => \A k \in DOMAIN r2 : ~ Brings(T, r2[k], i)
            /\ \A k, l \in DOMAIN r2 : Brings(T, r2[k], i) /\ Brings(T, r2[l], i) => k = l
    BY DEF Once
  <2>1. /\ \A c \in Users : \A p, s \in ShownAt(T, ls, c, i) : p = s
        /\ Shows(T, ls, i) => \A k \in DOMAIN r : ~ Brings(T, r[k], i)
        /\ \A k, l \in DOMAIN r : Brings(T, r[k], i) /\ Brings(T, r[l], i) => k = l
    BY DEF Once
  <2>2. ASSUME NEW c \in Users, NEW p \in ShownAt(T, ls2, c, i), NEW s \in ShownAt(T, ls2, c, i)
        PROVE  p = s
    <3>1. CASE Brings(T, r[1], i)
      <4>1. ShownAt(T, ls, c, i) = {}
        BY <1>1, <2>1, <3>1 DEF Shows
      <4>2. /\ p \in Goes(ls, ls2, c) /\ ls2[c][p] = T[i].text
            /\ s \in Goes(ls, ls2, c) /\ ls2[c][s] = T[i].text
        BY <1>2, <4>1
      <4>3. ~ (p < s) /\ ~ (s < p)
        BY <4>2 DEF Displayed
      <4> QED BY <1>5, <4>3
    <3>2. CASE ~ Brings(T, r[1], i)
      BY <1>2, <2>1, <3>2
    <3> QED BY <3>1, <3>2
  <2>3. ASSUME Shows(T, ls2, i), NEW k \in DOMAIN r2, Brings(T, r2[k], i) PROVE FALSE
    BY <1>1, <1>2, <1>3, <2>1, <2>3
  <2>4. \A k, l \in DOMAIN r2 : k + 1 = l + 1 => k = l
    BY <1>1
  <2>5. \A k, l \in DOMAIN r2 : Brings(T, r2[k], i) /\ Brings(T, r2[l], i) => k = l
    BY <1>1, <2>1, <2>4
  <2> QED BY <2>2, <2>3, <2>5
<1>8. InOrder(T, U, u, r2, ls2)
  <2> SUFFICES ASSUME NEW i \in Recorded(T, U), NEW j \in Recorded(T, U), Before(T, i, j)
      PROVE /\ \A c \in Users : \A p \in ShownAt(T, ls2, c, i), s \in ShownAt(T, ls2, c, j) : p < s
            /\ Shows(T, ls2, j) => \A k \in DOMAIN r2 : ~ Brings(T, r2[k], i)
            /\ \A k, l \in DOMAIN r2 : Brings(T, r2[k], i) /\ Brings(T, r2[l], j) => k <= l
            /\ Has(T, r2, ls2, j) /\ T[i].recipient = u /\ T[j].recipient = u =>
                 T[i].delivered \/ Has(T, r2, ls2, i)
    BY DEF InOrder
  <2>1. /\ \A c \in Users : \A p \in ShownAt(T, ls, c, i), s \in ShownAt(T, ls, c, j) : p < s
        /\ Shows(T, ls, j) => \A k \in DOMAIN r : ~ Brings(T, r[k], i)
        /\ \A k, l \in DOMAIN r : Brings(T, r[k], i) /\ Brings(T, r[l], j) => k <= l
        /\ Has(T, r, ls, j) /\ T[i].recipient = u /\ T[j].recipient = u =>
             T[i].delivered \/ Has(T, r, ls, i)
    BY DEF InOrder
  <2>2. i \in DOMAIN T /\ j \in DOMAIN T /\ i # j
    BY DEF Recorded
  <2>3. ASSUME NEW c \in Users, NEW p \in ShownAt(T, ls2, c, i), NEW s \in ShownAt(T, ls2, c, j)
        PROVE  p < s
    <3>1. CASE s \in ShownAt(T, ls, c, j)
      <4>1. ~ Brings(T, r[1], i)
        BY <1>1, <2>1, <3>1 DEF Shows
      <4> QED BY <1>2, <2>1, <3>1, <4>1
    <3>2. CASE s \in Goes(ls, ls2, c) /\ ls2[c][s] = T[j].text
      <4>1. CASE p \in ShownAt(T, ls, c, i)
        BY <3>2, <4>1 DEF Displayed, ShownAt
      <4>2. CASE p \in Goes(ls, ls2, c) /\ ls2[c][p] = T[i].text
        <5>1. ~ (s < p)
          BY <3>2, <4>2 DEF Displayed
        <5>2. p # s
          BY <2>2, <3>2, <4>2
        <5> QED BY <1>5, <5>1, <5>2
      <4> QED BY <1>2, <4>1, <4>2
    <3> QED BY <1>2, <3>1, <3>2
  <2>4. ASSUME Shows(T, ls2, j), NEW k \in DOMAIN r2, Brings(T, r2[k], i) PROVE FALSE
    <3>1. k + 1 \in DOMAIN r /\ Brings(T, r[k+1], i) /\ ~ (k + 1 <= 1)
      BY <1>1, <2>4
    <3> QED BY <1>1, <1>2, <2>1, <2>4, <3>1
  <2>5. ASSUME NEW k \in DOMAIN r2, NEW l \in DOMAIN r2, Brings(T, r2[k], i), Brings(T, r2[l], j)
        PROVE  k <= l
    <3>1. k + 1 <= l + 1
      BY <1>1, <2>1, <2>5
    <3> QED BY <1>1, <3>1
  <2>6. Has(T, r2, ls2, j) /\ T[i].recipient = u /\ T[j].recipient = u =>
          T[i].delivered \/ Has(T, r2, ls2, i)
    BY <1>6, <2>1
  <2> QED BY <2>3, <2>4, <2>5, <2>6
<1> QED BY <1>6, <1>7, <1>8

\* The jobs q2 are q, and behind them the marks of what the first response lists.
Marking(T, r, q, q2) ==
  /\ \A k \in DOMAIN q : k \in DOMAIN q2 /\ q2[k] = q[k]
  /\ \A k \in DOMAIN q2 : k \in DOMAIN q \/ q2[k].m_command = "DELIVERED"
  /\ \A i \in DOMAIN T : Lists(r[1], i) =>
       T[i].delivered \/ \E k \in DOMAIN q2 : q2[k].m_command = "DELIVERED" /\ q2[k].m_argument = i

\* Only jobs that mark are created.
LEMMA MarkingPending ==
  ASSUME NEW T, NEW r, NEW q, NEW q2, Marking(T, r, q, q2), NEW command, command # "DELIVERED"
  PROVE  Pending(q2, command) <=> Pending(q, command)
BY DEF Marking, Pending

\* What has been loaded is marked before the client asks again.
LEMMA DisplayedSettled ==
  ASSUME NEW T, NEW U, NEW u, NEW r, NEW r2, Taken1(r, r2), NEW ls, NEW ls2, NEW q, NEW q2,
         Marking(T, r, q, q2),
         \A i \in Recorded(T, U) : Has(T, r2, ls2, i) <=> Has(T, r, ls, i),
         Settled(T, U, u, q, r, ls)
  PROVE  Settled(T, U, u, q2, r2, ls2)
<1> SUFFICES ASSUME NEW i \in Recorded(T, U), Has(T, r2, ls2, i), T[i].sender # u
             PROVE  Marked(T, q2, r2, i)
  BY DEF Settled
<1>1. Marked(T, q, r, i) /\ i \in DOMAIN T
  BY DEF Settled, Recorded
<1>2. Pending(q2, "PENDING") <=> Pending(q, "PENDING")
  BY MarkingPending
<1>3. CASE ~ Pending(q, "PENDING") /\ \E k \in DOMAIN r : Lists(r[k], i)
  <2>1. PICK k \in DOMAIN r : Lists(r[k], i)
    BY <1>3
  <2>2. CASE k = 1
    <3>1. \A l \in DOMAIN q2 : q2[l].m_command # "PENDING"
      BY <1>2, <1>3 DEF Pending
    <3> QED BY <1>1, <2>1, <2>2, <3>1 DEF Marking, Marked
  <2>3. CASE k # 1
    <3>1. k - 1 \in DOMAIN r2 /\ r2[k-1] = r[k]
      BY <2>3 DEF Taken1
    <3> QED BY <1>2, <1>3, <2>1, <3>1 DEF Marked
  <2> QED BY <2>2, <2>3
<1>4. CASE \E k \in DOMAIN q :
             /\ q[k].m_command = "DELIVERED" /\ q[k].m_argument = i
             /\ \A l \in DOMAIN q : q[l].m_command = "PENDING" => k < l
  <2>1. PICK k \in DOMAIN q :
             /\ q[k].m_command = "DELIVERED" /\ q[k].m_argument = i
             /\ \A l \in DOMAIN q : q[l].m_command = "PENDING" => k < l
    BY <1>4
  <2>2. \A l \in DOMAIN q2 : q2[l].m_command = "PENDING" => l \in DOMAIN q /\ q2[l] = q[l]
    BY DEF Marking
  <2>3. k \in DOMAIN q2 /\ q2[k] = q[k]
    BY DEF Marking
  <2> QED BY <2>1, <2>2, <2>3 DEF Marked
<1> QED BY <1>1, <1>3, <1>4 DEF Marked

\* What the first response tells of the phase.
LEMMA ResponseNext ==
  ASSUME NEW T, NEW U, NEW n, NEW L, NEW u, NEW ph, NEW q, NEW r, NEW ls, NEW lt,
         Client(T, U, n, L, u, ph, q, r, ls, lt), NEW r2, Taken1(r, r2)
  PROVE  /\ ph # "off"
         /\ r[1].m_command # "CHAT" => ph = "ready"
         /\ ~ Pending(q, "CHAT") /\ ~ Pending(r2, "CHAT")
<1>1. /\ 1 \in DOMAIN r /\ DOMAIN r2 \subseteq Nat \ {0}
      /\ \A k \in DOMAIN r2 : k + 1 \in DOMAIN r /\ r2[k] = r[k+1]
  BY DEF Taken1
<1>2. /\ r \in Seq(Job) /\ Phased(ph, q, r, ls, lt) /\ ph \in {"off", "loading", "ready"}
  BY DEF Client, ClientType
<1>3. r # <<>>
  BY <1>1, <1>2, NextIs
<1>4. CASE ph = "loading"
  <2>1. /\ Next_is(r, "CHAT") /\ ~ Pending(q, "CHAT")
        /\ \A k \in DOMAIN r : r[k].m_command = "CHAT" => k = 1
    BY <1>2, <1>3, <1>4 DEF Phased
  <2>2. r[1].m_command = "CHAT"
    BY <1>2, <2>1, NextIs
  <2>3. \A k \in DOMAIN r2 : k + 1 # 1
    BY <1>1
  <2>4. ~ Pending(r2, "CHAT")
    BY <1>1, <2>1, <2>3 DEF Pending
  <2> QED BY <1>4, <2>1, <2>2, <2>4
<1>5. CASE ph = "ready"
  BY <1>2, <1>5, TakenPending DEF Phased
<1> QED BY <1>2, <1>3, <1>4, <1>5 DEF Phased

\* The client when a response has been handled.
LEMMA ResponseShown ==
  ASSUME NEW T, NEW U, NEW n, NEW L, Rows(T, n), DOMAIN T \subseteq Nat,
         \A i \in DOMAIN T : ~ Before(T, i, i),
         NEW u, NEW ph, NEW q, NEW r, NEW ls, NEW lt,
         Client(T, U, n, L, u, ph, q, r, ls, lt),
         NEW r2 \in Seq(Job), Taken1(r, r2),
         NEW ls2 \in [Users -> Seq(Texts)], Displayed(T, U, r, ls, ls2), Box(T, U, u, ls2),
         NEW q2 \in Seq(Job), Marking(T, r, q, q2), Marks(T, L, u, q2)
  PROVE  Client(T, U, n, L, u, "ready", q2, r2, ls2, lt)
<1>1. \A k \in DOMAIN r2 : k + 1 \in DOMAIN r /\ r2[k] = r[k+1] /\ k \in Nat
  BY DEF Taken1
<1>2. Waiting(T, n, u, q2)
  <2>1. \A k \in DOMAIN q2 : q2[k].m_command = "SEND" => k \in DOMAIN q /\ q2[k] = q[k]
    BY DEF Marking
  <2> QED BY <2>1 DEF Client, Waiting
<1>3. Answers(T, U, u, r2)
  BY <1>1 DEF Client, Answers
<1>4. Phased("ready", q2, r2, ls2, lt)
  <2>1. ~ Pending(q, "CHAT") /\ ~ Pending(r2, "CHAT")
    BY ResponseNext
  <2> QED BY <2>1, MarkingPending DEF Phased
<1>5. ASSUME ~ lt PROVE Steady(T, U, u, q2, r2, ls2)
  <2>1. Steady(T, U, u, q, r, ls)
    BY <1>5 DEF Client
  <2>2. OneAtATime(q2, r2)
    <3>1. \A k \in DOMAIN q2 : q2[k].m_command = "PENDING" => k \in DOMAIN q /\ q2[k] = q[k]
      BY DEF Marking
    <3>2. Pending(q2, "PENDING") <=> Pending(q, "PENDING")
      BY MarkingPending
    <3>3. Pending(r2, "PENDING") => Pending(r, "PENDING")
      BY TakenPending
    <3>4. \A k, l \in DOMAIN r2 : k + 1 = l + 1 => k = l
      BY <1>1
    <3> QED BY <1>1, <2>1, <3>1, <3>2, <3>3, <3>4 DEF Steady, OneAtATime
  <2>3. \A i, j \in DOMAIN T : T[i].text = T[j].text => i = j
    <3>1. \A i, j \in DOMAIN T : i # j => i < j \/ j < i
      OBVIOUS
    <3> QED BY <3>1 DEF Rows
  <2>4. /\ Once(T, U, r2, ls2) /\ InOrder(T, U, u, r2, ls2)
        /\ \A i \in Recorded(T, U) : Has(T, r2, ls2, i) <=> Has(T, r, ls, i)
    BY <2>1, <2>3, DisplayedSteady DEF Steady
  <2>5. Settled(T, U, u, q2, r2, ls2)
    BY <2>1, <2>4, DisplayedSettled DEF Steady
  <2> QED BY <2>2, <2>4, <2>5 DEF Steady
<1> QED BY <1>2, <1>3, <1>4, <1>5 DEF Client, ClientType

\* The pending chats are dropped when there is no contact.
LEMMA ResponseDropped ==
  ASSUME NEW T, NEW U, NEW n, NEW L, Rows(T, n), DOMAIN T \subseteq Nat,
         NEW u, NEW ph, NEW q, NEW r, NEW ls, NEW lt,
         Client(T, U, n, L, u, ph, q, r, ls, lt),
         NEW r2 \in Seq(Job), Taken1(r, r2), r[1].m_command = "PENDING"
  PROVE  Client(T, U, n, L, u, ph, q, r2, ls, lt)
<1>1. /\ 1 \in DOMAIN r /\ DOMAIN r2 \subseteq Nat \ {0}
      /\ \A k \in DOMAIN r2 : k + 1 \in DOMAIN r /\ r2[k] = r[k+1] /\ k \in Nat
      /\ \A k \in DOMAIN r : k # 1 => k - 1 \in DOMAIN r2 /\ r2[k-1] = r[k]
  BY DEF Taken1
<1>2. Answers(T, U, u, r) /\ Answers(T, U, u, r2)
  BY <1>1 DEF Client, Answers
<1>3. ph = "ready" /\ ~ Pending(q, "CHAT") /\ ~ Pending(r2, "CHAT")
  BY ResponseNext
<1>4. Phased(ph, q, r2, ls, lt)
  BY <1>3 DEF Phased
<1>5. ASSUME ~ lt PROVE Steady(T, U, u, q, r2, ls)
  <2>1. Steady(T, U, u, q, r, ls)
    BY <1>5 DEF Client
  <2>2. \A k, l \in DOMAIN r2 : k + 1 = l + 1 => k = l
    BY <1>1
  <2>3. OneAtATime(q, r2)
    <3>1. Pending(r2, "PENDING") => Pending(r, "PENDING")
      BY TakenPending
    <3> QED BY <1>1, <2>1, <2>2, <3>1 DEF Steady, OneAtATime
  <2>4. \A i : Has(T, r2, ls, i) => Has(T, r, ls, i)
    BY <1>1 DEF Has
  <2>5. Once(T, U, r2, ls)
    <3> SUFFICES ASSUME NEW i \in Recorded(T, U)
        PROVE /\ \A c \in Users : \A p, s \in ShownAt(T, ls, c, i) : p = s
              /\ Shows(T, ls, i) => \A k \in DOMAIN r2 : ~ Brings(T, r2[k], i)
              /\ \A k, l \in DOMAIN r2 : Brings(T, r2[k], i) /\ Brings(T, r2[l], i) => k = l
      BY DEF Once
    <3>1. /\ \A c \in Users : \A p, s \in ShownAt(T, ls, c, i) : p = s
          /\ Shows(T, ls, i) => \A k \in DOMAIN r : ~ Brings(T, r[k], i)
          /\ \A k, l \in DOMAIN r : Brings(T, r[k], i) /\ Brings(T, r[l], i) => k = l
      BY <2>1 DEF Steady, Once
    <3> QED BY <1>1, <2>2, <3>1
  \* What the dropped response lists is not shown, nor brought by another.
  <2>6. \A i \in Recorded(T, U) : Has(T, r2, ls, i) => ~ Brings(T, r[1], i)
    <3> SUFFICES ASSUME NEW i \in Recorded(T, U), Has(T, r2, ls, i), Brings(T, r[1], i) PROVE FALSE
      OBVIOUS
    <3>1. /\ Shows(T, ls, i) => \A k \in DOMAIN r : ~ Brings(T, r[k], i)
          /\ \A k, l \in DOMAIN r : Brings(T, r[k], i) /\ Brings(T, r[l], i) => k = l
      BY <2>1 DEF Steady, Once
    <3>2. PICK k \in DOMAIN r2 : Brings(T, r2[k], i)
      BY <1>1, <3>1 DEF Has
    <3>3. k + 1 = 1
      BY <1>1, <3>1, <3>2
    <3> QED BY <1>1, <3>3
  <2>7. Settled(T, U, u, q, r2, ls)
    <3> SUFFICES ASSUME NEW i \in Recorded(T, U), Has(T, r2, ls, i), T[i].sender # u
                 PROVE  Marked(T, q, r2, i)
      BY DEF Settled
    <3>1. Marked(T, q, r, i)
      BY <2>1, <2>4 DEF Steady, Settled
    <3>2. \A k \in DOMAIN r : Lists(r[k], i) => k # 1
      BY <2>6 DEF Brings
    <3>3. (\E k \in DOMAIN r : Lists(r[k], i)) => \E k \in DOMAIN r2 : Lists(r2[k], i)
      BY <1>1, <3>2
    <3> QED BY <3>1, <3>3 DEF Marked
  <2>8. InOrder(T, U, u, r2, ls)
    <3> SUFFICES ASSUME NEW i \in Recorded(T, U), NEW j \in Recorded(T, U), Before(T, i, j)
        PROVE /\ \A c \in Users : \A p \in ShownAt(T, ls, c, i), s \in ShownAt(T, ls, c, j) : p < s
              /\ Shows(T, ls, j) => \A k \in DOMAIN r2 : ~ Brings(T, r2[k], i)
              /\ \A k, l \in DOMAIN r2 : Brings(T, r2[k], i) /\ Brings(T, r2[l], j) => k <= l
              /\ Has(T, r2, ls, j) /\ T[i].recipient = u /\ T[j].recipient = u =>
                   T[i].delivered \/ Has(T, r2, ls, i)
      BY DEF InOrder
    <3>1. /\ \A c \in Users : \A p \in ShownAt(T, ls, c, i), s \in ShownAt(T, ls, c, j) : p < s
          /\ Shows(T, ls, j) => \A k \in DOMAIN r : ~ Brings(T, r[k], i)
          /\ \A k, l \in DOMAIN r : Brings(T, r[k], i) /\ Brings(T, r[l], j) => k <= l
          /\ Has(T, r, ls, j) /\ T[i].recipient = u /\ T[j].recipient = u =>
               T[i].delivered \/ Has(T, r, ls, i)
      BY <2>1 DEF Steady, InOrder
    <3>2. \A k \in DOMAIN r2 : Brings(T, r2[k], i) => ~ Shows(T, ls, j)
      BY <1>1, <3>1
    <3>3. ASSUME NEW k \in DOMAIN r2, NEW l \in DOMAIN r2, Brings(T, r2[k], i), Brings(T, r2[l], j)
          PROVE  k <= l
      <4>1. k + 1 <= l + 1
        BY <1>1, <3>1, <3>3
      <4> QED BY <1>1, <4>1
    \* Only own messages come in other responses than this one.
    <3>4. ASSUME Has(T, r2, ls, j), T[i].recipient = u, T[j].recipient = u, ~ T[i].delivered
          PROVE  Has(T, r2, ls, i)
      <4>1. Has(T, r, ls, i)
        BY <2>4, <3>1, <3>4
      <4>2. CASE Brings(T, r[1], i)
        <5>1. ~ Shows(T, ls, j)
          BY <1>1, <3>1, <4>2
        <5>2. PICK k \in DOMAIN r2 : Brings(T, r2[k], j)
          BY <3>4, <5>1 DEF Has
        <5>3. k + 1 \in DOMAIN r /\ r2[k] = r[k+1] /\ k + 1 # 1
          BY <1>1
        <5>4. r[k+1].m_command # "PENDING"
          BY <1>1, <2>1, <5>3 DEF Steady, OneAtATime
        <5>5. r[k+1].m_command # "CHAT"
          BY <1>3, <5>3 DEF Pending
        <5>6. T[j].text = Message(r[k+1].m_argument) /\ r[k+1].m_command = "SEND"
          BY <5>2, <5>3, <5>4, <5>5 DEF Brings, Lists
        <5>7. T[j].sender = u
          BY <1>2, <5>3, <5>6 DEF Answers
        <5>8. T[j].sender # T[j].recipient
          BY DEF Recorded, Rows
        <5> QED BY <3>4, <5>7, <5>8
      <4>3. CASE ~ Brings(T, r[1], i)
        <5>1. \A k \in DOMAIN r : Brings(T, r[k], i) => k # 1
          BY <4>3
        <5> QED BY <1>1, <4>1, <5>1 DEF Has
      <4> QED BY <4>2, <4>3
    <3> QED BY <3>1, <3>2, <3>3, <3>4
  <2> QED BY <2>3, <2>5, <2>7, <2>8 DEF Steady
<1> QED BY <1>2, <1>4, <1>5 DEF Client, ClientType

\* The timer: asking for the pending chats.
LEMMA Asks ==
  ASSUME NEW T, NEW U, NEW n, NEW L, NEW u, NEW ph, NEW q, NEW r, NEW ls, NEW lt,
         Client(T, U, n, L, u, ph, q, r, ls, lt), ph = "ready",
         NEW x, x.m_command = "PENDING", NEW q2 \in Seq(Job), Put(q, x, q2),
         NEW lt2 \in BOOLEAN, lt2 <=> lt \/ Pending(q, "PENDING") \/ Pending(r, "PENDING")
  PROVE  Client(T, U, n, L, u, ph, q2, r, ls, lt2)
<1>1. PICK e \in DOMAIN q2 :
        /\ q2[e] = x /\ e \notin DOMAIN q
        /\ \A k \in DOMAIN q2 : k = e \/ (k \in DOMAIN q /\ k < e)
  BY DEF Put
<1>2. \A k \in DOMAIN q : k \in DOMAIN q2 /\ q2[k] = q[k]
  BY DEF Put
<1>3. \A k \in DOMAIN q2 : q2[k].m_command # "PENDING" => k \in DOMAIN q /\ q2[k] = q[k]
  BY <1>1, <1>2
<1>4. Waiting(T, n, u, q2) /\ Marks(T, L, u, q2)
  BY <1>3 DEF Client, Waiting, Marks
<1>5. Phased(ph, q2, r, ls, lt2)
  BY PutPending DEF Client, Phased
<1>6. ASSUME ~ lt2 PROVE Steady(T, U, u, q2, r, ls)
  <2>1. /\ Steady(T, U, u, q, r, ls) /\ ~ Pending(q, "PENDING") /\ ~ Pending(r, "PENDING")
        /\ ~ Pending(r, "CHAT")
    BY <1>6 DEF Client, Phased
  <2>2. OneAtATime(q2, r)
    BY <1>1, <1>2, <2>1 DEF OneAtATime, Pending
  <2>3. Settled(T, U, u, q2, r, ls)
    <3> SUFFICES ASSUME NEW i \in Recorded(T, U), Has(T, r, ls, i), T[i].sender # u
                 PROVE  Marked(T, q2, r, i)
      BY DEF Settled
    <3>1. Marked(T, q, r, i)
      BY <2>1 DEF Steady, Settled
    <3>2. ~ \E k \in DOMAIN r : Lists(r[k], i)
      BY <2>1 DEF Lists, Pending
    <3>3. CASE T[i].delivered
      BY <3>3 DEF Marked
    <3>4. CASE \E k \in DOMAIN q :
                 /\ q[k].m_command = "DELIVERED" /\ q[k].m_argument = i
                 /\ \A l \in DOMAIN q : q[l].m_command = "PENDING" => k < l
      <4>1. PICK k \in DOMAIN q : q[k].m_command = "DELIVERED" /\ q[k].m_argument = i
        BY <3>4
      <4>2. k \in DOMAIN q2 /\ q2[k] = q[k] /\ k < e
        BY <1>1, <1>2
      <4>3. \A l \in DOMAIN q2 : q2[l].m_command = "PENDING" => l = e
        BY <1>1, <1>2, <2>1 DEF Pending
      <4> QED BY <4>1, <4>2, <4>3 DEF Marked
    <3> QED BY <3>1, <3>2, <3>3, <3>4 DEF Marked
  <2> QED BY <2>1, <2>2, <2>3 DEF Steady
<1> QED BY <1>4, <1>5, <1>6 DEF Client, ClientType

\* A message is written.
LEMMA Writes ==
  ASSUME NEW T, NEW U, NEW n \in Nat, NEW L, NEW u, NEW ph, NEW q, NEW r, NEW ls, NEW lt,
         Rows(T, n), Client(T, U, n, L, u, ph, q, r, ls, lt), ph # "off",
         NEW x, x.m_command = "SEND", x.m_argument = n + 1, x.m_intValue \in Users \ {u},
         NEW q2 \in Seq(Job), Put(q, x, q2)
  PROVE  Client(T, U, n + 1, L, u, ph, q2, r, ls, lt)
<1>1. PICK e \in DOMAIN q2 :
        /\ q2[e] = x /\ e \notin DOMAIN q
        /\ \A k \in DOMAIN q2 : k = e \/ (k \in DOMAIN q /\ k < e)
  BY DEF Put
<1>2. /\ \A k \in DOMAIN q : k \in DOMAIN q2 /\ q2[k] = q[k]
      /\ DOMAIN q \subseteq Nat /\ DOMAIN q2 \subseteq Nat
  BY DEF Put
<1>3. \A k \in DOMAIN q2 : q2[k].m_command # "SEND" => k \in DOMAIN q /\ q2[k] = q[k]
  BY <1>1, <1>2
<1>4. /\ ClientType(ph, q, r, ls, lt) /\ Waiting(T, n, u, q) /\ Marks(T, L, u, q)
      /\ Phased(ph, q, r, ls, lt)
  BY DEF Client
<1>5. Waiting(T, n + 1, u, q2)
  <2>1. \A m \in 1..n : m < n + 1 /\ m \in 1..(n+1)
    OBVIOUS
  <2>2. ASSUME NEW i \in DOMAIN T
        PROVE  /\ T[i].text # Message(n + 1)
               /\ \A a \in 1..MaxSent : T[i].text = Message(a) => a < n + 1
    <3>1. PICK m \in 1..n : T[i].text = Message(m)
      BY DEF Rows
    <3>2. \A a : T[i].text = Message(a) => a = m
      BY <3>1, MessageIs
    <3> QED BY <2>1, <3>2
  <2>3. ASSUME NEW k \in DOMAIN q2, q2[k].m_command = "SEND"
        PROVE  /\ q2[k].m_argument \in 1..(n+1) /\ q2[k].m_intValue \in Users \ {u}
               /\ \A i \in DOMAIN T :
                    /\ T[i].text # Message(q2[k].m_argument)
                    /\ T[i].sender = u => \A a \in 1..MaxSent : T[i].text = Message(a) => a < q2[k].m_argument
    <3>1. CASE k = e
      <4>1. n + 1 \in 1..(n+1)
        OBVIOUS
      <4> QED BY <1>1, <2>2, <3>1, <4>1
    <3>2. CASE k # e
      BY <1>1, <1>2, <1>4, <2>1, <2>3, <3>2 DEF Waiting
    <3> QED BY <3>1, <3>2
  <2>4. ASSUME NEW k \in DOMAIN q2, NEW l \in DOMAIN q2, k < l,
               q2[k].m_command = "SEND", q2[l].m_command = "SEND"
        PROVE  q2[k].m_argument < q2[l].m_argument
    <3>1. k # e
      BY <1>1, <1>2, <2>4
    <3>2. k \in DOMAIN q /\ q2[k] = q[k] /\ q[k].m_argument \in 1..n
      BY <1>1, <1>2, <1>4, <2>4, <3>1 DEF Waiting
    <3>3. CASE l = e
      BY <1>1, <2>1, <3>2, <3>3
    <3>4. CASE l # e
      BY <1>1, <1>2, <1>4, <2>4, <3>2, <3>4 DEF Waiting
    <3> QED BY <3>3, <3>4
  <2> QED BY <2>3, <2>4 DEF Waiting
<1>6. Marks(T, L, u, q2)
  <2>1. \A k \in DOMAIN q2 : q2[k].m_command = "DELIVERED" => q2[k].m_command # "SEND"
    OBVIOUS
  <2> QED BY <1>3, <1>4, <2>1 DEF Marks
<1>7. \A command : command # "SEND" => (Pending(q2, command) <=> Pending(q, command))
  BY PutPending
<1>8. Phased(ph, q2, r, ls, lt)
  <2>1. CASE ph = "loading"
    <3>1. Next_is(q, "CHAT") => Next_is(q2, "CHAT")
      BY <1>2, <1>4, NextIs DEF ClientType
    <3>2. \A k \in DOMAIN q2 : q2[k].m_command = "CHAT" => k \in DOMAIN q /\ q2[k] = q[k]
      BY <1>1, <1>2
    <3> QED BY <1>4, <1>7, <2>1, <3>1, <3>2 DEF Phased
  <2>2. CASE ph = "ready"
    BY <1>4, <1>7, <2>2 DEF Phased
  <2> QED BY <1>4, <2>1, <2>2 DEF ClientType
<1>9. ASSUME ~ lt PROVE Steady(T, U, u, q2, r, ls)
  <2>1. Steady(T, U, u, q, r, ls)
    BY <1>9 DEF Client
  <2>2. \A k \in DOMAIN q2 : q2[k].m_command = "PENDING" => k \in DOMAIN q /\ q2[k] = q[k]
    BY <1>1, <1>2
  <2>3. OneAtATime(q2, r)
    BY <1>7, <2>1, <2>2 DEF Steady, OneAtATime
  <2>4. \A i : Marked(T, q, r, i) => Marked(T, q2, r, i)
    <3> SUFFICES ASSUME NEW i, Marked(T, q, r, i) PROVE Marked(T, q2, r, i)
      OBVIOUS
    <3>1. CASE T[i].delivered \/ (~ Pending(q, "PENDING") /\ \E k \in DOMAIN r : Lists(r[k], i))
      BY <1>7, <3>1 DEF Marked
    <3>2. CASE \E k \in DOMAIN q :
                 /\ q[k].m_command = "DELIVERED" /\ q[k].m_argument = i
                 /\ \A l \in DOMAIN q : q[l].m_command = "PENDING" => k < l
      BY <1>2, <2>2, <3>2 DEF Marked
    <3> QED BY <3>1, <3>2 DEF Marked
  <2>5. Settled(T, U, u, q2, r, ls)
    BY <2>1, <2>4 DEF Steady, Settled
  <2> QED BY <2>1, <2>3, <2>5 DEF Steady
<1>10. Answers(T, U, u, r) /\ Box(T, U, u, ls)
  BY DEF Client
<1> QED BY <1>4, <1>5, <1>6, <1>8, <1>9, <1>10 DEF Client, ClientType

\* A client that has nothing yet.
LEMMA NothingYet ==
  ASSUME NEW T, NEW U, NEW n, NEW L, NEW u, NEW q \in Seq(Job),
         NEW ls \in [Users -> Seq(Texts)], Empty(ls),
         \A k \in DOMAIN q : k = 1 /\ q[k].m_command = "CHAT"
  PROVE  /\ q = <<>> => Client(T, U, n, L, u, "off", q, <<>>, ls, FALSE)
         /\ q # <<>> => Client(T, U, n, L, u, "loading", q, <<>>, ls, FALSE)
<1> DEFINE r == <<>>
<1>1. r \in Seq(Job) /\ DOMAIN r = {} /\ r = <<>>
  OBVIOUS
<1>2. \A c \in Users : ls[c] = <<>> /\ DOMAIN ls[c] = {}
  BY DEF Empty
<1> HIDE DEF r
<1>3. Waiting(T, n, u, q)
  BY DEF Waiting
<1>4. Marks(T, L, u, q)
  BY DEF Marks
<1>5. Answers(T, U, u, r)
  BY <1>1 DEF Answers
<1>6. Box(T, U, u, ls)
  BY <1>2 DEF Box
<1>7. \A i : ~ Has(T, r, ls, i) /\ ~ Shows(T, ls, i)
  BY <1>1, <1>2 DEF Has, Shows, ShownAt
<1>8. Steady(T, U, u, q, r, ls)
  <2>1. OneAtATime(q, r)
    BY <1>1 DEF OneAtATime, Pending
  <2>2. Settled(T, U, u, q, r, ls)
    BY <1>7 DEF Settled
  <2>3. Once(T, U, r, ls)
    BY <1>1, <1>2, <1>7 DEF Once, ShownAt
  <2>4. InOrder(T, U, u, r, ls)
    BY <1>1, <1>2, <1>7 DEF InOrder, ShownAt
  <2> QED BY <2>1, <2>2, <2>3, <2>4 DEF Steady
<1>9. q = <<>> => Phased("off", q, r, ls, FALSE)
  BY <1>1 DEF Phased
<1>10. q # <<>> => Phased("loading", q, r, ls, FALSE)
  <2> SUFFICES ASSUME q # <<>> PROVE Phased("loading", q, r, ls, FALSE)
    OBVIOUS
  <2>1. 1 \in DOMAIN q
    BY NextIs
  <2>2. Next_is(q, "CHAT")
    BY <2>1, NextIs
  <2> QED BY <1>1, <2>2 DEF Phased, Pending
<1> QED BY <1>1, <1>3, <1>4, <1>5, <1>6, <1>8, <1>9, <1>10 DEF Client, ClientType

-----------------------------------------------------------------------------
(* The server.                                                             *)

\* The rows have the type of a row and are told apart by their texts.
LEMMA TableFacts ==
  ASSUME NEW T, NEW U, NEW n, NEW L, Table(T, U, n, L)
  PROVE  /\ Rows(T, n) /\ n \in Nat /\ Len(T) \in Nat /\ DOMAIN T = 1..Len(T) /\ DOMAIN T \subseteq Nat
         /\ \A i \in DOMAIN T : T[i] \in Row /\ T[i].id = i /\ T[i].created_at \in Nat
         /\ \A i \in DOMAIN T : ~ Before(T, i, i)
         /\ \A i, j \in DOMAIN T : T[i].text = T[j].text => i = j
<1>1. /\ T \in Seq(Chat) /\ n \in 0..MaxSent /\ Rows(T, n) /\ \A i \in DOMAIN T : T[i].id = i
  BY DEF Table
<1>2. Len(T) \in Nat /\ DOMAIN T = 1..Len(T) /\ MaxSent \in Nat
  BY <1>1, LenProperties, ChatBoundsAssumption
<1>3. n \in Nat /\ DOMAIN T \subseteq Nat /\ 1..n \subseteq 1..MaxSent
  BY <1>1, <1>2
<1>4. \A i \in DOMAIN T : T[i] \in Chat
  BY <1>1, <1>2, ElementOfSeq
<1>5. ASSUME NEW i \in DOMAIN T PROVE T[i] \in Row /\ T[i].created_at \in Nat
  <2>1. T[i].text \in Texts
    BY <1>1, <1>3 DEF Rows, Texts
  <2> QED BY <1>4, <2>1 DEF Row, Chat
<1>6. \A i \in DOMAIN T : ~ Before(T, i, i)
  BY <1>5 DEF Before
<1>7. \A i, j \in DOMAIN T : T[i].text = T[j].text => i = j
  <2>1. \A i, j \in DOMAIN T : i # j => i < j \/ j < i
    BY <1>2
  <2> QED BY <1>1, <2>1 DEF Rows
<1> QED BY <1>1, <1>2, <1>3, <1>5, <1>6, <1>7

\* The lists that the server may answer with.
LEMMA ListingIs ==
  ASSUME Table(chats, unrecorded, sent, received), NEW S \in SUBSET DOMAIN chats, NEW s \in ByTime(S)
  PROVE  /\ s \in Seq(Chat)
         /\ \A p \in DOMAIN s : \E i \in S : s[p] = chats[i]
         /\ \A i \in S : \E p \in DOMAIN s : s[p] = chats[i]
         /\ \A p, k \in DOMAIN s : p < k => s[p] # s[k] /\ s[p].created_at <= s[k].created_at
<1>1. chats \in Seq(Chat) /\ Len(chats) \in Nat /\ DOMAIN chats = 1..Len(chats)
  BY TableFacts DEF Table
<1>2. IsFiniteSet(S) /\ Cardinality(S) \in Nat
  <2>1. IsFiniteSet(1..Len(chats))
    BY <1>1, FS_Interval
  <2> QED BY <1>1, <2>1, FS_Subset, FS_CardinalityType
<1> DEFINE R == {chats[i] : i \in S}
           n == Cardinality(S)
<1>3. s \in Bijection(1..n, R) /\ \A i, j \in DOMAIN s : i < j => s[i].created_at <= s[j].created_at
  BY DEF ByTime, Listings
<1>4. /\ s \in [1..n -> R]
      /\ \A p, k \in 1..n : s[p] = s[k] => p = k
      /\ \A e \in R : \E p \in 1..n : s[p] = e
  BY <1>3 DEF Bijection, Injection, Surjection, IsInjective
<1>5. R \subseteq Chat
  BY <1>1, ElementOfSeq
<1>6. s \in Seq(Chat)
  <2> HIDE DEF n
  <2>1. n \in Nat
    BY <1>2 DEF n
  <2>2. s \in [1..n -> Chat]
    BY <1>4, <1>5
  <2> QED BY <2>1, <2>2
<1>7. DOMAIN s = 1..n
  BY <1>4
<1>8. \A p, k \in 1..n : p < k => p # k
  OBVIOUS
<1> QED BY <1>3, <1>4, <1>6, <1>7, <1>8

\* What the client reads in the answer to CHAT or to PENDING.
LEMMA AnswerIs ==
  ASSUME Table(chats, unrecorded, sent, received), NEW u \in Users, NEW t \in BOOLEAN,
         NEW s \in ByTime(list_user_chats(u, t))
  PROVE  /\ s \in Seq(Chat) /\ parse_chat(build_response(s)) = s
         /\ Listed(chats, u, s)
         /\ \A i \in DOMAIN chats :
              (\E p \in DOMAIN s : s[p].id = i) <=> i \in list_user_chats(u, t)
<1> DEFINE S == list_user_chats(u, t)
<1>1. S \subseteq DOMAIN chats /\ \A i \in S : Party(chats, u, i)
  BY DEF list_user_chats, Party
<1>2. /\ s \in Seq(Chat)
      /\ \A p \in DOMAIN s : \E i \in S : s[p] = chats[i]
      /\ \A i \in S : \E p \in DOMAIN s : s[p] = chats[i]
      /\ \A p, k \in DOMAIN s : p < k => s[p] # s[k] /\ s[p].created_at <= s[k].created_at
  BY <1>1, ListingIs
<1>3. \A i \in DOMAIN chats : chats[i].id = i
  BY DEF Table
<1> HIDE DEF S
<1>4. \A p \in DOMAIN s : s[p].id \in S /\ s[p] = chats[s[p].id]
  BY <1>1, <1>2, <1>3
<1>5. Listed(chats, u, s)
  BY <1>1, <1>2, <1>4 DEF Listed
<1>6. \A i \in DOMAIN chats : (\E p \in DOMAIN s : s[p].id = i) <=> i \in S
  BY <1>1, <1>2, <1>3, <1>4
<1> QED BY <1>2, <1>5, <1>6, WireIsFaithful DEF S

\* There is an id for a message that is not in the table.
LEMMA RoomForOne ==
  ASSUME NEW T \in Seq(Chat), NEW n \in Nat, Rows(T, n), NEW m \in 1..n,
         \A i \in DOMAIN T : T[i].text # Message(m)
  PROVE  Len(T) + 1 <= n
<1> DEFINE k == Len(T)
           A(i) == CHOOSE a \in 1..n : T[i].text = Message(a)
           f == [i \in 1..(k+1) |-> IF i = k + 1 THEN m ELSE A(i)]
<1>1. k \in Nat /\ DOMAIN T = 1..k
  BY LenProperties
<1>2. \A i \in 1..k : A(i) \in 1..n /\ T[i].text = Message(A(i))
  BY <1>1 DEF Rows
<1> HIDE DEF A, k
<1>3. f \in [1..(k+1) -> 1..n]
  <2>1. \A i \in 1..(k+1) : i = k + 1 \/ i \in 1..k
    BY <1>1
  <2> QED BY <1>2, <2>1
<1>4. /\ f[k+1] = m
      /\ \A i \in 1..k : f[i] = A(i)
  BY <1>1
<1> HIDE DEF f
<1>5. \A i, j \in 1..k : A(i) = A(j) => i = j
  <2>1. \A i, j \in 1..k : i # j => i < j \/ j < i
    OBVIOUS
  <2>2. \A i, j \in 1..k : i < j => T[i].text # T[j].text
    BY <1>1 DEF Rows
  <2>3. \A i, j \in 1..k : A(i) = A(j) => T[i].text = T[j].text
    BY <1>2
  <2> QED BY <2>1, <2>2, <2>3
<1>6. \A i \in 1..k : A(i) # m
  BY <1>1, <1>2
<1>7. ASSUME NEW i \in 1..(k+1), NEW j \in 1..(k+1), f[i] = f[j] PROVE i = j
  <2>1. (i = k + 1 \/ i \in 1..k) /\ (j = k + 1 \/ j \in 1..k)
    BY <1>1
  <2> QED BY <1>4, <1>5, <1>6, <1>7, <2>1
<1>8. /\ IsFiniteSet(1..n) /\ Cardinality(1..n) = n
      /\ IsFiniteSet(1..(k+1)) /\ Cardinality(1..(k+1)) = k + 1
  <2>1. /\ IsFiniteSet(1..n) /\ Cardinality(1..n) = IF 1 > n THEN 0 ELSE n - 1 + 1
        /\ IsFiniteSet(1..(k+1)) /\ Cardinality(1..(k+1)) = IF 1 > k + 1 THEN 0 ELSE (k + 1) - 1 + 1
    BY <1>1, FS_Interval
  <2> QED BY <1>1, <2>1
<1>9. ~ (n < k + 1)
  <2> SUFFICES ASSUME n < k + 1 PROVE FALSE
    OBVIOUS
  <2> DEFINE S == 1..(k+1)
             R == 1..n
  <2>1. IsFiniteSet(S) /\ IsFiniteSet(R) /\ Cardinality(R) < Cardinality(S) /\ f \in [S -> R]
    BY <1>3, <1>8
  <2> HIDE DEF S, R
  <2>2. \E x, y \in S : x # y /\ f[x] = f[y]
    BY <2>1, FS_PigeonHole
  <2> QED BY <1>7, <2>2 DEF S
<1> QED BY <1>1, <1>9 DEF k

-----------------------------------------------------------------------------
(* Steps.                                                                  *)

\* A step of one user.
LEMMA ExceptIs ==
  ASSUME NEW S, NEW f \in [Users -> S], NEW u \in Users, NEW e \in S
  PROVE  /\ [f EXCEPT ![u] = e] \in [Users -> S]
         /\ [f EXCEPT ![u] = e][u] = e
         /\ \A w \in Users : w # u => [f EXCEPT ![u] = e][w] = f[w]
OBVIOUS

\* The messages that wait when a job has been taken.
LEMMA TakenSends ==
  ASSUME NEW q, NEW q2, Taken1(q, q2)
  PROVE  Sends(q2) \subseteq Sends(q)
BY DEF Taken1, Sends

\* The messages that wait when a job has been created.
LEMMA PutSends ==
  ASSUME NEW q, NEW x, NEW q2, Put(q, x, q2)
  PROVE  /\ x.m_command # "SEND" => Sends(q2) \subseteq Sends(q)
         /\ Sends(q2) \subseteq Sends(q) \cup {x.m_argument}
BY DEF Put, Sends

ClientOf(w) ==
  Client(chats, unrecorded, sent, received, w,
         phase[w], m_jobQ[w], m_resQ[w], m_contact_chat[w], late[w])

\* Inductive.
IInv ==
  /\ TypeOK
  /\ Table(chats, unrecorded, sent, received)
  /\ \A w \in Users : w \notin contacts[w]
  /\ \A w \in Users : ClientOf(w)
  /\ \A v, w \in Users : v # w => Apart(m_jobQ[v], m_jobQ[w])

\* The other users, when the table gets no row.
LEMMA OthersKept ==
  ASSUME IInv, NEW u \in Users, ClientOf(u)',
         \A w \in Users \ {u} :
           /\ phase'[w] = phase[w] /\ m_jobQ'[w] = m_jobQ[w] /\ m_resQ'[w] = m_resQ[w]
           /\ m_contact_chat'[w] = m_contact_chat[w] /\ late'[w] = late[w],
         Later(chats, unrecorded, sent, received, chats', unrecorded', sent', received'),
         \A w \in Users \ {u} : Apart(m_jobQ'[u], m_jobQ[w])
  PROVE  /\ \A w \in Users : ClientOf(w)'
         /\ \A v, w \in Users : v # w => Apart(m_jobQ'[v], m_jobQ'[w])
<1>1. ASSUME NEW w \in Users \ {u} PROVE ClientOf(w)'
  <2>1. ClientOf(w)
    BY DEF IInv
  <2>2. Client(chats', unrecorded', sent', received', w,
               phase[w], m_jobQ[w], m_resQ[w], m_contact_chat[w], late[w])
    BY <2>1, LaterClient DEF ClientOf
  <2> QED BY <2>2 DEF ClientOf
<1>2. \A v, w \in Users : v # w => Apart(m_jobQ'[v], m_jobQ'[w])
  BY DEF IInv, Apart
<1> QED BY <1>1, <1>2

\* No message waits with two users when u has none more.
LEMMA FewerSends ==
  ASSUME IInv, NEW u \in Users, NEW q, Sends(q) \subseteq Sends(m_jobQ[u])
  PROVE  \A w \in Users \ {u} : Apart(q, m_jobQ[w])
BY DEF IInv, Apart

\* The table when no row is added.
LEMMA LaterTable ==
  ASSUME NEW T, NEW U, NEW n, NEW L, NEW T2, NEW U2, NEW n2, NEW L2,
         Table(T, U, n, L), Later(T, U, n, L, T2, U2, n2, L2),
         T2 \in Seq(Chat), U2 \subseteq 1..MaxSent, n2 \in 0..MaxSent, L2 \subseteq Users \X (1..MaxSent),
         MarkedByParty(T2, L2)
  PROVE  Table(T2, U2, n2, L2)
<1>1. DOMAIN T2 = DOMAIN T /\ 1..n \subseteq 1..n2
  BY DEF Later
<1>2. \A i \in DOMAIN T :
       /\ T2[i].id = T[i].id /\ T2[i].text = T[i].text /\ T2[i].sender = T[i].sender
       /\ T2[i].recipient = T[i].recipient /\ T2[i].created_at = T[i].created_at
  BY DEF Later
<1>3. Rows(T, n) /\ \A i \in DOMAIN T : T[i].id = i
  BY DEF Table
<1>4. Rows(T2, n2)
  <2>1. \A i \in DOMAIN T2 : T2[i].sender # T2[i].recipient /\ \E m \in 1..n2 : T2[i].text = Message(m)
    BY <1>1, <1>2, <1>3 DEF Rows
  <2>2. \A i, j \in DOMAIN T2 : i < j =>
          /\ T2[i].created_at <= T2[j].created_at
          /\ T2[i].text # T2[j].text
          /\ T2[i].sender = T2[j].sender =>
            \A a, b \in 1..MaxSent : T2[i].text = Message(a) /\ T2[j].text = Message(b) => a < b
    BY <1>1, <1>2, <1>3 DEF Rows
  <2> QED BY <2>1, <2>2 DEF Rows
<1>5. \A i \in DOMAIN T2 : T2[i].id = i
  BY <1>1, <1>2, <1>3
<1> QED BY <1>4, <1>5 DEF Table

-----------------------------------------------------------------------------
(* The job thread.                                                         *)

\* The types after a step of the job thread.
LEMMA JobStep ==
  ASSUME IInv, NEW u \in Users, NEW q2 \in Seq(Job), NEW r2 \in Seq(Job),
         m_jobQ' = [m_jobQ EXCEPT ![u] = q2], m_resQ' = [m_resQ EXCEPT ![u] = r2],
         UNCHANGED <<contacts, phase, gui, sent, logins, received, late>>,
         faults' \in 0..MaxFaults, Table(chats', unrecorded', sent', received')
  PROVE  /\ TypeOK'
         /\ m_jobQ'[u] = q2 /\ m_resQ'[u] = r2
         /\ \A w \in Users \ {u} : m_jobQ'[w] = m_jobQ[w] /\ m_resQ'[w] = m_resQ[w]
         /\ \A w \in Users : w \notin contacts'[w]
<1>1. m_jobQ \in [Users -> Seq(Job)] /\ m_resQ \in [Users -> Seq(Job)]
  BY DEF IInv, TypeOK
<1>2. /\ m_jobQ' \in [Users -> Seq(Job)] /\ m_resQ' \in [Users -> Seq(Job)]
      /\ m_jobQ'[u] = q2 /\ m_resQ'[u] = r2
      /\ \A w \in Users \ {u} : m_jobQ'[w] = m_jobQ[w] /\ m_resQ'[w] = m_resQ[w]
  BY <1>1, ExceptIs
<1>3. chats' \in Seq(Chat) /\ (\A i \in DOMAIN chats' : chats'[i].id = i)
      /\ unrecorded' \subseteq 1..MaxSent
  BY DEF Table
<1>4. TypeOK'
  BY <1>2, <1>3 DEF IInv, TypeOK, gui
<1>5. \A w \in Users : w \notin contacts'[w]
  BY DEF IInv
<1> QED BY <1>2, <1>4, <1>5

\* The job at the head of the queue of u.
LEMMA JobNext ==
  ASSUME IInv, NEW u \in Users, NEW command, Next_is(m_jobQ[u], command)
  PROVE  /\ m_jobQ[u] \in Seq(Job) /\ m_resQ[u] \in Seq(Job)
         /\ Head(m_jobQ[u]) = m_jobQ[u][1] /\ m_jobQ[u][1] \in Job /\ m_jobQ[u][1].m_command = command
         /\ Taken1(m_jobQ[u], Tail(m_jobQ[u])) /\ Tail(m_jobQ[u]) \in Seq(Job)
         /\ 1 \in DOMAIN m_jobQ[u]
         /\ ClientOf(u)
<1>1. m_jobQ[u] \in Seq(Job) /\ m_resQ[u] \in Seq(Job) /\ ClientOf(u)
  BY DEF IInv, TypeOK
<1> DEFINE q == m_jobQ[u]
<1> HIDE DEF q
<1>2. q \in Seq(Job) /\ Next_is(q, command)
  BY <1>1 DEF q
<1>3. q # <<>> /\ 1 \in DOMAIN q /\ q[1].m_command = command
  BY <1>2, NextIs DEF Next_is
<1>4. Taken1(q, Tail(q)) /\ Tail(q) \in Seq(Job) /\ Head(q) = q[1]
  BY <1>2, <1>3, TailTakes
<1>5. q[1] \in Job
  BY <1>2, <1>3, HeadTailProperties, <1>4
<1> QED BY <1>1, <1>3, <1>4, <1>5 DEF q

\* chat_send, when the row is written.
LEMMA SendRecorded ==
  ASSUME IInv, NEW u \in Users, Next_is(m_jobQ[u], "SEND"),
         add_user_chat(u, Head(m_jobQ[u]).m_intValue, Message(Head(m_jobQ[u]).m_argument)),
         Taken(u, [Head(m_jobQ[u]) EXCEPT !.m_valid = TRUE]),
         Executes(TRUE), UNCHANGED unrecorded,
         UNCHANGED <<contacts, phase, gui, sent, logins, received, late>>
  PROVE  IInv'
<1> DEFINE q == m_jobQ[u]
           r == m_resQ[u]
           h == q[1]
           m == h.m_argument
           c == h.m_intValue
           z == [h EXCEPT !.m_valid = TRUE]
           q2 == Tail(q)
           r2 == Append(r, z)
           x == Len(chats) + 1
<1>1. /\ q \in Seq(Job) /\ r \in Seq(Job) /\ Head(q) = h /\ h \in Job /\ h.m_command = "SEND"
      /\ Taken1(q, q2) /\ q2 \in Seq(Job) /\ 1 \in DOMAIN q
      /\ Client(chats, unrecorded, sent, received, u, phase[u], q, r, m_contact_chat[u], late[u])
  BY JobNext DEF ClientOf
<1>2. Table(chats, unrecorded, sent, received)
  BY DEF IInv
<1>3. z \in Job /\ z.m_command = "SEND" /\ z.m_argument = m /\ z.m_intValue = c
  BY <1>1 DEF Job
<1>4. /\ m_jobQ' = [m_jobQ EXCEPT ![u] = q2] /\ m_resQ' = [m_resQ EXCEPT ![u] = r2]
  <2>1. "SEND" # Discard
    BY DEF Discard
  <2> QED BY <1>1, <1>3, <2>1 DEF Taken, Answered
<1>5. Put(r, z, r2) /\ r2 \in Seq(Job)
  BY <1>1, <1>3, AppendPuts
<1>6. /\ m \in 1..sent /\ c \in Users \ {u}
      /\ \A i \in DOMAIN chats :
           /\ chats[i].text # Message(m)
           /\ chats[i].sender = u => \A a \in 1..MaxSent : chats[i].text = Message(a) => a < m
  BY <1>1 DEF Client, Waiting
<1>7. m \in 1..MaxSent /\ x \in 1..MaxSent /\ Message(m) \in Texts
  <2>1. sent \in Nat /\ sent <= MaxSent /\ MaxSent \in Nat
    BY <1>2, ChatBoundsAssumption DEF Table
  <2>2. Len(chats) + 1 <= sent /\ Len(chats) \in Nat
    BY <1>2, <1>6, <2>1, RoomForOne, TableFacts DEF Table
  <2>3. m \in 1..MaxSent
    BY <1>6, <2>1
  <2> QED BY <2>1, <2>2, <2>3 DEF Texts
<1>8. PICK stamp \in Stamps :
        chats' = Append(chats, [id |-> x, sender |-> u, recipient |-> c, created_at |-> stamp,
                                delivered |-> FALSE, text |-> Message(m)])
  BY <1>1 DEF add_user_chat
<1>9. /\ Len(chats) \in Nat /\ DOMAIN chats = 1..Len(chats) /\ Rows(chats, sent)
      /\ \A i \in DOMAIN chats : chats[i].id = i /\ chats[i].created_at \in Nat
  BY <1>2, TableFacts
<1>10. stamp \in Nat /\ \A i \in DOMAIN chats : chats[i].created_at <= stamp
  <2>1. CASE chats = <<>>
    BY <2>1 DEF Stamps
  <2>2. CASE chats # <<>>
    <3> DEFINE e == Len(chats)
               last == chats[e].created_at
    <3>1. e \in DOMAIN chats /\ \A i \in DOMAIN chats : i < e \/ i = e
      <4>1. e # 0
        BY <1>2, <2>2, EmptySeq DEF Table
      <4> QED BY <1>9, <4>1
    <3>2. last \in Nat /\ \A i \in DOMAIN chats : chats[i].created_at <= last
      BY <1>9, <3>1 DEF Rows
    <3>3. stamp = last \/ stamp = last + 1
      BY <2>2 DEF Stamps
    <3> HIDE DEF last
    <3> QED BY <1>9, <3>2, <3>3
  <2> QED BY <2>1, <2>2
<1> DEFINE row == [id |-> x, sender |-> u, recipient |-> c, created_at |-> stamp,
                   delivered |-> FALSE, text |-> Message(m)]
<1>11. row \in Chat
  BY <1>6, <1>7, <1>10 DEF Chat
<1>12. /\ row.id = x /\ row.sender = u /\ row.recipient = c /\ row.created_at = stamp
       /\ ~ row.delivered /\ row.text = Message(m)
  OBVIOUS
<1> HIDE DEF row
<1>13. /\ chats' \in Seq(Chat) /\ DOMAIN chats' = DOMAIN chats \cup {x} /\ x \notin DOMAIN chats
       /\ chats'[x] = row
       /\ \A i \in DOMAIN chats : chats'[i] = chats[i] /\ i < x
  <2>1. chats \in Seq(Chat)
    BY <1>2 DEF Table
  <2>2. chats' = Append(chats, row)
    BY <1>8 DEF row
  <2>3. /\ chats' \in Seq(Chat) /\ Len(chats') = Len(chats) + 1 /\ chats'[Len(chats)+1] = row
        /\ \A i \in 1..Len(chats) : chats'[i] = chats[i]
    BY <1>11, <2>1, <2>2, AppendProperties
  <2>4. DOMAIN chats' = 1..Len(chats')
    BY <2>3, LenProperties
  <2>5. 1..(Len(chats) + 1) = 1..Len(chats) \cup {Len(chats) + 1} /\ Len(chats) + 1 \notin 1..Len(chats)
        /\ \A i \in 1..Len(chats) : i < Len(chats) + 1
    BY <1>9
  <2> QED BY <1>9, <2>3, <2>4, <2>5
<1> HIDE DEF x
<1>14. \A i \in DOMAIN chats : ~ Before(chats', x, i)
  <2>1. \A i \in DOMAIN chats : ~ (stamp < chats[i].created_at)
    BY <1>9, <1>10
  <2> QED BY <1>12, <1>13, <2>1 DEF Before
<1>15. ~ Before(chats', x, x)
  BY <1>10, <1>12, <1>13 DEF Before
<1>16. Added(chats, x, m, chats')
  BY <1>6, <1>7, <1>12, <1>13, <1>14 DEF Added
<1>17. Table(chats', unrecorded', sent', received')
  <2>1. \A i \in DOMAIN chats' : chats'[i].id = i
    BY <1>9, <1>12, <1>13
  <2>2. MarkedByParty(chats', received)
    BY <1>2, <1>12, <1>13 DEF Table, MarkedByParty, Party
  <2>3. Rows(chats', sent)
    <3>1. ASSUME NEW i \in DOMAIN chats'
          PROVE  chats'[i].sender # chats'[i].recipient /\ \E k \in 1..sent : chats'[i].text = Message(k)
      BY <1>6, <1>9, <1>12, <1>13 DEF Rows
    <3>2. ASSUME NEW i \in DOMAIN chats', NEW j \in DOMAIN chats', i < j
          PROVE  /\ chats'[i].created_at <= chats'[j].created_at
                 /\ chats'[i].text # chats'[j].text
                 /\ chats'[i].sender = chats'[j].sender =>
                      \A a, b \in 1..MaxSent :
                        chats'[i].text = Message(a) /\ chats'[j].text = Message(b) => a < b
      <4>1. i \in DOMAIN chats
        <5>1. x \in Nat /\ DOMAIN chats \subseteq Nat
          BY <1>9 DEF x
        <5> QED BY <1>13, <3>2, <5>1
      <4>2. CASE j = x
        <5>1. chats'[i] = chats[i] /\ chats'[j] = row
          BY <1>13, <4>1, <4>2
        <5>2. \A b : row.text = Message(b) => b = m
          BY <1>12, MessageIs
        <5> QED BY <1>6, <1>10, <1>12, <4>1, <5>1, <5>2
      <4>3. CASE j \in DOMAIN chats
        BY <1>9, <1>13, <3>2, <4>1, <4>3 DEF Rows
      <4> QED BY <1>13, <4>2, <4>3
    <3> QED BY <3>1, <3>2 DEF Rows
  <2>4. unrecorded' = unrecorded /\ sent' = sent /\ received' = received
    OBVIOUS
  <2> QED BY <1>2, <1>13, <2>1, <2>2, <2>3, <2>4 DEF Table
<1>18. faults' \in 0..MaxFaults
  BY DEF Executes, IInv, TypeOK
<1>19. /\ TypeOK' /\ m_jobQ'[u] = q2 /\ m_resQ'[u] = r2
       /\ \A w \in Users \ {u} : m_jobQ'[w] = m_jobQ[w] /\ m_resQ'[w] = m_resQ[w]
       /\ \A w \in Users : w \notin contacts'[w]
  <2> HIDE DEF q2, r2
  <2>1. q2 \in Seq(Job) /\ r2 \in Seq(Job)
    BY <1>1, <1>5
  <2> QED BY <1>4, <1>17, <1>18, <2>1, JobStep, ZenonT(30)
<1>20. /\ unrecorded' = unrecorded /\ sent' = sent /\ received' = received /\ phase' = phase
       /\ m_contact_chat' = m_contact_chat /\ late' = late
  BY DEF gui
<1>21. m \in Sends(q)
  BY <1>1 DEF Sends
<1>22. ASSUME NEW w \in Users \ {u} PROVE ClientOf(w)'
  <2>1. ClientOf(w) /\ m \notin Sends(m_jobQ[w])
    BY <1>21 DEF IInv, Apart
  <2>2. \A k \in DOMAIN m_jobQ[w] : m_jobQ[w][k].m_command = "SEND" => m_jobQ[w][k].m_argument # m
    BY <2>1 DEF Sends
  <2>3. chats'[x].sender # w
    BY <1>12, <1>13
  <2>4. Client(chats', unrecorded, sent, received, w, phase[w], m_jobQ[w], m_resQ[w], m_contact_chat[w], late[w])
    BY <1>16, <2>1, <2>2, <2>3, AddedClient DEF ClientOf
  <2> QED BY <1>19, <1>20, <2>4 DEF ClientOf
<1> DEFINE ph == phase[u]
           ls == m_contact_chat[u]
           lt == late[u]
<1> HIDE DEF q2, r2, q, r, z, ph, ls, lt, h, c, m
<1>23. Client(chats, unrecorded, sent, received, u, ph, q, r, ls, lt) /\ q[1].m_command = "SEND"
  BY <1>1 DEF ph, ls, lt, h
<1>24. Client(chats, unrecorded, sent, received, u, ph, q2, r, ls, lt)
  BY <1>1, <1>23, JobTaken
<1>25. /\ ph # "off" /\ (ph = "loading" => r # <<>>)
       /\ \A k \in DOMAIN q2 : q2[k].m_command = "SEND" => m < q2[k].m_argument
  BY <1>1, <1>23, SendNext DEF m, h
<1>26. Client(chats', unrecorded, sent, received, u, ph, q2, r, ls, lt)
  <2>1. \A k \in DOMAIN q2 : q2[k].m_command = "SEND" => q2[k].m_argument # m /\ m < q2[k].m_argument
    BY <1>6, <1>25
  <2> QED BY <1>16, <1>24, <2>1, AddedClient
<1>27. Stands(chats', unrecorded, u, m)
  BY <1>12, <1>13 DEF Stands, Party
<1>28. ASSUME NEW i \in Recorded(chats', unrecorded), chats'[i].text = Message(m)
       PROVE  /\ chats'[i].sender = u /\ chats'[i].recipient # u /\ ~ Has(chats', r, ls, i)
              /\ \A j \in Recorded(chats', unrecorded) : ~ Before(chats', i, j)
  <2>1. i = x
    BY <1>6, <1>13, <1>28 DEF Recorded
  <2>2. ~ Has(chats', r, ls, x)
    <3>1. Answers(chats, unrecorded, u, r) /\ Box(chats, unrecorded, u, ls)
      BY <1>24 DEF Client
    <3> QED BY <1>16, <1>28, <2>1, <3>1, AddedHas
  <2>3. \A j \in Recorded(chats', unrecorded) : j \in DOMAIN chats \/ j = x
    BY <1>13 DEF Recorded
  <2> QED BY <1>6, <1>12, <1>13, <1>14, <1>15, <2>1, <2>2, <2>3
<1>29. Client(chats', unrecorded, sent, received, u, ph, q2, r2, ls, lt)
  <2>1. z.m_command = "SEND" /\ z.m_argument \in 1..MaxSent /\ z.m_intValue \in Users
    BY <1>3, <1>6, <1>7
  <2> QED BY <1>3, <1>5, <1>25, <1>26, <1>27, <1>28, <2>1, SendAnswered
<1>30. ClientOf(u)'
  BY <1>19, <1>20, <1>29 DEF ClientOf, ph, ls, lt
<1>31. \A w \in Users \ {u} : Apart(m_jobQ'[u], m_jobQ[w])
  <2>1. Sends(q2) \subseteq Sends(q)
    BY <1>1, TakenSends
  <2> QED BY <1>19, <2>1, FewerSends DEF q
<1>32. \A v, w \in Users : v # w => Apart(m_jobQ'[v], m_jobQ'[w])
  BY <1>19, <1>31 DEF IInv, Apart
<1> QED BY <1>17, <1>19, <1>22, <1>30, <1>32 DEF IInv

\* A step of the job thread that adds no row.
LEMMA JobDone ==
  ASSUME IInv, NEW u \in Users, NEW q2 \in Seq(Job), NEW r2 \in Seq(Job),
         m_jobQ' = [m_jobQ EXCEPT ![u] = q2], m_resQ' = [m_resQ EXCEPT ![u] = r2],
         UNCHANGED <<contacts, phase, gui, sent, logins, received, late>>,
         faults' \in 0..MaxFaults, Table(chats', unrecorded', sent', received'),
         Later(chats, unrecorded, sent, received, chats', unrecorded', sent', received'),
         Client(chats', unrecorded', sent', received', u, phase[u], q2, r2, m_contact_chat[u], late[u]),
         Sends(q2) \subseteq Sends(m_jobQ[u])
  PROVE  IInv'
<1>1. /\ TypeOK' /\ m_jobQ'[u] = q2 /\ m_resQ'[u] = r2
      /\ \A w \in Users \ {u} : m_jobQ'[w] = m_jobQ[w] /\ m_resQ'[w] = m_resQ[w]
      /\ \A w \in Users : w \notin contacts'[w]
  BY JobStep, ZenonT(30)
<1>2. phase' = phase /\ m_contact_chat' = m_contact_chat /\ late' = late
  BY DEF gui
<1>3. ClientOf(u)'
  BY <1>1, <1>2 DEF ClientOf
<1>4. \A w \in Users \ {u} : Apart(m_jobQ'[u], m_jobQ[w])
  BY <1>1, FewerSends
<1>5. \A w \in Users \ {u} :
           /\ phase'[w] = phase[w] /\ m_jobQ'[w] = m_jobQ[w] /\ m_resQ'[w] = m_resQ[w]
           /\ m_contact_chat'[w] = m_contact_chat[w] /\ late'[w] = late[w]
  BY <1>1, <1>2
<1>6. /\ \A w \in Users : ClientOf(w)'
      /\ \A v, w \in Users : v # w => Apart(m_jobQ'[v], m_jobQ'[w])
  BY <1>3, <1>4, <1>5, OthersKept
<1> QED BY <1>1, <1>6 DEF IInv

\* chat_send, when the statement fails.
LEMMA SendFailed ==
  ASSUME IInv, NEW u \in Users, Next_is(m_jobQ[u], "SEND"),
         UNCHANGED chats, unrecorded' = unrecorded \cup {Head(m_jobQ[u]).m_argument},
         Taken(u, [Head(m_jobQ[u]) EXCEPT !.m_valid = TRUE]),
         Executes(FALSE),
         UNCHANGED <<contacts, phase, gui, sent, logins, received, late>>
  PROVE  IInv'
<1> DEFINE q == m_jobQ[u]
           r == m_resQ[u]
           h == q[1]
           m == h.m_argument
           z == [h EXCEPT !.m_valid = TRUE]
           q2 == Tail(q)
           r2 == Append(r, z)
           ph == phase[u]
           ls == m_contact_chat[u]
           lt == late[u]
           U2 == unrecorded \cup {m}
<1>1. /\ q \in Seq(Job) /\ r \in Seq(Job) /\ Head(q) = h /\ h \in Job /\ h.m_command = "SEND"
      /\ Taken1(q, q2) /\ q2 \in Seq(Job) /\ 1 \in DOMAIN q
      /\ Client(chats, unrecorded, sent, received, u, ph, q, r, ls, lt)
  BY JobNext DEF ClientOf
<1>2. Table(chats, unrecorded, sent, received)
  BY DEF IInv
<1>3. z \in Job /\ z.m_command = "SEND" /\ z.m_argument = m /\ z.m_intValue = h.m_intValue
  BY <1>1 DEF Job
<1>4. /\ m_jobQ' = [m_jobQ EXCEPT ![u] = q2] /\ m_resQ' = [m_resQ EXCEPT ![u] = r2]
  <2>1. "SEND" # Discard
    BY DEF Discard
  <2> QED BY <1>1, <1>3, <2>1 DEF Taken, Answered
<1>5. Put(r, z, r2) /\ r2 \in Seq(Job)
  BY <1>1, <1>3, AppendPuts
<1>6. m \in 1..MaxSent /\ h.m_intValue \in Users
  <2>1. m \in 1..sent /\ h.m_intValue \in Users /\ sent \in Nat /\ sent <= MaxSent /\ MaxSent \in Nat
    BY <1>1, <1>2, ChatBoundsAssumption DEF Client, Waiting, Table
  <2> QED BY <2>1
<1>7. /\ unrecorded' = U2 /\ chats' = chats /\ sent' = sent /\ received' = received
  BY <1>1
<1>8. sent \in Nat /\ U2 \subseteq 1..MaxSent
  BY <1>2, <1>6, TableFacts DEF Table
<1>9. Later(chats, unrecorded, sent, received, chats, U2, sent, received)
  BY <1>8 DEF Later
<1>10. Table(chats, U2, sent, received)
  BY <1>2, <1>8 DEF Table
<1>11. faults' \in 0..MaxFaults
  <2>1. faults \in Nat /\ MaxFaults \in Nat
    BY ChatBoundsAssumption DEF IInv, TypeOK
  <2> QED BY <2>1 DEF Executes
<1> HIDE DEF q2, r2, q, r, z, ph, ls, lt, h, m, U2
<1>12. q[1].m_command = "SEND"
  BY <1>1 DEF h
<1>13. Client(chats, unrecorded, sent, received, u, ph, q2, r, ls, lt)
  BY <1>1, <1>12, JobTaken
<1>14. ph # "off" /\ (ph = "loading" => r # <<>>)
  BY <1>1, <1>12, SendNext
<1>15. Client(chats, U2, sent, received, u, ph, q2, r, ls, lt)
  BY <1>9, <1>13, LaterClient
<1>16. m \in U2 /\ Stands(chats, U2, u, m)
  BY DEF Stands, U2
<1>17. \A i \in Recorded(chats, U2) : chats[i].text # Message(m)
  BY <1>16 DEF Recorded
<1>18. Client(chats, U2, sent, received, u, ph, q2, r2, ls, lt)
  <2>1. z.m_argument \in 1..MaxSent /\ z.m_intValue \in Users /\ Stands(chats, U2, u, z.m_argument)
        /\ \A i \in Recorded(chats, U2) : chats[i].text # Message(z.m_argument)
    BY <1>3, <1>6, <1>16, <1>17
  <2> QED BY <1>3, <1>5, <1>14, <1>15, <2>1, SendAnswered
<1>19. Sends(q2) \subseteq Sends(q)
  BY <1>1, TakenSends
<1>20. Client(chats', unrecorded', sent', received', u, phase[u], q2, r2, m_contact_chat[u], late[u])
  BY <1>7, <1>18 DEF ph, ls, lt
<1>21. Table(chats', unrecorded', sent', received')
  BY <1>7, <1>10
<1>22. Later(chats, unrecorded, sent, received, chats', unrecorded', sent', received')
  BY <1>7, <1>9
<1>23. Sends(q2) \subseteq Sends(m_jobQ[u])
  BY <1>19 DEF q
<1> QED BY <1>1, <1>4, <1>5, <1>11, <1>20, <1>21, <1>22, <1>23, JobDone, Zenon

\* The server stays as it is.
LEMMA SameServer ==
  ASSUME IInv, UNCHANGED <<chats, unrecorded, sent, received>>
  PROVE  /\ Table(chats', unrecorded', sent', received')
         /\ Later(chats, unrecorded, sent, received, chats', unrecorded', sent', received')
<1>1. Table(chats, unrecorded, sent, received)
  BY DEF IInv
<1>2. sent \in Nat
  BY <1>1, TableFacts
<1> QED BY <1>1, <1>2 DEF Later

\* chat_get_pending.
LEMMA PendingAsked ==
  ASSUME IInv, NEW u \in Users, chat_get_pending(u),
         UNCHANGED <<contacts, phase, gui, sent, logins, received, late>>
  PROVE  IInv'
<1> DEFINE q == m_jobQ[u]
           r == m_resQ[u]
           h == q[1]
           q2 == Tail(q)
           ph == phase[u]
           ls == m_contact_chat[u]
           lt == late[u]
<1>1. /\ q \in Seq(Job) /\ r \in Seq(Job) /\ Head(q) = h /\ h \in Job /\ h.m_command = "PENDING"
      /\ Taken1(q, q2) /\ q2 \in Seq(Job) /\ 1 \in DOMAIN q
      /\ Client(chats, unrecorded, sent, received, u, ph, q, r, ls, lt)
  BY JobNext DEF ClientOf, chat_get_pending
<1>2. Table(chats, unrecorded, sent, received)
  BY DEF IInv
<1>3. PICK s \in ByTime(list_user_chats(u, TRUE)) :
        Taken(u, [Head(q) EXCEPT !.m_chats = parse_chat(build_response(s)),
                    !.m_valid = parse_chat(build_response(s)) # <<>>,
                    !.m_command = IF parse_chat(build_response(s)) # <<>> THEN @ ELSE Discard])
  BY DEF chat_get_pending, get_pending, pending, get_chats
<1>4. /\ s \in Seq(Chat) /\ parse_chat(build_response(s)) = s
      /\ Listed(chats, u, s)
      /\ \A i \in DOMAIN chats :
           (\E p \in DOMAIN s : s[p].id = i) <=> i \in list_user_chats(u, TRUE)
  BY <1>2, AnswerIs
<1> DEFINE z == [h EXCEPT !.m_chats = s, !.m_valid = s # <<>>,
                   !.m_command = IF s # <<>> THEN h.m_command ELSE Discard]
<1>5. Taken(u, z)
  BY <1>1, <1>3, <1>4
<1>6. faults' \in 0..MaxFaults /\ UNCHANGED <<chats, unrecorded, sent, received>>
  BY DEF chat_get_pending, IInv, TypeOK
<1>7. /\ Table(chats', unrecorded', sent', received')
      /\ Later(chats, unrecorded, sent, received, chats', unrecorded', sent', received')
  BY <1>6, SameServer
<1>8. Sends(q2) \subseteq Sends(m_jobQ[u])
  BY <1>1, TakenSends
<1> HIDE DEF ph, ls, lt
<1>9. Client(chats, unrecorded, sent, received, u, ph, q2, r, ls, lt)
  <2> HIDE DEF q2, q, r
  <2> QED BY <1>1, JobTaken DEF h
<1>10. CASE s = <<>>
  <2>1. z.m_command = Discard
    BY <1>1, <1>10 DEF Job
  <2>2. m_jobQ' = [m_jobQ EXCEPT ![u] = q2] /\ m_resQ' = [m_resQ EXCEPT ![u] = r]
    BY <1>5, <2>1 DEF Taken, Answered
  <2>3. Client(chats', unrecorded', sent', received', u, phase[u], q2, r, m_contact_chat[u], late[u])
    BY <1>6, <1>9 DEF ph, ls, lt
  <2> HIDE DEF q2, q, r
  <2> QED BY <1>1, <1>6, <1>7, <1>8, <2>2, <2>3, JobDone, Zenon
<1>11. CASE s # <<>>
  <2> DEFINE r2 == Append(r, z)
  <2>1. z.m_command = "PENDING" /\ z.m_chats = s /\ z \in Job
    BY <1>1, <1>4, <1>11 DEF Job
  <2>2. m_jobQ' = [m_jobQ EXCEPT ![u] = q2] /\ m_resQ' = [m_resQ EXCEPT ![u] = r2]
    <3>1. z.m_command # Discard
      BY <2>1 DEF Discard
    <3> HIDE DEF z
    <3> QED BY <1>5, <3>1 DEF Taken, Answered
  <2> HIDE DEF z
  <2>3. Put(r, z, r2) /\ r2 \in Seq(Job)
    BY <1>1, <2>1, AppendPuts
  <2> HIDE DEF q2, r2, q, r
  <2>4. /\ ph = "ready"
        /\ ~ lt => /\ ~ Pending(q2, "PENDING") /\ ~ Pending(r, "PENDING")
                   /\ \A i \in Recorded(chats, unrecorded) :
                        Has(chats, r, ls, i) /\ chats[i].sender # u => chats[i].delivered
    BY <1>1, PendingNext DEF h
  <2>5. \A i \in DOMAIN chats : Lists(z, i) <=> chats[i].recipient = u /\ ~ chats[i].delivered
    BY <1>4, <2>1 DEF Lists, list_user_chats
  <2>6. Rows(chats, sent) /\ DOMAIN chats \subseteq Nat
    BY <1>2, TableFacts
  <2>7. Listed(chats, u, z.m_chats)
    BY <1>4, <2>1
  <2>8. Client(chats, unrecorded, sent, received, u, ph, q2, r2, ls, lt)
    BY <1>9, <2>1, <2>3, <2>4, <2>5, <2>6, <2>7, PendingAnswered
  <2>9. Client(chats', unrecorded', sent', received', u, phase[u], q2, r2, m_contact_chat[u], late[u])
    BY <1>6, <2>8 DEF ph, ls, lt
  <2> QED BY <1>1, <1>6, <1>7, <1>8, <2>2, <2>3, <2>9, JobDone, Zenon
<1> QED BY <1>10, <1>11

\* chat_get_all, which the client runs once, with nothing shown.
LEMMA AllAsked ==
  ASSUME IInv, NEW u \in Users, chat_get_all(u),
         UNCHANGED <<contacts, phase, gui, sent, logins, received, late>>
  PROVE  IInv'
<1> DEFINE q == m_jobQ[u]
           r == m_resQ[u]
           h == q[1]
           q2 == Tail(q)
           ph == phase[u]
           ls == m_contact_chat[u]
           lt == late[u]
<1>1. /\ q \in Seq(Job) /\ r \in Seq(Job) /\ Head(q) = h /\ h \in Job /\ h.m_command = "CHAT"
      /\ Taken1(q, q2) /\ q2 \in Seq(Job) /\ 1 \in DOMAIN q
      /\ Client(chats, unrecorded, sent, received, u, ph, q, r, ls, lt)
  BY JobNext DEF ClientOf, chat_get_all
<1>2. Table(chats, unrecorded, sent, received)
  BY DEF IInv
<1>3. PICK s \in ByTime(list_user_chats(u, FALSE)) :
        Taken(u, [Head(q) EXCEPT !.m_chats = parse_chat(build_response(s)), !.m_valid = TRUE])
  BY DEF chat_get_all, get_all, chat, get_chats
<1>4. /\ s \in Seq(Chat) /\ parse_chat(build_response(s)) = s
      /\ Listed(chats, u, s)
      /\ \A i \in DOMAIN chats :
           (\E p \in DOMAIN s : s[p].id = i) <=> i \in list_user_chats(u, FALSE)
  BY <1>2, AnswerIs
<1> DEFINE z == [h EXCEPT !.m_chats = s, !.m_valid = TRUE]
           r2 == Append(r, z)
<1>5. Taken(u, z)
  BY <1>1, <1>3, <1>4
<1>6. faults' \in 0..MaxFaults /\ UNCHANGED <<chats, unrecorded, sent, received>>
  BY DEF chat_get_all, IInv, TypeOK
<1>7. /\ Table(chats', unrecorded', sent', received')
      /\ Later(chats, unrecorded, sent, received, chats', unrecorded', sent', received')
  BY <1>6, SameServer
<1>8. Sends(q2) \subseteq Sends(m_jobQ[u])
  BY <1>1, TakenSends
<1> HIDE DEF ph, ls, lt
<1>9. z.m_command = "CHAT" /\ z.m_chats = s /\ z \in Job
  BY <1>1, <1>4 DEF Job
<1>10. m_jobQ' = [m_jobQ EXCEPT ![u] = q2] /\ m_resQ' = [m_resQ EXCEPT ![u] = r2]
  <2>1. z.m_command # Discard
    BY <1>9 DEF Discard
  <2> HIDE DEF z
  <2> QED BY <1>5, <2>1 DEF Taken, Answered
<1> HIDE DEF z
<1>11. Put(r, z, r2) /\ r2 \in Seq(Job)
  BY <1>1, <1>9, AppendPuts
<1> HIDE DEF q2, r2, q, r
<1>12. \A i \in DOMAIN chats : chats[i].recipient = u => Lists(z, i)
  BY <1>4, <1>9 DEF Lists, list_user_chats
<1>13. Listed(chats, u, z.m_chats) /\ q[1].m_command = "CHAT"
  BY <1>1, <1>4, <1>9 DEF h
<1>14. Client(chats, unrecorded, sent, received, u, ph, q2, r2, ls, lt)
  BY <1>1, <1>9, <1>11, <1>12, <1>13, ChatAnswered
<1>15. Client(chats', unrecorded', sent', received', u, phase[u], q2, r2, m_contact_chat[u], late[u])
  BY <1>6, <1>14 DEF ph, ls, lt
<1> QED BY <1>1, <1>6, <1>7, <1>8, <1>10, <1>11, <1>15, JobDone, Zenon

\* chat_deliver, whether the mark is written or not.
LEMMA MarkDone ==
  ASSUME IInv, NEW u \in Users, chat_deliver(u),
         UNCHANGED <<contacts, phase, gui, sent, logins, received, late>>
  PROVE  IInv'
<1> DEFINE q == m_jobQ[u]
           r == m_resQ[u]
           j == q[1].m_argument
           q2 == Tail(q)
           ph == phase[u]
           ls == m_contact_chat[u]
           lt == late[u]
<1>1. /\ q \in Seq(Job) /\ r \in Seq(Job) /\ Head(q) = q[1] /\ q[1] \in Job /\ q[1].m_command = "DELIVERED"
      /\ Taken1(q, q2) /\ q2 \in Seq(Job) /\ 1 \in DOMAIN q
      /\ Client(chats, unrecorded, sent, received, u, ph, q, r, ls, lt)
  BY JobNext DEF ClientOf, chat_deliver
<1>2. Table(chats, unrecorded, sent, received)
  BY DEF IInv
<1>3. j \in DOMAIN chats /\ Party(chats, u, j) /\ <<u, j>> \in received
  BY <1>1 DEF Client, Marks
<1>4. /\ m_jobQ' = [m_jobQ EXCEPT ![u] = q2] /\ m_resQ' = [m_resQ EXCEPT ![u] = r]
  <2>1. m_jobQ' = [m_jobQ EXCEPT ![u] = q2] /\ m_resQ' = m_resQ
    BY DEF chat_deliver
  <2>2. m_resQ = [m_resQ EXCEPT ![u] = r]
    BY DEF IInv, TypeOK
  <2> QED BY <2>1, <2>2
<1>5. delivered({j})
  BY <1>1 DEF chat_deliver
<1>6. faults' \in 0..MaxFaults
  <2>1. faults \in Nat /\ MaxFaults \in Nat
    BY ChatBoundsAssumption DEF IInv, TypeOK
  <2>2. faults' <= MaxFaults /\ (faults' = faults + 0 \/ faults' = faults + 1)
    BY <1>5 DEF delivered, Executes
  <2> QED BY <2>1, <2>2
<1>7. sent' = sent /\ received' = received
  OBVIOUS
<1>8. /\ chats \in Seq(Chat) /\ DOMAIN chats = 1..Len(chats) /\ Len(chats) \in Nat /\ Rows(chats, sent)
      /\ sent \in Nat /\ sent \in 0..MaxSent /\ MaxSent \in Nat
      /\ unrecorded \subseteq 1..MaxSent /\ received \subseteq Users \X (1..MaxSent)
      /\ MarkedByParty(chats, received)
  BY <1>2, TableFacts, ChatBoundsAssumption DEF Table
<1>9. Sends(q2) \subseteq Sends(m_jobQ[u])
  BY <1>1, TakenSends
<1>10. /\ Later(chats, unrecorded, sent, received, chats', unrecorded', sent', received')
       /\ chats' \in Seq(Chat) /\ unrecorded' \subseteq 1..MaxSent
       /\ MarkedByParty(chats', received)
       /\ chats'[j].delivered \/ j \notin Recorded(chats', unrecorded')
  <2>1. CASE UNCHANGED unrecorded
             /\ IF \A id \in {j} : search_user_chat_by(id)
                THEN set_user_chat_to_delivered({j}) ELSE chats' = chats
    <3>1. chats' = [i \in DOMAIN chats |-> IF i \in {j} THEN [chats[i] EXCEPT !.delivered = TRUE] ELSE chats[i]]
      BY <1>3, <2>1 DEF search_user_chat_by, set_user_chat_to_delivered
    <3>2. \A i \in DOMAIN chats : chats[i] \in Chat
      BY <1>8, ElementOfSeq
    <3>3. \A i \in DOMAIN chats :
            /\ i = j => chats'[i] = [chats[i] EXCEPT !.delivered = TRUE]
            /\ i # j => chats'[i] = chats[i]
      BY <3>1
    <3>4. ASSUME NEW i \in DOMAIN chats
          PROVE
            /\ chats'[i] \in Chat
            /\ chats'[i].id = chats[i].id /\ chats'[i].text = chats[i].text
            /\ chats'[i].sender = chats[i].sender /\ chats'[i].recipient = chats[i].recipient
            /\ chats'[i].created_at = chats[i].created_at
            /\ i = j => chats'[i].delivered
            /\ i # j => chats'[i] = chats[i]
      <4>1. \A c \in Chat : \A d : d = [c EXCEPT !.delivered = TRUE] =>
              /\ d \in Chat /\ d.id = c.id /\ d.text = c.text /\ d.sender = c.sender
              /\ d.recipient = c.recipient /\ d.created_at = c.created_at /\ d.delivered
        BY DEF Chat
      <4>2. CASE i = j
        <5>1. chats[i] \in Chat /\ chats'[i] = [chats[i] EXCEPT !.delivered = TRUE]
          BY <3>2, <3>3, <4>2
        <5>2. /\ chats'[i] \in Chat /\ chats'[i].id = chats[i].id /\ chats'[i].text = chats[i].text
              /\ chats'[i].sender = chats[i].sender /\ chats'[i].recipient = chats[i].recipient
              /\ chats'[i].created_at = chats[i].created_at /\ chats'[i].delivered
          BY <4>1, <5>1, Zenon
        <5> QED BY <4>2, <5>2
      <4>3. CASE i # j
        BY <3>2, <3>3, <4>3
      <4> QED BY <4>2, <4>3
    <3>5. DOMAIN chats' = 1..Len(chats)
      BY <1>8, <3>1
    <3>6. chats' \in Seq(Chat)
      <4> DEFINE N == Len(chats)
      <4> HIDE DEF N
      <4>1. N \in Nat /\ DOMAIN chats = 1..N /\ \A i \in 1..N : chats'[i] \in Chat
        BY <1>8, <3>4 DEF N
      <4>2. chats' = [i \in 1..N |-> chats'[i]]
        BY <3>1, <4>1
      <4>3. chats' \in [1..N -> Chat]
        BY <4>1, <4>2
      <4> QED BY <4>1, <4>3
    <3>7. Later(chats, unrecorded, sent, received, chats', unrecorded', sent', received')
      <4>1. \A i \in DOMAIN chats : chats[i].delivered => chats'[i].delivered
        BY <3>4
      <4> QED BY <1>7, <1>8, <2>1, <3>4, <3>5, <4>1 DEF Later
    <3>8. MarkedByParty(chats', received)
      <4> SUFFICES ASSUME NEW i \in DOMAIN chats, chats'[i].delivered
                   PROVE  \E w \in Users : Party(chats', w, i) /\ <<w, i>> \in received
        BY <1>8, <3>5 DEF MarkedByParty
      <4>1. \A w : Party(chats', w, i) <=> Party(chats, w, i)
        BY <3>4 DEF Party
      <4>2. CASE i = j
        BY <1>3, <4>1, <4>2
      <4>3. CASE i # j
        BY <1>8, <3>4, <4>1, <4>3 DEF MarkedByParty
      <4> QED BY <4>2, <4>3
    <3>9. chats'[j].delivered
      BY <1>3, <3>4
    <3> QED BY <1>8, <2>1, <3>6, <3>7, <3>8, <3>9
  <2>2. CASE /\ UNCHANGED chats
             /\ unrecorded' = unrecorded \cup {n \in 1..MaxSent :
                                \E i \in {j} \cap DOMAIN chats : chats[i].text = Message(n)}
    <3>1. Later(chats, unrecorded, sent, received, chats', unrecorded', sent', received')
      BY <1>7, <1>8, <2>2 DEF Later
    <3>2. PICK m \in 1..sent : chats[j].text = Message(m)
      BY <1>3, <1>8 DEF Rows
    <3>3. m \in 1..MaxSent
      BY <1>8
    <3>4. m \in unrecorded'
      BY <1>3, <2>2, <3>2, <3>3
    <3>5. j \notin Recorded(chats', unrecorded')
      BY <2>2, <3>2, <3>4 DEF Recorded
    <3> QED BY <1>8, <2>2, <3>1, <3>5
  <2> QED BY <1>5, <2>1, <2>2 DEF delivered
<1>11. Table(chats', unrecorded', sent', received')
  <2>1. sent' \in 0..MaxSent /\ received' \subseteq Users \X (1..MaxSent) /\ MarkedByParty(chats', received')
    BY <1>7, <1>8, <1>10
  <2> QED BY <1>2, <1>10, <2>1, LaterTable, Zenon
<1> HIDE DEF q2, q, r, ph, ls, lt
<1>12. Client(chats', unrecorded', sent', received', u, ph, q, r, ls, lt)
  BY <1>1, <1>10, LaterClient
<1>13. Client(chats', unrecorded', sent', received', u, ph, q2, r, ls, lt)
  BY <1>1, <1>10, <1>12, JobTaken
<1>14. Client(chats', unrecorded', sent', received', u, phase[u], q2, r, m_contact_chat[u], late[u])
  BY <1>13 DEF ph, ls, lt
<1> QED BY <1>1, <1>4, <1>6, <1>9, <1>10, <1>11, <1>14, JobDone, Zenon

-----------------------------------------------------------------------------
(* The interface.                                                          *)

\* What a response lists has the type of rows.
LEMMA ListedRows ==
  ASSUME NEW T, NEW U, NEW n, NEW L, Table(T, U, n, L), NEW u,
         NEW s \in Seq(Chat), Listed(T, u, s)
  PROVE  s \in Seq(Row)
<1>1. Len(s) \in Nat /\ DOMAIN s = 1..Len(s)
  BY LenProperties
<1>2. \A p \in DOMAIN s : s[p] \in Row
  <2> SUFFICES ASSUME NEW p \in DOMAIN s PROVE s[p] \in Row
    OBVIOUS
  <2>1. s[p] \in Chat
    BY <1>1, ElementOfSeq
  <2>2. s[p].id \in DOMAIN T /\ s[p].text = T[s[p].id].text
    BY DEF Listed
  <2>3. T[s[p].id] \in Row
    BY <2>2, TableFacts
  <2> QED BY <2>1, <2>2, <2>3 DEF Row
<1> DEFINE k == Len(s)
<1> HIDE DEF k
<1>3. k \in Nat /\ s = [p \in 1..k |-> s[p]] /\ \A p \in 1..k : s[p] \in Row
  BY <1>1, <1>2 DEF k
<1>4. s \in [1..k -> Row]
  BY <1>3
<1> QED BY <1>3, <1>4

\* What load_chat does with the list s of the first response.
LEMMA LoadShows ==
  ASSUME NEW T, NEW U, NEW n, NEW L, Table(T, U, n, L), NEW u \in Users, NEW r, NEW s \in Seq(Row),
         r[1].m_command \in {"CHAT", "PENDING"}, r[1].m_chats = s, Listed(T, u, s),
         NEW ls \in [Users -> Seq(Texts)], NEW ls2 \in [Users -> Seq(Texts)],
         Box(T, U, u, ls), AddsLines(ls2, ls, s, Len(s)), AddsAll(ls2, ls, s, Len(s))
  PROVE  Displayed(T, U, r, ls, ls2) /\ Box(T, U, u, ls2)
<1>1. /\ DOMAIN s = 1..Len(s) /\ Len(s) \in Nat
      /\ \A p \in DOMAIN s : s[p].text = T[s[p].id].text /\ s[p].id \in DOMAIN T /\ Party(T, u, s[p].id)
      /\ \A p, k \in DOMAIN s : p < k =>
           s[p].id # s[k].id /\ T[s[p].id].created_at <= T[s[k].id].created_at
  BY LenProperties DEF Listed
<1>2. /\ Rows(T, n) /\ \A i \in DOMAIN T : T[i].created_at \in Nat
      /\ \A i, j \in DOMAIN T : T[i].text = T[j].text => i = j
  BY TableFacts
<1>3. ASSUME NEW c \in Users
      PROVE  /\ DOMAIN ls[c] = 1..Len(ls[c]) /\ DOMAIN ls2[c] = 1..Len(ls2[c])
             /\ Len(ls[c]) \in Nat /\ Len(ls2[c]) \in Nat /\ Len(ls[c]) <= Len(ls2[c])
             /\ Goes(ls, ls2, c) = Beyond(ls[c], ls2[c])
  <2>1. ls[c] \in Seq(Texts) /\ ls2[c] \in Seq(Texts)
    OBVIOUS
  <2>2. /\ DOMAIN ls[c] = 1..Len(ls[c]) /\ DOMAIN ls2[c] = 1..Len(ls2[c])
        /\ Len(ls[c]) \in Nat /\ Len(ls2[c]) \in Nat
    BY <2>1, LenProperties
  <2>3. Len(ls[c]) <= Len(ls2[c])
    BY DEF AddsLines
  <2> QED BY <2>2, <2>3 DEF Goes, Beyond
<1>4. ASSUME NEW i \in DOMAIN T PROVE Brings(T, r[1], i) <=> \E p \in DOMAIN s : s[p].id = i
  BY DEF Brings, Lists
<1>5. ASSUME NEW c \in Users
      PROVE  /\ DOMAIN ls2[c] \subseteq Nat
             /\ \A p \in DOMAIN ls[c] : p \in DOMAIN ls2[c] /\ ls2[c][p] = ls[c][p]
             /\ \A p \in DOMAIN ls[c] : \A k \in Goes(ls, ls2, c) : p < k
  <2>1. \A p \in 1..Len(ls[c]) : ls2[c][p] = ls[c][p]
    BY DEF AddsLines
  <2>2. DOMAIN ls2[c] \subseteq Nat /\ \A p \in DOMAIN ls[c] : p \in DOMAIN ls2[c]
    BY <1>3
  <2>3. \A p \in DOMAIN ls[c] : \A k \in Goes(ls, ls2, c) : p < k
    BY <1>3 DEF Beyond
  <2> QED BY <1>3, <2>1, <2>2, <2>3
<1>6. ASSUME NEW c \in Users, NEW p \in Goes(ls, ls2, c)
      PROVE  \E k \in DOMAIN s : ls2[c][p] = s[k].text
  BY <1>1, <1>3, SMTT(20) DEF AddsLines
<1>7. ASSUME NEW i \in Recorded(T, U), NEW c \in Users, NEW p \in Goes(ls, ls2, c), ls2[c][p] = T[i].text
      PROVE  Brings(T, r[1], i)
  <2>1. PICK k \in DOMAIN s : ls2[c][p] = s[k].text
    BY <1>6
  <2>2. i \in DOMAIN T
    BY DEF Recorded
  <2>3. s[k].text = T[s[k].id].text /\ s[k].id \in DOMAIN T
    BY <1>1
  <2>4. T[s[k].id].text = T[i].text
    BY <1>7, <2>1, <2>3
  <2>5. s[k].id = i
    BY <1>2, <2>2, <2>3, <2>4
  <2> QED BY <1>4, <2>2, <2>5
<1>8. ASSUME NEW i \in Recorded(T, U), Brings(T, r[1], i) PROVE Shows(T, ls2, i)
  <2>1. i \in DOMAIN T
    BY DEF Recorded
  <2>2. PICK k \in 1..Len(s) : s[k].id = i
    BY <1>1, <1>4, <1>8, <2>1
  <2>3. PICK c \in Users : \E p \in Beyond(ls[c], ls2[c]) : ls2[c][p] = s[k].text
    BY DEF AddsAll
  <2>4. PICK p \in Goes(ls, ls2, c) : ls2[c][p] = T[i].text
    BY <1>1, <1>3, <2>2, <2>3
  <2>5. p \in ShownAt(T, ls2, c, i)
    BY <2>4 DEF ShownAt, Goes
  <2> QED BY <2>5 DEF Shows
<1>9. ASSUME NEW i \in Recorded(T, U), NEW j \in Recorded(T, U), NEW c \in Users,
             NEW p \in Goes(ls, ls2, c), NEW k \in Goes(ls, ls2, c),
             p < k, ls2[c][p] = T[i].text, ls2[c][k] = T[j].text
      PROVE  i # j /\ ~ Before(T, j, i)
  <2>1. i \in DOMAIN T /\ j \in DOMAIN T
    BY DEF Recorded
  <2>2. PICK a, b \in 1..Len(s) : a < b /\ ls2[c][p] = s[a].text /\ ls2[c][k] = s[b].text
    BY <1>3, <1>9 DEF AddsLines
  <2>3. /\ a \in DOMAIN s /\ b \in DOMAIN s
        /\ s[a].text = T[s[a].id].text /\ s[a].id \in DOMAIN T
        /\ s[b].text = T[s[b].id].text /\ s[b].id \in DOMAIN T
    BY <1>1
  <2>4. T[s[a].id].text = T[i].text /\ T[s[b].id].text = T[j].text
    BY <1>9, <2>2, <2>3
  <2>5. s[a].id = i /\ s[b].id = j
    BY <1>2, <2>1, <2>3, <2>4
  <2>6. i # j /\ T[i].created_at <= T[j].created_at
    BY <1>1, <2>2, <2>5, <2>3
  <2>7. ~ (T[j].created_at < T[i].created_at)
    BY <1>2, <2>1, <2>6
  <2> QED BY <2>6, <2>7 DEF Before
<1>10. Displayed(T, U, r, ls, ls2)
  BY <1>5, <1>7, <1>8, <1>9 DEF Displayed
<1>11. ASSUME NEW c \in Users, NEW p \in DOMAIN ls2[c]
       PROVE  \E m \in 1..MaxSent : ls2[c][p] = Message(m) /\ Stands(T, U, u, m)
  <2>1. CASE p \in DOMAIN ls[c]
    BY <1>5, <2>1 DEF Box
  <2>2. CASE p \in Goes(ls, ls2, c)
    <3>1. PICK k \in DOMAIN s : ls2[c][p] = s[k].text
      BY <1>6, <2>2
    <3>2. PICK m \in 1..n : T[s[k].id].text = Message(m)
      BY <1>1, <1>2 DEF Rows
    <3>3. m \in 1..MaxSent
      <4>1. n \in 0..MaxSent /\ MaxSent \in Nat
        BY ChatBoundsAssumption DEF Table
      <4> QED BY <4>1
    <3>4. Stands(T, U, u, m)
      BY <1>1, <3>2 DEF Stands
    <3> QED BY <1>1, <3>1, <3>2, <3>3, <3>4
  <2> QED BY <2>1, <2>2 DEF Goes
<1> QED BY <1>10, <1>11 DEF Box

\* The jobs that load_chat creates mark all of the list that is not marked.
LEMMA LoadMarks ==
  ASSUME NEW T, NEW n, NEW L, NEW u \in Users, NEW r, NEW s \in Seq(Row),
         r[1].m_chats = s, Listed(T, u, s),
         NEW q \in Seq(Job), NEW q2 \in Seq(Job), AddsJobs(q2, q, s, Len(s)),
         Marks(T, L, u, q), \A p \in DOMAIN s : <<u, s[p].id>> \in L
  PROVE  Marking(T, r, q, q2) /\ Marks(T, L, u, q2)
<1>1. /\ DOMAIN s = 1..Len(s) /\ Len(s) \in Nat
      /\ \A p \in DOMAIN s : s[p].id \in DOMAIN T /\ Party(T, u, s[p].id)
      /\ \A p \in DOMAIN s : s[p].delivered => T[s[p].id].delivered
  BY LenProperties DEF Listed
<1>2. /\ DOMAIN q = 1..Len(q) /\ DOMAIN q2 = 1..Len(q2) /\ Len(q) \in Nat /\ Len(q2) \in Nat
  BY LenProperties
<1>3. Len(q) <= Len(q2) /\ \A p \in 1..Len(q) : q2[p] = q[p]
  BY DEF AddsJobs
<1>4. \A p \in Beyond(q, q2) : \E i \in DOMAIN s : q2[p] = NewJob("DELIVERED", NoOne, s[i].id)
  BY <1>1 DEF AddsJobs
<1>5. \A i \in DOMAIN s : ~ s[i].delivered =>
        \E p \in Beyond(q, q2) : q2[p] = NewJob("DELIVERED", NoOne, s[i].id)
  BY <1>1 DEF AddsJobs
<1>6. \A a : NewJob("DELIVERED", NoOne, a).m_command = "DELIVERED" /\ NewJob("DELIVERED", NoOne, a).m_argument = a
  BY DEF NewJob
<1>7. \A p \in DOMAIN q : p \in DOMAIN q2 /\ q2[p] = q[p]
  BY <1>2, <1>3
<1>8. DOMAIN q2 = DOMAIN q \cup Beyond(q, q2)
  BY <1>2, <1>3 DEF Beyond
<1>9. \A p \in DOMAIN q2 : p \in DOMAIN q \/ q2[p].m_command = "DELIVERED"
  BY <1>4, <1>6, <1>8
<1>10. ASSUME NEW i \in DOMAIN T, Lists(r[1], i)
       PROVE  T[i].delivered \/ \E k \in DOMAIN q2 : q2[k].m_command = "DELIVERED" /\ q2[k].m_argument = i
  <2>1. PICK p \in DOMAIN s : s[p].id = i
    BY <1>10 DEF Lists
  <2>2. CASE s[p].delivered
    BY <1>1, <2>1, <2>2
  <2>3. CASE ~ s[p].delivered
    <3>1. PICK k \in Beyond(q, q2) : q2[k] = NewJob("DELIVERED", NoOne, s[p].id)
      BY <1>5, <2>3
    <3>2. k \in DOMAIN q2 /\ q2[k].m_command = "DELIVERED" /\ q2[k].m_argument = i
      BY <1>6, <1>8, <2>1, <3>1
    <3> QED BY <3>2
  <2> QED BY <2>2, <2>3
<1>11. Marks(T, L, u, q2)
  <2> SUFFICES ASSUME NEW k \in DOMAIN q2, q2[k].m_command = "DELIVERED"
      PROVE  q2[k].m_argument \in DOMAIN T /\ Party(T, u, q2[k].m_argument) /\ <<u, q2[k].m_argument>> \in L
    BY DEF Marks
  <2>1. CASE k \in DOMAIN q
    BY <1>7, <2>1 DEF Marks
  <2>2. CASE k \in Beyond(q, q2)
    <3>1. PICK i \in DOMAIN s : q2[k] = NewJob("DELIVERED", NoOne, s[i].id)
      BY <1>4, <2>2
    <3>2. q2[k].m_argument = s[i].id
      BY <1>6, <3>1
    <3> QED BY <1>1, <3>2
  <2> QED BY <1>8, <2>1, <2>2
<1> QED BY <1>7, <1>9, <1>10, <1>11 DEF Marking

\* No message waits that did not wait before.
LEMMA MarkingSends ==
  ASSUME NEW T, NEW r, NEW q, NEW q2, Marking(T, r, q, q2)
  PROVE  Sends(q2) \subseteq Sends(q)
BY DEF Marking, Sends

\* The response at the head of the queue of u.
LEMMA ResponseIs ==
  ASSUME IInv, NEW u \in Users, NEW command, Next_is(m_resQ[u], command)
  PROVE  /\ m_resQ[u] \in Seq(Job) /\ m_jobQ[u] \in Seq(Job) /\ m_contact_chat[u] \in [Users -> Seq(Texts)]
         /\ Head(m_resQ[u]) = m_resQ[u][1] /\ m_resQ[u][1] \in Job /\ m_resQ[u][1].m_command = command
         /\ Taken1(m_resQ[u], Tail(m_resQ[u])) /\ Tail(m_resQ[u]) \in Seq(Job)
         /\ 1 \in DOMAIN m_resQ[u]
         /\ ClientOf(u)
<1>1. m_resQ[u] \in Seq(Job) /\ m_jobQ[u] \in Seq(Job) /\ m_contact_chat[u] \in [Users -> Seq(Texts)] /\ ClientOf(u)
  BY DEF IInv, TypeOK
<1> DEFINE q == m_resQ[u]
<1> HIDE DEF q
<1>2. q \in Seq(Job) /\ Next_is(q, command)
  BY <1>1 DEF q
<1>3. q # <<>> /\ 1 \in DOMAIN q /\ q[1].m_command = command
  BY <1>2, NextIs DEF Next_is
<1>4. Taken1(q, Tail(q)) /\ Tail(q) \in Seq(Job) /\ Head(q) = q[1]
  BY <1>2, <1>3, TailTakes
<1>5. q[1] \in Job
  BY <1>2, <1>3, HeadTailProperties, <1>4
<1> QED BY <1>1, <1>3, <1>4, <1>5 DEF q

\* A step of the interface.
LEMMA InterfaceDone ==
  ASSUME IInv, NEW u \in Users, NEW ph \in {"off", "loading", "ready"},
         NEW q2 \in Seq(Job), NEW r2 \in Seq(Job), NEW ls2 \in [Users -> Seq(Texts)],
         phase' = [phase EXCEPT ![u] = ph], m_jobQ' = [m_jobQ EXCEPT ![u] = q2],
         m_resQ' = [m_resQ EXCEPT ![u] = r2], m_contact_chat' = [m_contact_chat EXCEPT ![u] = ls2],
         m_contact_list' \in [Users -> SUBSET Users],
         UNCHANGED <<server, bounds, late, unrecorded>>,
         received \subseteq received', received' \subseteq Users \X (1..MaxSent),
         Client(chats, unrecorded, sent, received', u, ph, q2, r2, ls2, late[u]),
         Sends(q2) \subseteq Sends(m_jobQ[u])
  PROVE  IInv'
<1>1. /\ chats' = chats /\ contacts' = contacts /\ sent' = sent /\ logins' = logins /\ faults' = faults
      /\ late' = late /\ unrecorded' = unrecorded
  BY DEF server, bounds
<1>2. /\ phase \in [Users -> {"off", "loading", "ready"}]
      /\ m_jobQ \in [Users -> Seq(Job)] /\ m_resQ \in [Users -> Seq(Job)]
      /\ m_contact_chat \in [Users -> [Users -> Seq(Texts)]]
  BY DEF IInv, TypeOK
<1>3. /\ phase' \in [Users -> {"off", "loading", "ready"}] /\ phase'[u] = ph
      /\ \A w \in Users \ {u} : phase'[w] = phase[w]
  BY <1>2, ExceptIs
<1>4. /\ m_jobQ' \in [Users -> Seq(Job)] /\ m_jobQ'[u] = q2
      /\ \A w \in Users \ {u} : m_jobQ'[w] = m_jobQ[w]
  BY <1>2, ExceptIs
<1>5. /\ m_resQ' \in [Users -> Seq(Job)] /\ m_resQ'[u] = r2
      /\ \A w \in Users \ {u} : m_resQ'[w] = m_resQ[w]
  BY <1>2, ExceptIs
<1>6. /\ m_contact_chat' \in [Users -> [Users -> Seq(Texts)]] /\ m_contact_chat'[u] = ls2
      /\ \A w \in Users \ {u} : m_contact_chat'[w] = m_contact_chat[w]
  BY <1>2, ExceptIs
<1>7. TypeOK'
  BY <1>1, <1>3, <1>4, <1>5, <1>6 DEF IInv, TypeOK
<1>8. Table(chats, unrecorded, sent, received)
  BY DEF IInv
<1>9. Later(chats, unrecorded, sent, received, chats, unrecorded, sent, received')
  BY <1>8, TableFacts DEF Later
<1>10. Table(chats, unrecorded, sent, received')
  <2>1. MarkedByParty(chats, received')
    BY <1>8 DEF Table, MarkedByParty
  <2> QED BY <1>8, <2>1 DEF Table
<1>11. /\ Table(chats', unrecorded', sent', received')
       /\ Later(chats, unrecorded, sent, received, chats', unrecorded', sent', received')
  BY <1>1, <1>9, <1>10
<1>12. ClientOf(u)'
  BY <1>1, <1>3, <1>4, <1>5, <1>6 DEF ClientOf
<1>13. \A w \in Users \ {u} : Apart(m_jobQ'[u], m_jobQ[w])
  BY <1>4, FewerSends
<1>14. \A w \in Users \ {u} :
           /\ phase'[w] = phase[w] /\ m_jobQ'[w] = m_jobQ[w] /\ m_resQ'[w] = m_resQ[w]
           /\ m_contact_chat'[w] = m_contact_chat[w] /\ late'[w] = late[w]
  BY <1>1, <1>3, <1>4, <1>5, <1>6
<1>15. /\ \A w \in Users : ClientOf(w)'
       /\ \A v, w \in Users : v # w => Apart(m_jobQ'[v], m_jobQ'[w])
  BY <1>11, <1>12, <1>13, <1>14, OthersKept
<1>16. \A w \in Users : w \notin contacts'[w]
  BY <1>1 DEF IInv
<1> QED BY <1>7, <1>11, <1>15, <1>16 DEF IInv

\* The chats of a response are loaded.
LEMMA LoadDone ==
  ASSUME IInv, NEW u \in Users, NEW command \in {"CHAT", "PENDING"}, Response(u, command),
         load_chat(u, Head(m_resQ[u]).m_chats), phase' = [phase EXCEPT ![u] = "ready"],
         UNCHANGED <<server, bounds, late, unrecorded>>
  PROVE  IInv'
<1> DEFINE q == m_jobQ[u]
           r == m_resQ[u]
           s == r[1].m_chats
           b == Loading(u, s)[Len(s)]
           r2 == Tail(r)
           ph == phase[u]
           ls == m_contact_chat[u]
           lt == late[u]
           L2 == received \cup {<<u, s[i].id>> : i \in DOMAIN s}
<1>1. Next_is(m_resQ[u], command) /\ m_resQ' = [m_resQ EXCEPT ![u] = Tail(@)]
  BY DEF Response
<1>2. /\ r \in Seq(Job) /\ q \in Seq(Job) /\ ls \in [Users -> Seq(Texts)]
      /\ Head(r) = r[1] /\ r[1] \in Job /\ r[1].m_command = command
      /\ Taken1(r, r2) /\ r2 \in Seq(Job) /\ 1 \in DOMAIN r
      /\ Client(chats, unrecorded, sent, received, u, ph, q, r, ls, lt)
  BY <1>1, ResponseIs DEF ClientOf
<1>3. Table(chats, unrecorded, sent, received)
  BY DEF IInv
<1>4. /\ m_contact_chat' = [m_contact_chat EXCEPT ![u] = b.lines]
      /\ m_jobQ' = [m_jobQ EXCEPT ![u] = b.jobs]
      /\ m_contact_list' = [m_contact_list EXCEPT ![u] =
           @ \cup ({s[i].sender : i \in DOMAIN s} \ {u})]
      /\ received' = L2
  BY <1>2 DEF load_chat
<1>5. s \in Seq(Chat) /\ Listed(chats, u, s)
  BY <1>2 DEF Job, Client, Answers
<1>6. s \in Seq(Row)
  BY <1>3, <1>5, ListedRows
<1>7. \A p \in DOMAIN s : s[p].id \in 1..MaxSent /\ s[p].sender \in Users
  <2>1. \A p \in DOMAIN s : s[p] \in Chat
    BY <1>5, LenProperties, ElementOfSeq
  <2> QED BY <2>1 DEF Chat
<1>8. /\ received \subseteq L2 /\ L2 \subseteq Users \X (1..MaxSent)
      /\ \A p \in DOMAIN s : <<u, s[p].id>> \in L2
  BY <1>3, <1>7 DEF Table
<1>9. m_contact_list' \in [Users -> SUBSET Users]
  <2>1. m_contact_list \in [Users -> SUBSET Users]
    BY DEF IInv, TypeOK
  <2> QED BY <1>4, <1>7, <2>1
<1>10. Later(chats, unrecorded, sent, received, chats, unrecorded, sent, L2)
  BY <1>3, <1>8, TableFacts DEF Later
<1>11. /\ b \in Loaded
       /\ AddsLines(b.lines, ls, s, Len(s)) /\ AddsAll(b.lines, ls, s, Len(s))
       /\ AddsJobs(b.jobs, q, s, Len(s))
  BY <1>2, <1>6, LoadingAdds
<1>12. b.lines \in [Users -> Seq(Texts)] /\ b.jobs \in Seq(Job)
  BY <1>11 DEF Loaded
<1>13. m_resQ' = [m_resQ EXCEPT ![u] = r2]
  BY <1>1
<1>14. phase' = [phase EXCEPT ![u] = "ready"]
  OBVIOUS
<1> DEFINE ls2 == b.lines
           q2 == b.jobs
<1>15. /\ m_contact_chat' = [m_contact_chat EXCEPT ![u] = ls2]
       /\ m_jobQ' = [m_jobQ EXCEPT ![u] = q2]
  BY <1>4
<1>16. /\ ls2 \in [Users -> Seq(Texts)] /\ q2 \in Seq(Job)
       /\ AddsLines(ls2, ls, s, Len(s)) /\ AddsAll(ls2, ls, s, Len(s))
       /\ AddsJobs(q2, q, s, Len(s))
  BY <1>11, <1>12
<1>17. r[1].m_chats = s
  OBVIOUS
<1> HIDE DEF b, ls2, q2, r, q, ls, lt, ph, s, r2, L2
<1>18. Client(chats, unrecorded, sent, L2, u, ph, q, r, ls, lt)
  BY <1>2, <1>10, LaterClient
<1>19. Box(chats, unrecorded, u, ls) /\ Marks(chats, L2, u, q)
  BY <1>18 DEF Client
<1>20. Displayed(chats, unrecorded, r, ls, ls2) /\ Box(chats, unrecorded, u, ls2)
  <2>1. r[1].m_command \in {"CHAT", "PENDING"}
    BY <1>2
  <2> QED BY <1>2, <1>3, <1>5, <1>6, <1>16, <1>17, <1>19, <2>1, LoadShows
<1>21. Marking(chats, r, q, q2) /\ Marks(chats, L2, u, q2)
  BY <1>2, <1>5, <1>6, <1>8, <1>16, <1>17, <1>19, LoadMarks
<1>22. Client(chats, unrecorded, sent, L2, u, "ready", q2, r2, ls2, lt)
  <2>1. /\ Rows(chats, sent) /\ DOMAIN chats \subseteq Nat
        /\ \A i \in DOMAIN chats : ~ Before(chats, i, i)
    BY <1>3, TableFacts
  <2> QED BY <1>2, <1>16, <1>18, <1>20, <1>21, <2>1, ResponseShown
<1>23. Sends(q2) \subseteq Sends(q)
  BY <1>21, MarkingSends
<1>24. Client(chats, unrecorded, sent, received', u, "ready", q2, r2, ls2, late[u])
  BY <1>4, <1>22 DEF lt
<1>25. Sends(q2) \subseteq Sends(m_jobQ[u])
  BY <1>23 DEF q
<1>26. received \subseteq received' /\ received' \subseteq Users \X (1..MaxSent)
  BY <1>4, <1>8
<1>27. "ready" \in {"off", "loading", "ready"}
  OBVIOUS
<1> QED BY <1>2, <1>9, <1>13, <1>14, <1>15, <1>16, <1>24, <1>25, <1>26, <1>27, InterfaceDone, Zenon

\* The response at the head is not the first of all: the client is ready.
LEMMA ReadyIs ==
  ASSUME IInv, NEW u \in Users, NEW command, Next_is(m_resQ[u], command), command # "CHAT"
  PROVE  phase[u] = "ready" /\ \A e : e = phase[u] => phase = [phase EXCEPT ![u] = e]
<1> DEFINE q == m_jobQ[u]
           r == m_resQ[u]
           r2 == Tail(r)
           ph == phase[u]
           ls == m_contact_chat[u]
           lt == late[u]
<1>1. /\ r[1].m_command = command /\ Taken1(r, r2)
      /\ Client(chats, unrecorded, sent, received, u, ph, q, r, ls, lt)
  BY ResponseIs DEF ClientOf
<1>2. phase \in [Users -> {"off", "loading", "ready"}]
  BY DEF IInv, TypeOK
<1> HIDE DEF q, r, r2, ls, lt, ph
<1>3. ph = "ready"
  BY <1>1, ResponseNext
<1> QED BY <1>2, <1>3 DEF ph

\* job_load_pending without a contact.
LEMMA DropDone ==
  ASSUME IInv, NEW u \in Users, Response(u, "PENDING"),
         UNCHANGED <<m_jobQ, gui, received, phase>>,
         UNCHANGED <<server, bounds, late, unrecorded>>
  PROVE  IInv'
<1> DEFINE q == m_jobQ[u]
           r == m_resQ[u]
           r2 == Tail(r)
           ph == phase[u]
           ls == m_contact_chat[u]
           lt == late[u]
<1>1. Next_is(m_resQ[u], "PENDING") /\ m_resQ' = [m_resQ EXCEPT ![u] = r2]
  BY DEF Response
<1>2. /\ q \in Seq(Job) /\ ls \in [Users -> Seq(Texts)]
      /\ r[1].m_command = "PENDING" /\ Taken1(r, r2) /\ r2 \in Seq(Job)
      /\ Client(chats, unrecorded, sent, received, u, ph, q, r, ls, lt)
  BY <1>1, ResponseIs DEF ClientOf
<1>3. Table(chats, unrecorded, sent, received)
  BY DEF IInv
<1>4. /\ phase \in [Users -> {"off", "loading", "ready"}] /\ ph \in {"off", "loading", "ready"}
      /\ m_jobQ \in [Users -> Seq(Job)] /\ m_contact_chat \in [Users -> [Users -> Seq(Texts)]]
      /\ m_contact_list \in [Users -> SUBSET Users] /\ received \subseteq Users \X (1..MaxSent)
  BY DEF IInv, TypeOK
<1>5. /\ phase' = [phase EXCEPT ![u] = ph] /\ m_jobQ' = [m_jobQ EXCEPT ![u] = q]
      /\ m_contact_chat' = [m_contact_chat EXCEPT ![u] = ls]
      /\ m_contact_list' \in [Users -> SUBSET Users]
      /\ received' = received
  BY <1>4 DEF gui
<1>6. Sends(q) \subseteq Sends(m_jobQ[u])
  OBVIOUS
<1>7. /\ Rows(chats, sent) /\ DOMAIN chats \subseteq Nat
  BY <1>3, TableFacts
<1>8. received \subseteq received' /\ received' \subseteq Users \X (1..MaxSent)
  BY <1>4, <1>5
<1> HIDE DEF q, r, r2, ls, lt, ph
<1>9. Client(chats, unrecorded, sent, received, u, ph, q, r2, ls, lt)
  BY <1>2, <1>7, ResponseDropped
<1>10. Client(chats, unrecorded, sent, received', u, ph, q, r2, ls, late[u])
  BY <1>5, <1>9 DEF lt
<1>11. ph \in {"off", "loading", "ready"} /\ q \in Seq(Job) /\ r2 \in Seq(Job) /\ ls \in [Users -> Seq(Texts)]
  BY <1>2, <1>4
<1> QED BY <1>1, <1>5, <1>6, <1>8, <1>10, <1>11, InterfaceDone, Zenon

\* A message that the server has answered is shown.
LEMMA SentShows ==
  ASSUME NEW T, NEW U, NEW n, NEW L, Table(T, U, n, L), NEW u \in Users, NEW r,
         r[1].m_command = "SEND", NEW m \in 1..MaxSent, r[1].m_argument = m, Stands(T, U, u, m),
         NEW c \in Users, NEW ls \in [Users -> Seq(Texts)], NEW ls2 \in [Users -> Seq(Texts)],
         ls2[c] = Append(ls[c], Message(m)), \A x \in Users : x # c => ls2[x] = ls[x],
         Box(T, U, u, ls)
  PROVE  Displayed(T, U, r, ls, ls2) /\ Box(T, U, u, ls2)
<1> DEFINE e == Len(ls[c]) + 1
<1>1. /\ ls[c] \in Seq(Texts) /\ Message(m) \in Texts
  BY DEF Texts
<1>2. /\ Len(ls[c]) \in Nat /\ DOMAIN ls[c] = 1..Len(ls[c])
  BY <1>1, LenProperties
<1>3. /\ ls2[c] = Append(ls[c], Message(m))
      /\ \A x \in Users : x # c => ls2[x] = ls[x]
  OBVIOUS
<1>4. /\ DOMAIN ls2[c] = 1..e /\ ls2[c][e] = Message(m)
      /\ \A p \in 1..Len(ls[c]) : ls2[c][p] = ls[c][p]
  <2> DEFINE a == ls[c]
             d == Append(a, Message(m))
  <2>1. d \in Seq(Texts) /\ Len(d) = Len(a) + 1 /\ d[Len(a) + 1] = Message(m)
        /\ \A i \in 1..Len(a) : d[i] = a[i]
    BY <1>1, AppendProperties
  <2>2. DOMAIN d = 1..Len(d)
    BY <2>1, LenProperties
  <2> QED BY <1>3, <2>1, <2>2
<1> HIDE DEF e
<1>5. /\ e \in Nat /\ e \in 1..e /\ DOMAIN ls[c] = 1..Len(ls[c]) /\ e \notin DOMAIN ls[c]
      /\ \A p \in 1..e : p = e \/ p \in DOMAIN ls[c]
      /\ \A p \in DOMAIN ls[c] : p \in 1..e /\ p < e
  BY <1>2 DEF e
<1>6. Goes(ls, ls2, c) = {e} /\ \A x \in Users : x # c => Goes(ls, ls2, x) = {}
  BY <1>3, <1>4, <1>5 DEF Goes
<1>7. /\ ls2[c][e] = Message(m) /\ e \in DOMAIN ls2[c]
      /\ \A p \in DOMAIN ls[c] : ls2[c][p] = ls[c][p] /\ p \in DOMAIN ls2[c]
  BY <1>4, <1>5
<1>8. \A i : Brings(T, r[1], i) <=> Message(m) = T[i].text
  BY DEF Brings, Lists
<1>9. \A x \in Users : DOMAIN ls2[x] \subseteq Nat
  <2>1. ASSUME NEW x \in Users PROVE DOMAIN ls2[x] \subseteq Nat
    <3>1. ls2[x] \in Seq(Texts)
      OBVIOUS
    <3>2. Len(ls2[x]) \in Nat /\ DOMAIN ls2[x] = 1..Len(ls2[x])
      BY <3>1, LenProperties
    <3> QED BY <3>2
  <2> QED BY <2>1
<1>10. \A x \in Users :
         /\ DOMAIN ls2[x] \subseteq Nat
         /\ \A p \in DOMAIN ls[x] : p \in DOMAIN ls2[x] /\ ls2[x][p] = ls[x][p]
         /\ \A p \in DOMAIN ls[x] : \A k \in Goes(ls, ls2, x) : p < k
  <2> SUFFICES ASSUME NEW x \in Users
               PROVE  /\ \A p \in DOMAIN ls[x] : p \in DOMAIN ls2[x] /\ ls2[x][p] = ls[x][p]
                      /\ \A p \in DOMAIN ls[x] : \A k \in Goes(ls, ls2, x) : p < k
    BY <1>9
  <2>1. CASE x = c
    <3>1. \A k \in Goes(ls, ls2, x) : k = e
      BY <1>6, <2>1
    <3>2. \A p \in DOMAIN ls[x] : p < e /\ p \in DOMAIN ls2[x] /\ ls2[x][p] = ls[x][p]
      BY <1>5, <1>7, <2>1
    <3> QED BY <3>1, <3>2
  <2>2. CASE x # c
    BY <1>3, <1>6, <2>2
  <2> QED BY <2>1, <2>2
<1>11. \A x \in Users : \A p \in Goes(ls, ls2, x) : x = c /\ p = e
  BY <1>6
<1>12. \A i \in Recorded(T, U), x \in Users : \A p \in Goes(ls, ls2, x) :
         ls2[x][p] = T[i].text => Brings(T, r[1], i)
  BY <1>7, <1>8, <1>11
<1>13. \A i \in Recorded(T, U) : Brings(T, r[1], i) => Shows(T, ls2, i)
  BY <1>7, <1>8, SMTT(20) DEF Shows, ShownAt
<1>14. \A x \in Users : \A p, k \in Goes(ls, ls2, x) : ~ (p < k)
  BY <1>5, <1>11
<1>15. Displayed(T, U, r, ls, ls2)
  BY <1>10, <1>12, <1>13, <1>14 DEF Displayed
<1>16. Box(T, U, u, ls2)
  <2> SUFFICES ASSUME NEW x \in Users, NEW p \in DOMAIN ls2[x]
               PROVE  \E k \in 1..MaxSent : ls2[x][p] = Message(k) /\ Stands(T, U, u, k)
    BY DEF Box
  <2>1. CASE p \in DOMAIN ls[x]
    BY <1>10, <2>1 DEF Box
  <2>2. CASE p \in Goes(ls, ls2, x)
    BY <1>7, <1>11, <2>2
  <2> QED BY <2>1, <2>2 DEF Goes
<1> QED BY <1>15, <1>16

\* job_send_msg.
LEMMA SentDone ==
  ASSUME IInv, NEW u \in Users, job_send_msg(u), UNCHANGED <<server, bounds, late, unrecorded>>
  PROVE  IInv'
<1> DEFINE q == m_jobQ[u]
           r == m_resQ[u]
           r2 == Tail(r)
           m == r[1].m_argument
           c == r[1].m_intValue
           ls == m_contact_chat[u]
           ls2 == [ls EXCEPT ![c] = Append(@, Message(m))]
           lt == late[u]
<1>1. /\ Next_is(m_resQ[u], "SEND") /\ m_resQ' = [m_resQ EXCEPT ![u] = r2]
      /\ UNCHANGED <<m_jobQ, m_contact_list, phase, received>>
  BY DEF job_send_msg, Response
<1>2. /\ r \in Seq(Job) /\ q \in Seq(Job) /\ ls \in [Users -> Seq(Texts)]
      /\ Head(r) = r[1] /\ r[1].m_command = "SEND" /\ 1 \in DOMAIN r
      /\ Taken1(r, r2) /\ r2 \in Seq(Job)
      /\ ClientOf(u)
  BY <1>1, ResponseIs
<1>3. Table(chats, unrecorded, sent, received)
  BY DEF IInv
<1>4. /\ phase \in [Users -> {"off", "loading", "ready"}]
      /\ m_jobQ \in [Users -> Seq(Job)] /\ m_contact_chat \in [Users -> [Users -> Seq(Texts)]]
      /\ m_contact_list \in [Users -> SUBSET Users] /\ received \subseteq Users \X (1..MaxSent)
  BY DEF IInv, TypeOK
<1>5. phase[u] = "ready"
  BY <1>1, ReadyIs
<1>6. Client(chats, unrecorded, sent, received, u, "ready", q, r, ls, lt)
  BY <1>2, <1>5 DEF ClientOf
<1>7. m_contact_chat' = [m_contact_chat EXCEPT ![u] = ls2]
  <2>1. m_contact_chat' = [m_contact_chat EXCEPT ![u][c] = Append(@, Message(m))]
    BY <1>2 DEF job_send_msg
  <2> QED BY <1>4, <2>1
<1>8. /\ phase' = [phase EXCEPT ![u] = "ready"] /\ m_jobQ' = [m_jobQ EXCEPT ![u] = q]
      /\ m_contact_list' \in [Users -> SUBSET Users] /\ received' = received
  BY <1>1, <1>4, <1>5
<1>9. received \subseteq received' /\ received' \subseteq Users \X (1..MaxSent)
  BY <1>4, <1>8
<1>10. /\ m \in 1..MaxSent /\ c \in Users /\ Stands(chats, unrecorded, u, m)
  BY <1>2, <1>6 DEF Client, Answers
<1>11. ls2 \in [Users -> Seq(Texts)]
  <2>1. Message(m) \in Texts
    BY <1>10 DEF Texts
  <2> QED BY <1>2, <1>10, <2>1
<1>12. /\ ls2[c] = Append(ls[c], Message(m)) /\ \A x \in Users : x # c => ls2[x] = ls[x]
       /\ r[1].m_argument = m
  BY <1>2, <1>10
<1> HIDE DEF q, r, r2, m, c, ls, ls2, lt
<1>13. Box(chats, unrecorded, u, ls) /\ Marks(chats, received, u, q)
  BY <1>6 DEF Client
<1>14. Displayed(chats, unrecorded, r, ls, ls2) /\ Box(chats, unrecorded, u, ls2)
  BY <1>2, <1>3, <1>10, <1>11, <1>12, <1>13, SentShows, Zenon
<1>15. Marking(chats, r, q, q)
  BY <1>2 DEF Marking, Lists
<1>16. /\ Rows(chats, sent) /\ DOMAIN chats \subseteq Nat
       /\ \A i \in DOMAIN chats : ~ Before(chats, i, i)
  BY <1>3, TableFacts
<1>17. Client(chats, unrecorded, sent, received, u, "ready", q, r2, ls2, lt)
  BY <1>2, <1>6, <1>11, <1>13, <1>14, <1>15, <1>16, ResponseShown
<1>18. Client(chats, unrecorded, sent, received', u, "ready", q, r2, ls2, late[u])
  BY <1>8, <1>17 DEF lt
<1>19. Sends(q) \subseteq Sends(m_jobQ[u]) /\ "ready" \in {"off", "loading", "ready"}
  BY DEF q
<1> QED BY <1>1, <1>2, <1>7, <1>8, <1>9, <1>11, <1>18, <1>19, InterfaceDone, Zenon

-----------------------------------------------------------------------------
(* The user and the timer: steps that leave the server as it is.           *)

\* A step of the client of u that the server takes no part in.
LEMMA UserDone ==
  ASSUME IInv, NEW u \in Users, TypeOK', UNCHANGED <<server, received, unrecorded>>, sent <= sent',
         \A w \in Users \ {u} :
           /\ phase'[w] = phase[w] /\ m_jobQ'[w] = m_jobQ[w] /\ m_resQ'[w] = m_resQ[w]
           /\ m_contact_chat'[w] = m_contact_chat[w] /\ late'[w] = late[w],
         ClientOf(u)', \A w \in Users \ {u} : Apart(m_jobQ'[u], m_jobQ[w])
  PROVE  IInv'
<1>1. /\ chats' = chats /\ contacts' = contacts /\ received' = received /\ unrecorded' = unrecorded
  BY DEF server
<1>2. Table(chats, unrecorded, sent, received)
  BY DEF IInv
<1>3. sent \in Nat /\ sent' \in 0..MaxSent /\ MaxSent \in Nat
  BY <1>2, TableFacts, ChatBoundsAssumption DEF TypeOK
<1>4. Later(chats, unrecorded, sent, received, chats', unrecorded', sent', received')
  <2>1. 1..sent \subseteq 1..sent' /\ sent' \in Nat
    BY <1>3
  <2> QED BY <1>1, <1>3, <2>1 DEF Later
<1>5. Table(chats', unrecorded', sent', received')
  <2>1. /\ chats' \in Seq(Chat) /\ unrecorded' \subseteq 1..MaxSent
        /\ received' \subseteq Users \X (1..MaxSent) /\ MarkedByParty(chats', received')
    BY <1>1, <1>2 DEF Table
  <2> QED BY <1>2, <1>3, <1>4, <2>1, LaterTable
<1>6. /\ \A w \in Users : ClientOf(w)'
      /\ \A v, w \in Users : v # w => Apart(m_jobQ'[v], m_jobQ'[w])
  BY <1>4, OthersKept
<1>7. \A w \in Users : w \notin contacts'[w]
  BY <1>1 DEF IInv
<1> QED BY <1>5, <1>6, <1>7 DEF IInv

\* send_msg.
LEMMA WriteDone ==
  ASSUME IInv, NEW u \in Users, send_msg(u)
  PROVE  IInv'
<1>1. PICK c \in contacts[u] :
        m_jobQ' = [m_jobQ EXCEPT ![u] = create(@, <<NewJob("SEND", c, sent')>>)]
  BY DEF send_msg
<1> DEFINE q == m_jobQ[u]
           x == NewJob("SEND", c, sent + 1)
           q2 == create(q, <<x>>)
           r == m_resQ[u]
           ph == phase[u]
           ls == m_contact_chat[u]
           lt == late[u]
<1>2. /\ sent < MaxSent /\ sent' = sent + 1 /\ phase[u] # "off"
      /\ chats' = chats /\ contacts' = contacts /\ phase' = phase /\ m_resQ' = m_resQ
      /\ m_contact_list' = m_contact_list /\ m_contact_chat' = m_contact_chat
      /\ logins' = logins /\ faults' = faults /\ received' = received /\ late' = late
      /\ unrecorded' = unrecorded
  BY DEF send_msg, server, gui, history
<1>3. /\ Table(chats, unrecorded, sent, received) /\ Client(chats, unrecorded, sent, received, u, ph, q, r, ls, lt)
  BY DEF IInv, ClientOf
<1>4. sent \in Nat /\ MaxSent \in Nat /\ sent + 1 \in 0..MaxSent /\ Rows(chats, sent)
  BY <1>2, <1>3, TableFacts, ChatBoundsAssumption
<1>5. /\ m_jobQ \in [Users -> Seq(Job)] /\ q \in Seq(Job) /\ contacts \in [Users -> SUBSET Users]
  BY DEF IInv, TypeOK
<1>6. c \in Users \ {u}
  BY <1>5 DEF IInv
<1>7. x \in Job /\ x.m_command = "SEND" /\ x.m_argument = sent + 1 /\ x.m_intValue = c
  <2>1. <<>> \in Seq(Chat)
    OBVIOUS
  <2> QED BY <1>4, <1>6, <2>1 DEF NewJob, Job
<1>8. Put(q, x, q2) /\ q2 \in Seq(Job)
  BY <1>5, <1>7, CreatePuts
<1>9. m_jobQ' = [m_jobQ EXCEPT ![u] = q2]
  BY <1>1, <1>2
<1> HIDE DEF q, x, q2, r, ph, ls, lt
<1>10. /\ m_jobQ' \in [Users -> Seq(Job)] /\ m_jobQ'[u] = q2
       /\ \A w \in Users \ {u} : m_jobQ'[w] = m_jobQ[w]
  BY <1>5, <1>8, <1>9, ExceptIs
<1>11. TypeOK'
  BY <1>2, <1>4, <1>10 DEF IInv, TypeOK
<1>12. Client(chats, unrecorded, sent + 1, received, u, ph, q2, r, ls, lt)
  <2>1. ph # "off"
    BY <1>2 DEF ph
  <2> QED BY <1>3, <1>4, <1>6, <1>7, <1>8, <2>1, Writes
<1>13. ClientOf(u)'
  BY <1>2, <1>10, <1>12 DEF ClientOf, ph, r, ls, lt
<1>14. ASSUME NEW w \in Users \ {u} PROVE Apart(m_jobQ'[u], m_jobQ[w])
  <2>1. Waiting(chats, sent, w, m_jobQ[w])
    BY DEF IInv, ClientOf, Client
  <2>2. sent + 1 \notin Sends(m_jobQ[w])
    <3>1. sent + 1 \notin 1..sent
      BY <1>4
    <3> QED BY <2>1, <3>1 DEF Waiting, Sends
  <2>3. Sends(q2) \subseteq Sends(q) \cup {sent + 1}
    BY <1>7, <1>8, PutSends
  <2>4. Apart(q, m_jobQ[w])
    BY DEF IInv, q
  <2> QED BY <1>10, <2>2, <2>3, <2>4 DEF Apart
<1>15. sent <= sent'
  BY <1>2, <1>4
<1>16. UNCHANGED <<server, received, unrecorded>>
  BY <1>2 DEF server
<1>17. \A w \in Users \ {u} :
           /\ phase'[w] = phase[w] /\ m_jobQ'[w] = m_jobQ[w] /\ m_resQ'[w] = m_resQ[w]
           /\ m_contact_chat'[w] = m_contact_chat[w] /\ late'[w] = late[w]
  BY <1>2, <1>10
<1> QED BY <1>11, <1>13, <1>14, <1>15, <1>16, <1>17, UserDone, Zenon

\* repeated_tasks.
LEMMA TimerDone ==
  ASSUME IInv, NEW u \in Users, repeated_tasks(u)
  PROVE  IInv'
<1> DEFINE q == m_jobQ[u]
           x == NewJob("PENDING", NoOne, 0)
           q2 == create(q, <<x>>)
           r == m_resQ[u]
           ph == phase[u]
           ls == m_contact_chat[u]
           lt == late[u]
           lt2 == lt \/ Pending(q, "PENDING") \/ Pending(r, "PENDING")
<1>1. /\ m_jobQ' = [m_jobQ EXCEPT ![u] = q2] /\ late' = [late EXCEPT ![u] = lt2]
      /\ phase[u] = "ready"
      /\ chats' = chats /\ contacts' = contacts /\ phase' = phase /\ m_resQ' = m_resQ
      /\ m_contact_list' = m_contact_list /\ m_contact_chat' = m_contact_chat
      /\ sent' = sent /\ logins' = logins /\ faults' = faults
      /\ received' = received /\ unrecorded' = unrecorded
  BY DEF repeated_tasks, server, gui, bounds
<1>2. /\ Client(chats, unrecorded, sent, received, u, ph, q, r, ls, lt)
  BY DEF IInv, ClientOf
<1>3. /\ m_jobQ \in [Users -> Seq(Job)] /\ q \in Seq(Job) /\ late \in [Users -> BOOLEAN]
      /\ sent \in 0..MaxSent
  BY DEF IInv, TypeOK
<1>4. x \in Job /\ x.m_command = "PENDING"
  <2>1. <<>> \in Seq(Chat) /\ 0 \in 0..MaxSent
    BY ChatBoundsAssumption
  <2> QED BY <2>1 DEF NewJob, Job
<1>5. Put(q, x, q2) /\ q2 \in Seq(Job)
  BY <1>3, <1>4, CreatePuts
<1>6. lt2 \in BOOLEAN /\ (lt2 <=> lt \/ Pending(q, "PENDING") \/ Pending(r, "PENDING"))
  BY Zenon DEF Pending
<1> HIDE DEF q, x, q2, r, ph, ls, lt, lt2
<1>7. /\ m_jobQ' \in [Users -> Seq(Job)] /\ m_jobQ'[u] = q2
      /\ \A w \in Users \ {u} : m_jobQ'[w] = m_jobQ[w]
  BY <1>1, <1>3, <1>5, ExceptIs
<1>8. /\ late' \in [Users -> BOOLEAN] /\ late'[u] = lt2
      /\ \A w \in Users \ {u} : late'[w] = late[w]
  BY <1>1, <1>3, <1>6, ExceptIs, Zenon
<1>9. TypeOK'
  BY <1>1, <1>7, <1>8 DEF IInv, TypeOK
<1>10. Client(chats, unrecorded, sent, received, u, ph, q2, r, ls, lt2)
  <2>1. ph = "ready"
    BY <1>1 DEF ph
  <2>2. x.m_command = "PENDING" /\ Put(q, x, q2) /\ q2 \in Seq(Job)
    BY <1>4, <1>5
  <2>3. \A e \in BOOLEAN : (e <=> lt \/ Pending(q, "PENDING") \/ Pending(r, "PENDING")) =>
          Client(chats, unrecorded, sent, received, u, ph, q2, r, ls, e)
    BY <1>2, <2>1, <2>2, Asks, SMT
  <2> QED BY <1>6, <2>3, Zenon
<1>11. ClientOf(u)'
  BY <1>1, <1>7, <1>8, <1>10 DEF ClientOf, ph, r, ls
<1>12. \A w \in Users \ {u} : Apart(m_jobQ'[u], m_jobQ[w])
  <2>1. Sends(q2) \subseteq Sends(q)
    BY <1>4, <1>5, PutSends
  <2> QED BY <1>7, <2>1, FewerSends DEF q
<1>13. sent <= sent' /\ UNCHANGED <<server, received, unrecorded>>
  BY <1>1, <1>3 DEF server
<1>14. \A w \in Users \ {u} :
           /\ phase'[w] = phase[w] /\ m_jobQ'[w] = m_jobQ[w] /\ m_resQ'[w] = m_resQ[w]
           /\ m_contact_chat'[w] = m_contact_chat[w] /\ late'[w] = late[w]
  BY <1>1, <1>7, <1>8
<1> QED BY <1>9, <1>11, <1>12, <1>13, <1>14, UserDone, Zenon

\* log_in: a client starts with nothing but CHAT.
LEMMA LoginDone ==
  ASSUME IInv, NEW u \in Users, log_in(u)
  PROVE  IInv'
<1> DEFINE x == NewJob("CHAT", NoOne, 0)
           q2 == <<x>>
           ls == m_contact_chat[u]
<1>1. /\ phase[u] = "off" /\ logins < MaxLogins /\ logins' = logins + 1
      /\ phase' = [phase EXCEPT ![u] = "loading"] /\ m_jobQ' = [m_jobQ EXCEPT ![u] = q2]
      /\ m_contact_list' = [m_contact_list EXCEPT ![u] = contacts[u]]
      /\ chats' = chats /\ contacts' = contacts /\ m_resQ' = m_resQ
      /\ m_contact_chat' = m_contact_chat /\ sent' = sent /\ faults' = faults
      /\ received' = received /\ unrecorded' = unrecorded /\ late' = late
  BY DEF log_in, server, history
<1>2. ClientOf(u)
  BY DEF IInv
<1>3. m_resQ[u] = <<>> /\ Empty(ls) /\ late[u] = FALSE
  <2>1. m_resQ[u] = <<>> /\ Empty(ls) /\ ~ late[u]
    BY <1>1, <1>2 DEF ClientOf, Client, Phased
  <2>2. late[u] \in BOOLEAN
    BY DEF IInv, TypeOK
  <2> QED BY <2>1, <2>2
<1>4. /\ m_jobQ \in [Users -> Seq(Job)] /\ ls \in [Users -> Seq(Texts)]
      /\ contacts \in [Users -> SUBSET Users] /\ m_contact_list \in [Users -> SUBSET Users]
      /\ phase \in [Users -> {"off", "loading", "ready"}] /\ logins \in 0..MaxLogins
      /\ sent \in 0..MaxSent
  BY DEF IInv, TypeOK
<1>5. x \in Job /\ x.m_command = "CHAT"
  <2>1. <<>> \in Seq(Chat) /\ 0 \in 0..MaxSent
    BY ChatBoundsAssumption
  <2> QED BY <2>1 DEF NewJob, Job
<1>6. q2 \in Seq(Job) /\ q2 # <<>> /\ \A k \in DOMAIN q2 : k = 1 /\ q2[k].m_command = "CHAT"
  BY <1>5
<1> HIDE DEF x, q2, ls
<1>7. /\ m_jobQ' \in [Users -> Seq(Job)] /\ m_jobQ'[u] = q2
      /\ \A w \in Users \ {u} : m_jobQ'[w] = m_jobQ[w]
  BY <1>1, <1>4, <1>6, ExceptIs
<1>8. /\ phase' \in [Users -> {"off", "loading", "ready"}] /\ phase'[u] = "loading"
      /\ \A w \in Users \ {u} : phase'[w] = phase[w]
  BY <1>1, <1>4
<1>9. m_contact_list' \in [Users -> SUBSET Users] /\ logins' \in 0..MaxLogins
  <2>1. logins + 1 \in 0..MaxLogins
    BY <1>1, <1>4, ChatBoundsAssumption
  <2> QED BY <1>1, <1>4, <2>1
<1>10. TypeOK'
  BY <1>1, <1>7, <1>8, <1>9 DEF IInv, TypeOK
<1>11. Client(chats, unrecorded, sent, received, u, "loading", q2, <<>>, ls, FALSE)
  BY <1>3, <1>4, <1>6, NothingYet
<1>12. ClientOf(u)'
  BY <1>1, <1>3, <1>7, <1>8, <1>11 DEF ClientOf, ls
<1>13. \A w \in Users \ {u} : Apart(m_jobQ'[u], m_jobQ[w])
  <2>1. Sends(q2) = {}
    BY <1>6 DEF Sends
  <2> QED BY <1>7, <2>1 DEF Apart
<1>14. sent <= sent' /\ UNCHANGED <<server, received, unrecorded>>
  BY <1>1, <1>4 DEF server
<1>15. \A w \in Users \ {u} :
           /\ phase'[w] = phase[w] /\ m_jobQ'[w] = m_jobQ[w] /\ m_resQ'[w] = m_resQ[w]
           /\ m_contact_chat'[w] = m_contact_chat[w] /\ late'[w] = late[w]
  BY <1>1, <1>7, <1>8
<1> QED BY <1>10, <1>12, <1>13, <1>14, <1>15, UserDone, Zenon

\* The boxes of a client that starts.
LEMMA NoLinesEmpty ==
  NoLines \in [Users -> Seq(Texts)] /\ Empty(NoLines)
BY DEF NoLines, Empty

\* exit: a client ends with nothing.
LEMMA ExitDone ==
  ASSUME IInv, NEW u \in Users, exit(u)
  PROVE  IInv'
<1> DEFINE none == <<>>
<1>1. /\ phase' = [phase EXCEPT ![u] = "off"] /\ m_jobQ' = [m_jobQ EXCEPT ![u] = none]
      /\ m_resQ' = [m_resQ EXCEPT ![u] = none]
      /\ m_contact_list' = [m_contact_list EXCEPT ![u] = {}]
      /\ m_contact_chat' = [m_contact_chat EXCEPT ![u] = NoLines]
      /\ late' = [late EXCEPT ![u] = FALSE]
      /\ chats' = chats /\ contacts' = contacts /\ sent' = sent /\ logins' = logins
      /\ faults' = faults /\ received' = received /\ unrecorded' = unrecorded
  BY DEF exit, server, bounds
<1>2. /\ m_jobQ \in [Users -> Seq(Job)] /\ m_resQ \in [Users -> Seq(Job)]
      /\ m_contact_chat \in [Users -> [Users -> Seq(Texts)]]
      /\ m_contact_list \in [Users -> SUBSET Users] /\ late \in [Users -> BOOLEAN]
      /\ phase \in [Users -> {"off", "loading", "ready"}] /\ sent \in 0..MaxSent
  BY DEF IInv, TypeOK
<1>3. none \in Seq(Job) /\ DOMAIN none = {} /\ none = <<>>
  OBVIOUS
<1> HIDE DEF none
<1>4. /\ m_jobQ' \in [Users -> Seq(Job)] /\ m_jobQ'[u] = none
      /\ \A w \in Users \ {u} : m_jobQ'[w] = m_jobQ[w]
  BY <1>1, <1>2, <1>3, ExceptIs
<1>5. /\ m_resQ' \in [Users -> Seq(Job)] /\ m_resQ'[u] = none
      /\ \A w \in Users \ {u} : m_resQ'[w] = m_resQ[w]
  BY <1>1, <1>2, <1>3, ExceptIs
<1>6. /\ m_contact_chat' \in [Users -> [Users -> Seq(Texts)]] /\ m_contact_chat'[u] = NoLines
      /\ \A w \in Users \ {u} : m_contact_chat'[w] = m_contact_chat[w]
  BY <1>1, <1>2, NoLinesEmpty, ExceptIs
<1>7. /\ phase' \in [Users -> {"off", "loading", "ready"}] /\ phase'[u] = "off"
      /\ \A w \in Users \ {u} : phase'[w] = phase[w]
  BY <1>1, <1>2
<1>8. /\ late' \in [Users -> BOOLEAN] /\ late'[u] = FALSE
      /\ \A w \in Users \ {u} : late'[w] = late[w]
  BY <1>1, <1>2
<1>9. m_contact_list' \in [Users -> SUBSET Users]
  BY <1>1, <1>2
<1>10. TypeOK'
  BY <1>1, <1>4, <1>5, <1>6, <1>7, <1>8, <1>9 DEF IInv, TypeOK
<1>11. Client(chats, unrecorded, sent, received, u, "off", none, <<>>, NoLines, FALSE)
  BY <1>3, NoLinesEmpty, NothingYet
<1>12. ClientOf(u)'
  BY <1>1, <1>3, <1>4, <1>5, <1>6, <1>7, <1>8, <1>11 DEF ClientOf
<1>13. \A w \in Users \ {u} : Apart(m_jobQ'[u], m_jobQ[w])
  BY <1>3, <1>4 DEF Apart, Sends
<1>14. sent <= sent' /\ UNCHANGED <<server, received, unrecorded>>
  BY <1>1, <1>2 DEF server
<1>15. \A w \in Users \ {u} :
           /\ phase'[w] = phase[w] /\ m_jobQ'[w] = m_jobQ[w] /\ m_resQ'[w] = m_resQ[w]
           /\ m_contact_chat'[w] = m_contact_chat[w] /\ late'[w] = late[w]
  BY <1>4, <1>5, <1>6, <1>7, <1>8
<1> QED BY <1>10, <1>12, <1>13, <1>14, <1>15, UserDone, Zenon

-----------------------------------------------------------------------------
(* The invariant.                                                          *)

\* No client has been started and the table is empty.
LEMMA InvStarts ==
  ASSUME Init
  PROVE  IInv
<1> DEFINE none == <<>>
<1>1. none \in Seq(Job) /\ DOMAIN none = {} /\ none = <<>> /\ none \in Seq(Chat)
  OBVIOUS
<1> HIDE DEF none
<1>2. /\ chats = none /\ contacts \in [Users -> SUBSET Users] /\ \A u \in Users : u \notin contacts[u]
      /\ phase = [u \in Users |-> "off"]
      /\ m_jobQ = [u \in Users |-> none] /\ m_resQ = [u \in Users |-> none]
      /\ m_contact_list = [u \in Users |-> {}]
      /\ m_contact_chat = [u \in Users |-> NoLines]
      /\ sent = 0 /\ logins = 0 /\ faults = 0 /\ received = {}
      /\ late = [u \in Users |-> FALSE] /\ unrecorded = {}
  BY <1>1 DEF Init
<1>3. 0 \in 0..MaxSent /\ 0 \in 0..MaxLogins /\ 0 \in 0..MaxFaults
  BY ChatBoundsAssumption
<1>4. NoLines \in [Users -> Seq(Texts)] /\ Empty(NoLines)
  BY NoLinesEmpty
<1>5. TypeOK
  <2>1. /\ m_jobQ \in [Users -> Seq(Job)] /\ m_resQ \in [Users -> Seq(Job)]
        /\ m_contact_chat \in [Users -> [Users -> Seq(Texts)]]
    BY <1>1, <1>2, <1>4
  <2>2. /\ phase \in [Users -> {"off", "loading", "ready"}]
        /\ m_contact_list \in [Users -> SUBSET Users] /\ late \in [Users -> BOOLEAN]
    BY <1>2
  <2> QED BY <1>1, <1>2, <1>3, <2>1, <2>2 DEF TypeOK
<1>6. Table(chats, unrecorded, sent, received)
  <2>1. Rows(none, 0) /\ MarkedByParty(none, {})
    BY <1>1 DEF Rows, MarkedByParty
  <2> QED BY <1>1, <1>2, <1>3, <2>1 DEF Table
<1>7. \A u \in Users : ClientOf(u)
  <2> TAKE u \in Users
  <2>1. Client(chats, unrecorded, sent, received, u, "off", none, <<>>, NoLines, FALSE)
    BY <1>1, <1>4, NothingYet
  <2> QED BY <1>1, <1>2, <2>1 DEF ClientOf
<1>8. \A u, w \in Users : u # w => Apart(m_jobQ[u], m_jobQ[w])
  BY <1>1, <1>2 DEF Apart, Sends
<1> QED BY <1>2, <1>5, <1>6, <1>7, <1>8 DEF IInv

\* The job thread.
LEMMA JobThreadKeeps ==
  ASSUME IInv, NEW u \in Users, JobThread(u)
  PROVE  IInv'
<1>1. UNCHANGED <<contacts, phase, gui, sent, logins, received, late>>
  BY DEF JobThread
<1>2. CASE chat_send(u)
  <2>1. Next_is(m_jobQ[u], "SEND") /\ Taken(u, [Head(m_jobQ[u]) EXCEPT !.m_valid = TRUE])
    BY <1>2 DEF chat_send
  <2>2. CASE /\ add_user_chat(u, Head(m_jobQ[u]).m_intValue, Message(Head(m_jobQ[u]).m_argument))
             /\ Executes(TRUE) /\ UNCHANGED unrecorded
    BY <1>1, <2>1, <2>2, SendRecorded, Zenon
  <2>3. CASE /\ Executes(FALSE) /\ UNCHANGED chats
             /\ unrecorded' = unrecorded \cup {Head(m_jobQ[u]).m_argument}
    BY <1>1, <2>1, <2>3, SendFailed, Zenon
  <2> QED BY <1>2, <2>2, <2>3, Zenon DEF chat_send, send
<1>3. CASE chat_get_pending(u)
  BY <1>1, <1>3, PendingAsked, Zenon
<1>4. CASE chat_get_all(u)
  BY <1>1, <1>4, AllAsked, Zenon
<1>5. CASE chat_deliver(u)
  BY <1>1, <1>5, MarkDone, Zenon
<1> QED BY <1>2, <1>3, <1>4, <1>5 DEF JobThread

\* The interface.
LEMMA InterfaceKeeps ==
  ASSUME IInv, NEW u \in Users, Interface(u)
  PROVE  IInv'
<1>1. UNCHANGED <<server, bounds, late, unrecorded>>
  BY DEF Interface
<1>2. CASE job_load_chat(u)
  <2>1. /\ Response(u, "CHAT") /\ load_chat(u, Head(m_resQ[u]).m_chats)
        /\ phase' = [phase EXCEPT ![u] = "ready"] /\ "CHAT" \in {"CHAT", "PENDING"}
    BY <1>2 DEF job_load_chat
  <2> QED BY <1>1, <2>1, LoadDone, Zenon
<1>3. CASE job_load_pending(u)
  <2>1. Response(u, "PENDING") /\ UNCHANGED phase /\ "PENDING" \in {"CHAT", "PENDING"}
    BY <1>3 DEF job_load_pending
  <2>2. CASE m_contact_list[u] = {}
    <3>1. UNCHANGED <<m_jobQ, gui, received, phase>>
      BY <1>3, <2>2 DEF job_load_pending
    <3> QED BY <1>1, <2>1, <3>1, DropDone, Zenon
  <2>3. CASE m_contact_list[u] # {}
    <3>1. load_chat(u, Head(m_resQ[u]).m_chats)
      BY <1>3, <2>3 DEF job_load_pending
    <3>2. Next_is(m_resQ[u], "PENDING") /\ "PENDING" # "CHAT"
      BY <2>1 DEF Response
    <3>3. phase[u] = "ready" /\ \A e : e = phase[u] => phase = [phase EXCEPT ![u] = e]
      BY <3>2, ReadyIs
    <3>4. phase' = [phase EXCEPT ![u] = "ready"]
      BY <2>1, <3>3
    <3> QED BY <1>1, <2>1, <3>1, <3>4, LoadDone, Zenon
  <2> QED BY <2>2, <2>3
<1>4. CASE job_send_msg(u)
  BY <1>1, <1>4, SentDone, Zenon
<1> QED BY <1>2, <1>3, <1>4 DEF Interface

\* Every step keeps the invariant.
LEMMA InvKept ==
  ASSUME IInv, [Next]_vars
  PROVE  IInv'
<1>1. ASSUME NEW u \in Users, JobThread(u) PROVE IInv'
  BY <1>1, JobThreadKeeps
<1>2. ASSUME NEW u \in Users, Interface(u) PROVE IInv'
  BY <1>2, InterfaceKeeps
<1>3. ASSUME NEW u \in Users, send_msg(u) PROVE IInv'
  BY <1>3, WriteDone
<1>4. ASSUME NEW u \in Users, repeated_tasks(u) PROVE IInv'
  BY <1>4, TimerDone
<1>5. ASSUME NEW u \in Users, log_in(u) PROVE IInv'
  BY <1>5, LoginDone
<1>6. ASSUME NEW u \in Users, exit(u) PROVE IInv'
  BY <1>6, ExitDone
<1>7. CASE UNCHANGED vars
  <2>1. /\ chats' = chats /\ contacts' = contacts /\ phase' = phase /\ m_jobQ' = m_jobQ
        /\ m_resQ' = m_resQ /\ m_contact_list' = m_contact_list /\ m_contact_chat' = m_contact_chat
        /\ sent' = sent /\ logins' = logins /\ faults' = faults /\ received' = received
        /\ late' = late /\ unrecorded' = unrecorded
    BY <1>7 DEF vars, server, bus, gui, bounds, history
  <2>2. TypeOK'
    BY <2>1 DEF IInv, TypeOK
  <2>3. /\ Table(chats, unrecorded, sent, received)' /\ \A w \in Users : w \notin contacts'[w]
        /\ \A v, w \in Users : v # w => Apart(m_jobQ'[v], m_jobQ'[w])
    BY <2>1 DEF IInv
  <2>4. \A w \in Users : ClientOf(w)'
    BY <2>1 DEF IInv, ClientOf
  <2> QED BY <2>2, <2>3, <2>4 DEF IInv
<1> QED BY <1>1, <1>2, <1>3, <1>4, <1>5, <1>6, <1>7 DEF Next

(* Whatever the users, threads and timers do, what a client holds agrees    *)
(* with the table, with the jobs and answers under way and with what it has *)
(* asked for.                                                              *)
THEOREM ChatsInvariant == Spec => []IInv
<1>1. Init => IInv
  BY InvStarts
<1>2. IInv /\ [Next]_vars => IInv'
  BY InvKept
<1> QED BY <1>1, <1>2, PTL DEF Spec

(* TypeOK: every job, response, line and row has its type, and no more is  *)
(* sent, started or failed than the bounds.                                *)
THEOREM ChatsTyped == Spec => []TypeOK
<1>1. IInv => TypeOK
  BY DEF IInv
<1> QED BY <1>1, ChatsInvariant, PTL

(* DeliveredWasLoaded, for any number of users and messages: a row is      *)
(* marked as delivered only when a client of one of its two parties has    *)
(* loaded it.                                                              *)
THEOREM LoadedBeforeMarked == Spec => []DeliveredWasLoaded
<1>1. IInv => DeliveredWasLoaded
  BY DEF IInv, Table, MarkedByParty, Party, DeliveredWasLoaded
<1> QED BY <1>1, ChatsInvariant, PTL

\* A message that is shown, and of which nothing failed to be written, has a row.
LEMMA ShownRow ==
  ASSUME IInv, NEW u \in Users, NEW c \in Users, NEW n \in 1..MaxSent, n \notin unrecorded,
         NEW p \in At(u, c, n)
  PROVE  \E i \in Recorded(chats, unrecorded) :
           /\ chats[i].text = Message(n)
           /\ At(u, c, n) = ShownAt(chats, m_contact_chat[u], c, i)
<1>1. p \in DOMAIN m_contact_chat[u][c] /\ m_contact_chat[u][c][p] = Message(n)
  BY DEF At
<1>2. Box(chats, unrecorded, u, m_contact_chat[u])
  BY DEF IInv, ClientOf, Client
<1>3. Stands(chats, unrecorded, u, n)
  BY <1>1, <1>2, MessageIs DEF Box
<1>4. PICK i \in DOMAIN chats : chats[i].text = Message(n)
  BY <1>3 DEF Stands
<1>5. i \in Recorded(chats, unrecorded)
  BY <1>4, MessageIs DEF Recorded
<1>6. At(u, c, n) = ShownAt(chats, m_contact_chat[u], c, i)
  BY <1>4 DEF At, ShownAt
<1> QED BY <1>4, <1>5, <1>6

(* ShownOnce, for any number of users, messages and faults: a client that  *)
(* asks for the pending chats only when it has handled the last answer     *)
(* shows no message twice.                                                 *)
THEOREM NothingShownTwice == Spec => []ShownOnce
<1>1. IInv => ShownOnce
  <2> SUFFICES ASSUME IInv, NEW u \in Users, NEW c \in Users, NEW n \in 1..MaxSent,
                      ~ late[u], n \notin unrecorded
               PROVE  Cardinality(At(u, c, n)) <= 1
    BY DEF ShownOnce
  <2>1. CASE At(u, c, n) = {}
    BY <2>1, FS_EmptySet
  <2>2. ASSUME NEW p \in At(u, c, n) PROVE At(u, c, n) = {p}
    <3>1. PICK i \in Recorded(chats, unrecorded) :
            At(u, c, n) = ShownAt(chats, m_contact_chat[u], c, i)
      BY <2>2, ShownRow
    <3>2. Once(chats, unrecorded, m_resQ[u], m_contact_chat[u])
      BY DEF IInv, ClientOf, Client, Steady
    <3> QED BY <2>2, <3>1, <3>2 DEF Once
  <2>3. CASE At(u, c, n) # {}
    <3>1. PICK p : p \in At(u, c, n)
      BY <2>3
    <3>2. At(u, c, n) = {p}
      BY <2>2, <3>1
    <3>3. Cardinality({p}) = 1
      BY FS_Singleton
    <3> QED BY <3>2, <3>3
  <2> QED BY <2>1, <2>3
<1> QED BY <1>1, ChatsInvariant, PTL

(* ShownInOrder, for any number of users, messages and faults: such a      *)
(* client shows the messages of one sender in the order of sending.        *)
THEOREM ShownAsSent == Spec => []ShownInOrder
<1>1. IInv => ShownInOrder
  <2> SUFFICES ASSUME IInv, NEW u \in Users, NEW c \in Users,
                      NEW m \in 1..MaxSent, NEW n \in 1..MaxSent,
                      ~ late[u], m < n, {m, n} \cap unrecorded = {}, Stored(m), Stored(n),
                      chats[RowOf(m)].sender = chats[RowOf(n)].sender,
                      chats[RowOf(m)].created_at # chats[RowOf(n)].created_at,
                      NEW p \in At(u, c, m), NEW s \in At(u, c, n)
               PROVE  p < s
    BY DEF ShownInOrder
  <2>1. m \notin unrecorded /\ n \notin unrecorded
    OBVIOUS
  <2>2. PICK i \in Recorded(chats, unrecorded) :
          chats[i].text = Message(m) /\ p \in ShownAt(chats, m_contact_chat[u], c, i)
    BY <2>1, ShownRow
  <2>3. PICK j \in Recorded(chats, unrecorded) :
          chats[j].text = Message(n) /\ s \in ShownAt(chats, m_contact_chat[u], c, j)
    BY <2>1, ShownRow
  <2>4. Table(chats, unrecorded, sent, received) /\ i \in DOMAIN chats /\ j \in DOMAIN chats
    BY DEF IInv, Recorded
  <2>5. /\ DOMAIN chats \subseteq Nat /\ Rows(chats, sent)
        /\ \A k \in DOMAIN chats : chats[k].created_at \in Nat
        /\ \A k, l \in DOMAIN chats : chats[k].text = chats[l].text => k = l
    BY <2>4, TableFacts
  <2>6. RowOf(m) = i /\ RowOf(n) = j
    BY <2>2, <2>3, <2>4, <2>5 DEF RowOf
  <2>7. ~ (j < i) /\ i # j
    <3>1. i # j
      BY <2>6
    <3>2. ~ (n < m)
      OBVIOUS
    <3>3. ~ (j < i)
      BY <2>2, <2>3, <2>4, <2>5, <2>6, <3>2 DEF Rows
    <3> QED BY <3>1, <3>3
  <2>8. i < j
    BY <2>4, <2>5, <2>7
  <2>9. Before(chats, i, j)
    BY <2>4, <2>5, <2>6, <2>8 DEF Before, Rows
  <2>10. InOrder(chats, unrecorded, u, m_resQ[u], m_contact_chat[u])
    BY DEF IInv, ClientOf, Client, Steady
  <2> QED BY <2>2, <2>3, <2>9, <2>10 DEF InOrder
<1> QED BY <1>1, ChatsInvariant, PTL
=============================================================================
